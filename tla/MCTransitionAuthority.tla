-------------------------- MODULE MCTransitionAuthority --------------------------
(* Instances of TransitionAuthority small enough for TLC. *)
EXTENDS TransitionAuthority, TLC

\* Invoices are interchangeable, and so are request keys of one kind.
Symmetry == Permutations(Invoices) \cup Permutations(Claims \ Removals)
=============================================================================

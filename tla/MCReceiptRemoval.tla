----------------------------- MODULE MCReceiptRemoval -----------------------------
(* Instances of ReceiptRemoval small enough for TLC. *)
EXTENDS ReceiptRemoval, TLC

\* People at the deletion entry are interchangeable.
Symmetry == Permutations(Calls)
=============================================================================

------------------------- MODULE ExclusiveResponsibility -------------------------
(***************************************************************************)
(* What the transition gates promise, without policies, routes, epochs or  *)
(* evidence: the responsibility for sending an invoice is a lock that one  *)
(* request takes at a time and keeps until its outcome is known.  A closed *)
(* request may come back only by blocking the invoice, and a blocked       *)
(* invoice is released only when nothing is left unresolved.               *)
(* Abstracts SendingClaim.active_invoice_key of                            *)
(*   backend/app/commerce_transition/models.py                             *)
(***************************************************************************)
CONSTANTS Invoices, Claims

VARIABLES holders,  \* the unresolved requests of each invoice
          spent,    \* request keys ever used
          blocked   \* invoices on which nothing may begin

vars == <<holders, spent, blocked>>

Init ==
    /\ holders = [i \in Invoices |-> {}]
    /\ spent = {}
    /\ blocked = {}

Take(i, c) ==
    /\ i \notin blocked /\ holders[i] = {} /\ c \notin spent
    /\ holders' = [holders EXCEPT ![i] = {c}]
    /\ spent' = spent \cup {c}
    /\ UNCHANGED blocked

Release(i, c) ==
    /\ c \in holders[i]
    /\ holders' = [holders EXCEPT ![i] = @ \ {c}]
    /\ UNCHANGED <<spent, blocked>>

Contest(i, c) ==
    /\ c \in spent /\ \A j \in Invoices : c \notin holders[j]
    /\ holders' = [holders EXCEPT ![i] = @ \cup {c}]
    /\ blocked' = blocked \cup {i}
    /\ UNCHANGED spent

Block(S) ==
    /\ blocked' = blocked \cup S
    /\ UNCHANGED <<holders, spent>>

Unblock(S) ==
    /\ \A i \in S : holders[i] = {}
    /\ blocked' = blocked \ S
    /\ UNCHANGED <<holders, spent>>

\* The last unresolved request closes and the invoice opens in one transaction.
ReleaseAndUnblock(i, c) ==
    /\ holders[i] = {c}
    /\ holders' = [holders EXCEPT ![i] = {}]
    /\ blocked' = blocked \ {i}
    /\ UNCHANGED spent

Next ==
    \/ \E i \in Invoices, c \in Claims :
          Take(i, c) \/ Release(i, c) \/ Contest(i, c) \/ ReleaseAndUnblock(i, c)
    \/ \E S \in SUBSET Invoices : Block(S) \/ Unblock(S)

Spec == Init /\ [][Next]_vars
=============================================================================

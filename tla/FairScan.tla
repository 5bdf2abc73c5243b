---------------------------------- MODULE FairScan ----------------------------------
(***************************************************************************)
(* One background queue: the rotating scan that picks a bounded batch and  *)
(* the pass that hands the batch to a handler, row by row.                 *)
(*   backend/app/core/queue_scan.py       take                             *)
(*   backend/app/receipt/scheduler.py     process_receipts                 *)
(*                                                                         *)
(* A row is its primary key.  What makes a row eligible, and what the      *)
(* handler does with it, belongs to the queue's owner: here other          *)
(* transactions change eligibility at any time and a handled row may stay. *)
(***************************************************************************)
EXTENDS Integers, FiniteSets, SequencesExt

CONSTANTS Ids,          \* primary keys in the table
          Limit,        \* rows per pass
          Poison,       \* rows whose handler raises while they are eligible
          Isolated,     \* the pass catches what the handler of one row raises
          MaxRestarts   \* bound on process restarts

ASSUME IdAssumption == Ids \subseteq Nat \ {0} /\ IsFiniteSet(Ids) /\ Poison \subseteq Ids
ASSUME LimitAssumption == Limit \in Nat \ {0} /\ MaxRestarts \in Nat

VARIABLES eligible,  \* rows the queue's query selects
          cursor,    \* _cursors[key], in memory; 0 when absent
          batch,     \* what is left of the ids this pass works on
          missed,    \* batches in a row that left the row out, though eligible
          restarts

scanVars == <<eligible, cursor, batch, missed, restarts>>

ScanInit ==
    /\ eligible \in SUBSET Ids
    /\ cursor = 0 /\ batch = <<>> /\ restarts = 0
    /\ missed = [i \in Ids |-> 0]

\* query.order_by(identity).limit(n): as the k-th row the one with k - 1 before it.
Before(S, i) == {j \in S : j < i}
Lowest(S, n) == [k \in 1 .. Min({n, Cardinality(S)}) |->
    CHOOSE i \in S : Cardinality(Before(S, i)) = k - 1]

\* Faulty variants: the wrapped part starts from all rows; it is as long as a
\* whole batch; or there is none.
PickedTwice ==
    LET ahead == Lowest({i \in eligible : i > cursor}, Limit)
    IN IF cursor # 0 THEN ahead \o Lowest(eligible, Limit - Len(ahead)) ELSE ahead

PickedTooMany ==
    LET ahead == Lowest({i \in eligible : i > cursor}, Limit)
    IN IF Len(ahead) < Limit /\ cursor # 0
       THEN ahead \o Lowest({i \in eligible : i <= cursor}, Limit) ELSE ahead

PickedHead == Lowest(eligible, Limit)

Picked ==
    LET ahead == Lowest({i \in eligible : i > cursor}, Limit)
        behind == Lowest({i \in eligible : i <= cursor}, Limit - Len(ahead))
    IN IF Len(ahead) < Limit /\ cursor # 0 THEN ahead \o behind ELSE ahead

\* Who this batch leaves out; a count beyond the table's size tells no more.
Count == missed' = [i \in Ids |->
    IF i \notin eligible \ ToSet(Picked) THEN 0
    ELSE IF missed[i] < Cardinality(Ids) THEN missed[i] + 1 ELSE missed[i]]

\* Faulty variant: the cursor stays where it was.
TakeInPlace ==
    /\ batch = <<>> /\ Picked # <<>>
    /\ batch' = Picked
    /\ Count
    /\ UNCHANGED <<eligible, cursor, restarts>>

\* The cursor moves before any row of the batch is handled.
Take ==
    /\ batch = <<>> /\ Picked # <<>>
    /\ batch' = Picked
    /\ cursor' = Last(Picked)
    /\ Count
    /\ UNCHANGED <<eligible, restarts>>

\* The handler settles the row, or leaves it as it was.
Handle ==
    /\ batch # <<>> /\ ~(Head(batch) \in Poison \cap eligible)
    /\ batch' = Tail(batch)
    /\ eligible' \in {eligible, eligible \ {Head(batch)}}
    /\ missed' = [missed EXCEPT ![Head(batch)] = 0]
    /\ UNCHANGED <<cursor, restarts>>

\* An exception skips the row, or with process_receipts the rest of the pass.
HandleRaises ==
    /\ batch # <<>> /\ Head(batch) \in Poison \cap eligible
    /\ batch' = IF Isolated THEN Tail(batch) ELSE <<>>
    /\ UNCHANGED <<eligible, cursor, missed, restarts>>

\* Another transaction creates, settles or reopens a row.
Change(i) ==
    /\ eligible' = IF i \in eligible THEN eligible \ {i} ELSE eligible \cup {i}
    /\ missed' = [missed EXCEPT ![i] = 0]
    /\ UNCHANGED <<cursor, batch, restarts>>

Restart ==
    /\ restarts < MaxRestarts
    /\ cursor' = 0 /\ batch' = <<>>
    /\ missed' = [i \in Ids |-> 0]
    /\ restarts' = restarts + 1
    /\ UNCHANGED eligible

Pass == Take \/ Handle \/ HandleRaises
ScanNext == Pass \/ Restart \/ \E i \in Ids : Change(i)

\* The job runs every 30 seconds, one instance at a time.
ScanSpec == ScanInit /\ [][ScanNext]_scanVars /\ WF_scanVars(Pass)
-----------------------------------------------------------------------------
(* Properties *)

Handling(i) == batch # <<>> /\ Head(batch) = i

\* "Blocked head rows must not indefinitely hide later ready work": a row that
\* stays eligible is handled again and again, whatever other rows do.
NoStarvation == \A i \in Ids : <>[](i \in eligible) => []<>Handling(i)

\* A pass handles no row twice and no more than Limit, though its batch wraps;
\* and since the last restart a row that stays eligible is left out of fewer
\* batches than the table has of them, however rows come and go meanwhile.
WaitIsBounded ==
    /\ IsInjective(batch) /\ Len(batch) <= Limit
    /\ \A i \in Ids : missed[i] * Limit < Cardinality(Ids)
=============================================================================

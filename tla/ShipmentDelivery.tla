---------------------------- MODULE ShipmentDelivery ----------------------------
(***************************************************************************)
(* The outbound of one presale batch: created in OKKI as a draft, verified,*)
(* completed by the inspection of the goods, repaired or retired by people.*)
(*   backend/app/invoice/shipment_delivery.py    queue, deliver, refresh,  *)
(*                                               recover_expired           *)
(*   backend/app/invoice/shipment_inspection_service.py                    *)
(*   backend/app/invoice/shipment_absence_recovery.py, shipment_retry_     *)
(*   service.py, shipment_cancel_service.py, shipment_deleted_             *)
(*   cancellation.py, outbound_reconciliation_service.py                   *)
(*                                                                         *)
(* `row' is the batch with its outbound, whose states move together.  A    *)
(* document is named by the POST that created it and all carry the batch's *)
(* serial number; deleted in OKKI, it may stay readable or not be found.  An*)
(* action is one transaction, one read or one effect at OKKI: the exception*)
(* handler and recover_expired read the row without a lock in one action and*)
(* write it by primary key in another.  The named lock that executors share*)
(* is lost with its connection, so they may overlap.  Funds, stock, freight*)
(* and permissions, where they only refuse, are a free choice.             *)
(***************************************************************************)
EXTENDS Integers, FiniteSets

CONSTANTS MaxAttempts,   \* bound on the executions of deliver that get the row
          MaxRetried,    \* bound: the first so many attempts may meet a 401
          MaxEdits,      \* bound on the submissions and recalls, of one document's
                         \* inspection
          MaxDeleted,    \* bound on the documents deleted in OKKI
          Prompts,       \* the values `prompt' may have in a behaviour; bound: where it
                         \* is FALSE nothing is submitted or deleted, and no 401
          Invoice, None

ASSUME BoundAssumption == {MaxAttempts, MaxRetried, MaxEdits, MaxDeleted} \subseteq Nat
ASSUME PromptAssumption == Prompts \subseteq BOOLEAN

VARIABLES row,         \* ark_shipment_settlements with ark_shipment_outbounds
          worker,      \* deliver, by attempt: what is lost with its process
          check,       \* refresh, by the attempt that calls it; 0: the job or a person
          read,        \* what a person has read in OKKI while the row stayed as it is
          inspection,  \* per document: None before it is mirrored, then the number of
                       \* its submissions and recalls
          deleted,     \* documents deleted in OKKI
          gone,        \* those of them that OKKI does not find any more
          selected,    \* recover_expired has selected the row, and not yet written it
          overwritten, \* history: a handler wrote `failed' over a row that had been given
                       \* back, or claimed by another executor, since it was read
          authority, claims, evidence, post, reply, inflight, created, prompt

others == <<gone, selected, overwritten>>

vars == <<row, worker, check, read, inspection, deleted, others,
          authority, claims, evidence, post, reply, inflight, created, prompt>>

Attempts == 1 .. MaxAttempts
Rounds   == 1 .. 2
Requests == Attempts \X Rounds
Callers  == Attempts \cup {0}
ASSUME NoneAssumption == None \notin Requests

Sending == INSTANCE LegacySending
    WITH Removals <- {}, Identities <- Requests
sending == <<authority, claims, evidence, post, reply, inflight, created, prompt>>

Verified == {"pending_remote", "shipped"}   \* shipped_unfunded is shipped, too
Statuses == Verified \cup {"waiting", "paused",    \* of the batch: no outbound yet
                           "pending", "sending", "verifying", "uncertain", "failed", "cancelled"}

Rows == [status: Statuses,
         remote: Requests \cup {None},
         token: 0 .. MaxAttempts,      \* attempt_token; 0 is NULL
         leased: BOOLEAN,
         late: SUBSET Requests]        \* LATE facts

Workers == [stage: {"idle", "claimed", "ready", "sending", "retry", "created",
                    "verify", "refused", "unknown",
                    "failed", "uncertain",    \* the handler's verdict, to be written
                    "over"},
            round: 0 .. 2]

Checks == [active: BOOLEAN, seen: 0 .. MaxEdits \cup {None}]
Reads  == [kind: {"none", "absent", "active", "retired"}, doc: Requests \cup {None}]

TypeOK ==
    /\ row \in Rows
    /\ worker \in [Attempts -> Workers]
    /\ check \in [Callers -> Checks \cup {None}]
    /\ read \in Reads
    /\ inspection \in [Requests -> 0 .. MaxEdits \cup {None}]
    /\ deleted \subseteq created /\ gone \subseteq deleted
    /\ selected \in BOOLEAN /\ overwritten \in BOOLEAN
    /\ Sending!SendingTypeOK

NoRead == [kind |-> "none", doc |-> None]

Init ==
    /\ row = [status |-> "waiting", remote |-> None, token |-> 0, leased |-> FALSE, late |-> {}]
    /\ worker = [a \in Attempts |-> [stage |-> "idle", round |-> 0]]
    /\ check = [k \in Callers |-> None]
    /\ read = NoRead
    /\ inspection = [o \in Requests |-> None]
    /\ deleted = {} /\ gone = {}
    /\ selected = FALSE /\ overwritten = FALSE
    /\ Sending!SendingInit /\ prompt \in Prompts

-----------------------------------------------------------------------------

GateOpen == Sending!Gates!RequireRoute(Invoice, "legacy", 1)
OpenClaims == Sending!Gates!OpenClaims(Invoice)

\* Every write of batch or outbound outdates what a person has read of it.
Write(new) == row' = new /\ read' = NoRead
KeepRow == UNCHANGED <<row, read>>

To(a, stage) == worker' = [worker EXCEPT ![a].stage = stage]
Stops(a, stage) == worker' = [worker EXCEPT ![a].stage = stage, ![a].round = 0]
Ends(a) == Stops(a, "over")

Active == created \ deleted

\* Faulty variant: whatever the search by number says.
NotFound == TRUE

\* find_outbound_by_serial may answer that no such document exists.
SerialUnused == Active = {}

\* snapshot: the inspection is submitted, with the lines of the outbound.
Complete(n) == n # None /\ n % 2 = 1

\* inspection_completion.apply
Applied(n) == IF Complete(n) THEN "shipped" ELSE "pending_remote"

-----------------------------------------------------------------------------
(* The batch, until its outbound is queued *)

QueueReady ==
    /\ row.status = "waiting"
    /\ Write([row EXCEPT !.status = "pending"])
    /\ UNCHANGED <<worker, check, inspection, deleted, sending, others>>

Pause ==
    /\ row.status \in {"waiting", "paused"}
    /\ Write([row EXCEPT !.status = IF @ = "waiting" THEN "paused" ELSE "waiting"])
    /\ UNCHANGED <<worker, check, inspection, deleted, sending, others>>

CancelUnqueued ==
    /\ row.status \in {"waiting", "paused"}
    /\ Write([row EXCEPT !.status = "cancelled"])
    /\ UNCHANGED <<worker, check, inspection, deleted, sending, others>>

-----------------------------------------------------------------------------
(* deliver *)

InDelivery == {"sending", "verifying"}
Verdict(doubt) == IF row.remote # None \/ doubt THEN "uncertain" ELSE "failed"

\* Faulty variant: a stale executor speaks for the row as well.
FailsAnybody(a, doubt) ==
    /\ KeepRow
    /\ IF row.status \in InDelivery THEN Stops(a, Verdict(doubt)) ELSE Ends(a)

\* The exception handler reads the row, without a lock, and takes its verdict:
\* `failed' is where OKKI cannot have acted.
Fails(a, doubt) ==
    /\ KeepRow
    /\ IF row.token = a /\ row.status \in InDelivery THEN Stops(a, Verdict(doubt)) ELSE Ends(a)

\* It writes the verdict by primary key, over whatever the row is by then.
Record(a) == LET verdict == worker[a].stage IN
    /\ verdict \in {"failed", "uncertain"}
    /\ Write([row EXCEPT !.status = verdict, !.leased = FALSE])
    /\ Ends(a)
    /\ overwritten' = (overwritten \/ (verdict = "failed" /\ row.token # a))
    /\ UNCHANGED <<check, inspection, deleted, sending, gone, selected>>

\* Thirty minutes to prepare.
Claim(a) ==
    /\ worker[a].stage = "idle" /\ \A b \in Attempts : b < a => worker[b].stage # "idle"
    /\ GateOpen /\ row.status = "pending" /\ row.late = {}
    /\ Write([row EXCEPT !.status = "sending", !.token = a, !.leased = TRUE])
    /\ To(a, "claimed")
    /\ UNCHANGED <<check, inspection, deleted, sending, others>>

\* Faulty variant: the state of the batch, not that of its outbound, is written.
ParkAsBatch ==
    /\ GateOpen /\ row.status = "pending" /\ row.late # {}
    /\ Write([row EXCEPT !.status = "outbound_uncertain"])
    /\ UNCHANGED <<worker, check, inspection, deleted, sending, others>>

\* A document turned up after the row was given back: nothing is sent.
Park ==
    /\ GateOpen /\ row.status = "pending" /\ row.late # {}
    /\ Write([row EXCEPT !.status = "uncertain"])
    /\ UNCHANGED <<worker, check, inspection, deleted, sending, others>>

\* Reads without locks: the batch still waits for its outbound, nobody made one.
Prepare(a) ==
    /\ worker[a].stage = "claimed"
    /\ row.status \in {"pending", "sending", "verifying", "pending_remote"}
    /\ SerialUnused
    /\ To(a, "ready") /\ KeepRow
    /\ UNCHANGED <<check, inspection, deleted, sending, others>>

PrepareFails(a) ==
    /\ worker[a].stage = "claimed"
    /\ Fails(a, FALSE)
    /\ UNCHANGED <<check, inspection, deleted, sending, others>>

\* before_send: the token fence renews the lease, five minutes, and the claim is
\* opened, three minutes, in one transaction; again after a 401.
Grant(a) ==
    /\ worker[a].stage \in {"ready", "retry"}
    /\ row.token = a /\ row.status = "sending" /\ row.leased
    /\ Sending!Grant(<<a, worker[a].round + 1>>, 1)
    /\ Write(row)
    /\ worker' = [worker EXCEPT ![a].stage = "sending", ![a].round = @ + 1]
    /\ UNCHANGED <<check, inspection, deleted, prompt, others>>

\* Gate, stock, fence or claim refuse; the second time an error of the database
\* or a busy authority counts as an open outcome, because `sent' is set.
RefuseGrant(a, doubt) ==
    /\ worker[a].stage \in {"ready", "retry"}
    /\ doubt => worker[a].round = 1
    /\ Fails(a, doubt)
    /\ UNCHANGED <<check, inspection, deleted, sending, others>>

OnWire(a) == <<a, worker[a].round>>
Sends(a) == worker[a].stage = "sending"

\* The commit of before_send took effect and was not acknowledged: `sent' is as
\* it was before, and the ticket is gone.
LoseTicket(a) ==
    /\ Sends(a) /\ post[OnWire(a)] = "ticket"
    /\ Sending!Die(OnWire(a))
    /\ Fails(a, worker[a].round = 2)
    /\ UNCHANGED <<check, inspection, deleted, prompt, others>>

Consume(a) ==
    /\ Sends(a) /\ Sending!Consume(OnWire(a))
    /\ KeepRow
    /\ UNCHANGED <<worker, check, inspection, deleted, prompt, others>>

RefuseTicket(a) ==
    /\ Sends(a) /\ Sending!RefuseTicket(OnWire(a))
    /\ Fails(a, FALSE)
    /\ UNCHANGED <<check, inspection, deleted, prompt, others>>

Answer(a, r) ==
    /\ Sends(a) /\ Sending!Answer(OnWire(a), r)
    /\ r = "unauthorized" => prompt /\ a <= MaxRetried
    /\ KeepRow
    /\ UNCHANGED <<worker, check, inspection, deleted, prompt, others>>

\* push_outbound: a second POST after a first 401 only.
Remember(a) == LET r == reply[OnWire(a)] IN
    /\ Sends(a)
    /\ Sending!Remember(OnWire(a), IF r = "identity" THEN OnWire(a) ELSE None)
    /\ CASE r = "identity" -> To(a, "created")
         [] r = "unauthorized" /\ worker[a].round = 1 -> To(a, "retry")
         [] OTHER -> To(a, IF r = "unknown" THEN "unknown" ELSE "refused")
    /\ KeepRow
    /\ UNCHANGED <<check, inspection, deleted, prompt, others>>

\* TransitionError is a ValueError and ends as `failed'; a busy authority is not.
Forget(a, doubt) ==
    /\ Sends(a) /\ Sending!Forget(OnWire(a))
    /\ Fails(a, doubt)
    /\ UNCHANGED <<check, inspection, deleted, prompt, others>>

\* The identity reaches the row by token, or becomes a LATE fact.
Persist(a) ==
    /\ worker[a].stage = "created"
    /\ IF row.token = a /\ row.status = "sending"
       THEN /\ Write([row EXCEPT !.status = "verifying", !.remote = OnWire(a), !.leased = FALSE])
            /\ To(a, "verify")
       ELSE /\ row' = [row EXCEPT !.late = @ \cup {OnWire(a)}] /\ UNCHANGED read
            /\ Ends(a)
    /\ UNCHANGED <<check, inspection, deleted, sending, others>>

PersistFails(a) ==
    /\ worker[a].stage = "created"
    /\ Fails(a, TRUE)
    /\ UNCHANGED <<check, inspection, deleted, sending, others>>

\* invoke raised in deliver, after a transaction of its own.
Handle(a) ==
    /\ worker[a].stage \in {"refused", "unknown"}
    /\ Fails(a, worker[a].stage = "unknown")
    /\ UNCHANGED <<check, inspection, deleted, sending, others>>

Die(a) ==
    /\ worker[a].stage \notin {"idle", "over"}
    /\ Ends(a) /\ check' = [check EXCEPT ![a] = None] /\ KeepRow
    /\ IF Sends(a) THEN Sending!Die(OnWire(a)) ELSE UNCHANGED sending
    /\ UNCHANGED <<inspection, deleted, prompt, others>>

-----------------------------------------------------------------------------
(* refresh: by deliver after the creation, by the job for verified outbounds; *)
(* a person who reconciles a bound document does the same, more strictly      *)

\* Faulty variant: a document whose details can be read is active.
CheckReadDetails(k, same) ==
    /\ check[k] = None /\ row.remote \notin gone
    /\ IF k = 0 THEN row.remote # None /\ row.status # "cancelled" ELSE worker[k].stage = "verify"
    /\ check' = [check EXCEPT ![k] = IF same
          THEN [active |-> TRUE, seen |-> inspection[row.remote]]
          ELSE [active |-> FALSE, seen |-> None]]
    /\ KeepRow
    /\ UNCHANGED <<worker, inspection, deleted, sending, others>>

\* Details, which must be found, then the list of active documents, then the
\* inspection; no lock.  A document edited in OKKI may differ from the frozen task.
CheckRead(k, same) ==
    /\ check[k] = None /\ row.remote \notin gone
    /\ IF k = 0 THEN row.remote # None /\ row.status # "cancelled" ELSE worker[k].stage = "verify"
    /\ check' = [check EXCEPT ![k] = IF row.remote \in Active /\ same
          THEN [active |-> TRUE, seen |-> inspection[row.remote]]
          ELSE [active |-> FALSE, seen |-> None]]
    /\ KeepRow
    /\ UNCHANGED <<worker, inspection, deleted, sending, others>>

\* The caller is still there.
Refreshing(k) == check[k] # None /\ (k # 0 => worker[k].stage = "verify")

CheckEnds(k) ==
    /\ check' = [check EXCEPT ![k] = None]
    /\ IF k = 0 THEN UNCHANGED worker ELSE Ends(k)

\* Faulty variant: the inspection is not compared with what was read.
CheckCommitsStale(k) ==
    /\ Refreshing(k)
    /\ IF row.status = "cancelled" THEN KeepRow /\ UNCHANGED sending
       ELSE IF ~check[k].active THEN Write([row EXCEPT !.status = "uncertain"]) /\ UNCHANGED sending
       ELSE /\ Sending!SettleOpen(OpenClaims, row.remote) /\ UNCHANGED prompt
            /\ Write([row EXCEPT !.status = Applied(check[k].seen)])
    /\ CheckEnds(k)
    /\ UNCHANGED <<inspection, deleted, others>>

\* Under the locks: a verified original closes every claim of the batch.
CheckCommits(k) ==
    /\ Refreshing(k)
    /\ IF row.status = "cancelled" THEN KeepRow /\ UNCHANGED sending
       ELSE IF ~check[k].active THEN Write([row EXCEPT !.status = "uncertain"]) /\ UNCHANGED sending
       ELSE /\ check[k].seen = inspection[row.remote]
            /\ Sending!SettleOpen(OpenClaims, row.remote) /\ UNCHANGED prompt
            /\ Write([row EXCEPT !.status = Applied(check[k].seen)])
    /\ CheckEnds(k)
    /\ UNCHANGED <<inspection, deleted, others>>

\* The inspection or, where it is complete, the funds have moved since the read.
CheckRefused(k) ==
    /\ Refreshing(k) /\ check[k].active /\ row.status # "cancelled"
    /\ check[k].seen # inspection[row.remote] \/ Complete(check[k].seen)
    /\ check' = [check EXCEPT ![k] = None]
    /\ IF k = 0 THEN KeepRow /\ UNCHANGED worker ELSE Fails(k, TRUE)
    /\ UNCHANGED <<inspection, deleted, sending, others>>

\* OKKI cannot be read.
CheckFails(a) ==
    /\ worker[a].stage = "verify" /\ check[a] = None
    /\ Fails(a, TRUE)
    /\ UNCHANGED <<check, inspection, deleted, sending, others>>

-----------------------------------------------------------------------------
(* recover_expired *)

\* An expired row is selected without a lock, and written by primary key when all
\* are committed; a pass that dies before that writes nothing.
SweepSelects ==
    /\ row.status = "sending" /\ ~row.leased /\ ~selected
    /\ selected' = TRUE /\ KeepRow
    /\ UNCHANGED <<worker, check, inspection, deleted, sending, gone, overwritten>>

SweepWrites ==
    /\ selected /\ selected' = FALSE
    /\ Write([row EXCEPT !.status = "uncertain", !.leased = FALSE])
    /\ UNCHANGED <<worker, check, inspection, deleted, sending, gone, overwritten>>

-----------------------------------------------------------------------------
(* People at Ark: each reads OKKI without locks, then finds the row unchanged *)

Finds(kind, doc) ==
    /\ read' = [kind |-> kind, doc |-> doc] /\ read' # read
    /\ UNCHANGED <<row, worker, check, inspection, deleted, sending, others>>

ReadAbsence ==
    /\ row.status \in {"uncertain", "failed"} /\ row.remote = None
    /\ SerialUnused
    /\ Finds("absent", None)

ReadDocument(o) ==
    /\ row.status \in {"uncertain", "failed"} /\ row.remote = None
    /\ o \in Active
    /\ Finds("active", o)

\* Faulty variant: no other document is enough, whatever the list of active ones says.
ReadUnlisted ==
    /\ row.remote # None /\ row.status # "cancelled"
    /\ Active \subseteq {row.remote}
    /\ Finds("retired", row.remote)

\* _observe: the document is deleted, and no other one replaced it.
ReadDeletion ==
    /\ row.remote \in deleted /\ row.status # "cancelled"
    /\ Active = {}
    /\ Finds("retired", row.remote)

\* absence_recovery: an administrator attests that the original request is over.
Recover ==
    /\ row.status = "uncertain" /\ row.remote = None /\ ~row.leased /\ row.late = {}
    /\ read.kind = "absent"
    /\ Sending!ReleaseUnsent(OpenClaims)
    /\ Write([row EXCEPT !.status = "pending", !.token = 0])
    /\ UNCHANGED <<worker, check, inspection, deleted, prompt, others>>

Retry ==
    /\ row.status = "failed" /\ row.remote = None
    /\ read.kind = "absent"
    /\ Write([row EXCEPT !.status = "pending", !.token = 0, !.leased = FALSE])
    /\ UNCHANGED <<worker, check, inspection, deleted, sending, others>>

CancelFailed ==
    /\ row.status = "failed" /\ row.remote = None /\ ~row.leased
    /\ read.kind = "absent"
    /\ Write([row EXCEPT !.status = "cancelled"])
    /\ UNCHANGED <<worker, check, inspection, deleted, sending, others>>

\* reconcile binds a document that was found by hand.
Reconcile == LET o == read.doc IN
    /\ row.status \in {"uncertain", "failed"} /\ row.remote = None
    /\ read.kind = "active"
    /\ Sending!SettleOpen(OpenClaims, o)
    /\ Write([row EXCEPT !.status = Applied(inspection[o]), !.remote = o])
    /\ UNCHANGED <<worker, check, inspection, deleted, prompt, others>>

\* deleted_cancellation: never after an inspection was submitted, even if recalled.
CancelDeleted ==
    /\ row.status \in {"pending_remote", "uncertain"} /\ ~row.leased /\ row.late = {}
    /\ read.kind = "retired" /\ read.doc = row.remote
    /\ inspection[row.remote] = 0
    /\ Write([row EXCEPT !.status = "cancelled"])
    /\ UNCHANGED <<worker, check, inspection, deleted, sending, others>>

-----------------------------------------------------------------------------
(* The inspection of a document, whether or not the row knows it yet *)

\* The evidence of a person who read that document includes its inspection.
Inspect(o, n) ==
    /\ inspection' = [inspection EXCEPT ![o] = n]
    /\ UNCHANGED <<worker, check, deleted, sending, others>>

Outdates(o) == read' = IF read.doc = o THEN NoRead ELSE read

Mirror(o) ==
    /\ o \in Active /\ inspection[o] = None
    /\ Inspect(o, 0) /\ UNCHANGED row /\ Outdates(o)

\* submit and recall, with sync_record in their transaction; the mirror of a
\* deleted document may be marked so, and then finds no outbound.
SubmitOrRecall(o) == LET n == inspection[o] + 1 IN
    /\ inspection[o] # None /\ inspection[o] < MaxEdits /\ prompt
    /\ \A p \in Requests \ {o} : inspection[p] \in {None, 0}
    /\ Inspect(o, n)
    /\ \/ /\ row.remote = o /\ row.status \in Verified
          /\ Write([row EXCEPT !.status = Applied(n)])
       \/ /\ row.remote # o \/ row.status \notin Verified \/ o \in deleted
          /\ UNCHANGED row /\ Outdates(o)

-----------------------------------------------------------------------------
(* OKKI and the clock *)

Create(c) ==
    /\ Sending!Create(c)
    /\ KeepRow
    /\ UNCHANGED <<worker, check, inspection, deleted, prompt, others>>

Delete(o) ==
    /\ o \in Active /\ prompt /\ Cardinality(deleted) < MaxDeleted
    /\ deleted' = deleted \cup {o}
    /\ KeepRow
    /\ UNCHANGED <<worker, check, inspection, sending, others>>

\* A deleted document may also become one that OKKI does not find.
Vanish(o) ==
    /\ o \in deleted \ gone
    /\ gone' = gone \cup {o} /\ KeepRow
    /\ UNCHANGED <<worker, check, inspection, deleted, sending, selected, overwritten>>

ClaimLeaseExpires(c) ==
    /\ Sending!ClaimLeaseExpires(c)
    /\ KeepRow
    /\ UNCHANGED <<worker, check, inspection, deleted, prompt, others>>

\* Renewed with the start of a claim, which has less time.
RowLeaseExpires ==
    /\ row.leased
    /\ \A c \in OpenClaims : c[1] = row.token => ~claims[c].leased
    /\ row' = [row EXCEPT !.leased = FALSE]
    /\ UNCHANGED <<read, worker, check, inspection, deleted, sending, others>>

-----------------------------------------------------------------------------

Deliver(a) ==
    \/ Claim(a) \/ Prepare(a) \/ PrepareFails(a) \/ Grant(a) \/ LoseTicket(a)
    \/ Consume(a) \/ RefuseTicket(a) \/ Remember(a) \/ Persist(a) \/ PersistFails(a)
    \/ \E doubt \in BOOLEAN : RefuseGrant(a, doubt) \/ Forget(a, doubt)
    \/ \E r \in {"identity", "unauthorized", "rejected", "unknown"} : Answer(a, r)
    \/ CheckFails(a) \/ Handle(a) \/ Record(a) \/ Die(a)

JobReads == row.status \in Verified /\ \E same \in BOOLEAN : CheckRead(0, same)

Refresh(k) == (\E same \in BOOLEAN : CheckRead(k, same)) \/ CheckCommits(k) \/ CheckRefused(k)

People ==
    \/ Pause \/ CancelUnqueued
    \/ ReadAbsence \/ ReadDeletion \/ \E o \in Requests : ReadDocument(o)
    \/ Recover \/ Retry \/ CancelFailed \/ Reconcile \/ CancelDeleted

Next ==
    \/ QueueReady \/ Park \/ SweepSelects \/ SweepWrites \/ RowLeaseExpires
    \/ \E a \in Attempts : Deliver(a)
    \/ \E k \in Callers : Refresh(k)
    \/ People
    \/ \E o \in Requests : Mirror(o) \/ SubmitOrRecall(o) \/ Delete(o) \/ Vanish(o)
    \/ \E c \in Requests : Create(c) \/ ClaimLeaseExpires(c)

Spec == Init /\ [][Next]_vars

\* process_pending reads verified outbounds back in every pass.
ReadBack == JobReads \/ CheckCommits(0) \/ CheckRefused(0)

\* The scheduler runs the job again and again.
Fairness == WF_vars(ReadBack)

LiveSpec == Spec /\ Fairness

-----------------------------------------------------------------------------
(* Properties *)

\* OKKI never holds two outbounds of one batch, nor can a second one still arise
\* beside the first, whichever executor stalls where, and whoever retries, recovers
\* or binds meanwhile; and of a cancelled batch, whose funds and goods are free for
\* another one, it holds none, nor can one still arise.  Assumes that POSTs are
\* prompt.  Exception: once the handler of a stalled executor has written its `failed'
\* over a row that another executor claimed since it was read, people may cancel or
\* retry that row while the other one's document still arises.  It takes two executors
\* at once, which the named lock prevents as long as its connection lives.
OneOutbound == prompt /\ ~overwritten =>
    Cardinality(Active \cup inflight) <= IF row.status = "cancelled" THEN 0 ELSE 1

\* A batch shown as created or shipped has exactly that: its document was created
\* and verified, no claim of it is left open to block the order, and it counts as
\* shipped exactly while the inspection of its document is submitted, whatever
\* refresh, reconciliation, submission and recall overtake one another.
OutboundIsTrue ==
    row.status \in Verified =>
        /\ row.remote \in created
        /\ OpenClaims = {} \/ authority[Invoice].state = "frozen"
        /\ row.remote \notin deleted =>
              (row.status = "shipped" <=> Complete(inspection[row.remote]))

\* A document deleted in OKKI does not stay behind a batch that shows it as created
\* or shipped, though its inspection goes on and details of it remain readable.
\* Exception: once OKKI does not find the document any more, the reading raises, and
\* the job leaves the row as it is in every pass.
DeletionIsNoticed ==
    (row.status \in Verified /\ row.remote \in deleted)
        ~> (row.status \notin Verified \/ row.remote \in gone)
=============================================================================

------------------------------ MODULE ReceiptDelivery ------------------------------
(***************************************************************************)
(* Delivery of the receipts of one order to OKKI: the receipt row is its   *)
(* own outbox, workers claim it by a token and a lease, and every outcome  *)
(* that is not known goes to a person.                                     *)
(*   backend/app/receipt/sync_service.py            deliver, read-back     *)
(*   backend/app/receipt/recovery.py                the recovery passes    *)
(*   backend/app/receipt/service.py, edit_service.py, retry_service.py,    *)
(*   reconciliation_service.py                      what people may do     *)
(*                                                                         *)
(* A worker is identified by the attempt it runs, and an action is one     *)
(* database transaction or one external effect; between two actions of a   *)
(* worker anything else may happen, and any worker may die.  Ordinary      *)
(* receipts of a confirmed legacy order; the batch, presale, removal and   *)
(* remote-change paths are not in this module.  Preparation checks that    *)
(* only read (fees, balances, proofs, permissions) are one free choice.    *)
(***************************************************************************)
EXTENDS Integers, FiniteSets

CONSTANTS Receipts,      \* ark_receipts.id, all of one invoice
          MaxAttempts,   \* bound: claims of one row by workers
          MaxClaims,     \* bound: claims of all rows together
          MaxRounds,     \* POSTs of one attempt: 2 in the code (push tries again
                         \* with a fresh token), 1 to bound a run
          PrepareLimit,  \* PREPARE_LIMIT
          VerifyLimit,   \* VERIFY_LIMIT
          Twins,         \* the receipts have equal amounts and dates
          Invoice, Prompt, None

ASSUME LimitAssumption == PrepareLimit \in Nat \ {0} /\ VerifyLimit \in Nat \ {0}
ASSUME AttemptAssumption == MaxAttempts \in Nat /\ MaxClaims \in Nat /\ MaxRounds \in 1 .. 2
ASSUME SettingAssumption == Twins \in BOOLEAN /\ Prompt \in BOOLEAN

VARIABLES row,      \* ark_receipts
          attempt,  \* the worker of each claim of a row, and its ReceiptAttempt
          authority, claims, evidence, post, reply, inflight, created

vars == <<row, attempt, authority, claims, evidence, post, reply, inflight, created>>

Attempts == Receipts \X (1 .. MaxAttempts)
Requests == Receipts \X (1 .. MaxAttempts) \X (1 .. MaxRounds)
ASSUME NoneAssumption == None \notin Requests
Key(a, round) == <<a[1], a[2], round>>

Sending == INSTANCE LegacySending
    WITH Removals <- {}, Identities <- Requests, prompt <- Prompt
sending == <<authority, claims, evidence, post, reply, inflight, created>>

Rows == [status: {"active", "voided"},
         sync: {"pending", "syncing", "synced", "failed", "uncertain"},
         phase: {"none", "preparing", "sending", "accepted", "verified", "rejected"},
         kind: {"none", "prepare_retry", "verify", "blocked", "unknown", "exhausted"},
         due: BOOLEAN,             \* next_attempt_at is set
         tries: 0 .. PrepareLimit + VerifyLimit,
         id: Requests \cup {None}, \* xiaoman_receipt_id
         token: 0 .. MaxAttempts,  \* attempt_token and lease_until > now: every
         leased: BOOLEAN,          \* reader asks for `syncing' too; else 0 and FALSE
         corrected: BOOLEAN,       \* last_error says `corrected, retry to send'
         prepared: BOOLEAN,        \* version is still the prepared_version
         reviewed: BOOLEAN]        \* an administrator read back `no candidate'
                                   \* and the row has not changed since

Workers == [stage: {"idle", "claimed", "prepared", "again", "sending", "returned",
                    "persisted", "raised", "done"},
            error: {"none", "transient", "business", "transition", "okki", "uncertain", "database"},
            round: 0 .. MaxRounds,
            sent: BOOLEAN,
            remote: Requests \cup {None},  \* ReceiptAttempt.remote_id
            handled: BOOLEAN]              \* ReceiptAttempt.handled_at is set

TypeOK ==
    /\ row \in [Receipts -> Rows]
    /\ attempt \in [Attempts -> Workers]
    /\ Sending!SendingTypeOK

Init ==
    /\ row = [r \in Receipts |->
          [status |-> "active", sync |-> "pending", phase |-> "none", kind |-> "none",
           due |-> FALSE, tries |-> 0, id |-> None, token |-> 0, leased |-> FALSE,
           corrected |-> FALSE, prepared |-> FALSE, reviewed |-> FALSE]]
    /\ attempt = [a \in Attempts |->
          [stage |-> "idle", error |-> "none", round |-> 0, sent |-> FALSE,
           remote |-> None, handled |-> FALSE]]
    /\ Sending!SendingInit

-----------------------------------------------------------------------------

GateOpen == Sending!Gates!RequireRoute(Invoice, "legacy", 1)
OpenClaims == Sending!Gates!OpenClaims(Invoice)
OwnClaims(r) == {c \in OpenClaims : c[1] = r}

Active(r) == row[r].status = "active"
Holds(a) == row[a[1]].token = a[2] /\ row[a[1]].sync = "syncing"
Returned(r) == {attempt[a].remote : a \in {b \in Attempts : b[1] = r}} \ {None}
BoundElsewhere(r, id) == \E s \in Receipts \ {r} : row[s].id = id

\* Documents a read-back of the order finds for this receipt.
Candidates(r) == {c \in created : Twins \/ c[1] = r}

\* Every write of a row moves its version and so outdates what was read of it.
Write(r, new) == row' = [row EXCEPT ![r] = [new EXCEPT
    !.prepared = FALSE, !.reviewed = FALSE,
    !.token = IF new.sync = "syncing" THEN new.token ELSE 0,
    !.leased = new.leased /\ new.sync = "syncing"]]

\* Faulty variant: the limit is not applied.
RetriedForever(w, kind) == [w EXCEPT !.tries = w.tries + 1, !.kind = kind, !.due = TRUE]

\* retry_values
Retried(w, kind) ==
    LET tries == w.tries + 1
        more == tries < (IF kind = "prepare_retry" THEN PrepareLimit ELSE VerifyLimit)
    IN [w EXCEPT !.tries = tries, !.kind = IF more THEN kind ELSE "exhausted", !.due = more]

\* _hold_for_claim, on a row that waits behind an unresolved claim.
Held(r) ==
    IF OwnClaims(r) # {}
    THEN [row[r] EXCEPT !.sync = "uncertain", !.phase = "sending", !.kind = "unknown",
                        !.due = FALSE, !.corrected = FALSE]
    ELSE [row[r] EXCEPT !.sync = "failed", !.phase = "none", !.kind = "blocked",
                        !.due = FALSE, !.corrected = FALSE]

To(a, stage) == attempt' = [attempt EXCEPT ![a].stage = stage]
\* deliver returns or its process dies: only ReceiptAttempt outlives it.
Leave(a, handled) == attempt' = [attempt EXCEPT ![a] =
    [stage |-> "done", error |-> "none", round |-> 0, sent |-> FALSE,
     remote |-> attempt[a].remote, handled |-> handled]]
Raise(a, error) == attempt' = [attempt EXCEPT ![a].stage = "raised", ![a].error = error]

-----------------------------------------------------------------------------
(* deliver: claiming and preparing a row *)

Deliverable(r) == Active(r) /\ row[r].sync = "pending" /\ row[r].id = None /\ GateOpen

Claim(a) == LET r == a[1] IN
    /\ attempt[a].stage = "idle"
    /\ Deliverable(r) /\ OpenClaims = {}
    /\ Cardinality({b \in Attempts : attempt[b].stage # "idle"}) < MaxClaims
    /\ \A b \in Attempts : b[1] = r /\ b[2] < a[2] => attempt[b].stage # "idle"
    /\ Write(r, [row[r] EXCEPT !.sync = "syncing", !.phase = "preparing", !.kind = "none",
                               !.due = FALSE, !.token = a[2], !.leased = TRUE])
    /\ To(a, "claimed")
    /\ UNCHANGED sending

HoldPending(r) ==
    /\ Deliverable(r) /\ OpenClaims # {}
    /\ Write(r, Held(r))
    /\ UNCHANGED <<attempt, sending>>

\* The reads before the POST succeed and the row's version is remembered.
Prepare(a) ==
    /\ attempt[a].stage = "claimed" /\ GateOpen
    /\ row' = [row EXCEPT ![a[1]].prepared = TRUE]
    /\ To(a, "prepared")
    /\ UNCHANGED sending

\* A read fails before any POST, where an error of OKKI is treated like any other
\* that is not transient, or between the two.
PrepareFails(a, error) ==
    /\ attempt[a].stage \in {"claimed", "prepared", "again"}
    /\ error \in {"transient", "business", "okki"}
    /\ error = "okki" => attempt[a].sent
    /\ Raise(a, error)
    /\ UNCHANGED <<row, sending>>

\* The row as before_send demands it, under the row lock.
StillMine(a) ==
    /\ Returned(a[1]) = {}
    /\ row[a[1]].prepared
    /\ Holds(a) /\ row[a[1]].leased

\* before_send: from its commit on, a crash has an unknown POST outcome.
BeforeSend(a) == LET r == a[1]  k == attempt[a].round + 1 IN
    /\ attempt[a].stage \in {"prepared", "again"}
    /\ GateOpen /\ StillMine(a)
    /\ Sending!Grant(Key(a, k), 1)
    /\ row' = [row EXCEPT ![r].phase = "sending", ![r].leased = TRUE]
    /\ attempt' = [attempt EXCEPT ![a].stage = "sending", ![a].sent = TRUE, ![a].round = k]

BeforeSendRefused(a) ==
    /\ \/ attempt[a].stage = "claimed" /\ ~GateOpen
       \/ attempt[a].stage \in {"prepared", "again"}
    /\ IF ~GateOpen THEN Raise(a, "transition")
       ELSE IF ~StillMine(a) THEN Raise(a, "business")
       ELSE OpenClaims # {} /\ Raise(a, "transition")
    /\ UNCHANGED <<row, sending>>

-----------------------------------------------------------------------------
(* deliver: the POST *)

Replies == {"identity", "unauthorized", "rejected", "unknown"}

OnWire(a) == Key(a, attempt[a].round)

Consume(a) ==
    /\ attempt[a].stage = "sending"
    /\ Sending!Consume(OnWire(a))
    /\ UNCHANGED <<row, attempt>>

RefuseTicket(a) ==
    /\ attempt[a].stage = "sending"
    /\ Sending!RefuseTicket(OnWire(a))
    /\ Raise(a, "transition")
    /\ UNCHANGED row

\* A 401 without another POST is a rejection.
Answer(a, r) ==
    /\ attempt[a].stage = "sending"
    /\ r = "unauthorized" => attempt[a].round < MaxRounds
    /\ Sending!Answer(OnWire(a), r)
    /\ UNCHANGED <<row, attempt>>

\* invoke returns or re-raises once the claim's evidence is committed.
Remember(a) == LET r == reply[OnWire(a)] IN
    /\ attempt[a].stage = "sending"
    /\ Sending!Remember(OnWire(a), IF r = "identity" THEN OnWire(a) ELSE None)
    /\ IF r = "identity" THEN To(a, "returned")
       ELSE IF r = "unauthorized" THEN To(a, "again")
       ELSE Raise(a, IF r = "unknown" THEN "uncertain" ELSE "okki")
    /\ UNCHANGED row

Forget(a) ==
    /\ attempt[a].stage = "sending"
    /\ Sending!Forget(OnWire(a))
    /\ Raise(a, "transition")
    /\ UNCHANGED row

-----------------------------------------------------------------------------
(* deliver: the outcome *)

\* The returned identity is committed before anybody asks whether it is welcome.
Persist(a) ==
    /\ attempt[a].stage = "returned"
    /\ attempt' = [attempt EXCEPT ![a].stage = "persisted", ![a].remote = OnWire(a)]
    /\ UNCHANGED <<row, sending>>

Accept(a) == LET r == a[1] IN
    /\ attempt[a].stage = "persisted"
    /\ Holds(a) /\ ~BoundElsewhere(r, attempt[a].remote)
    /\ Write(r, [row[r] EXCEPT !.id = attempt[a].remote, !.sync = "synced", !.phase = "accepted",
                               !.kind = "verify", !.due = TRUE, !.tries = 0, !.corrected = FALSE])
    /\ Leave(a, TRUE)
    /\ UNCHANGED sending

\* Faulty variant: the attempt is marked handled although nothing took its identity.
LateResultHandled(a) ==
    /\ attempt[a].stage = "persisted" /\ ~Holds(a)
    /\ row' = [row EXCEPT ![a[1]].reviewed = FALSE]
    /\ Leave(a, TRUE)
    /\ UNCHANGED sending

\* The token lost the row: the identity stays in the attempt, and the log
\* entry changes what a review in progress had captured.
LateResult(a) ==
    /\ attempt[a].stage = "persisted" /\ ~Holds(a)
    /\ row' = [row EXCEPT ![a[1]].reviewed = FALSE]
    /\ Leave(a, attempt[a].handled)
    /\ UNCHANGED sending

\* A commit of the outcome fails: the database, or the UNIQUE remote identity.
OutcomeFails(a) ==
    /\ attempt[a].stage \in {"returned", "persisted"}
    /\ Raise(a, "database")
    /\ UNCHANGED <<row, sending>>

\* Faulty variant: only an uncertain answer of OKKI makes the outcome unknown.
FailedUnlessUncertain(a) ==
    IF attempt[a].error = "uncertain"
    THEN [row[a[1]] EXCEPT !.sync = "uncertain", !.kind = "unknown", !.due = FALSE]
    ELSE [row[a[1]] EXCEPT !.sync = "failed", !.phase = "preparing", !.kind = "blocked"]

\* The except clause of deliver, in a transaction of its own.
Failed(a) == LET r == a[1]
                 sent == attempt[a].sent \/ row[r].phase = "sending"
                 error == attempt[a].error
                 uncertain == error = "uncertain" \/ (sent /\ error # "okki")
                 base == [row[r] EXCEPT !.corrected = FALSE] IN
    IF ~sent /\ error = "transition" /\ OpenClaims # {} THEN Held(r)
    ELSE IF uncertain
    THEN [base EXCEPT !.sync = "uncertain", !.phase = "sending", !.kind = "unknown", !.due = FALSE]
    ELSE IF ~sent /\ error = "transient"
    THEN [Retried(base, "prepare_retry") EXCEPT !.sync = "failed", !.phase = "preparing"]
    ELSE [base EXCEPT !.sync = "failed", !.phase = IF sent THEN "rejected" ELSE "preparing",
                      !.kind = "blocked", !.due = FALSE]

Handle(a) ==
    /\ attempt[a].stage = "raised"
    /\ IF Holds(a) THEN Write(a[1], Failed(a)) ELSE UNCHANGED row
    /\ Leave(a, attempt[a].handled)
    /\ UNCHANGED sending

Crash(a) ==
    /\ attempt[a].stage \notin {"idle", "done"}
    /\ Leave(a, attempt[a].handled)
    /\ IF attempt[a].stage = "sending"
       THEN Sending!Die(OnWire(a))
       ELSE UNCHANGED sending
    /\ UNCHANGED row

-----------------------------------------------------------------------------
(* The clock and the scheduler's recovery passes *)

\* 30 minutes to prepare; 5 minutes once sending, which outlasts a claim's lease.
RowLeaseExpires(r) ==
    /\ row[r].leased
    /\ row[r].phase = "sending" => \A c \in OwnClaims(r) : ~claims[c].leased
    /\ row' = [row EXCEPT ![r].leased = FALSE]
    /\ UNCHANGED <<attempt, sending>>

\* Faulty variants: an expired sender is taken for one that had not sent yet;
\* or only rows still in preparation are recovered.
RecoverAsUnsent(r) ==
    /\ row[r].sync = "syncing" /\ ~row[r].leased
    /\ Write(r, [Retried(row[r], "prepare_retry") EXCEPT !.sync = "failed", !.phase = "preparing"])
    /\ UNCHANGED <<attempt, sending>>

RecoverPreparing(r) ==
    row[r].phase = "preparing" /\ RecoverAsUnsent(r)

RecoverExpired(r) == LET w == row[r] IN
    /\ w.sync = "syncing" /\ ~w.leased
    /\ Write(r, IF w.id # None THEN [w EXCEPT !.sync = "synced", !.kind = "verify", !.due = TRUE]
                ELSE IF w.phase = "preparing"
                THEN [Retried(w, "prepare_retry") EXCEPT !.sync = "failed", !.corrected = FALSE]
                ELSE [w EXCEPT !.sync = "uncertain", !.kind = "unknown", !.due = FALSE,
                               !.corrected = FALSE])
    /\ UNCHANGED <<attempt, sending>>

PrepareDue(r) ==
    /\ Active(r) /\ row[r].sync = "failed" /\ row[r].id = None
    /\ row[r].phase = "preparing" /\ row[r].kind = "prepare_retry" /\ row[r].due
    /\ Write(r, [row[r] EXCEPT !.sync = "pending", !.due = FALSE])
    /\ UNCHANGED <<attempt, sending>>

Late(r) == {a \in Attempts : a[1] = r /\ attempt[a].remote # None /\ ~attempt[a].handled}

\* Faulty variant: any of the returned identities will do.
RecoverLateAny(r) == LET w == row[r]
                         ids == Returned(r)
                         freed == [w EXCEPT !.sync = "uncertain", !.phase = "accepted", !.corrected = FALSE]
                         id == CHOOSE x \in ids : TRUE IN
    /\ Active(r) /\ Late(r) # {}
    /\ attempt' = [a \in Attempts |->
          IF a \in Late(r) THEN [attempt[a] EXCEPT !.handled = TRUE] ELSE attempt[a]]
    /\ IF ids = {w.id} THEN UNCHANGED row
       ELSE Write(r, IF w.id = None /\ ~BoundElsewhere(r, id)
                     THEN [freed EXCEPT !.id = id, !.kind = "verify", !.due = TRUE]
                     ELSE [freed EXCEPT !.kind = "blocked", !.due = FALSE])
    /\ UNCHANGED sending

RecoverLate(r) == LET w == row[r]
                      ids == Returned(r)
                      freed == [w EXCEPT !.sync = "uncertain", !.phase = "accepted", !.corrected = FALSE]
                      id == CHOOSE x \in ids : TRUE IN
    /\ Active(r) /\ Late(r) # {}
    /\ attempt' = [a \in Attempts |->
          IF a \in Late(r) THEN [attempt[a] EXCEPT !.handled = TRUE] ELSE attempt[a]]
    /\ IF ids = {w.id} THEN UNCHANGED row
       ELSE Write(r, IF w.id = None /\ ids = {id} /\ ~BoundElsewhere(r, id)
                     THEN [freed EXCEPT !.id = id, !.kind = "verify", !.due = TRUE]
                     ELSE [freed EXCEPT !.kind = "blocked", !.due = FALSE])
    /\ UNCHANGED sending

-----------------------------------------------------------------------------
(* Reading the bound receipt back *)

\* Faulty variants: the other receipts, or the identity the row has already, are
\* not consulted.
MayBindTaken(r, id) ==
    id \in Candidates(r) /\ Returned(r) \subseteq {id} /\ row[r].id \in {None, id}

MayRebind(r, id) ==
    id \in Candidates(r) /\ Returned(r) \subseteq {id} /\ ~BoundElsewhere(r, id)

\* bind_remote, once the document of OKKI matches the row in every amount.
MayBind(r, id) ==
    /\ id \in Candidates(r)
    /\ Returned(r) \subseteq {id}
    /\ row[r].id \in {None, id}
    /\ ~BoundElsewhere(r, id)

\* collect_status 0 keeps the row on the verification schedule.
BindRemote(r, id, effective) ==
    /\ MayBind(r, id)
    /\ Write(r, [row[r] EXCEPT !.id = id, !.sync = "synced", !.phase = "verified", !.tries = 0,
                               !.kind = IF effective THEN "none" ELSE "verify",
                               !.due = ~effective, !.corrected = FALSE])
    /\ Sending!SettleOpen(OwnClaims(r), id)
    /\ UNCHANGED attempt

\* refresh_accepted: matched, mismatched (or in conflict with a returned
\* identity), or not readable this time.
VerifyDue(r) ==
    /\ Active(r) /\ row[r].sync \in {"synced", "uncertain"} /\ row[r].id # None
    /\ row[r].kind = "verify" /\ row[r].due
    /\ \/ \E effective \in BOOLEAN : BindRemote(r, row[r].id, effective)
       \/ /\ Write(r, [row[r] EXCEPT !.sync = "uncertain", !.kind = "blocked", !.due = FALSE,
                                     !.corrected = FALSE])
          /\ UNCHANGED <<attempt, sending>>
       \/ /\ Write(r, [Retried(row[r], "verify") EXCEPT !.corrected = FALSE])
          /\ UNCHANGED <<attempt, sending>>

-----------------------------------------------------------------------------
(* What people may do *)

Retry(r) ==
    /\ Active(r) /\ row[r].sync = "failed" /\ row[r].id = None /\ Returned(r) = {}
    /\ Write(r, [row[r] EXCEPT !.sync = "pending", !.phase = "none", !.kind = "none",
                               !.due = FALSE, !.tries = 0, !.corrected = FALSE])
    /\ UNCHANGED <<attempt, sending>>

\* edit_service.edit ending in service._change
Edit(r) ==
    /\ Active(r) /\ row[r].sync \in {"pending", "failed"} /\ row[r].id = None
    /\ Write(r, [row[r] EXCEPT !.sync = "failed", !.corrected = TRUE])
    /\ UNCHANGED <<attempt, sending>>

\* Faulty variant: a receipt of unknown outcome may be voided.
VoidUnknown(r) ==
    /\ Active(r) /\ row[r].sync \in {"pending", "failed", "uncertain"}
    /\ row[r].id = None /\ Returned(r) = {}
    /\ Write(r, [row[r] EXCEPT !.status = "voided"])
    /\ UNCHANGED <<attempt, sending>>

Void(r) ==
    /\ Active(r) /\ row[r].sync \in {"pending", "failed"} /\ row[r].id = None /\ Returned(r) = {}
    /\ Write(r, [row[r] EXCEPT !.status = "voided"])
    /\ UNCHANGED <<attempt, sending>>

Unresolved(r) == Active(r) /\ row[r].sync = "uncertain" /\ authority[Invoice].state = "active"

\* The read-back that precedes the decision, with every lock released.
Review(r) ==
    /\ Unresolved(r) /\ row[r].id = None /\ ~row[r].reviewed
    /\ Candidates(r) = {}
    /\ row' = [row EXCEPT ![r].reviewed = TRUE]
    /\ UNCHANGED <<attempt, sending>>

\* Faulty variants: no read-back precedes the decision; or the row is sent again
\* while the original request stays unresolved.
ConfirmUnread(r) ==
    /\ Unresolved(r) /\ row[r].id = None /\ Returned(r) = {}
    /\ Sending!ReleaseUnsent(OwnClaims(r))
    /\ Write(r, [row[r] EXCEPT !.sync = "pending", !.phase = "none", !.kind = "none"])
    /\ UNCHANGED attempt

ConfirmUnreleased(r) ==
    /\ Unresolved(r) /\ row[r].id = None /\ row[r].reviewed /\ Returned(r) = {}
    /\ Write(r, [row[r] EXCEPT !.sync = "pending", !.phase = "none", !.kind = "none"])
    /\ UNCHANGED <<attempt, sending>>

\* _resolve: nothing was created, and the row may be sent again.
ConfirmNotCreated(r) ==
    /\ Unresolved(r) /\ row[r].id = None /\ row[r].reviewed /\ Returned(r) = {}
    /\ Sending!ReleaseUnsent(OwnClaims(r))
    /\ Write(r, [row[r] EXCEPT !.sync = "pending", !.phase = "none", !.kind = "none",
                               !.due = FALSE, !.tries = 0, !.corrected = FALSE])
    /\ UNCHANGED attempt

\* _resolve by binding, or _reconcile of a row that knows its identity.
BindByHand(r, id, effective) ==
    /\ \/ Unresolved(r)
       \/ Active(r) /\ row[r].sync \in {"synced", "uncertain"} /\ row[r].id = id
    /\ BindRemote(r, id, effective)

-----------------------------------------------------------------------------

Remote(c) == Sending!Create(c) /\ UNCHANGED <<row, attempt>>
ClaimLeaseExpires(c) == Sending!ClaimLeaseExpires(c) /\ UNCHANGED <<row, attempt>>

Worker(a) ==
    \/ Claim(a) \/ Prepare(a)
    \/ \E error \in {"transient", "business", "okki"} : PrepareFails(a, error)
    \/ BeforeSend(a) \/ BeforeSendRefused(a)
    \/ Consume(a) \/ RefuseTicket(a)
    \/ \E r \in Replies : Answer(a, r)
    \/ Remember(a) \/ Forget(a)
    \/ Persist(a) \/ Accept(a) \/ LateResult(a) \/ OutcomeFails(a) \/ Handle(a)

Recovery(r) == RecoverExpired(r) \/ PrepareDue(r) \/ RecoverLate(r) \/ VerifyDue(r)

People(r) ==
    \/ Retry(r) \/ Edit(r) \/ Void(r) \/ Review(r) \/ ConfirmNotCreated(r)
    \/ \E id \in created, effective \in BOOLEAN : BindByHand(r, id, effective)

Next ==
    \/ \E a \in Attempts : Worker(a) \/ Crash(a)
    \/ \E r \in Receipts : HoldPending(r) \/ RowLeaseExpires(r) \/ Recovery(r) \/ People(r)
    \/ \E c \in Requests : Remote(c) \/ ClaimLeaseExpires(c)

Spec == Init /\ [][Next]_vars

\* What a prompt sender with a ticket does: the timeouts of httpx end its POST.
EndPost(a) == Prompt /\ (Consume(a) \/ RefuseTicket(a) \/ \E r \in Replies : Answer(a, r))

\* The receipt job runs every 30 seconds (schedulers/registry.py) and time
\* passes; nothing else is asked of workers, and nothing of OKKI or of people.
Fairness ==
    /\ \A a \in Attempts : WF_vars(EndPost(a))
    /\ \A c \in Requests : WF_vars(ClaimLeaseExpires(c))
    /\ \A r \in Receipts : WF_vars(RowLeaseExpires(r)) /\ WF_vars(RecoverExpired(r))
                           /\ WF_vars(RecoverLate(r)) /\ WF_vars(VerifyDue(r))

LiveSpec == Spec /\ Fairness
-----------------------------------------------------------------------------
(* Properties *)

Documents(r) == {c \in created : c[1] = r}

\* One receipt never becomes two documents at OKKI, through worker crashes,
\* lost answers, the retry with a fresh token, lease recovery and whatever
\* people decide (sync_service: "Durable, at-most-one concurrent sender.
\* Unknown outcomes are never retried."), as long as no POST takes effect after
\* its sender's timeouts and margin (Prompt).
NoDuplicateReceipt == \A r \in Receipts : Cardinality(Documents(r)) <= 1

\* What frees an order or its balance for another sender is true: a request
\* attested as `not_sent', and every request of a voided receipt, created
\* nothing and never will.
NotSentIsTrue ==
    /\ \A c \in Requests : claims[c].state = "not_sent" => c \notin created \cup inflight
    /\ \A r \in Receipts : row[r].status = "voided" => \A c \in created \cup inflight : c[1] # r

\* What is not settled stays visible on its row. An unresolved original request is
\* never behind one that people or the scheduler take for unsent (pending, failed,
\* voided): while the invoice is active the row is still being sent or waits for a
\* decision. And two identities returned for one receipt, once the recovery pass
\* has seen them, keep it in manual reconciliation: neither a later read-back of
\* one of them nor a person's choice clears the conflict.
UnresolvedIsParked ==
    \A r \in Receipts :
        /\ authority[Invoice].state = "active" /\ OwnClaims(r) # {}
              => Active(r) /\ row[r].sync \in {"syncing", "uncertain"}
        /\ Cardinality(Returned(r)) > 1 /\ Late(r) = {}
              => row[r].sync = "uncertain" /\ row[r].kind = "blocked"

\* A row leaves `uncertain' only bound to a document, or with every request of
\* its own closed, no identity returned and the order read back without one.
UnknownIsDecided ==
    [][\A r \in Receipts : row[r].sync = "uncertain" /\ row'[r].sync # "uncertain"
          => \/ row'[r].id \in created
             \/ row[r].reviewed /\ Returned(r) = {} /\ OwnClaims(r)' = {}]_vars

\* A document is bound to one receipt, exists, and stays bound to it, whoever
\* accepts, recovers or chooses it meanwhile (the UNIQUE xiaoman_receipt_id never
\* refuses a concurrent acceptance); a bound receipt is never sendable again.
IdentityIsStable ==
    [][\A r \in Receipts :
          /\ row[r].id # None => row'[r].id = row[r].id /\ row'[r].sync \in {"synced", "uncertain"}
          /\ row'[r].id # None => row'[r].id \in created' /\ \A s \in Receipts \ {r} : row'[s].id # row'[r].id]_vars

\* Recovery leaves nothing behind. However a worker dies, its row does not stay in
\* `syncing'; and an identity that came back is never lost: it is bound, or the row
\* is blocked for a person, even if the worker that received it no longer held the
\* row. (A receipt voided meanwhile is not recovered.)
NothingIsStranded ==
    /\ \A r \in Receipts : row[r].sync = "syncing" ~> row[r].sync # "syncing"
    /\ \A a \in Attempts : attempt[a].remote # None ~>
          \/ row[a[1]].id = attempt[a].remote
          \/ row[a[1]].sync = "uncertain" /\ row[a[1]].kind = "blocked"
          \/ row[a[1]].status = "voided"

\* service.py: "Correcting data does not silently send; the explicit retry
\* action does."
CorrectionWaitsForRetry ==
    \A r \in Receipts : row[r].corrected => ~(row[r].sync = "syncing" /\ row[r].phase = "sending")
=============================================================================

-------------------------------- MODULE OrderPush --------------------------------
(***************************************************************************)
(* Pushing one invoice to OKKI as an order, and the linked synchronisation *)
(* that edits an order already pushed.                                     *)
(*   backend/app/invoice/order_sync_execution.py   the executor of a push  *)
(*   backend/app/invoice/order_push_facts.py       what it leaves behind   *)
(*   backend/app/invoice/sync_recovery.py, order_query_recovery.py         *)
(*   backend/app/invoice/linked_execution.py, linked_sync_service.py       *)
(*                                                                         *)
(* An attempt is one executor and the facts it leaves: START with its      *)
(* claim, an observation per POST, FINISH, and the REVIEWs of people.  The *)
(* content of invoice and order is a version; a POST that takes effect     *)
(* gives the order the version it carries.  Executors share a named lock   *)
(* of the database, lost with its connection: nothing here relies on it.   *)
(* An action is one transaction or one effect at OKKI; validation, stock,  *)
(* receipts and permissions, where they only refuse, are a free choice.    *)
(***************************************************************************)
EXTENDS Integers, FiniteSets

CONSTANTS MaxAttempts, MaxEdits, MaxTasks, MaxRuns,  \* bounds of a run
          MaxRetried, \* bound: the first so many attempts may meet a 401, and
                      \* then no linked task is created
          Prompts,   \* the values `prompt' may have in a behaviour; bound: where it
                     \* is FALSE the order is a new one, without 401 or linked task
          Original,  \* an order the invoice was bound to before
          Invoice, None

ASSUME BoundAssumption == {MaxAttempts, MaxEdits, MaxTasks, MaxRuns, MaxRetried} \subseteq Nat
ASSUME SettingAssumption == Prompts \subseteq BOOLEAN

VARIABLES invoice,  \* the row of ark_invoices
          push,     \* attempts: executor, START, observations, what settles them
          task,     \* ark_invoice_linked_syncs
          run,      \* the executions of a task, by run_token
          content,  \* per order, the version OKKI holds; None: no such order
          authority, claims, evidence, post, reply, inflight, created, prompt,
          outlived  \* auxiliary: an attempt's lease ran out before that of its POST

vars == <<invoice, push, task, run, content,
          authority, claims, evidence, post, reply, inflight, created, prompt, outlived>>

Attempts == 1 .. MaxAttempts
Rounds   == 1 .. 2
Requests == Attempts \X Rounds
Orders   == Requests \cup {Original}
Versions == 0 .. MaxEdits
Tasks    == 1 .. MaxTasks
Runs     == Tasks \X (1 .. MaxRuns)
ASSUME NoneAssumption == None \notin Orders \cup Versions \cup Runs

Sending == INSTANCE LegacySending
    WITH Removals <- {}, Identities <- Orders
sending == <<authority, claims, evidence, post, reply, inflight, created, prompt, outlived>>

Results == {"none", "accepted", "rejected", "auth_rejected", "unknown"}
Facts   == [Rounds -> Results]
NoFacts == [k \in Rounds |-> "none"]

Invoices == [order: Orders \cup {None},
             sync: {"not_synced", "sync_uncertain", "synced", "sync_failed"},
             version: Versions,
             attempt: 0 .. MaxAttempts,         \* sync_attempt; 0 is NULL
             leased: BOOLEAN,                   \* its lease_until > now
             task: 0 .. MaxTasks,               \* linked_sync_id; 0 is NULL
             readback: Orders \cup {None}]      \* an order just read and found equal
                                                \* to this row, unchanged since

Pushes == [stage: {"idle", "sending", "observed", "recorded", "over"},
           via: Runs \cup {None},               \* the linked run it serves
           version: Versions,
           target: Orders \cup {None},          \* original_order_id; None: action create
           round: 0 .. 2, seen: Results,
           facts: Facts,                        \* FACT, by round
           settled: SUBSET Facts]               \* fingerprints of a REVIEW or resolved FINISH

TaskRows == [status: {"none", "pending", "running", "uncertain", "failed", "manual", "done"},
             step: {"pending", "sending", "uncertain", "failed", "done"},  \* steps.order
             token: 0 .. MaxRuns, leased: BOOLEAN, after: Versions]

RunRows == [stage: {"idle", "claimed", "sending", "pushing", "returned", "judged",
                    "stepped", "error", "over"},
            result: {"none", "ok", "plain", "pending", "failed", "uncertain", "done"},
            before: SUBSET Requests]            \* _send_history

TypeOK ==
    /\ invoice \in Invoices
    /\ push \in [Attempts -> Pushes]
    /\ task \in [Tasks -> TaskRows]
    /\ run \in [Runs -> RunRows]
    /\ content \in [Orders -> Versions \cup {None}]
    /\ Sending!SendingTypeOK
    /\ outlived \in BOOLEAN

\* A new order that was never sent, or one whose earlier push was settled.
Init ==
    /\ \E order \in {None, Original} :
          /\ invoice = [order |-> order, sync |-> "not_synced", version |-> 0, attempt |-> 0,
                        leased |-> FALSE, task |-> 0, readback |-> None]
          /\ content = [o \in Orders |-> IF o = order THEN 0 ELSE None]
    /\ push = [a \in Attempts |->
          [stage |-> "idle", via |-> None, version |-> 0, target |-> None, round |-> 0,
           seen |-> "none", facts |-> NoFacts, settled |-> {}]]
    /\ task = [t \in Tasks |->
          [status |-> "none", step |-> "pending", token |-> 0, leased |-> FALSE, after |-> 0]]
    /\ run = [r \in Runs |-> [stage |-> "idle", result |-> "none", before |-> {}]]
    /\ Sending!SendingInit /\ prompt \in Prompts /\ (prompt \/ invoice.order = None)
    /\ outlived = FALSE

-----------------------------------------------------------------------------

GateOpen == Sending!Gates!RequireRoute(Invoice, "legacy", 1)
OpenClaims == Sending!Gates!OpenClaims(Invoice)
ClaimsOf(a) == {c \in Requests : c[1] = a /\ claims[c].state # "absent"}

Uncertain == invoice.sync = "sync_uncertain"
Started(a) == push[a].stage # "idle"
\* The order a request names: the one it edits, or the one it creates.
OrderOf(c) == IF push[c[1]].target = None THEN c ELSE push[c[1]].target
Accepted(a) == {OrderOf(<<a, k>>) : k \in {j \in Rounds : push[a].facts[j] = "accepted"}}

\* Faulty variant: a review settles an attempt once and for all.
UnresolvedOnce == {a \in Attempts : Started(a) /\ push[a].settled = {}}

\* facts.unresolved: nothing has settled the observations as they are now.
Unresolved == {a \in Attempts : Started(a) /\ push[a].facts \notin push[a].settled}

\* Every write of the row, its facts, claims or tasks outdates what was read of it.
Write(new) == invoice' = [new EXCEPT !.readback = None, !.leased = @ /\ new.attempt # 0]
Touch == Write(invoice)

\* ensure_idle and ensure_mutable
Mutable == ~Uncertain /\ GateOpen

OwnsRun(r) == LET t == r[1] IN
    /\ invoice.task = t
    /\ task[t].status = "running" /\ task[t].token = r[2] /\ task[t].leased

\* _phase: the transaction of a run that still owns its task and its version.
Phase(r) == OwnsRun(r) /\ invoice.version = task[r[1]].after /\ GateOpen

RunTo(r, stage, result) == run' = [run EXCEPT
    ![r].stage = stage, ![r].result = result, ![r].before = IF stage = "over" THEN {} ELSE @]
Over(a, settled) == push' = [push EXCEPT
    ![a].stage = "over", ![a].round = 0, ![a].seen = "none", ![a].settled = @ \cup settled]
\* orders.run returns or raises into the linked run that called it.
Back(a, stage, result) ==
    IF push[a].via = None THEN UNCHANGED run ELSE RunTo(push[a].via, stage, result)

-----------------------------------------------------------------------------
(* Employees: editing, and registering a linked synchronisation *)

Edited == [invoice EXCEPT !.version = @ + 1,
                          !.sync = IF @ = "synced" THEN "not_synced" ELSE @]

Edit ==
    /\ invoice.version < MaxEdits
    /\ invoice.task = 0 /\ Mutable
    /\ Write(Edited)
    /\ UNCHANGED <<push, task, run, content, sending>>

CreateTask(t) ==
    /\ task[t].status = "none" /\ \A u \in Tasks : u < t => task[u].status # "none"
    /\ invoice.version < MaxEdits
    /\ invoice.task = 0 /\ invoice.order # None /\ Mutable /\ prompt
    /\ \A a \in Attempts : push[a].seen # "auth_rejected" /\ push[a].facts[1] # "auth_rejected"
    /\ Write([Edited EXCEPT !.task = t])
    /\ task' = [task EXCEPT ![t].status = "pending", ![t].after = Edited.version]
    /\ UNCHANGED <<push, run, content, sending>>

-----------------------------------------------------------------------------
(* The executor of a push *)

\* prepare and claim: claim repeats every check of prepare on the rows it locks.
Claim(a, via) ==
    /\ ~Started(a) /\ \A b \in Attempts : b < a => Started(b)
    /\ IF via = None THEN invoice.task = 0 ELSE run[via].stage = "sending" /\ OwnsRun(via)
    /\ Mutable /\ Unresolved = {}
    /\ Sending!Grant(<<a, 1>>, 1)
    /\ Write([invoice EXCEPT !.sync = "sync_uncertain", !.attempt = a, !.leased = TRUE])
    /\ push' = [push EXCEPT ![a] = [@ EXCEPT !.stage = "sending", !.via = via, !.round = 1,
                                             !.version = invoice.version, !.target = invoice.order]]
    /\ IF via = None THEN UNCHANGED run ELSE RunTo(via, "pushing", "none")
    /\ UNCHANGED <<task, content, prompt, outlived>>

OnWire(a) == <<a, push[a].round>>
Sends(a) == push[a].stage = "sending"

Consume(a) ==
    /\ Sends(a) /\ Sending!Consume(OnWire(a))
    /\ UNCHANGED <<invoice, push, task, run, content, prompt, outlived>>

Answer(a, r) ==
    /\ Sends(a) /\ Sending!Answer(OnWire(a), r)
    /\ r = "unauthorized" => prompt /\ a <= MaxRetried /\ \A t \in Tasks : task[t].status = "none"
    /\ UNCHANGED <<invoice, push, task, run, content, prompt, outlived>>

Observed(a, result) ==
    push' = [push EXCEPT ![a].stage = "observed", ![a].seen = result]

\* A review of an uncertain order has captured the claims too.
ClaimTouched == IF Uncertain THEN Touch ELSE UNCHANGED invoice

\* Faulty variant: the answer is stored as it came.
RememberRaw(a) == LET r == reply[OnWire(a)] IN
    /\ Sends(a)
    /\ Sending!Remember(OnWire(a), IF r = "identity" THEN OrderOf(OnWire(a)) ELSE None)
    /\ Observed(a, r)
    /\ ClaimTouched
    /\ UNCHANGED <<task, run, content, prompt, outlived>>

\* send classifies what invoke returned or raised.
Remember(a) == LET r == reply[OnWire(a)] IN
    /\ Sends(a)
    /\ Sending!Remember(OnWire(a), IF r = "identity" THEN OrderOf(OnWire(a)) ELSE None)
    /\ Observed(a, CASE r = "identity" -> "accepted"
                     [] r = "unauthorized" -> "auth_rejected"
                     [] OTHER -> r)
    /\ ClaimTouched
    /\ UNCHANGED <<task, run, content, prompt, outlived>>

\* A TransitionError of invoke, before or after the POST, says nothing of it.
Lost(a) ==
    /\ Sends(a)
    /\ Sending!RefuseTicket(OnWire(a)) \/ Sending!Forget(OnWire(a))
    /\ Observed(a, "unknown")
    /\ UNCHANGED <<invoice, task, run, content, prompt, outlived>>

\* record_original: facts are committed whoever owns the execution by now.
Record(a) ==
    /\ push[a].stage = "observed"
    /\ push' = [push EXCEPT ![a].stage = "recorded",
                            ![a].facts[push[a].round] = push[a].seen]
    /\ Touch
    /\ UNCHANGED <<task, run, content, sending>>

\* Faulty variant: whoever finds a live lease is the executor it was given to.
OwnsByLease(a) == invoice.attempt # 0 /\ invoice.leased /\ GateOpen

\* owns: the captured row is unchanged, and with it the version and the pointer.
Owns(a) ==
    /\ invoice.attempt = a /\ invoice.leased
    /\ push[a].via # None => OwnsRun(push[a].via)
    /\ GateOpen

\* Faulty variant: the retry asks for the claim only.
RetryAnyhow(a) ==
    /\ push[a].stage = "recorded" /\ push[a].seen = "auth_rejected" /\ push[a].round = 1
    /\ GateOpen
    /\ Sending!Grant(<<a, 2>>, 1)
    /\ push' = [push EXCEPT ![a].stage = "sending", ![a].round = 2]
    /\ Touch
    /\ UNCHANGED <<task, run, content, prompt, outlived>>

\* A 401 only: a fresh credential and a second POST under the same lease.
AuthorizeRetry(a) ==
    /\ push[a].stage = "recorded" /\ push[a].seen = "auth_rejected" /\ push[a].round = 1
    /\ Owns(a)
    /\ Sending!Grant(<<a, 2>>, 1)
    /\ push' = [push EXCEPT ![a].stage = "sending", ![a].round = 2]
    /\ Touch
    /\ UNCHANGED <<task, run, content, prompt, outlived>>

Rejected(a) == push[a].seen \in {"rejected", "auth_rejected"}

\* persist and apply; `verified' is the outcome of reading the accepted lines.
\* A retry that was refused is persisted as the first answer and raises.
Apply(a, verified) == LET ok == push[a].seen = "accepted" /\ verified
                          settles == ok \/ Rejected(a) IN
    /\ push[a].stage = "recorded" /\ Owns(a)
    /\ verified => push[a].seen = "accepted"
    /\ Write(CASE ok -> [invoice EXCEPT !.order = OrderOf(OnWire(a)), !.sync = "synced", !.attempt = 0]
               [] push[a].seen = "accepted" /\ ~verified -> [invoice EXCEPT !.order = OrderOf(OnWire(a))]
               [] Rejected(a) -> [invoice EXCEPT !.sync = "sync_failed", !.attempt = 0]
               [] OTHER -> invoice)
    /\ Over(a, IF settles THEN {push[a].facts} ELSE {})
    /\ Back(a, "returned", IF ok THEN "ok" ELSE IF push[a].seen = "accepted" THEN "pending" ELSE "plain")
    /\ UNCHANGED <<task, content, sending>>

\* execution_changed: the facts stay unresolved, the row is left to its owner.
ApplyRefused(a) ==
    /\ push[a].stage = "recorded" /\ ~Owns(a) /\ GateOpen
    /\ Over(a, {})
    /\ Back(a, "returned", "pending")
    /\ UNCHANGED <<invoice, task, content, sending>>

\* Facts or outcome cannot be committed, or the employee lost the permission.
Raise(a) ==
    /\ push[a].stage \in {"observed", "recorded"}
    /\ Over(a, {})
    /\ Back(a, "error", "none")
    /\ UNCHANGED <<invoice, task, content, sending>>

\* The process dies, and with it the linked run it may serve.
Die(a) ==
    /\ push[a].stage \in {"sending", "observed", "recorded"}
    /\ Over(a, {})
    /\ Back(a, "over", "none")
    /\ IF Sends(a) THEN Sending!Die(OnWire(a)) ELSE UNCHANGED sending
    /\ UNCHANGED <<invoice, task, content, prompt, outlived>>

-----------------------------------------------------------------------------
(* OKKI and the clock *)

TakeEffect(c) ==
    /\ Sending!Create(c)
    /\ content' = [content EXCEPT ![OrderOf(c)] = push[c[1]].version]
    /\ UNCHANGED <<invoice, push, task, run, prompt, outlived>>

ClaimLeaseExpires(c) ==
    /\ Sending!ClaimLeaseExpires(c)
    /\ UNCHANGED <<invoice, push, task, run, content, prompt, outlived>>

\* Five minutes from the claim of the attempt, whose first POST has three; the
\* second one starts its own three minutes at any time within the five, and nothing
\* makes it be over by then.
LeaseExpires == LET a == invoice.attempt IN
    /\ a # 0 /\ invoice.leased
    /\ ~claims[<<a, 1>>].leased \/ <<a, 1>> \notin OpenClaims
    /\ invoice' = [invoice EXCEPT !.leased = FALSE]
    /\ outlived' = (outlived \/ \E c \in ClaimsOf(a) \cap OpenClaims : claims[c].leased)
    /\ UNCHANGED <<push, task, run, content,
                   authority, claims, evidence, post, reply, inflight, created, prompt>>

RunLeaseExpires(t) ==
    /\ task[t].status = "running" /\ task[t].leased
    /\ task' = [task EXCEPT ![t].leased = FALSE]
    /\ UNCHANGED <<invoice, push, run, content, sending>>

-----------------------------------------------------------------------------
(* Recovery of an uncertain order *)

\* require_state: a review waits for the attempt's lease and its linked run.
UnderReview == LET t == invoice.task IN
    /\ Uncertain
    /\ invoice.attempt # 0 => ~invoice.leased
    /\ t # 0 => task[t].status = "uncertain" /\ ~task[t].leased
    /\ GateOpen
    /\ OpenClaims \subseteq ClaimsOf(invoice.attempt)

\* late_context: a fact that came after the review which had settled its attempt.
LateFact(a, o) ==
    /\ invoice.task = 0 /\ invoice.attempt = 0
    /\ invoice.sync \in {"not_synced", "synced"}
    /\ Unresolved = {a} /\ Accepted(a) = {o}
    /\ Mutable

\* A GET outside any transaction finds what the invoice says under its identity.
ReadBack(o) ==
    /\ content[o] = invoice.version
    /\ invoice.readback # o
    /\ IF invoice.order = None THEN o \in Requests /\ invoice.task = 0 ELSE o = invoice.order
    /\ UnderReview \/ \E a \in Attempts : LateFact(a, o)
    /\ invoice' = [invoice EXCEPT !.readback = o]
    /\ UNCHANGED <<push, task, run, content, sending>>

Settled(a) == push' = [push EXCEPT ![a].settled = @ \cup {push[a].facts}]
Ready == [invoice EXCEPT !.sync = "not_synced", !.attempt = 0]

\* Faulty variant: the review settles the facts and leaves the claims as they are.
NamesOnly(a, o) ==
    /\ Accepted(a) \subseteq {o}
    /\ \A c \in ClaimsOf(a) : claims[c].state \notin {"failed", "not_sent"} =>
          claims[c].externalId \in {None, o}
    /\ OpenClaims \subseteq ClaimsOf(a)
    /\ UNCHANGED sending

\* check_review and settle_original_claims, for a review that names an order.
Names(a, o) ==
    /\ Accepted(a) \subseteq {o}
    /\ \A c \in ClaimsOf(a) : claims[c].state \notin {"failed", "not_sent"} =>
          claims[c].externalId \in {None, o}
    /\ OpenClaims \subseteq ClaimsOf(a)
    /\ Sending!SettleOpen(OpenClaims, o)

\* confirm_not_created: the administrator looked in OKKI and found no order.
ConfirmNotCreated(a) ==
    /\ invoice.attempt = a /\ UnderReview
    /\ invoice.order = None /\ invoice.task = 0
    /\ Accepted(a) = {}
    /\ \A c \in ClaimsOf(a) : claims[c].state # "succeeded" /\ claims[c].externalId = None
    /\ \A o \in Requests : content[o] = None
    /\ Sending!ReleaseUnsent(OpenClaims)
    /\ Write(Ready) /\ Settled(a)
    /\ UNCHANGED <<task, run, content, prompt, outlived>>

BindOrder(a) == LET o == invoice.readback IN
    /\ invoice.attempt = a /\ UnderReview
    /\ invoice.order = None /\ invoice.task = 0 /\ o # None
    /\ Names(a, o)
    /\ Write([Ready EXCEPT !.order = o]) /\ Settled(a)
    /\ UNCHANGED <<task, run, content, prompt, outlived>>

ConfirmExisting(a) == LET o == invoice.readback IN
    /\ invoice.attempt = a /\ UnderReview
    /\ invoice.order # None /\ o = invoice.order
    /\ Names(a, o)
    /\ Write(Ready) /\ Settled(a)
    /\ UNCHANGED <<task, run, content, prompt, outlived>>

\* resolve_late
ResolveLate(a) == LET o == invoice.readback IN
    /\ LateFact(a, o) /\ o # None
    /\ invoice.order \in {None, o}
    /\ Names(a, o)
    /\ Write(IF invoice.order = None THEN [Ready EXCEPT !.order = o] ELSE invoice)
    /\ Settled(a)
    /\ UNCHANGED <<task, run, content, prompt, outlived>>

\* order_query_recovery: a first order whose answer was lost, found by its name.
QueryBind(a) == LET o == invoice.readback IN
    /\ invoice.attempt = a /\ Uncertain /\ ~invoice.leased /\ GateOpen
    /\ invoice.order = None /\ invoice.task = 0 /\ o # None
    /\ Unresolved = {a} /\ push[a].version = invoice.version
    /\ \E k \in Rounds : /\ push[a].facts[k] = "unknown"
                         /\ \A j \in Rounds : j > k => push[a].facts[j] = "none"
    /\ Names(a, o)
    /\ Write([invoice EXCEPT !.order = o, !.sync = "synced", !.attempt = 0]) /\ Settled(a)
    /\ UNCHANGED <<task, run, content, prompt, outlived>>

-----------------------------------------------------------------------------
(* linked_execution: one run of a linked synchronisation *)

TaskTo(t, status, step) == task' = [task EXCEPT
    ![t].status = status, ![t].step = step, ![t].token = 0, ![t].leased = FALSE]

\* Done tasks may be run again to read outbound and receipts once more.
Runnable(t) ==
    /\ invoice.version = task[t].after
    /\ \/ task[t].status \in {"pending", "failed"} /\ invoice.task = t
       \/ task[t].status \in {"done", "manual"} /\ invoice.task = 0 /\ task[t].step = "done"
    /\ GateOpen

StartRun(r) == LET t == r[1] IN
    /\ run[r].stage = "idle" /\ \A q \in Runs : q[1] = t /\ q[2] < r[2] => run[q].stage # "idle"
    /\ Runnable(t)
    /\ task' = [task EXCEPT ![t].status = "running", ![t].token = r[2], ![t].leased = TRUE]
    /\ Write([invoice EXCEPT !.task = t])
    /\ run' = [run EXCEPT ![r] = [stage |-> IF task[t].step = "done" THEN "stepped" ELSE "claimed",
                                  result |-> IF task[t].step = "done" THEN "done" ELSE "none",
                                  before |-> {c \in Requests : claims[c].state # "absent"}]]
    /\ UNCHANGED <<push, content, sending>>

StepSending(r) ==
    /\ run[r].stage = "claimed" /\ Phase(r)
    /\ task' = [task EXCEPT ![r[1]].step = "sending"]
    /\ RunTo(r, "sending", "none") /\ Touch
    /\ UNCHANGED <<push, content, sending>>

\* A 409 before anything was claimed.
PushRefused(r) ==
    /\ run[r].stage = "sending"
    /\ RunTo(r, "returned", "plain")
    /\ UNCHANGED <<invoice, push, task, content, sending>>

\* Faulty variant: a push that did not succeed has failed.
JudgeFailed(r) ==
    /\ run[r].stage = "returned" /\ Phase(r)
    /\ RunTo(r, "judged", IF run[r].result = "ok" THEN "done" ELSE "failed")
    /\ UNCHANGED <<invoice, push, task, content, sending>>

\* Faulty variant: nothing is left open, so the order must have been written.
JudgeSettled(r) ==
    /\ run[r].stage = "returned" /\ Phase(r)
    /\ RunTo(r, "judged", CASE run[r].result = "pending" \/ Uncertain \/ Unresolved # {} -> "uncertain"
                            [] OTHER -> "done")
    /\ UNCHANGED <<invoice, push, task, content, sending>>

\* The verdict is read in one transaction and written in the next.
Judge(r) ==
    /\ run[r].stage = "returned" /\ Phase(r)
    /\ RunTo(r, "judged", IF run[r].result = "ok" THEN "done"
                          ELSE IF run[r].result = "pending" \/ Uncertain \/ Unresolved # {}
                          THEN "uncertain" ELSE "failed")
    /\ UNCHANGED <<invoice, push, task, content, sending>>

Step(r) ==
    /\ run[r].stage = "judged" /\ Phase(r)
    /\ task' = [task EXCEPT ![r[1]].step = run[r].result]
    /\ RunTo(r, "stepped", run[r].result) /\ Touch
    /\ UNCHANGED <<push, content, sending>>

\* Faulty variant: a task that failed gives the invoice back too.
FinishReleases(r, status) ==
    /\ run[r].stage = "stepped" /\ Phase(r)
    /\ IF run[r].result = "done" THEN status \in {"done", "manual"} ELSE status = run[r].result
    /\ TaskTo(r[1], status, task[r[1]].step)
    /\ Write([invoice EXCEPT !.task = IF status = "uncertain" THEN @ ELSE 0])
    /\ RunTo(r, "over", "none")
    /\ UNCHANGED <<push, content, sending>>

\* _finish; outbound and receipts, which are only read, decide done or manual.
Finish(r, status) ==
    /\ run[r].stage = "stepped" /\ Phase(r)
    /\ IF run[r].result = "done" THEN status \in {"done", "manual"} ELSE status = run[r].result
    /\ TaskTo(r[1], status, task[r[1]].step)
    /\ Write([invoice EXCEPT !.task = IF status \in {"done", "manual"} THEN 0 ELSE @])
    /\ RunTo(r, "over", "none")
    /\ UNCHANGED <<push, content, sending>>

\* Any exception around the push: a lost phase, a 503, a row that changed.  At
\* other stages the handler below changes nothing, as if the run had died.
RunFails(r) ==
    /\ run[r].stage \in {"sending", "returned", "judged"}
    /\ RunTo(r, "error", "none")
    /\ UNCHANGED <<invoice, push, task, content, sending>>

RunDies(r) ==
    /\ run[r].stage \in {"claimed", "sending", "returned", "judged", "stepped", "error"}
    /\ RunTo(r, "over", "none")
    /\ UNCHANGED <<invoice, push, task, content, sending>>

Unsent(r) ==
    /\ invoice.sync = "not_synced" /\ invoice.attempt = 0
    /\ {c \in Requests : claims[c].state # "absent"} = run[r].before
    /\ Unresolved = {} /\ \A c \in OpenClaims : ~claims[c].holdsKey

\* _finish_unsent_failure
FinishUnsent(r) == LET verdict == IF Unsent(r) THEN "failed" ELSE "uncertain" IN
    /\ run[r].stage = "error"
    /\ IF Phase(r) /\ task[r[1]].step = "sending"
       THEN TaskTo(r[1], verdict, verdict) /\ Touch
       ELSE UNCHANGED <<task, invoice>>
    /\ RunTo(r, "over", "none")
    /\ UNCHANGED <<push, content, sending>>

\* The next call to run finds the lease of its predecessor over.
Expire(t) ==
    /\ task[t].status = "running" /\ ~task[t].leased
    /\ task' = [task EXCEPT ![t].status = "uncertain"] /\ Touch
    /\ UNCHANGED <<push, run, content, sending>>

\* The stock executor is busy: the intent is queued, unless something is open.
DeferInventory(t) == LET open == Uncertain \/ Unresolved # {} \/ (\E c \in OpenClaims : claims[c].holdsKey) IN
    /\ Runnable(t)
    /\ TaskTo(t, IF open THEN "uncertain" ELSE "pending",
                 IF task[t].step = "done" THEN "done" ELSE IF open THEN "uncertain" ELSE "pending")
    /\ Write([invoice EXCEPT !.task = t])
    /\ UNCHANGED <<push, run, content, sending>>

\* The queue gives up a pending intent its owner may no longer run.
RejectPending(t) ==
    /\ task[t].status = "pending" /\ invoice.task = t
    /\ task' = [task EXCEPT ![t].status = "failed",
                            ![t].step = IF @ = "done" THEN @ ELSE "failed"]
    /\ Touch
    /\ UNCHANGED <<push, run, content, sending>>

CloseFailed(t) ==
    /\ task[t].status = "failed" /\ invoice.task = t
    /\ task' = [task EXCEPT ![t].status = "manual"]
    /\ Write([invoice EXCEPT !.task = 0])
    /\ UNCHANGED <<push, run, content, sending>>

\* An administrator ends an uncertain task; the order keeps its own protection.
ResolveManually(t) ==
    /\ task[t].status \in {"running", "uncertain"} /\ ~task[t].leased /\ invoice.task = t
    /\ TaskTo(t, "manual", task[t].step)
    /\ Write([invoice EXCEPT !.task = 0])
    /\ UNCHANGED <<push, run, content, sending>>

-----------------------------------------------------------------------------

Executor(a) ==
    \/ \E via \in Runs \cup {None} : Claim(a, via)
    \/ Consume(a) \/ Remember(a) \/ Lost(a) \/ Record(a)
    \/ \E r \in {"identity", "unauthorized", "rejected", "unknown"} : Answer(a, r)
    \/ AuthorizeRetry(a) \/ ApplyRefused(a) \/ Raise(a) \/ Die(a)
    \/ \E verified \in BOOLEAN : Apply(a, verified)

Review(a) ==
    \/ ConfirmNotCreated(a) \/ BindOrder(a) \/ ConfirmExisting(a)
    \/ ResolveLate(a) \/ QueryBind(a)

LinkedRun(r) ==
    \/ StartRun(r) \/ StepSending(r) \/ PushRefused(r) \/ Judge(r) \/ Step(r)
    \/ \E status \in {"done", "manual", "failed", "uncertain"} : Finish(r, status)
    \/ RunFails(r) \/ RunDies(r) \/ FinishUnsent(r)

TaskChange(t) ==
    \/ CreateTask(t) \/ RunLeaseExpires(t) \/ Expire(t) \/ DeferInventory(t)
    \/ RejectPending(t) \/ CloseFailed(t) \/ ResolveManually(t)

Next ==
    \/ Edit \/ LeaseExpires
    \/ \E a \in Attempts : Executor(a) \/ Review(a)
    \/ \E c \in Requests : TakeEffect(c) \/ ClaimLeaseExpires(c)
    \/ \E o \in Orders : ReadBack(o)
    \/ \E r \in Runs : LinkedRun(r)
    \/ \E t \in Tasks : TaskChange(t)

Spec == Init /\ [][Next]_vars

-----------------------------------------------------------------------------
(* Properties *)

\* OKKI never holds two orders for one invoice, whichever executor stalls where
\* and whoever recovers meanwhile (the reason for owns, facts.unresolved and the
\* claims; assumes that POSTs are prompt and administrators read OKKI).
NoDuplicateOrder == prompt => Cardinality({o \in Orders : content[o] # None}) <= 1

\* An invoice shown as synced is what OKKI holds: no stale executor marked it, no
\* older POST has overwritten it or still can.  POSTs are assumed prompt, and one
\* course of events that the code allows is excepted: a second POST, sent within the
\* attempt's lease, outlives that lease (it may be sent at the lease's last moment,
\* order_sync_execution.py:127 and :153), so that a review or another push may be
\* done with the order before the old content arrives.
SyncedIsTrue ==
    prompt /\ ~outlived /\ invoice.sync = "synced" =>
        /\ invoice.order # None
        /\ content[invoice.order] = invoice.version
        /\ \A c \in inflight : push[c[1]].version = invoice.version

\* Nothing that may have reached OKKI is forgotten: an order it acknowledged is
\* bound, or the invoice is blocked until somebody has looked at that
\* acknowledgement, also when it came after a review that had found no order; and a
\* sending claim that is open never hides behind an invoice that looks settled.
NothingIsForgotten ==
    /\ \A a \in Attempts : \A o \in Accepted(a) : o = invoice.order \/ Uncertain \/ a \in Unresolved
    /\ \A c \in OpenClaims : Uncertain \/ c[1] \in Unresolved \/ authority[Invoice].state = "frozen"

\* What a linked task says is true of OKKI, though its run reads the verdict in one
\* transaction and writes it in the next: a failed one, which may be run or closed
\* at will, changed nothing and will not; the order step is done only when OKKI
\* took this very version; and an unfinished task, no other, owns the invoice.
TaskIsTruthful == \A t \in Tasks :
    /\ task[t].status = "failed" /\ task[t].step # "done" =>
          \A c \in created \cup inflight : push[c[1]].via = None \/ push[c[1]].via[1] # t
    /\ task[t].step = "done" => \E c \in created : push[c[1]].version = task[t].after
    /\ task[t].status \in {"pending", "running", "uncertain", "failed"} <=> invoice.task = t
=============================================================================

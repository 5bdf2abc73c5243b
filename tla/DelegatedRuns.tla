------------------------------- MODULE DelegatedRuns -------------------------------
(***************************************************************************)
(* Preparation work that a person delegates to an agent: a delegation of a *)
(* work item launches one governed run per generation, workers outside the *)
(* process claim runs under a lease, and people, sources and ownership     *)
(* moves may stop the delegation at any moment.                            *)
(*   backend/app/agent_runtime/worker_service.py    claims and reports     *)
(*   backend/app/agent_runtime/service.py           create_run, cancel_run *)
(*   backend/app/customer/delegation_service.py, delegation_guard_service  *)
(*   backend/app/customer/work_item_service.py, work_item_source_service,  *)
(*   ownership_service.py                           what stops delegations *)
(*                                                                         *)
(* Every action is one transaction; it holds the locks of account, item,   *)
(* delegation and run in this order.  A worker is the lease token of one   *)
(* claim and may report at any time, also when the lease is long lost.     *)
(* The delegations are of one item and one person.                         *)
(***************************************************************************)
EXTENDS Naturals, FiniteSets

CONSTANTS Delegations,
          MaxGeneration,  \* bound: generations of a delegation
          MaxAttempts,    \* AgentRun.max_attempts
          MaxRevision     \* bound: source revisions of the item

ASSUME BoundAssumption ==
    /\ MaxGeneration \in Nat \ {0}
    /\ MaxAttempts \in Nat \ {0}
    /\ MaxRevision \in Nat \ {0}

VARIABLES item,        \* the work item
          drift,       \* what its sources did since they were last reconciled
          authorised,  \* the person's permissions, assignment and the profile allow it
          delegation,  \* ark_customer_delegations
          run          \* ark_agent_runs; <<d, g>> has idempotency key d-g

vars == <<item, drift, authorised, delegation, run>>

Runs == Delegations \X (1 .. MaxGeneration)

Live == {"queued", "leased", "running"}
Stopped == {"completed", "failed", "cancelled"}  \* `ambiguous' is neither

Items == [state: {"open", "paused", "blocked", "closed"},
          revision: 1 .. MaxRevision, valid: BOOLEAN]
DelegationRows == [status: {"none", "active", "waiting", "needs_decision",
                            "paused", "blocked", "cancelled"},
                   generation: 1 .. MaxGeneration,
                   last: 0 .. MaxGeneration,   \* last_run_id; 0 is NULL
                   byItem: BOOLEAN,            \* pause_origin is `item'
                   input: 1 .. MaxRevision,    \* input_revision
                   due: BOOLEAN]               \* review_at has come
RunRows == [status: Live \cup Stopped \cup {"absent", "ambiguous"},
            cancel: BOOLEAN,             \* cancel_requested
            attempt: 0 .. MaxAttempts,   \* attempt_no, the token of its lease
            lease: {"none", "fresh", "old", "over"},
            overdue: BOOLEAN,            \* started_at is past the timeout
            input: 1 .. MaxRevision,     \* work_item_input_revision
            outdated: BOOLEAN,           \* the customer's facts or profile moved on
            artifact: {"none", "draft", "accepted", "rejected"}]

\* A run has a lease while it is leased or running; one that was cancelled at its
\* own request keeps the lease its worker acknowledged the stop under.
LeaseFits(row) ==
    /\ row.status \in {"leased", "running"} => row.lease # "none"
    /\ row.lease # "none" =>
          row.status \in {"leased", "running"} \/ (row.status = "cancelled" /\ row.cancel)

TypeOK ==
    /\ item \in Items
    /\ drift \in {"none", "update", "invalid"}
    /\ authorised \in BOOLEAN
    /\ delegation \in [Delegations -> DelegationRows]
    /\ run \in [Runs -> RunRows]
    /\ \A r \in Runs : LeaseFits(run[r])

Init ==
    /\ item = [state |-> "open", revision |-> 1, valid |-> TRUE]
    /\ drift = "none"
    /\ authorised = TRUE
    /\ delegation = [d \in Delegations |->
          [status |-> "none", generation |-> 1, last |-> 0, byItem |-> FALSE,
           input |-> 1, due |-> FALSE]]
    /\ run = [r \in Runs |->
          [status |-> "absent", cancel |-> FALSE, attempt |-> 0, lease |-> "none",
           overdue |-> FALSE, input |-> 1, outdated |-> FALSE, artifact |-> "none"]]

-----------------------------------------------------------------------------
(* A handler composes helpers, each of which maps the rows a transaction   *)
(* has locked to the rows it leaves.                                       *)

world == [item |-> item, drift |-> drift, delegation |-> delegation, run |-> run]

\* The bound on generations leaves room for one that the sources may yet cause.
Reserve(w) == IF w.drift = "invalid" THEN 1 ELSE 0

Becomes(w) ==
    /\ \A d \in Delegations : w.delegation[d].generation + Reserve(w) <= MaxGeneration
    /\ item' = w.item
    /\ drift' = w.drift
    /\ delegation' = w.delegation
    /\ run' = w.run
    /\ UNCHANGED authorised

\* Faulty variant: a run that ends keeps its lease, not only one that acknowledged a stop.
EndedLeased(row, status) == [row EXCEPT !.status = status, !.overdue = FALSE]
Ended(row, status) == [row EXCEPT !.status = status, !.lease = "none", !.overdue = FALSE]
Asked(row) == IF row.status \in Live THEN [row EXCEPT !.cancel = TRUE] ELSE row

\* The last runs of delegations ds are asked to stop.
AskLast(w, ds) ==
    [r \in Runs |-> IF r[1] \in ds /\ w.delegation[r[1]].last = r[2]
                    THEN Asked(w.run[r]) ELSE w.run[r]]

\* Faulty variant: freezing leaves the runs to find out by themselves.
FrozenQuietly(w, terminal) ==
    [w EXCEPT !.delegation = [d \in Delegations |->
        IF \/ w.delegation[d].status \in {"none", "cancelled"}
           \/ ~terminal /\ w.delegation[d].status = "paused"
        THEN w.delegation[d]
        ELSE [w.delegation[d] EXCEPT !.status = IF terminal THEN "cancelled" ELSE "paused",
                                     !.byItem = TRUE, !.generation = @ + 1]]]

\* freeze_delegations
Frozen(w, terminal) ==
    LET hit == {d \in Delegations :
                  /\ w.delegation[d].status \notin {"none", "cancelled"}
                  /\ terminal \/ w.delegation[d].status # "paused"}
    IN [w EXCEPT
          !.delegation = [d \in Delegations |->
              IF d \in hit
              THEN [w.delegation[d] EXCEPT !.status = IF terminal THEN "cancelled" ELSE "paused",
                                           !.byItem = TRUE, !.generation = @ + 1]
              ELSE w.delegation[d]],
          !.run = AskLast(w, hit)]

\* Delegations ds wait for a fresh decision.
Thawed(w, ds) ==
    [w EXCEPT !.delegation = [d \in Delegations |->
        IF d \in ds THEN [w.delegation[d] EXCEPT !.status = "blocked"] ELSE w.delegation[d]]]

PausedByItem(w) == {d \in Delegations : w.delegation[d].status = "paused" /\ w.delegation[d].byItem}

\* reconcile_item_inputs. The session does not flush of itself: what the item had
\* paused is looked up as stored, so delegations frozen here and now stay paused.
Reconciled(w) ==
    LET seen == [w EXCEPT !.drift = "none", !.item.revision = @ + 1]
        lost == [seen EXCEPT !.item.valid = FALSE,
                             !.item.state = IF @ = "open" THEN "blocked" ELSE @]
    IN CASE w.drift = "none" -> w
         [] w.drift = "update" -> seen
         [] w.drift = "invalid" -> Thawed(Frozen(lost, FALSE), PausedByItem(w))

\* guard_run, after its reconciliation
Guarded(w, r, states) ==
    LET d == w.delegation[r[1]]
    IN /\ authorised
       /\ d.status \in states
       /\ d.last = r[2] /\ d.generation = r[2]
       /\ w.item.state = "open" /\ w.item.valid
       /\ d.input = w.item.revision /\ w.run[r].input = w.item.revision
       /\ ~w.run[r].cancel /\ ~w.run[r].outdated

\* Faulty variant: an uncertain outcome is not recorded on the delegation.
StopRecordedIfKnown(w, S) ==
    [w EXCEPT !.delegation = [d \in Delegations |->
        IF /\ w.delegation[d].status = "active"
           /\ \E r \in S : r = <<d, w.delegation[d].last>> /\ w.run[r].status \in {"failed", "cancelled"}
        THEN [w.delegation[d] EXCEPT !.status = "blocked"]
        ELSE w.delegation[d]]]

\* record_run_stop, for every run of S that has stopped
StopRecorded(w, S) ==
    [w EXCEPT !.delegation = [d \in Delegations |->
        IF /\ w.delegation[d].status = "active"
           /\ \E r \in S : /\ r = <<d, w.delegation[d].last>>
                           /\ r[2] = w.delegation[d].generation
                           /\ w.run[r].status \in {"failed", "cancelled", "ambiguous"}
        THEN [w.delegation[d] EXCEPT !.status = "blocked"]
        ELSE w.delegation[d]]]

End(w, r, status) == StopRecorded([w EXCEPT !.run[r] = Ended(@, status)], {r})

\* finish_delegation
HandedOver(w, d, artifact) ==
    [w EXCEPT !.delegation[d].status = IF artifact THEN "needs_decision" ELSE "waiting",
              !.delegation[d].due = FALSE]

-----------------------------------------------------------------------------
(* Launching.                                                              *)

\* Faulty variant: an uncertain outcome counts as stopped.
PreviousNotLive(w, d) ==
    w.delegation[d].last # 0 => w.run[<<d, w.delegation[d].last>>].status \notin Live

\* _require_previous_stopped
PreviousStopped(w, d) ==
    w.delegation[d].last # 0 => w.run[<<d, w.delegation[d].last>>].status \in Stopped

Executable(w) == authorised /\ w.item.state = "open" /\ w.item.valid

\* create_run and what _launch writes after it
Launched(w, d) ==
    LET g == w.delegation[d].generation
    IN [w EXCEPT
          !.run[<<d, g>>] = [@ EXCEPT !.status = "queued", !.input = w.item.revision],
          !.delegation[d] = [@ EXCEPT !.last = g, !.input = w.item.revision, !.status = "active",
                                      !.byItem = FALSE, !.due = FALSE]]

\* What _launch may end in; a refusal is an exception.
LaunchEnds(w, d) ==
    {[w EXCEPT !.delegation[d].status = "blocked"]}   \* not ready
    \cup (IF Executable(Reconciled(w)) THEN {Launched(Reconciled(w), d)} ELSE {})

\* create_delegation
CreateDelegation(d) ==
    /\ authorised
    /\ delegation[d].status = "none"
    /\ \A e \in Delegations : delegation[e].status \in {"none", "cancelled"}
    /\ item.state = "open"
    /\ \E w \in LaunchEnds(world, d) : Becomes(w)

Bumped(w, d) == [w EXCEPT !.delegation[d].generation = @ + 1]

\* transition_delegation, resume
Resume(d) ==
    /\ authorised
    /\ delegation[d].status \in {"paused", "blocked"}
    /\ PreviousStopped(world, d)
    /\ delegation[d].generation < MaxGeneration
    /\ \E w \in LaunchEnds(Bumped(world, d), d) : Becomes(w)

\* transition_delegation, pause and cancel
Stop(d, status) ==
    /\ delegation[d].status \notin {"none", "cancelled"}
    /\ status = "paused" => delegation[d].status \notin {"paused", "blocked"}
    /\ Becomes([Bumped(world, d) EXCEPT !.delegation[d] = [@ EXCEPT !.status = status, !.byItem = FALSE],
                                        !.run = AskLast(world, {d})])

\* Faulty variant: only new input wakes a delegation, not its review.
EnqueueOnInput(d) ==
    /\ delegation[d].status = "waiting" /\ delegation[d].input # item.revision
    /\ Becomes([world EXCEPT !.delegation[d].status = "blocked"])

\* enqueue_waiting_delegations
EnqueueWaiting(d) ==
    /\ delegation[d].status = "waiting"
    /\ delegation[d].due \/ delegation[d].input # item.revision
    /\ \/ /\ ~authorised \/ ~PreviousStopped(world, d)
          /\ Becomes([world EXCEPT !.delegation[d].status = "blocked"])
       \/ /\ authorised /\ PreviousStopped(world, d)
          /\ delegation[d].generation < MaxGeneration
          /\ \/ \E w \in LaunchEnds(Bumped(world, d), d) : Becomes(w)
             \/ Becomes([Reconciled(Bumped(world, d)) EXCEPT !.delegation[d].status = "blocked"])

\* Time reaches review_at.
ReviewDue(d) ==
    /\ delegation[d].status = "waiting" /\ ~delegation[d].due
    /\ Becomes([world EXCEPT !.delegation[d].due = TRUE])

-----------------------------------------------------------------------------
(* The control plane.                                                      *)

Expired == {r \in Runs : run[r].status \in {"leased", "running"} /\ run[r].lease = "over"}

\* What reconcile_expired_runs makes of one row.
AfterExpiry(row) ==
    CASE row.status = "running" -> Ended(row, "ambiguous")
      [] row.status = "leased" /\ row.cancel -> Ended(row, "cancelled")
      [] row.status = "leased" /\ ~row.cancel /\ row.attempt < MaxAttempts -> Ended(row, "queued")
      [] OTHER -> Ended(row, "failed")

\* reconcile_expired_runs; rows that another transaction holds are skipped
ExpiryReconciled(S) ==
    StopRecorded([world EXCEPT !.run = [r \in Runs |-> IF r \in S THEN AfterExpiry(run[r]) ELSE run[r]]], S)

\* reconcile_expired_runs_job
ReconcileExpired == \E S \in SUBSET Expired \ {{}} : Becomes(ExpiryReconciled(S))

\* claim_run: it reconciles first, and a run that fails the guard is cancelled.
Claim(r) ==
    \E S \in SUBSET Expired :
        LET before == ExpiryReconciled(S)
            w == IF authorised THEN Reconciled(before) ELSE before
        IN /\ before.run[r].status = "queued" /\ before.run[r].attempt < MaxAttempts
           /\ IF Guarded(w, r, {"active"})
              THEN Becomes([w EXCEPT !.run[r] =
                       [@ EXCEPT !.status = "leased", !.attempt = w.run[r].attempt + 1,
                                 !.lease = "fresh"]])
              ELSE Becomes(End([w EXCEPT !.run[r].cancel = TRUE], r, "cancelled"))

\* The lease of a run runs down unless it is renewed, and its time limit is reached.
LeaseAges(r) ==
    /\ run[r].lease \in {"fresh", "old"}
    /\ Becomes([world EXCEPT !.run[r].lease = IF @ = "fresh" THEN "old" ELSE "over"])

TimeLimit(r) ==
    /\ run[r].status = "running" /\ ~run[r].overdue
    /\ Becomes([world EXCEPT !.run[r].overdue = TRUE])

-----------------------------------------------------------------------------
(* Workers.  k is the lease token a worker presents.                       *)

\* _leased_run
Holds(r, k) ==
    /\ run[r].status \in {"leased", "running"}
    /\ run[r].attempt = k
    /\ run[r].lease \in {"fresh", "old"}

\* The guard runs unless the run is asked to stop; its refusal rolls back.
Admitted(r, k) == Holds(r, k) /\ (run[r].cancel \/ Guarded(Reconciled(world), r, {"active"}))

\* Faulty variant: a run that is asked to stop renews its lease.
RenewAlways(r, k) ==
    /\ Admitted(r, k) /\ ~run[r].overdue
    /\ Becomes([world EXCEPT !.run[r].lease = "fresh"])

\* Faulty variant: the time limit is left to complete_run.
RenewOverdue(r, k) ==
    /\ Admitted(r, k) /\ ~run[r].cancel
    /\ Becomes([world EXCEPT !.run[r].lease = "fresh"])

\* heartbeat, renewing
Renew(r, k) ==
    /\ Admitted(r, k) /\ ~run[r].cancel /\ ~run[r].overdue
    /\ Becomes([world EXCEPT !.run[r].lease = "fresh"])

\* heartbeat, over the limit of steps or time: _fail_runtime_limit
LimitExceeded(r, k) ==
    /\ Admitted(r, k) /\ ~run[r].cancel
    /\ Becomes(End(world, r, "failed"))

\* append_worker_events, the first of which is run.started
StartRun(r, k) ==
    /\ Admitted(r, k) /\ ~run[r].cancel
    /\ run[r].status = "leased"
    /\ Becomes([world EXCEPT !.run[r].status = "running"])

\* append_worker_events ending in run.waiting_input
WaitForInput(r, k) ==
    /\ Admitted(r, k) /\ ~run[r].cancel
    /\ Becomes([HandedOver(world, r[1], FALSE) EXCEPT !.run[r] = Ended(@, "completed")])

\* Faulty variant: a result that is there is taken, asked to stop or not.
CompleteRunAnyway(r, k) ==
    /\ Holds(r, k) /\ run[r].status = "running" /\ ~run[r].overdue
    /\ \E artifact \in BOOLEAN :
          Becomes([HandedOver(world, r[1], artifact) EXCEPT
              !.run[r] = [Ended(@, "completed") EXCEPT !.artifact = IF artifact THEN "draft" ELSE "none"]])

\* complete_run of a run that nobody stopped
CompleteRun(r, k) ==
    /\ Admitted(r, k) /\ ~run[r].cancel
    /\ run[r].status = "running" /\ ~run[r].overdue
    /\ \E artifact \in BOOLEAN :
          Becomes([HandedOver(world, r[1], artifact) EXCEPT
              !.run[r] = [Ended(@, "completed") EXCEPT !.artifact = IF artifact THEN "draft" ELSE "none"]])

\* complete_run as the acknowledgement of a stop, the one end that leaves the lease
AcknowledgeStop(r, k) ==
    /\ Holds(r, k) /\ run[r].cancel
    /\ Becomes(StopRecorded([world EXCEPT !.run[r] = [@ EXCEPT !.status = "cancelled", !.overdue = FALSE]],
                            {r}))

\* fail_run; its guard may turn the failure into a stop
FailRun(r, k, ambiguous) ==
    LET w == IF ~run[r].cancel /\ authorised THEN Reconciled(world) ELSE world
        stop == ~Guarded(w, r, {"active"})
        status == IF ambiguous THEN "ambiguous" ELSE IF stop THEN "cancelled" ELSE "failed"
    IN /\ Holds(r, k)
       /\ ambiguous => run[r].status = "running"
       /\ Becomes(End([w EXCEPT !.run[r].cancel = stop], r, status))

Report(r) ==
    \E k \in 1 .. MaxAttempts :
        \/ Renew(r, k) \/ LimitExceeded(r, k)
        \/ StartRun(r, k) \/ WaitForInput(r, k)
        \/ CompleteRun(r, k) \/ AcknowledgeStop(r, k)
        \/ \E ambiguous \in BOOLEAN : FailRun(r, k, ambiguous)

-----------------------------------------------------------------------------
(* People, sources and ownership.                                          *)

\* cancel_run by the owner of the run
CancelRun(r) ==
    /\ run[r].status \in Live /\ ~run[r].cancel
    /\ Becomes([world EXCEPT !.run[r] =
           [(IF @.status = "queued" THEN Ended(@, "cancelled") ELSE @) EXCEPT !.cancel = TRUE]])

\* decide_artifact
Decide(r) ==
    /\ run[r].artifact = "draft"
    /\ \/ /\ Guarded(Reconciled(world), r, {"needs_decision"})
          /\ Becomes([world EXCEPT !.run[r].artifact = "accepted"])
       \/ Becomes([world EXCEPT !.run[r].artifact = "rejected"])

\* apply_transition reconciles before it looks at the state.
PauseItem ==
    LET w == Reconciled(world)
    IN /\ w.item.state \in {"open", "blocked"} /\ w.item.valid
       /\ Becomes(Frozen([w EXCEPT !.item.state = "paused"], FALSE))

ResumeItem ==
    LET w == Reconciled(world)
    IN /\ w.item.state = "paused" /\ w.item.valid
       /\ Becomes(Thawed([w EXCEPT !.item.state = "open"], PausedByItem(w)))

MoveItem(state) ==   \* start, wait, decide, block
    LET w == Reconciled(world)
    IN /\ w.item.state \in {"open", "blocked"} /\ w.item.valid
       /\ Becomes([w EXCEPT !.item.state = state])

ReverifyItem ==
    LET w == Reconciled(world)
    IN /\ w.item.state # "closed" /\ ~w.item.valid
       /\ Becomes([w EXCEPT !.item.valid = TRUE,
                            !.item.state = IF @ = "paused" THEN @ ELSE "open"])

\* resolve and cancel, also by a source (apply_source_transition, which does not reconcile)
CloseItem ==
    \E w \in {world, Reconciled(world)} :
        /\ w.item.state # "closed"
        /\ Becomes(Frozen([w EXCEPT !.item.state = "closed"], TRUE))

ReopenItem ==
    /\ item.state = "closed"
    /\ Becomes([Reconciled(world) EXCEPT !.item.state = "open"])

\* compare_and_set_effective_owner moves the item to another customer.
MoveOwnership ==
    LET hit == {d \in Delegations : delegation[d].status \notin {"none", "cancelled"}}
    IN /\ hit # {}
       /\ Becomes([world EXCEPT
              !.delegation = [d \in Delegations |->
                  IF d \in hit THEN [delegation[d] EXCEPT !.status = "blocked", !.byItem = FALSE,
                                                          !.generation = @ + 1]
                  ELSE delegation[d]],
              !.run = AskLast(world, hit)])

\* The sources change now and are noticed at the next reconciliation.
SourceChanges(kind) ==
    /\ drift = "none" /\ item.revision < MaxRevision
    /\ Becomes([world EXCEPT !.drift = kind])

ReconcileSources == drift # "none" /\ Becomes(Reconciled(world))

\* profile_input_seq or the current profile version moves past every run.
CustomerChanges ==
    Becomes([world EXCEPT !.run = [r \in Runs |->
        [run[r] EXCEPT !.outdated = run[r].outdated \/ run[r].status # "absent"]]])

AuthorityChanges ==
    /\ authorised' = ~authorised
    /\ UNCHANGED <<item, drift, delegation, run>>

ItemNext ==
    \/ PauseItem \/ ResumeItem \/ (\E state \in {"open", "blocked"} : MoveItem(state))
    \/ ReverifyItem \/ CloseItem \/ ReopenItem
    \/ MoveOwnership \/ ReconcileSources \/ CustomerChanges \/ AuthorityChanges
    \/ \E kind \in {"update", "invalid"} : SourceChanges(kind)

Next ==
    \/ ReconcileExpired
    \/ ItemNext
    \/ \E d \in Delegations :
          \/ CreateDelegation(d) \/ Resume(d) \/ EnqueueWaiting(d) \/ ReviewDue(d)
          \/ \E status \in {"paused", "cancelled"} : Stop(d, status)
    \/ \E r \in Runs :
          \/ Claim(r) \/ LeaseAges(r) \/ TimeLimit(r) \/ Report(r)
          \/ CancelRun(r) \/ Decide(r)

Spec == Init /\ [][Next]_vars

\* The jobs run every few minutes, some worker polls for runs, and time passes.
Fairness ==
    /\ WF_vars(ReconcileExpired)
    /\ \A d \in Delegations : WF_vars(EnqueueWaiting(d)) /\ WF_vars(ReviewDue(d))
    /\ \A r \in Runs : WF_vars(Claim(r)) /\ WF_vars(LeaseAges(r)) /\ WF_vars(TimeLimit(r))

LiveSpec == Spec /\ Fairness

-----------------------------------------------------------------------------
(* Properties.                                                             *)

\* Run and delegation stay together through stops, expiries, withdrawals and late
\* reports: a run that nobody has asked to stop is that of the present generation
\* of an active delegation, and a delegation does not stay active on a run that
\* ended, unless the owner withdrew the run itself while it was still queued.
RunMatchesDelegation ==
    /\ \A r \in Runs : LET d == delegation[r[1]] IN
          run[r].status \in Live /\ ~run[r].cancel
              => d.status = "active" /\ d.last = r[2] /\ d.generation = r[2]
    /\ \A d \in Delegations : LET last == run[<<d, delegation[d].last>>] IN
          delegation[d].status = "active"
              => last.status \in Live \/ (last.status = "cancelled" /\ last.cancel)

\* A delegation goes on to a new run only when the outcome of every earlier
\* one is known; a run of unknown outcome stays its last.
EarlierRunsStopped ==
    \A r \in Runs :
        run[r].status # "absent" /\ delegation[r[1]].last # r[2] => run[r].status \in Stopped

\* A delegation that waits for a person or for new input was handed over by
\* the completed run of its present generation and inputs.
HandoverIsCurrent ==
    \A d \in Delegations :
        delegation[d].status \in {"needs_decision", "waiting"}
            => LET last == run[<<d, delegation[d].last>>]
               IN /\ delegation[d].last = delegation[d].generation
                  /\ last.status = "completed" /\ ~last.cancel
                  /\ last.input = delegation[d].input
                  /\ (last.artifact # "none") = (delegation[d].status = "needs_decision")

\* The bound, not the code, keeps a delegation from a further generation.
Bounded(d) == delegation[d].generation + Reserve(world) = MaxGeneration

\* Delegations move on. A run that is asked to stop ends, whatever its worker does;
\* so does one that has started, however often its worker renews the lease; and a
\* delegation that waits is taken up again or comes to a person.
DelegationsMoveOn ==
    /\ \A r \in Runs : (run[r].status = "running" \/ (run[r].status \in Live /\ run[r].cancel))
                           ~> (run[r].status \notin Live)
    /\ \A d \in Delegations : (delegation[d].status = "waiting")
                                  ~> (delegation[d].status # "waiting" \/ Bounded(d))
=============================================================================

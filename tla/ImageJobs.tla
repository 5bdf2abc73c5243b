---------------------------------- MODULE ImageJobs ----------------------------------
(***************************************************************************)
(* Image generation behind a leased queue, for the two desks that have     *)
(* one: the designers' studio (backend/app/design_image) and the portal    *)
(* of invited customers (backend/app/customer_image).  One user of the     *)
(* studio, or one invitation.                                              *)
(*                                                                         *)
(* A worker claims a job once and for all, keeps its lease alive with a    *)
(* heartbeat thread, calls the image service outside any transaction,      *)
(* saves the image and commits the result.  The image service              *)
(* (backend/app/ai/image_service.py) posts the job to the paid provider    *)
(* and, within this one call, may post it again.  A job whose lease ran    *)
(* out is failed by the next pass, its worker being dead or only slow.     *)
(* What differs between the desks: the studio limits what one user may     *)
(* have under way and lets failed jobs be retried; the portal counts a     *)
(* quota and gives back what was certainly not billed; and each has its    *)
(* own way with a commit whose acknowledgement is lost.                    *)
(***************************************************************************)
EXTENDS Naturals, FiniteSets

CONSTANTS Jobs,         \* rows of the queue
          Requests,     \* messages of the studio, request ids of the portal
          Sessions,     \* conversations of the studio
          Assets,       \* uploaded inputs
          MaxRunning,   \* DESIGN_IMAGE_MAX_ACTIVE_PER_USER
          Quota,        \* quota_total of the invitation
          Attempts,     \* _IMAGE_MAX_ATTEMPTS
          Optional,     \* parameters of a request that the provider may refuse one by one
          Deployments,  \* the desks to check, each with its storage and its inputs
          None

ASSUME ImageAssumption ==
    /\ IsFiniteSet(Jobs)
    /\ MaxRunning \in Nat \ {0} /\ Quota \in Nat \ {0}
    /\ Attempts \in Nat \ {0} /\ Optional \in Nat
    /\ Deployments \subseteq [desk : {"studio", "portal"},
                              managed : BOOLEAN,      \* files are kept in the cloud
                              assets : SUBSET Assets]
    /\ None \notin Requests \cup Sessions

VARIABLES deployment,   \* the desk
          job,          \* ark_design_image_jobs, ark_customer_image_generations
          worker,       \* the thread that executes a job
          file,         \* the stored output of a job
          asset,        \* inputs: drafts of the studio, logos of the portal
          pending,      \* requests that wait for `resolve_message_action'
          invite        \* ark_customer_image_invites

vars == <<deployment, job, worker, file, asset, pending, invite>>

Studio == deployment.desk = "studio"
Portal == deployment.desk = "portal"

Unfinished == {"queued", "running"}
Ended == {"succeeded", "failed"}

JobRows == [status : {"absent"} \cup Unfinished \cup Ended,
            lease : {"none", "live", "over"},
            request : Requests \cup {None}, session : Sessions \cup {None}, inputs : SUBSET Assets,
            root : BOOLEAN,       \* retry_of_job_id is NULL
            output : {"none", "kept", "deleted"},  \* the output asset's row
            refunded : BOOLEAN]   \* quota_refunded_at
\* `before' is an error that proves that nothing was sent, `after' any other.
Steps == {"none", "claimed", "asking", "stored", "unsure", "before", "after", "gone"}
\* How often the provider may have been paid for a job, as far as answers tell:
\* `unclear' is a request that was posted again because its answer was lost, and
\* `twice' one that was posted again although it was not.
Bills == {"nothing", "once", "unclear", "twice"}
Workers == [step : Steps, bill : Bills,
            tries : 0 .. Attempts,    \* POSTs of _send_with_retry so far
            strips : 0 .. Optional]   \* parameters that were left out
\* A draft named by a message may not be deleted by hand; a logo that was
\* replaced takes no new generation.
AssetStates == {"absent", "draft", "named", "attached", "replaced", "deleted"}

TypeOK ==
    /\ deployment \in Deployments
    /\ job \in [Jobs -> JobRows]
    /\ \A j \in Jobs : (job[j].lease # "none") = (job[j].status = "running")
    /\ worker \in [Jobs -> Workers]
    /\ file \in [Jobs -> {"absent", "present"}]
    /\ asset \in [Assets -> AssetStates]
    /\ pending \in [Requests -> SUBSET [session : Sessions, inputs : SUBSET Assets]]
    /\ invite \in [used : 0 .. Quota, state : {"active", "ended", "past"}]

Init ==
    /\ deployment \in Deployments
    /\ job = [j \in Jobs |-> [status |-> "absent", lease |-> "none", request |-> None,
                              session |-> None, inputs |-> {}, root |-> TRUE,
                              output |-> "none", refunded |-> FALSE]]
    /\ worker = [j \in Jobs |-> [step |-> "none", bill |-> "nothing", tries |-> 0, strips |-> 0]]
    /\ file = [j \in Jobs |-> "absent"]
    /\ asset = [a \in Assets |-> "absent"]
    /\ pending = [q \in Requests |-> {}]
    /\ invite = [used |-> 0, state |-> "active"]

-----------------------------------------------------------------------------
(* Requests of the studio.  Every call locks the user first.               *)

Active == {j \in Jobs : job[j].status \in Unfinished}
Roots(q) == {j \in Jobs : job[j].status # "absent" /\ job[j].request = q /\ job[j].root}

\* _has_active_multi_job_batch
BatchActive == \E j \in Active : Cardinality(Roots(job[j].request)) > 1

\* _session_active_job_statement
SessionBusy(s) == \E j \in Active : job[j].session = s

\* Faulty variant: only the user's limit counts.
CapacityOfUser(s, idle) ==
    IF idle THEN Active = {} ELSE ~BatchActive /\ Cardinality(Active) < MaxRunning

\* _enforce_capacity, without the limit per day
Capacity(s, idle) ==
    /\ IF idle THEN Active = {} ELSE ~BatchActive /\ Cardinality(Active) < MaxRunning
    /\ ~SessionBusy(s)

\* _usable_asset; that a draft has not expired is left open
Usable(a) == asset[a] \in {"draft", "named", "attached"}

NewRequest(q) == pending[q] = {} /\ \A j \in Jobs : job[j].status # "absent" => job[j].request # q

Row(q, s, inputs, root) ==
    [status |-> "queued", lease |-> "none", request |-> q, session |-> s, inputs |-> inputs,
     root |-> root, output |-> "none", refunded |-> FALSE]

Fresh == {S \in SUBSET Jobs : \A j \in S : job[j].status = "absent"}
Adds(new, q, s, inputs, root) ==
    job' = [j \in Jobs |-> IF j \in new THEN Row(q, s, inputs, root) ELSE job[j]]

\* _attach_assets_to_message
Promoted(inputs) == [a \in Assets |-> IF a \in inputs THEN "attached" ELSE asset[a]]
Named(inputs) == [a \in Assets |-> IF a \in inputs /\ asset[a] = "draft" THEN "named" ELSE asset[a]]

\* create_turn: one job, or a batch of separate jobs
CreateTurn(q, s, inputs, new) ==
    /\ Studio /\ NewRequest(q)
    /\ \A a \in inputs : Usable(a)
    /\ new \in Fresh \ {{}} /\ Capacity(s, Cardinality(new) > 1)
    /\ Adds(new, q, s, inputs, TRUE)
    /\ asset' = Promoted(inputs)
    /\ UNCHANGED <<deployment, worker, file, pending, invite>>

\* create_turn that has to ask how many images are meant
Clarify(q, s, inputs) ==
    /\ Studio /\ NewRequest(q)
    /\ \A a \in inputs : Usable(a)
    /\ ~BatchActive /\ ~SessionBusy(s)
    /\ pending' = [pending EXCEPT ![q] = {[session |-> s, inputs |-> inputs]}]
    /\ asset' = Named(inputs)
    /\ UNCHANGED <<deployment, job, worker, file, invite>>

\* resolve_message_action
Resolve(q, new) ==
    \E m \in pending[q] :
        /\ \A a \in m.inputs : Usable(a)
        /\ new \in Fresh \ {{}} /\ Capacity(m.session, TRUE)
        /\ Adds(new, q, m.session, m.inputs, TRUE)
        /\ pending' = [pending EXCEPT ![q] = {}]
        /\ asset' = Promoted(m.inputs)
        /\ UNCHANGED <<deployment, worker, file, invite>>

\* retry_job
Retry(j, new) ==
    /\ Studio /\ job[j].status = "failed"
    /\ Capacity(job[j].session, FALSE)
    /\ {new} \in Fresh
    /\ Adds({new}, job[j].request, job[j].session, job[j].inputs, FALSE)
    /\ UNCHANGED <<deployment, worker, file, asset, pending, invite>>

\* create_draft_asset
UploadDraft(a) ==
    /\ Studio /\ a \in deployment.assets /\ asset[a] = "absent"
    /\ asset' = [asset EXCEPT ![a] = "draft"]
    /\ UNCHANGED <<deployment, job, worker, file, pending, invite>>

Referenced(a) == \E j \in Jobs : job[j].status # "absent" /\ a \in job[j].inputs

\* delete_draft_asset
DeleteDraft(a) ==
    /\ Studio /\ asset[a] = "draft" /\ ~Referenced(a)
    /\ asset' = [asset EXCEPT ![a] = "deleted"]
    /\ UNCHANGED <<deployment, job, worker, file, pending, invite>>

\* cleanup_expired_drafts; which drafts have expired is left open
CleanupDrafts(expired) ==
    /\ Studio /\ expired # {}
    /\ \A a \in expired : asset[a] \in {"draft", "named"} /\ ~Referenced(a)
    /\ asset' = [a \in Assets |-> IF a \in expired THEN "deleted" ELSE asset[a]]
    /\ UNCHANGED <<deployment, job, worker, file, pending, invite>>

-----------------------------------------------------------------------------
(* Requests of the portal.  Every call locks the invitation first.         *)

\* replace_current_logo; the current logo is the one attached
UploadLogo(a) ==
    /\ Portal /\ invite.state = "active" /\ a \in deployment.assets /\ asset[a] = "absent"
    /\ asset' = [b \in Assets |-> IF b = a THEN "attached"
                                  ELSE IF asset[b] = "attached" THEN "replaced" ELSE asset[b]]
    /\ UNCHANGED <<deployment, job, worker, file, pending, invite>>

\* create_generation
CreateGeneration(q, a, j) ==
    /\ Portal /\ invite.state = "active" /\ NewRequest(q) /\ {j} \in Fresh
    /\ asset[a] = "attached"
    /\ invite.used < Quota
    /\ invite' = [invite EXCEPT !.used = @ + 1]
    /\ Adds({j}, q, None, {a}, TRUE)
    /\ UNCHANGED <<deployment, worker, file, asset, pending>>

\* revoke_invite, or the invitation expires; later its retention is over
InviteEnds ==
    /\ Portal /\ invite.state # "past"
    /\ invite' = [invite EXCEPT !.state = IF @ = "active" THEN "ended" ELSE "past"]
    /\ UNCHANGED <<deployment, job, worker, file, asset, pending>>

\* Faulty variant: an unfinished generation does not hold the assets back.
RetiredAnyhow == Portal /\ invite.state = "past"

\* What cleanup_expired_invite_assets may remove
Retired == Portal /\ invite.state = "past" /\ Active = {}

\* cleanup_expired_invite_assets; removing a file may fail and is tried again
CleanupInvite ==
    /\ Retired
    /\ asset' = [a \in Assets |-> IF asset[a] = "absent" THEN "absent" ELSE "deleted"]
    /\ job' = [j \in Jobs |-> [job[j] EXCEPT !.output = IF @ = "kept" THEN "deleted" ELSE @]]
    /\ \E failed \in SUBSET Jobs :
          file' = [j \in Jobs |-> IF job[j].output # "none" /\ j \notin failed THEN "absent" ELSE file[j]]
    /\ UNCHANGED <<deployment, worker, pending, invite>>

-----------------------------------------------------------------------------
(* The worker of a job.                                                    *)

At(j, step) == worker[j].step = step
Moves(j, step) ==
    worker' = [worker EXCEPT ![j] = [step |-> step, bill |-> @.bill, tries |-> 0, strips |-> 0]]
OnlyWorker(j, step) == Moves(j, step) /\ UNCHANGED <<deployment, job, file, asset, pending, invite>>

\* Faulty variant: whoever executed the job may finish it.
LiveOrNot(j) == TRUE

\* _live_locked_job; a job is claimed once, so its token is the only one it ever has
Live(j) == job[j].status = "running" /\ job[j].lease = "live"

\* claim_next_job
Claim(j) ==
    /\ job[j].status = "queued"
    /\ Studio => Cardinality({k \in Jobs : job[k].status = "running"}) < MaxRunning
    /\ job' = [job EXCEPT ![j].status = "running", ![j].lease = "live"]
    /\ Moves(j, "claimed")
    /\ UNCHANGED <<deployment, file, asset, pending, invite>>

Billed(bill) == IF bill = "nothing" THEN "once" ELSE IF bill = "once" THEN "twice" ELSE bill

\* execute_claimed_job renews the lease and starts the heartbeat, _load_snapshot
\* reads the job, _call_provider has it posted; the last two may fail before,
\* _load_snapshot with ValueErrors only.
Send(j) ==
    /\ At(j, "claimed")
    /\ IF Live(j)
       THEN \/ \E step \in {"before", "after"} : OnlyWorker(j, step)
            \/ /\ worker' = [worker EXCEPT ![j] = [step |-> "asking", bill |-> Billed(@.bill),
                                                   tries |-> 1, strips |-> 0]]
               /\ UNCHANGED <<deployment, job, file, asset, pending, invite>>
       ELSE OnlyWorker(j, "gone")

\* _send_with_retry: a 502, a 503 or a broken connection, after which the provider
\* may or may not have made the image, is followed by another POST. Nobody asks
\* whether the job still has its lease.
PostAgain(j) ==
    /\ At(j, "asking") /\ worker[j].tries < Attempts
    /\ worker' = [worker EXCEPT ![j] = [step |-> "asking", bill |-> "unclear",
                                         tries |-> @.tries + 1, strips |-> @.strips]]
    /\ UNCHANGED <<deployment, job, file, asset, pending, invite>>

\* _post_image_edits: a 400 that names a parameter, of each at most once, is not
\* paid for and starts _send_with_retry over without it.
PostWithout(j) ==
    /\ At(j, "asking") /\ worker[j].strips < Optional
    /\ worker' = [worker EXCEPT ![j] = [step |-> "asking", bill |-> @.bill,
                                         tries |-> 1, strips |-> @.strips + 1]]
    /\ UNCHANGED <<deployment, job, file, asset, pending, invite>>

\* The provider answers and the image is saved (save_private_image), or one of
\* the two fails for good; httpx limits the wait.
Answer(j) ==
    /\ At(j, "asking")
    /\ \/ OnlyWorker(j, "after")
       \/ /\ file' = [file EXCEPT ![j] = "present"]
          /\ Moves(j, "stored")
          /\ UNCHANGED <<deployment, job, asset, pending, invite>>

\* Faulty variant: the job keeps its lease.
SucceedsLeased(j) == job' = [job EXCEPT ![j].status = "succeeded", ![j].output = "kept"]

Succeeds(j) == job' = [job EXCEPT ![j].status = "succeeded", ![j].lease = "none", ![j].output = "kept"]
Discards(j) == file' \in {file, [file EXCEPT ![j] = "absent"]}   \* best effort

\* _finalize_success: the commit may fail, and may succeed without an answer.
FinalizeSuccess(j) ==
    /\ At(j, "stored")
    /\ \/ /\ ~Live(j)
          /\ Discards(j) /\ Moves(j, "gone") /\ UNCHANGED job
       \/ /\ Live(j)
          /\ \/ Succeeds(j) /\ Moves(j, "gone")
             \/ Succeeds(j) /\ Moves(j, "unsure")
             \/ UNCHANGED job /\ Moves(j, "unsure")
          /\ UNCHANGED file
    /\ UNCHANGED <<deployment, asset, pending, invite>>

\* Faulty variant: the portal does not look either.
KeptByCloud(j) == job[j].output # "none" /\ deployment.managed

\* What keeps the file of a commit that was not acknowledged: _reconcile_success
\* of the portal, cloud_reference_exists of the studio.
Kept(j) == job[j].output # "none" /\ (Portal \/ deployment.managed)

\* The worker looks after a failed commit; a look that fails keeps the file.
LookAgain(j) ==
    /\ At(j, "unsure")
    /\ \/ /\ Portal \/ deployment.managed
          /\ Moves(j, IF Portal THEN "gone" ELSE "after") /\ UNCHANGED file
       \/ /\ ~Kept(j)
          /\ Moves(j, "after") /\ Discards(j)
    /\ UNCHANGED <<deployment, job, asset, pending, invite>>

\* Faulty variant: every failure is given back.
RefundsAll(j) == Portal /\ ~job[j].refunded /\ invite.used > 0

\* classify_image_error: only the portal gives back, and only once
Refunds(j) == Portal /\ At(j, "before") /\ ~job[j].refunded /\ invite.used > 0

\* Faulty variant: a failure that comes too late still gives back.
FinalizeFailureLate(j) ==
    /\ worker[j].step \in {"before", "after"}
    /\ Moves(j, "gone")
    /\ job' = IF Live(j)
              THEN [job EXCEPT ![j].status = "failed", ![j].lease = "none", ![j].refunded = Refunds(j)]
              ELSE job
    /\ invite' = [invite EXCEPT !.used = IF Refunds(j) THEN @ - 1 ELSE @]
    /\ UNCHANGED <<deployment, file, asset, pending>>

\* _finalize_failure, finalize_failure; its own failure is only logged
FinalizeFailure(j) ==
    /\ worker[j].step \in {"before", "after"}
    /\ Moves(j, "gone")
    /\ \/ UNCHANGED <<job, invite>>
       \/ /\ Live(j)
          /\ job' = [job EXCEPT ![j].status = "failed", ![j].lease = "none", ![j].refunded = Refunds(j)]
          /\ invite' = [invite EXCEPT !.used = IF Refunds(j) THEN @ - 1 ELSE @]
    /\ UNCHANGED <<deployment, file, asset, pending>>

\* The process of the worker ends.
Die(j) == worker[j].step \notin {"none", "gone"} /\ OnlyWorker(j, "gone")

\* No heartbeat came through in time.
LeaseRunsOut(j) ==
    /\ job[j].lease = "live"
    /\ job' = [job EXCEPT ![j].lease = "over"]
    /\ UNCHANGED <<deployment, worker, file, asset, pending, invite>>

\* Faulty variant: a job whose worker may still be paying goes back to the queue.
RecoverStaleQueued ==
    /\ \E j \in Jobs : job[j].lease = "over"
    /\ job' = [j \in Jobs |-> IF job[j].lease = "over"
                              THEN [job[j] EXCEPT !.status = "queued", !.lease = "none"] ELSE job[j]]
    /\ UNCHANGED <<deployment, worker, file, asset, pending, invite>>

\* recover_stale_jobs
RecoverStale ==
    /\ \E j \in Jobs : job[j].lease = "over"
    /\ job' = [j \in Jobs |-> IF job[j].lease = "over"
                              THEN [job[j] EXCEPT !.status = "failed", !.lease = "none"] ELSE job[j]]
    /\ UNCHANGED <<deployment, worker, file, asset, pending, invite>>

Work(j) ==
    \/ Send(j) \/ PostAgain(j) \/ PostWithout(j) \/ Answer(j)
    \/ FinalizeSuccess(j) \/ LookAgain(j) \/ FinalizeFailure(j)

StudioNext ==
    \/ \E q \in Requests, s \in Sessions, inputs \in SUBSET Assets :
          Clarify(q, s, inputs) \/ \E new \in SUBSET Jobs : CreateTurn(q, s, inputs, new)
    \/ \E q \in Requests, new \in SUBSET Jobs : Resolve(q, new)
    \/ \E j \in Jobs, new \in Jobs : Retry(j, new)
    \/ \E a \in Assets : DeleteDraft(a) \/ UploadDraft(a)
    \/ \E expired \in SUBSET Assets : CleanupDrafts(expired)

PortalNext ==
    \/ \E a \in Assets : UploadLogo(a) \/ \E q \in Requests, j \in Jobs : CreateGeneration(q, a, j)
    \/ InviteEnds \/ CleanupInvite

Next ==
    \/ StudioNext
    \/ PortalNext
    \/ \E j \in Jobs : Claim(j) \/ Work(j) \/ Die(j) \/ LeaseRunsOut(j)
    \/ RecoverStale

Spec == Init /\ [][Next]_vars

\* The queue is served every few seconds; the image service posts a bounded number of
\* times, each with httpx's timeout; a lease nobody renews runs out.
Fairness ==
    /\ \A j \in Jobs : WF_vars(Work(j)) /\ WF_vars(Claim(j))
    /\ \A j \in Jobs : WF_vars(worker[j].step = "gone" /\ LeaseRunsOut(j))
    /\ WF_vars(RecoverStale)

LiveSpec == Spec /\ Fairness

-----------------------------------------------------------------------------
(* Properties                                                              *)

\* The quota of an invitation counts exactly the generations that were accepted
\* and not given back, and what was given back was never sent to the paid
\* provider: requests, failures, recovery and give-backs race for the
\* invitation's row (create_generation, finalize_failure, classify_image_error).
QuotaIsExact ==
    /\ Portal => invite.used = Cardinality({j \in Jobs : job[j].status # "absent" /\ ~job[j].refunded})
    /\ \A j \in Jobs : job[j].refunded => worker[j].bill = "nothing"

\* No clean-up, deletion or lost acknowledgement takes a file that a row still
\* needs: neither the inputs of an unfinished job nor the image of one that
\* succeeded; the latter is not claimed of the studio on a local disk, where
\* `OutputIsAlwaysKept' fails (_delete_stored, _reconcile_success,
\* cleanup_expired_drafts, cleanup_expired_invite_assets).
FilesAreKept ==
    /\ \A j \in Active : \A a \in job[j].inputs : asset[a] # "deleted"
    /\ Portal \/ deployment.managed => \A j \in Jobs : job[j].output = "kept" => file[j] = "present"

\* "Uncertain commits may not authorize deleting an already referenced image."
\* (backend/app/design_image/file_service.py:418)
OutputIsAlwaysKept == \A j \in Jobs : job[j].output = "kept" => file[j] = "present"

\* A conversation never has jobs of two requests under way, whatever mix of
\* turns, late confirmations and retries produced them (_enforce_capacity).
ConversationIsSerial ==
    Studio => \A j, k \in Active : job[j].session = job[k].session => job[j].request = job[k].request

\* A job is paid for twice only where one call of the image service lost an answer
\* and posted again, which the service does by design and which may bill one image
\* up to `Attempts' times. Nothing else pays again: one whose worker was lost is
\* failed and never goes back to the queue, and the late answer of that worker
\* changes neither outcome nor refund (recover_stale_jobs, _live_locked_job).
PaidByOneCall ==
    /\ [](\A j \in Jobs : worker[j].bill # "twice")
    /\ [][\A j \in Jobs : job[j].status \in Ended =>
              job'[j].status = job[j].status /\ job'[j].refunded = job[j].refunded]_vars

\* Every accepted job ends, whatever becomes of its worker.
JobsEnd == \A j \in Jobs : job[j].status \in Unfinished ~> job[j].status \in Ended
=============================================================================

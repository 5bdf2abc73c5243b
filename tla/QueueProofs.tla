------------------------------- MODULE QueueProofs -------------------------------
(***************************************************************************)
(* What holds of the background queues.  ImageJobs: for every finite set   *)
(* of jobs, all requests, sessions and inputs, every quota and every kind  *)
(* of deployment.  FairScan: how long a row waits for its batch, for any   *)
(* table, batch size, handler and number of restarts.  The two models      *)
(* share no variable; each theorem is about the specification it names.    *)
(***************************************************************************)
EXTENDS ImageJobs, FairScan, FiniteSetTheorems, FunctionTheorems, TLAPS

\* How far a worker may have come with a job, by what its row says: a job is
\* claimed once, and what its worker asked, stored and gave back follows.
OnceOf(j) ==
    /\ job[j].status \in {"absent", "queued"} => worker[j].step = "none" /\ worker[j].bill = "nothing"
    /\ worker[j].step \in {"claimed", "before"} => worker[j].bill = "nothing"
    /\ worker[j].bill # "twice"
    /\ job[j].refunded => job[j].status = "failed" /\ worker[j].step = "gone" /\ worker[j].bill = "nothing"
    /\ job[j].output # "none" => job[j].status = "succeeded"
    /\ worker[j].step \in {"claimed", "asking", "stored"} => job[j].output = "none"
    /\ worker[j].step = "stored" => file[j] = "present"

Once == \A j \in Jobs : OnceOf(j)

\* In the studio no input of any job is ever deleted, so that a job which
\* failed may be retried.
InputsHeld == Studio =>
    \A j \in Jobs : job[j].status # "absent" => \A a \in job[j].inputs : asset[a] # "deleted"

\* The two halves of `FilesAreKept'.
InputsKept == \A j \in Active : \A a \in job[j].inputs : asset[a] # "deleted"
OutputKept(j) == Portal \/ deployment.managed => (job[j].output = "kept" => file[j] = "present")
OutputsKept == Portal \/ deployment.managed => \A j \in Jobs : job[j].output = "kept" => file[j] = "present"

\* Only the studio asks back.
NoPending == Portal => \A q \in Requests : pending[q] = {}

\* The inductive strengthening of the safety properties.
IInv ==
    /\ TypeOK /\ Once /\ NoPending /\ InputsHeld
    /\ FilesAreKept /\ QuotaIsExact /\ ConversationIsSerial

-----------------------------------------------------------------------------
(* Types *)

\* The empty tables are well typed.
LEMMA InitType == Init => TypeOK
  BY ImageAssumption DEF Init, TypeOK, JobRows, Workers, Bills, Steps, AssetStates, Unfinished, Ended

\* A new row is a row of the table.
LEMMA AddsType ==
  ASSUME TypeOK, NEW new \in Fresh, NEW q \in Requests, NEW s \in Sessions \cup {None},
         NEW inputs \in SUBSET Assets, NEW root \in BOOLEAN, Adds(new, q, s, inputs, root)
  PROVE  /\ job' \in [Jobs -> JobRows]
         /\ \A j \in Jobs : (job'[j].lease # "none") = (job'[j].status = "running")
  <1>1. Row(q, s, inputs, root) \in JobRows
    BY DEF Row, JobRows, Unfinished, Ended
  <1> QED BY <1>1 DEF Adds, TypeOK, Row

\* A request of the studio keeps the types.
LEMMA StudioType == ASSUME TypeOK, StudioNext PROVE TypeOK'
  <1>1. ASSUME NEW q \in Requests, NEW s \in Sessions, NEW inputs \in SUBSET Assets, Clarify(q, s, inputs)
        PROVE  TypeOK'
    <2>1. asset' \in [Assets -> AssetStates]
      BY <1>1 DEF Clarify, Named, TypeOK, AssetStates
    <2>2. pending' \in [Requests -> SUBSET [session : Sessions, inputs : SUBSET Assets]]
      BY <1>1 DEF Clarify, TypeOK
    <2> QED BY <1>1, <2>1, <2>2 DEF Clarify, TypeOK
  <1>2. ASSUME NEW q \in Requests, NEW s \in Sessions, NEW inputs \in SUBSET Assets,
               NEW new \in SUBSET Jobs, CreateTurn(q, s, inputs, new)
        PROVE  TypeOK'
    <2>1. asset' \in [Assets -> AssetStates]
      BY <1>2 DEF CreateTurn, Promoted, TypeOK, AssetStates
    <2>2. new \in Fresh /\ Adds(new, q, s, inputs, TRUE)
      BY <1>2 DEF CreateTurn
    <2> QED BY <1>2, <2>1, <2>2, AddsType DEF CreateTurn, TypeOK
  <1>3. ASSUME NEW q \in Requests, NEW new \in SUBSET Jobs, Resolve(q, new)
        PROVE  TypeOK'
    <2>1. PICK m \in pending[q] : /\ new \in Fresh /\ Adds(new, q, m.session, m.inputs, TRUE)
                                  /\ asset' = Promoted(m.inputs)
      BY <1>3 DEF Resolve
    <2>2. m.session \in Sessions /\ m.inputs \in SUBSET Assets
      BY <2>1 DEF TypeOK
    <2>3. asset' \in [Assets -> AssetStates]
      BY <2>1, <2>2 DEF Promoted, TypeOK, AssetStates
    <2>4. pending' \in [Requests -> SUBSET [session : Sessions, inputs : SUBSET Assets]]
      BY <1>3 DEF Resolve, TypeOK
    <2>5. /\ job' \in [Jobs -> JobRows]
          /\ \A j \in Jobs : (job'[j].lease # "none") = (job'[j].status = "running")
      BY <2>1, <2>2, AddsType
    <2> QED BY <1>3, <2>3, <2>4, <2>5 DEF Resolve, TypeOK
  <1>4. ASSUME NEW j \in Jobs, NEW new \in Jobs, Retry(j, new) PROVE TypeOK'
    <2>1. {new} \in Fresh /\ Adds({new}, job[j].request, job[j].session, job[j].inputs, FALSE)
      BY <1>4 DEF Retry
    <2>2. job[j].session \in Sessions \cup {None} /\ job[j].inputs \in SUBSET Assets
      BY DEF TypeOK, JobRows
    <2>3. job[j].request \in Requests \cup {None}
      BY DEF TypeOK, JobRows
    <2>4. Row(job[j].request, job[j].session, job[j].inputs, FALSE) \in JobRows
      BY <2>2, <2>3 DEF Row, JobRows, Unfinished, Ended
    <2>5. /\ job' \in [Jobs -> JobRows]
          /\ \A k \in Jobs : (job'[k].lease # "none") = (job'[k].status = "running")
      BY <2>1, <2>4 DEF Adds, TypeOK, Row
    <2> QED BY <1>4, <2>5 DEF Retry, TypeOK
  <1>5. ASSUME NEW a \in Assets, DeleteDraft(a) \/ UploadDraft(a) PROVE TypeOK'
    BY <1>5 DEF DeleteDraft, UploadDraft, TypeOK, AssetStates
  <1>6. ASSUME NEW expired \in SUBSET Assets, CleanupDrafts(expired) PROVE TypeOK'
    BY <1>6 DEF CleanupDrafts, TypeOK, AssetStates
  <1> QED BY <1>1, <1>2, <1>3, <1>4, <1>5, <1>6 DEF StudioNext

\* A row whose status, lease, refund or output changes is a row of the table.
LEMMA RowType ==
  ASSUME NEW r \in JobRows, NEW status \in Unfinished \cup Ended, NEW lease \in {"none", "live", "over"},
         NEW refunded \in BOOLEAN, NEW output \in {"none", "kept", "deleted"}
  PROVE  /\ [r EXCEPT !.status = status, !.lease = lease] \in JobRows
         /\ [r EXCEPT !.status = status, !.lease = lease, !.output = output] \in JobRows
         /\ [r EXCEPT !.status = status, !.lease = lease, !.refunded = refunded] \in JobRows
         /\ [r EXCEPT !.lease = lease] \in JobRows
  <1> USE DEF JobRows, Unfinished, Ended
  <1>1. [r EXCEPT !.status = status, !.lease = lease] \in JobRows
    OBVIOUS
  <1>2. [r EXCEPT !.status = status, !.lease = lease, !.output = output] \in JobRows
    OBVIOUS
  <1>3. [r EXCEPT !.status = status, !.lease = lease, !.refunded = refunded] \in JobRows
    OBVIOUS
  <1>4. [r EXCEPT !.lease = lease] \in JobRows
    OBVIOUS
  <1> QED BY <1>1, <1>2, <1>3, <1>4

\* A row whose output changes is a row of the table.
LEMMA OutputType ==
  ASSUME NEW r \in JobRows, NEW output \in {"none", "kept", "deleted"}
  PROVE  [r EXCEPT !.output = output] \in JobRows
  BY DEF JobRows

\* Replacing the row of one job by another whose lease fits keeps the table.
LEMMA TableType ==
  ASSUME TypeOK, NEW j \in Jobs, NEW r \in JobRows, (r.lease # "none") = (r.status = "running"),
         job' = [job EXCEPT ![j] = r]
  PROVE  /\ job' \in [Jobs -> JobRows]
         /\ \A k \in Jobs : (job'[k].lease # "none") = (job'[k].status = "running")
  BY DEF TypeOK

\* A request of the portal keeps the types.
LEMMA PortalType == ASSUME TypeOK, PortalNext PROVE TypeOK'
  <1>1. ASSUME NEW a \in Assets, UploadLogo(a) PROVE TypeOK'
    BY <1>1 DEF UploadLogo, TypeOK, AssetStates
  <1>2. ASSUME NEW a \in Assets, NEW q \in Requests, NEW j \in Jobs, CreateGeneration(q, a, j)
        PROVE  TypeOK'
    <2>1. {j} \in Fresh /\ Adds({j}, q, None, {a}, TRUE)
      BY <1>2 DEF CreateGeneration
    <2>2. invite' \in [used : 0 .. Quota, state : {"active", "ended", "past"}]
      BY <1>2, ImageAssumption DEF CreateGeneration, TypeOK
    <2>3. /\ job' \in [Jobs -> JobRows]
          /\ \A k \in Jobs : (job'[k].lease # "none") = (job'[k].status = "running")
      BY <2>1, AddsType
    <2> QED BY <1>2, <2>2, <2>3 DEF CreateGeneration, TypeOK
  <1>3. CASE InviteEnds
    BY <1>3 DEF InviteEnds, TypeOK
  <1>4. CASE CleanupInvite
    <2>1. asset' \in [Assets -> AssetStates]
      BY <1>4 DEF CleanupInvite, TypeOK, AssetStates
    <2>a. ASSUME NEW k \in Jobs
          PROVE  [job[k] EXCEPT !.output = IF @ = "kept" THEN "deleted" ELSE @] \in JobRows
      <3>1. /\ job[k] \in JobRows
            /\ (IF job[k].output = "kept" THEN "deleted" ELSE job[k].output) \in {"none", "kept", "deleted"}
        BY DEF TypeOK, JobRows
      <3> QED BY <3>1, OutputType
    <2>2. /\ job' \in [Jobs -> JobRows]
          /\ \A k \in Jobs : (job'[k].lease # "none") = (job'[k].status = "running")
      <3>1. job' = [k \in Jobs |-> [job[k] EXCEPT !.output = IF @ = "kept" THEN "deleted" ELSE @]]
        BY <1>4 DEF CleanupInvite
      <3>2. job' \in [Jobs -> JobRows]
        BY <3>1, <2>a
      <3>3. ASSUME NEW k \in Jobs PROVE job'[k].lease = job[k].lease /\ job'[k].status = job[k].status
        BY <3>1 DEF TypeOK, JobRows
      <3> QED BY <3>2, <3>3 DEF TypeOK
    <2>3. file' \in [Jobs -> {"absent", "present"}]
      BY <1>4 DEF CleanupInvite, TypeOK
    <2> QED BY <1>4, <2>1, <2>2, <2>3 DEF CleanupInvite, TypeOK
  <1> QED BY <1>1, <1>2, <1>3, <1>4 DEF PortalNext

\* A worker that takes a step is a worker.
LEMMA MovesType ==
  ASSUME TypeOK, NEW j \in Jobs, NEW step \in Steps, Moves(j, step)
  PROVE  worker' \in [Jobs -> Workers]
  <1>1. worker[j] \in Workers /\ 0 \in 0 .. Attempts /\ 0 \in 0 .. Optional
    BY ImageAssumption DEF TypeOK
  <1>2. [step |-> step, bill |-> worker[j].bill, tries |-> 0, strips |-> 0] \in Workers
    BY <1>1 DEF Workers
  <1> QED BY <1>2 DEF TypeOK, Moves

\* What a POST and a repeated POST leave of a worker.
LEMMA PostType ==
  ASSUME TypeOK, NEW j \in Jobs, PostAgain(j) \/ PostWithout(j)
  PROVE  /\ worker' \in [Jobs -> Workers] /\ \A k \in Jobs \ {j} : worker'[k] = worker[k]
         /\ worker'[j].step = "asking" /\ worker'[j].bill \in {worker[j].bill, "unclear"}
         /\ worker[j].step = "asking"
  <1>1. worker[j] \in Workers /\ worker[j].tries \in Nat /\ worker[j].strips \in Nat
        /\ Attempts \in Nat \ {0} /\ Optional \in Nat
    BY ImageAssumption DEF TypeOK, Workers
  <1>2. CASE PostAgain(j)
    <2> DEFINE new == [step |-> "asking", bill |-> "unclear",
                      tries |-> worker[j].tries + 1, strips |-> worker[j].strips]
    <2>1. worker[j].tries + 1 \in 0 .. Attempts
      BY <1>1, <1>2 DEF PostAgain
    <2>2. new \in Workers /\ new.step = "asking" /\ new.bill = "unclear"
      BY <1>1, <2>1 DEF Workers, Bills, Steps
    <2>3. worker[j].step = "asking"
      BY <1>2 DEF PostAgain, At
    <2>4. worker' = [worker EXCEPT ![j] = new]
      BY <1>2 DEF PostAgain
    <2> HIDE DEF new
    <2> QED BY <2>2, <2>3, <2>4 DEF TypeOK
  <1>3. CASE PostWithout(j)
    <2> DEFINE new == [step |-> "asking", bill |-> worker[j].bill,
                      tries |-> 1, strips |-> worker[j].strips + 1]
    <2>1. worker[j].strips + 1 \in 0 .. Optional /\ 1 \in 0 .. Attempts
      BY <1>1, <1>3 DEF PostWithout
    <2>2. new \in Workers /\ new.step = "asking" /\ new.bill = worker[j].bill
      BY <1>1, <2>1 DEF Workers, Steps
    <2>3. worker[j].step = "asking"
      BY <1>3 DEF PostWithout, At
    <2>4. worker' = [worker EXCEPT ![j] = new]
      BY <1>3 DEF PostWithout
    <2> HIDE DEF new
    <2> QED BY <2>2, <2>3, <2>4 DEF TypeOK
  <1> QED BY <1>2, <1>3

\* A worker, or the clock of its lease, keeps the types.
LEMMA WorkerType ==
  ASSUME TypeOK, NEW j \in Jobs, Claim(j) \/ Work(j) \/ Die(j) \/ LeaseRunsOut(j)
  PROVE  TypeOK'
  <1> DEFINE Leases(rows) == \A k \in Jobs : (rows[k].lease # "none") = (rows[k].status = "running")
  <1>a. {"none", "claimed", "asking", "stored", "unsure", "before", "after", "gone"} \subseteq Steps
    BY DEF Steps
  <1>b. job \in [Jobs -> JobRows] /\ Leases(job)
    BY DEF TypeOK
  <1>c. {"queued", "running", "succeeded", "failed"} \subseteq Unfinished \cup Ended
    BY DEF Unfinished, Ended
  <1>d. job[j] \in JobRows
    BY <1>b
  <1>1. CASE Claim(j)
    <2> DEFINE new == [job[j] EXCEPT !.status = "running", !.lease = "live"]
    <2>1. new \in JobRows /\ new.status = "running" /\ new.lease = "live"
      <3>1. new \in JobRows
        BY <1>c, <1>d, RowType
      <3> QED BY <3>1, <1>d DEF JobRows
    <2>2. job' \in [Jobs -> JobRows] /\ Leases(job')
      <3>1. job' = [job EXCEPT ![j] = new]
        BY <1>1 DEF Claim
      <3> HIDE DEF new
      <3> QED BY <3>1, <2>1, TableType
    <2>3. worker' \in [Jobs -> Workers]
      BY <1>1, <1>a, MovesType DEF Claim
    <2> QED BY <1>1, <2>2, <2>3 DEF Claim, TypeOK, Workers
  <1>2. CASE Send(j)
    <2>1. worker' \in [Jobs -> Workers]
      <3>1. CASE worker' = [worker EXCEPT ![j] = [step |-> "asking", bill |-> Billed(@.bill),
                                                  tries |-> 1, strips |-> 0]]
        <4>1. /\ worker[j] \in Workers /\ 1 \in 0 .. Attempts /\ 0 \in 0 .. Optional
          BY ImageAssumption DEF TypeOK
        <4>2. [step |-> "asking", bill |-> Billed(worker[j].bill), tries |-> 1, strips |-> 0] \in Workers
          BY <4>1, <1>a DEF Workers, Bills, Billed
        <4> QED BY <3>1, <4>2 DEF TypeOK
      <3>2. CASE \E step \in {"before", "after", "gone"} : Moves(j, step)
        BY <3>2, <1>a, MovesType
      <3> QED BY <1>2, <3>1, <3>2 DEF Send, OnlyWorker
    <2> QED BY <1>2, <2>1 DEF Send, OnlyWorker, TypeOK, Workers
  <1>p. CASE PostAgain(j) \/ PostWithout(j)
    <2>1. UNCHANGED <<deployment, job, file, asset, pending, invite>>
      BY <1>p DEF PostAgain, PostWithout
    <2> QED BY <1>p, <2>1, PostType DEF TypeOK
  <1>3. CASE Answer(j)
    <2>1. worker' \in [Jobs -> Workers]
      BY <1>3, <1>a, MovesType DEF Answer, OnlyWorker
    <2>2. file' \in [Jobs -> {"absent", "present"}]
      BY <1>3 DEF Answer, OnlyWorker, TypeOK
    <2> QED BY <1>3, <2>1, <2>2 DEF Answer, OnlyWorker, TypeOK, Workers
  <1>4. CASE FinalizeSuccess(j)
    <2>1. worker' \in [Jobs -> Workers]
      BY <1>4, <1>a, MovesType DEF FinalizeSuccess
    <2>2. file' \in [Jobs -> {"absent", "present"}]
      BY <1>4 DEF FinalizeSuccess, Discards, TypeOK
    <2> DEFINE new == [job[j] EXCEPT !.status = "succeeded", !.lease = "none", !.output = "kept"]
    <2>3. new \in JobRows /\ new.status = "succeeded" /\ new.lease = "none"
      <3>1. new \in JobRows
        BY <1>c, <1>d, RowType
      <3> QED BY <3>1, <1>d DEF JobRows
    <2>4. job' \in [Jobs -> JobRows] /\ Leases(job')
      <3>1. CASE UNCHANGED job
        BY <3>1, <1>b
      <3>2. CASE Succeeds(j)
        <4>1. job' = [job EXCEPT ![j] = new]
          BY <3>2 DEF Succeeds
        <4> HIDE DEF new
        <4> QED BY <4>1, <2>3, TableType
      <3> QED BY <1>4, <3>1, <3>2 DEF FinalizeSuccess
    <2> QED BY <1>4, <2>1, <2>2, <2>4 DEF FinalizeSuccess, TypeOK, Workers
  <1>5. CASE LookAgain(j)
    <2>1. worker' \in [Jobs -> Workers]
      BY <1>5, <1>a, MovesType DEF LookAgain
    <2>2. file' \in [Jobs -> {"absent", "present"}]
      BY <1>5 DEF LookAgain, Discards, TypeOK
    <2> QED BY <1>5, <2>1, <2>2 DEF LookAgain, TypeOK, Workers
  <1>6. CASE FinalizeFailure(j)
    <2>1. worker' \in [Jobs -> Workers]
      BY <1>6, <1>a, MovesType DEF FinalizeFailure
    <2>2. [job[j] EXCEPT !.status = "failed", !.lease = "none", !.refunded = Refunds(j)] \in JobRows
      BY <1>c, <1>d, RowType DEF Refunds
    <2>3. job' \in [Jobs -> JobRows] /\ Leases(job')
      <3> DEFINE new == [job[j] EXCEPT !.status = "failed", !.lease = "none", !.refunded = Refunds(j)]
      <3>1. CASE UNCHANGED job
        BY <3>1, <1>b
      <3>2. CASE job' = [job EXCEPT ![j] = new]
        <4>1. new.lease = "none" /\ new.status = "failed"
          BY <1>d DEF JobRows
        <4> HIDE DEF new
        <4> QED BY <3>2, <2>2, <4>1, TableType DEF new
      <3> QED BY <1>6, <3>1, <3>2 DEF FinalizeFailure
    <2>4. invite' \in [used : 0 .. Quota, state : {"active", "ended", "past"}]
      BY <1>6, ImageAssumption DEF FinalizeFailure, Refunds, TypeOK
    <2> QED BY <1>6, <2>1, <2>3, <2>4 DEF FinalizeFailure, TypeOK, Workers
  <1>7. CASE Die(j)
    <2>1. worker' \in [Jobs -> Workers]
      BY <1>7, <1>a, MovesType DEF Die, OnlyWorker
    <2> QED BY <1>7, <2>1 DEF Die, OnlyWorker, TypeOK, Workers
  <1>8. CASE LeaseRunsOut(j)
    <2>1. [job[j] EXCEPT !.lease = "over"] \in JobRows
      BY <1>d, <1>c, RowType
    <2>2. job' \in [Jobs -> JobRows] /\ Leases(job')
      BY <1>8, <1>b, <2>1 DEF LeaseRunsOut, JobRows
    <2> QED BY <1>8, <2>2 DEF LeaseRunsOut, TypeOK
  <1> QED BY <1>1, <1>2, <1>3, <1>4, <1>5, <1>6, <1>7, <1>8, <1>p DEF Work

\* Every step keeps the types.
LEMMA TypeStep == ASSUME TypeOK, [Next]_vars PROVE TypeOK'
  <1>1. CASE RecoverStale
    <2>1. ASSUME NEW j \in Jobs
          PROVE  /\ job'[j] \in JobRows
                 /\ (job'[j].lease # "none") = (job'[j].status = "running")
      <3>1. job[j] \in JobRows /\ "failed" \in Unfinished \cup Ended
        BY DEF TypeOK, Ended
      <3>2. [job[j] EXCEPT !.status = "failed", !.lease = "none"] \in JobRows
        BY <3>1, RowType
      <3> QED BY <1>1, <3>1, <3>2 DEF RecoverStale, TypeOK, JobRows
    <2> QED BY <1>1, <2>1 DEF RecoverStale, TypeOK
  <1>2. CASE UNCHANGED vars
    BY <1>2 DEF vars, TypeOK
  <1> QED BY <1>1, <1>2, StudioType, PortalType, WorkerType DEF Next

\* Every row, worker, file, input and invitation stays well typed.
THEOREM TypeCorrect == Spec => []TypeOK
  BY InitType, TypeStep, PTL DEF Spec

-----------------------------------------------------------------------------
(* Workers and rows *)

\* What an accepted request makes of a job: a fresh row, or nothing.
LEMMA AddsRow ==
  ASSUME TypeOK, NEW new \in Fresh, NEW q, NEW s, NEW inputs, NEW root,
         Adds(new, q, s, inputs, root), NEW j \in Jobs
  PROVE  \/ UNCHANGED job[j]
         \/ /\ job[j].status = "absent"
            /\ job'[j].status = "queued" /\ job'[j].output = "none" /\ ~job'[j].refunded
            /\ job'[j].inputs = inputs /\ job'[j].session = s /\ job'[j].request = q
  BY DEF Adds, Fresh, Row

\* A fresh row has the inputs of its request.
LEMMA AddsInputs ==
  ASSUME TypeOK, NEW new \in Fresh, NEW q, NEW s, NEW inputs, NEW root,
         Adds(new, q, s, inputs, root)
  PROVE  \A j \in Jobs : UNCHANGED job[j] \/ job'[j].inputs = inputs
  BY AddsRow

\* The requests of the studio leave the workers and the files alone, and the
\* table as it is but for fresh rows.
LEMMA StudioRows ==
  ASSUME TypeOK, StudioNext
  PROVE  /\ UNCHANGED <<worker, file, deployment, invite>>
         /\ \A j \in Jobs : \/ UNCHANGED job[j]
                            \/ /\ job[j].status = "absent" /\ job'[j].status = "queued"
                               /\ job'[j].output = "none" /\ ~job'[j].refunded
  <1>1. ASSUME NEW q \in Requests, NEW s \in Sessions, NEW inputs \in SUBSET Assets,
               NEW new \in SUBSET Jobs, CreateTurn(q, s, inputs, new)
        PROVE  \A j \in Jobs : \/ UNCHANGED job[j]
                               \/ /\ job[j].status = "absent" /\ job'[j].status = "queued"
                                  /\ job'[j].output = "none" /\ ~job'[j].refunded
    BY <1>1, AddsRow DEF CreateTurn
  <1>2. ASSUME NEW q \in Requests, NEW new \in SUBSET Jobs, Resolve(q, new)
        PROVE  \A j \in Jobs : \/ UNCHANGED job[j]
                               \/ /\ job[j].status = "absent" /\ job'[j].status = "queued"
                                  /\ job'[j].output = "none" /\ ~job'[j].refunded
    BY <1>2, AddsRow DEF Resolve
  <1>3. ASSUME NEW i \in Jobs, NEW new \in Jobs, Retry(i, new)
        PROVE  \A j \in Jobs : \/ UNCHANGED job[j]
                               \/ /\ job[j].status = "absent" /\ job'[j].status = "queued"
                                  /\ job'[j].output = "none" /\ ~job'[j].refunded
    <2>1. {new} \in Fresh /\ Adds({new}, job[i].request, job[i].session, job[i].inputs, FALSE)
      BY <1>3 DEF Retry
    <2> QED BY <2>1, AddsRow
  <1>4. UNCHANGED <<worker, file, deployment, invite>>
    BY DEF StudioNext, Clarify, CreateTurn, Resolve, Retry, UploadDraft, DeleteDraft, CleanupDrafts
  <1> QED BY <1>1, <1>2, <1>3, <1>4
          DEF StudioNext, Clarify, UploadDraft, DeleteDraft, CleanupDrafts

\* What one worker does concerns its own job, worker and file only.
LEMMA WorkerIsLocal ==
  ASSUME TypeOK, NEW j \in Jobs, Claim(j) \/ Work(j) \/ Die(j) \/ LeaseRunsOut(j), NEW k \in Jobs \ {j}
  PROVE  UNCHANGED <<job[k], worker[k], file[k]>>
  BY DEF Claim, Work, Send, Answer, FinalizeSuccess, Succeeds, Discards, LookAgain, FinalizeFailure,
         PostAgain, PostWithout, Die, LeaseRunsOut, Moves, OnlyWorker, TypeOK

\* A worker keeps its own account.
LEMMA WorkerOnce ==
  ASSUME TypeOK, NEW j \in Jobs, OnceOf(j), Claim(j) \/ Work(j) \/ Die(j) \/ LeaseRunsOut(j)
  PROVE  OnceOf(j)'
  <1> USE DEF OnceOf, TypeOK
  <1>a. job[j] \in JobRows /\ worker[j] \in Workers
    OBVIOUS
  <1>b. job[j].lease # "none" <=> job[j].status = "running"
    OBVIOUS
  <1>1. CASE Claim(j)
    BY <1>1, <1>a DEF Claim, Moves, JobRows
  <1>2. CASE Send(j)
    BY <1>2, <1>a DEF Send, At, Live, OnlyWorker, Moves, JobRows, Billed, Workers
  <1>p. CASE PostAgain(j) \/ PostWithout(j)
    BY <1>p, <1>a, PostType DEF PostAgain, PostWithout
  <1>3. CASE Answer(j)
    BY <1>3, <1>a DEF Answer, At, OnlyWorker, Moves, JobRows
  <1>4. CASE FinalizeSuccess(j)
    BY <1>4, <1>a DEF FinalizeSuccess, Succeeds, Discards, At, Live, Moves, JobRows
  <1>5. CASE LookAgain(j)
    BY <1>5, <1>a DEF LookAgain, Discards, At, Moves, JobRows
  <1>6. CASE FinalizeFailure(j)
    BY <1>6, <1>a DEF FinalizeFailure, Refunds, At, Live, Moves, JobRows
  <1>7. CASE Die(j)
    BY <1>7, <1>a DEF Die, OnlyWorker, Moves, JobRows
  <1>8. CASE LeaseRunsOut(j)
    BY <1>8, <1>a, <1>b DEF LeaseRunsOut, JobRows
  <1> QED BY <1>1, <1>2, <1>3, <1>4, <1>5, <1>6, <1>7, <1>8, <1>p DEF Work

\* Nobody has begun.
LEMMA OnceInit == Init => Once
  BY DEF Init, Once, OnceOf

\* No step spoils a worker's account.
LEMMA OnceStep == ASSUME TypeOK, Once, [Next]_vars PROVE Once'
  <1>a. \A j \in Jobs : OnceOf(j)
    BY DEF Once
  <1>1. ASSUME StudioNext, NEW k \in Jobs PROVE OnceOf(k)'
    BY <1>1, <1>a, StudioRows DEF OnceOf
  <1>2. ASSUME PortalNext, NEW k \in Jobs PROVE OnceOf(k)'
    <2>1. ASSUME NEW a \in Assets, UploadLogo(a) PROVE OnceOf(k)'
      BY <2>1, <1>a DEF UploadLogo, OnceOf
    <2>2. ASSUME NEW a \in Assets, NEW q \in Requests, NEW j \in Jobs, CreateGeneration(q, a, j)
          PROVE  OnceOf(k)'
      <3>1. \/ UNCHANGED job[k]
            \/ /\ job[k].status = "absent" /\ job'[k].status = "queued"
               /\ job'[k].output = "none" /\ ~job'[k].refunded
        <4>1. {j} \in Fresh /\ Adds({j}, q, None, {a}, TRUE)
          BY <2>2 DEF CreateGeneration
        <4> QED BY <4>1, AddsRow
      <3> QED BY <2>2, <3>1, <1>a DEF CreateGeneration, OnceOf
    <2>3. CASE InviteEnds
      BY <2>3, <1>a DEF InviteEnds, OnceOf
    <2>4. CASE CleanupInvite
      <3>1. job[k] \in JobRows
        BY DEF TypeOK
      <3>2. /\ job'[k].status = job[k].status /\ job'[k].refunded = job[k].refunded
            /\ job'[k].output = "none" <=> job[k].output = "none"
            /\ job[k].output = "none" => file'[k] = file[k]
        BY <2>4, <3>1 DEF CleanupInvite, JobRows
      <3> QED BY <2>4, <3>2, <1>a DEF CleanupInvite, OnceOf
    <2> QED BY <1>2, <2>1, <2>2, <2>3, <2>4 DEF PortalNext
  <1>3. ASSUME NEW j \in Jobs, Claim(j) \/ Work(j) \/ Die(j) \/ LeaseRunsOut(j), NEW k \in Jobs
        PROVE  OnceOf(k)'
    <2>1. CASE k = j
      BY <1>3, <2>1, <1>a, WorkerOnce
    <2>2. CASE k # j
      BY <1>3, <2>2, <1>a, WorkerIsLocal DEF OnceOf
    <2> QED BY <2>1, <2>2
  <1>4. ASSUME RecoverStale, NEW k \in Jobs PROVE OnceOf(k)'
    <2>1. job[k] \in JobRows /\ (job[k].lease # "none" <=> job[k].status = "running")
      BY DEF TypeOK
    <2> QED BY <1>4, <2>1, <1>a DEF RecoverStale, OnceOf, JobRows
  <1>5. ASSUME UNCHANGED vars, NEW k \in Jobs PROVE OnceOf(k)'
    BY <1>5, <1>a DEF vars, OnceOf
  <1>6. \A k \in Jobs : OnceOf(k)'
    BY <1>1, <1>2, <1>3, <1>4, <1>5 DEF Next
  <1> QED BY <1>6 DEF Once

-----------------------------------------------------------------------------
(* Inputs and outputs *)

\* The inputs a request of the studio names, and those of its jobs so far, are
\* there after it: only drafts that no job refers to are removed.
LEMMA StudioInputs ==
  ASSUME TypeOK, InputsHeld, StudioNext
  PROVE  InputsHeld'
  <1> DEFINE Held(rows, kept) == \A j \in Jobs : rows[j].status # "absent" =>
                                    \A a \in rows[j].inputs : kept[a] # "deleted"
  <1> SUFFICES ASSUME Studio PROVE Held(job', asset')
    BY StudioRows DEF InputsHeld, Studio
  <1>a. Held(job, asset)
    BY DEF InputsHeld
  <1>b. \A j \in Jobs : job[j].inputs \subseteq Assets
    BY DEF TypeOK, JobRows
  <1>1. ASSUME NEW q \in Requests, NEW s \in Sessions, NEW inputs \in SUBSET Assets, Clarify(q, s, inputs)
        PROVE  Held(job', asset')
    BY <1>1, <1>a, <1>b DEF Clarify, Named, Usable
  <1>2. ASSUME NEW q \in Requests, NEW s \in Sessions, NEW inputs \in SUBSET Assets,
               NEW new \in SUBSET Jobs, CreateTurn(q, s, inputs, new)
        PROVE  Held(job', asset')
    <2>0. new \in Fresh /\ Adds(new, q, s, inputs, TRUE)
      BY <1>2 DEF CreateTurn
    <2>1. \A j \in Jobs : UNCHANGED job[j] \/ job'[j].inputs = inputs
      BY <2>0, AddsInputs
    <2>2. \A a \in Assets : asset[a] # "deleted" => asset'[a] # "deleted"
      BY <1>2 DEF CreateTurn, Promoted
    <2>3. \A a \in inputs : asset[a] # "deleted"
      BY <1>2 DEF CreateTurn, Usable
    <2> QED BY <1>2, <1>a, <1>b, <2>1, <2>2, <2>3 DEF CreateTurn
  <1>3. ASSUME NEW q \in Requests, NEW new \in SUBSET Jobs, Resolve(q, new)
        PROVE  Held(job', asset')
    <2>1. PICK m \in pending[q] : /\ \A a \in m.inputs : Usable(a)
                                  /\ new \in Fresh /\ Adds(new, q, m.session, m.inputs, TRUE)
                                  /\ asset' = Promoted(m.inputs)
      BY <1>3 DEF Resolve
    <2>2. m.inputs \subseteq Assets
      BY <2>1 DEF TypeOK
    <2>3. \A j \in Jobs : UNCHANGED job[j] \/ job'[j].inputs = m.inputs
      BY <2>1, AddsInputs
    <2>4. \A a \in Assets : asset[a] # "deleted" => asset'[a] # "deleted"
      BY <2>1 DEF Promoted
    <2>5. \A a \in m.inputs : asset[a] # "deleted"
      BY <2>1 DEF Usable
    <2> QED BY <1>a, <1>b, <2>2, <2>3, <2>4, <2>5
  <1>4. ASSUME NEW i \in Jobs, NEW new \in Jobs, Retry(i, new) PROVE Held(job', asset')
    <2>1. {new} \in Fresh /\ Adds({new}, job[i].request, job[i].session, job[i].inputs, FALSE)
      BY <1>4 DEF Retry
    <2>2. \A j \in Jobs : UNCHANGED job[j] \/ job'[j].inputs = job[i].inputs
      BY <2>1 DEF Adds, Row
    <2>3. job[i].status # "absent" /\ UNCHANGED asset
      BY <1>4 DEF Retry
    <2> QED BY <1>a, <2>2, <2>3
  <1>5. ASSUME NEW a \in Assets, DeleteDraft(a) \/ UploadDraft(a) PROVE Held(job', asset')
    BY <1>5, <1>a, <1>b DEF DeleteDraft, UploadDraft, Referenced, TypeOK
  <1>6. ASSUME NEW expired \in SUBSET Assets, CleanupDrafts(expired) PROVE Held(job', asset')
    BY <1>6, <1>a, <1>b DEF CleanupDrafts, Referenced
  <1> QED BY <1>1, <1>2, <1>3, <1>4, <1>5, <1>6 DEF StudioNext

\* What workers and the recovery of stale jobs leave alone: the requests, inputs
\* and outcomes of all jobs.
LEMMA WorkerKeeps ==
  ASSUME TypeOK,
         \/ \E j \in Jobs : Claim(j) \/ Work(j) \/ Die(j) \/ LeaseRunsOut(j)
         \/ RecoverStale
  PROVE  /\ UNCHANGED <<deployment, asset, pending>>
         /\ \A k \in Jobs :
               /\ UNCHANGED <<job[k].request, job[k].session, job[k].inputs>>
               /\ job'[k].status = "absent" <=> job[k].status = "absent"
               /\ job'[k].status \in Unfinished => job[k].status \in Unfinished
               /\ job[k].status \in Ended => UNCHANGED <<job[k].status, job[k].refunded>>
  <1> DEFINE Keeps(k) == /\ UNCHANGED <<job[k].request, job[k].session, job[k].inputs>>
                         /\ job'[k].status = "absent" <=> job[k].status = "absent"
                         /\ job'[k].status \in Unfinished => job[k].status \in Unfinished
                         /\ job[k].status \in Ended => UNCHANGED <<job[k].status, job[k].refunded>>
  <1>a. \A k \in Jobs : job[k] \in JobRows /\ (job[k].lease # "none" <=> job[k].status = "running")
    BY DEF TypeOK
  <1>1. ASSUME NEW j \in Jobs, Claim(j) \/ Work(j) \/ Die(j) \/ LeaseRunsOut(j) PROVE Keeps(j)
    <2> USE DEF TypeOK, JobRows, Unfinished, Ended
    <2>1. CASE UNCHANGED job
      BY <2>1
    <2>2. CASE Claim(j)
      BY <2>2, <1>a DEF Claim
    <2>3. CASE Live(j) /\ Succeeds(j)
      BY <2>3, <1>a DEF Live, Succeeds
    <2>4. CASE Live(j) /\ job' = [job EXCEPT ![j].status = "failed", ![j].lease = "none",
                                              ![j].refunded = Refunds(j)]
      BY <2>4, <1>a DEF Live
    <2>5. CASE LeaseRunsOut(j)
      BY <2>5, <1>a DEF LeaseRunsOut
    <2> QED BY <1>1, <2>1, <2>2, <2>3, <2>4, <2>5
            DEF Work, Send, PostAgain, PostWithout, Answer, FinalizeSuccess, LookAgain,
                FinalizeFailure, Die, OnlyWorker
  <1>2. ASSUME RecoverStale, NEW k \in Jobs PROVE Keeps(k)
    BY <1>2, <1>a DEF RecoverStale, JobRows, Unfinished, Ended
  <1>3. UNCHANGED <<deployment, asset, pending>>
    BY DEF Claim, Work, Send, PostAgain, PostWithout, Answer, FinalizeSuccess, LookAgain,
           FinalizeFailure, Die, LeaseRunsOut, RecoverStale, OnlyWorker
  <1>4. ASSUME NEW k \in Jobs PROVE Keeps(k)
    <2>1. ASSUME NEW j \in Jobs \ {k}, Claim(j) \/ Work(j) \/ Die(j) \/ LeaseRunsOut(j) PROVE Keeps(k)
      BY <2>1, WorkerIsLocal
    <2> QED BY <1>1, <1>2, <2>1
  <1> QED BY <1>3, <1>4

\* The studio's requests happen in the studio only.
LEMMA StudioOnly == ASSUME TypeOK, NoPending, StudioNext PROVE Studio
  <1>1. ASSUME Portal PROVE \A q \in Requests, new \in SUBSET Jobs : ~Resolve(q, new)
    BY <1>1 DEF NoPending, Resolve
  <1>2. Studio \/ Portal
    BY ImageAssumption DEF TypeOK, Studio, Portal
  <1> QED BY <1>1, <1>2 DEF StudioNext, Clarify, CreateTurn, Retry, UploadDraft, DeleteDraft, CleanupDrafts

\* The portal's requests happen in the portal only, and leave workers alone.
LEMMA PortalOnly == ASSUME PortalNext PROVE Portal /\ ~Studio /\ UNCHANGED <<deployment, pending, worker>>
  BY DEF PortalNext, UploadLogo, CreateGeneration, InviteEnds, CleanupInvite, Retired, Portal, Studio

\* No step leaves a question open in the portal.
LEMMA PendingStep == ASSUME TypeOK, NoPending, [Next]_vars PROVE NoPending'
  <1>1. CASE StudioNext
    BY <1>1, StudioOnly, StudioRows DEF NoPending, Portal, Studio
  <1>2. CASE PortalNext
    BY <1>2, PortalOnly DEF NoPending, Portal
  <1>3. CASE RecoverStale \/ \E j \in Jobs : Claim(j) \/ Work(j) \/ Die(j) \/ LeaseRunsOut(j)
    BY <1>3, WorkerKeeps DEF NoPending, Portal
  <1> QED BY <1>1, <1>2, <1>3 DEF Next, vars, NoPending, Portal

\* No step deletes an input of a job of the studio.
LEMMA InputsStep == ASSUME TypeOK, NoPending, InputsHeld, [Next]_vars PROVE InputsHeld'
  <1>1. CASE StudioNext
    BY <1>1, StudioInputs
  <1>2. CASE PortalNext
    BY <1>2, PortalOnly DEF InputsHeld, Studio
  <1>3. CASE RecoverStale \/ \E j \in Jobs : Claim(j) \/ Work(j) \/ Die(j) \/ LeaseRunsOut(j)
    BY <1>3, WorkerKeeps DEF InputsHeld, Studio
  <1> QED BY <1>1, <1>2, <1>3 DEF Next, vars, InputsHeld, Studio

\* Jobs added to a conversation that is not busy keep it with one request.
LEMMA SerialAdds ==
  ASSUME TypeOK, ConversationIsSerial, NEW new \in Fresh, NEW q, NEW s, NEW inputs, NEW root,
         Adds(new, q, s, inputs, root), ~SessionBusy(s), UNCHANGED deployment
  PROVE  ConversationIsSerial'
  <1>1. \A j \in Jobs : \/ j \notin new /\ UNCHANGED job[j]
                        \/ j \in new /\ job'[j].session = s /\ job'[j].request = q
    BY DEF Adds, Row
  <1>2. \A j \in Jobs : job[j].status \in Unfinished => job[j].session # s
    BY DEF SessionBusy, Active
  <1> QED BY <1>1, <1>2 DEF ConversationIsSerial, Active, Studio

\* A conversation stays with one request at a time.
LEMMA SerialStep == ASSUME TypeOK, NoPending, ConversationIsSerial, [Next]_vars PROVE ConversationIsSerial'
  <1>1. CASE StudioNext
    <2>1. ASSUME NEW q \in Requests, NEW s \in Sessions, NEW inputs \in SUBSET Assets,
                 NEW new \in SUBSET Jobs, CreateTurn(q, s, inputs, new)
          PROVE  ConversationIsSerial'
      BY <2>1, SerialAdds DEF CreateTurn, Capacity
    <2>2. ASSUME NEW q \in Requests, NEW new \in SUBSET Jobs, Resolve(q, new) PROVE ConversationIsSerial'
      BY <2>2, SerialAdds DEF Resolve, Capacity
    <2>3. ASSUME NEW i \in Jobs, NEW new \in Jobs, Retry(i, new) PROVE ConversationIsSerial'
      <3>1. /\ {new} \in Fresh /\ Adds({new}, job[i].request, job[i].session, job[i].inputs, FALSE)
            /\ ~SessionBusy(job[i].session) /\ UNCHANGED deployment
        BY <2>3 DEF Retry, Capacity
      <3> QED BY <3>1, SerialAdds
    <2>4. CASE UNCHANGED <<job, deployment>>
      BY <2>4 DEF ConversationIsSerial, Active, Studio
    <2> QED BY <1>1, <2>1, <2>2, <2>3, <2>4 DEF StudioNext, Clarify, UploadDraft, DeleteDraft, CleanupDrafts
  <1>2. CASE PortalNext
    BY <1>2, PortalOnly DEF ConversationIsSerial, Studio
  <1>3. CASE RecoverStale \/ \E j \in Jobs : Claim(j) \/ Work(j) \/ Die(j) \/ LeaseRunsOut(j)
    BY <1>3, WorkerKeeps DEF ConversationIsSerial, Studio, Active
  <1> QED BY <1>1, <1>2, <1>3 DEF Next, vars, ConversationIsSerial, Studio, Active
\* No step takes the file or the inputs of a job from under it.
LEMMA InputsKeptStep ==
  ASSUME TypeOK, NoPending, InputsHeld, InputsKept, [Next]_vars
  PROVE  InputsKept'
  <1>1. CASE StudioNext
    <2>1. Studio /\ Studio'
      BY <1>1, StudioOnly, StudioRows DEF Studio
    <2>2. InputsHeld'
      BY <1>1, StudioInputs
    <2> QED BY <2>1, <2>2 DEF InputsHeld, InputsKept, Active, Unfinished
  <1>2. CASE PortalNext
    <2>1. ASSUME NEW a \in Assets, UploadLogo(a) PROVE InputsKept'
      BY <2>1 DEF UploadLogo, InputsKept, Active, TypeOK, JobRows
    <2>2. ASSUME NEW a \in Assets, NEW q \in Requests, NEW j \in Jobs, CreateGeneration(q, a, j)
          PROVE  InputsKept'
      <3>1. \A k \in Jobs : \/ UNCHANGED job[k]
                            \/ job'[k].inputs = {a}
        <4>1. {j} \in Fresh /\ Adds({j}, q, None, {a}, TRUE)
          BY <2>2 DEF CreateGeneration
        <4> QED BY <4>1, AddsInputs
      <3>2. asset[a] = "attached" /\ UNCHANGED asset
        BY <2>2 DEF CreateGeneration
      <3> QED BY <3>1, <3>2 DEF InputsKept, Active
    <2>3. CASE InviteEnds
      BY <2>3 DEF InviteEnds, InputsKept, Active
    <2>4. CASE CleanupInvite
      <3>1. \A k \in Jobs : job'[k].status = job[k].status
        BY <2>4 DEF CleanupInvite, TypeOK, JobRows
      <3>2. Active' = {}
        BY <2>4, <3>1 DEF CleanupInvite, Retired, Active
      <3> QED BY <3>2 DEF InputsKept
    <2> QED BY <1>2, <2>1, <2>2, <2>3, <2>4 DEF PortalNext
  <1>3. CASE RecoverStale \/ \E j \in Jobs : Claim(j) \/ Work(j) \/ Die(j) \/ LeaseRunsOut(j)
    BY <1>3, WorkerKeeps DEF InputsKept, Active
  <1>4. CASE UNCHANGED vars
    BY <1>4 DEF vars, InputsKept, Active
  <1> QED BY <1>1, <1>2, <1>3, <1>4 DEF Next

\* A worker stores before it commits, and discards only what no row keeps.
LEMMA WorkerOutput ==
  ASSUME TypeOK, NEW j \in Jobs, OnceOf(j), Claim(j) \/ Work(j) \/ Die(j) \/ LeaseRunsOut(j),
         OutputKept(j)
  PROVE  OutputKept(j)'
  <1> USE DEF TypeOK
  <1>a. job[j] \in JobRows /\ worker[j] \in Workers
    OBVIOUS
  <1>b. UNCHANGED deployment
    BY WorkerKeeps
  <1> USE DEF OutputKept, Portal
  <1>1. CASE UNCHANGED <<job, file>>
    BY <1>1, <1>b
  <1>2. CASE Claim(j)
    BY <1>2, <1>a, <1>b DEF Claim, JobRows
  <1>3. CASE Answer(j)
    BY <1>3, <1>a, <1>b DEF Answer, OnlyWorker, JobRows
  <1>4. CASE FinalizeSuccess(j)
    <2>1. job[j].output = "none" /\ file[j] = "present"
      BY <1>4 DEF FinalizeSuccess, OnceOf, At
    <2>2. CASE UNCHANGED job
      BY <2>1, <2>2, <1>b
    <2>3. CASE UNCHANGED file
      BY <2>1, <2>3, <1>b
    <2> QED BY <1>4, <2>2, <2>3 DEF FinalizeSuccess
  <1>5. CASE LookAgain(j)
    <2>1. UNCHANGED job
      BY <1>5 DEF LookAgain
    <2>2. CASE UNCHANGED file
      BY <2>1, <2>2, <1>b
    <2>3. CASE ~Kept(j)
      BY <2>1, <2>3, <1>b DEF Kept
    <2> QED BY <1>5, <2>2, <2>3 DEF LookAgain
  <1>6. CASE FinalizeFailure(j)
    BY <1>6, <1>a, <1>b DEF FinalizeFailure, JobRows
  <1>7. CASE LeaseRunsOut(j)
    BY <1>7, <1>a, <1>b DEF LeaseRunsOut, JobRows
  <1> QED BY <1>1, <1>2, <1>3, <1>4, <1>5, <1>6, <1>7 
         DEF Work, Send, PostAgain, PostWithout, Die, OnlyWorker

\* No step takes the image of a job that succeeded.
LEMMA OutputsKeptStep ==
  ASSUME TypeOK, Once, OutputsKept, [Next]_vars
  PROVE  OutputsKept'
  <1>a. \A j \in Jobs : OutputKept(j) /\ OnceOf(j)
    BY DEF OutputsKept, OutputKept, Once
  <1> SUFFICES ASSUME NEW k \in Jobs PROVE OutputKept(k)'
    BY DEF OutputsKept, OutputKept
  <1>1. CASE StudioNext
    BY <1>1, <1>a, StudioRows DEF OutputKept, Portal
  <1>2. CASE PortalNext
    <2>1. ASSUME NEW a \in Assets, UploadLogo(a) PROVE OutputKept(k)'
      BY <2>1, <1>a DEF UploadLogo, OutputKept, Portal
    <2>2. ASSUME NEW a \in Assets, NEW q \in Requests, NEW j \in Jobs, CreateGeneration(q, a, j)
          PROVE  OutputKept(k)'
      <3>1. UNCHANGED job[k] \/ job'[k].output = "none"
        <4>1. {j} \in Fresh /\ Adds({j}, q, None, {a}, TRUE)
          BY <2>2 DEF CreateGeneration
        <4> QED BY <4>1, AddsRow
      <3> QED BY <2>2, <3>1, <1>a DEF CreateGeneration, OutputKept, Portal
    <2>3. CASE InviteEnds
      BY <2>3, <1>a DEF InviteEnds, OutputKept, Portal
    <2>4. CASE CleanupInvite
      <3>1. job'[k].output # "kept"
        <4>1. job[k] \in JobRows
          BY DEF TypeOK
        <4> QED BY <2>4, <4>1 DEF CleanupInvite, JobRows
      <3> QED BY <3>1 DEF OutputKept
    <2> QED BY <1>2, <2>1, <2>2, <2>3, <2>4 DEF PortalNext
  <1>3. ASSUME NEW j \in Jobs, Claim(j) \/ Work(j) \/ Die(j) \/ LeaseRunsOut(j) PROVE OutputKept(k)'
    <2>1. CASE k = j
      BY <1>3, <2>1, <1>a, WorkerOutput
    <2>2. CASE k # j
      <3>1. UNCHANGED <<job[k], file[k]>>
        BY <1>3, <2>2, WorkerIsLocal
      <3>2. UNCHANGED deployment
        BY <1>3, WorkerKeeps
      <3> QED BY <3>1, <3>2, <1>a DEF OutputKept, Portal
    <2> QED BY <2>1, <2>2
  <1>4. CASE RecoverStale
    <2>1. job[k] \in JobRows
      BY DEF TypeOK
    <2> QED BY <1>4, <2>1, <1>a DEF RecoverStale, OutputKept, Portal, JobRows
  <1>5. CASE UNCHANGED vars
    BY <1>5, <1>a DEF vars, OutputKept, Portal
  <1> QED BY <1>1, <1>2, <1>3, <1>4, <1>5 DEF Next

\* Both halves of `FilesAreKept' together.
LEMMA FilesStep ==
  ASSUME TypeOK, Once, NoPending, InputsHeld, FilesAreKept, [Next]_vars
  PROVE  FilesAreKept'
  <1>1. InputsKept /\ OutputsKept
    BY DEF FilesAreKept, InputsKept, OutputsKept
  <1>2. InputsKept' /\ OutputsKept'
    BY <1>1, InputsKeptStep, OutputsKeptStep
  <1> QED BY <1>2 DEF FilesAreKept, InputsKept, OutputsKept
-----------------------------------------------------------------------------
(* The quota *)

\* The generations the quota of the invitation has to count.
Charged == {j \in Jobs : job[j].status # "absent" /\ ~job[j].refunded}
QuotaUsed == Portal => invite.used = Cardinality(Charged)

\* A step that changes neither the invitation's count nor a row's charge.
LEMMA QuotaSame ==
  ASSUME QuotaUsed, UNCHANGED deployment, invite'.used = invite.used, Charged' = Charged
  PROVE  QuotaUsed'
  BY DEF QuotaUsed, Portal

\* An accepted generation is counted.
LEMMA QuotaAccepts ==
  ASSUME TypeOK, QuotaUsed, NEW q \in Requests, NEW a \in Assets, NEW j \in Jobs, CreateGeneration(q, a, j)
  PROVE  QuotaUsed'
  <1>1. {j} \in Fresh /\ Adds({j}, q, None, {a}, TRUE)
    BY DEF CreateGeneration
  <1>2. j \notin Charged /\ Charged' = Charged \cup {j}
    BY <1>1 DEF Fresh, Adds, Row, Charged
  <1>3. IsFiniteSet(Charged)
    BY ImageAssumption, FS_Subset DEF Charged
  <1>4. Cardinality(Charged') = Cardinality(Charged) + 1
    BY <1>2, <1>3, FS_AddElement
  <1>5. invite'.used = invite.used + 1 /\ Portal
    BY DEF CreateGeneration, TypeOK
  <1> QED BY <1>4, <1>5 DEF QuotaUsed

\* A generation that is given back is counted no longer.
LEMMA QuotaGivesBack ==
  ASSUME TypeOK, Once, QuotaUsed, NEW j \in Jobs, FinalizeFailure(j)
  PROVE  QuotaUsed'
  <1>a. job[j] \in JobRows /\ UNCHANGED deployment
    BY DEF TypeOK, FinalizeFailure
  <1>1. CASE UNCHANGED <<job, invite>>
    BY <1>1, <1>a, QuotaSame DEF Charged
  <1>2. CASE /\ Live(j)
             /\ job' = [job EXCEPT ![j].status = "failed", ![j].lease = "none", ![j].refunded = Refunds(j)]
             /\ invite' = [invite EXCEPT !.used = IF Refunds(j) THEN @ - 1 ELSE @]
    <2>1. j \in Charged
      BY <1>2 DEF Live, Once, OnceOf, Charged
    <2>2. \A k \in Jobs \ {j} : UNCHANGED job[k]
      BY <1>2 DEF TypeOK
    <2>3. job'[j].status = "failed" /\ job'[j].refunded = Refunds(j)
      BY <1>2, <1>a DEF TypeOK, JobRows
    <2>4. CASE Refunds(j)
      <3>1. Charged' = Charged \ {j}
        BY <2>2, <2>3, <2>4 DEF Charged
      <3>2. IsFiniteSet(Charged)
        BY ImageAssumption, FS_Subset DEF Charged
      <3>3. Cardinality(Charged') = Cardinality(Charged) - 1
        BY <2>1, <3>1, <3>2, FS_RemoveElement
      <3>4. invite'.used = invite.used - 1
        BY <1>2, <2>4 DEF TypeOK
      <3> QED BY <1>a, <3>3, <3>4 DEF QuotaUsed, Portal
    <2>5. CASE ~Refunds(j)
      <3>1. Charged' = Charged
        BY <2>1, <2>2, <2>3, <2>5 DEF Charged
      <3>2. invite'.used = invite.used
        BY <1>2, <2>5 DEF TypeOK
      <3> QED BY <1>a, <3>1, <3>2, QuotaSame
    <2> QED BY <2>4, <2>5
  <1> QED BY <1>1, <1>2 DEF FinalizeFailure

\* The count of the invitation follows the table through every step.
LEMMA QuotaStep ==
  ASSUME TypeOK, Once, NoPending, QuotaUsed, [Next]_vars
  PROVE  QuotaUsed'
  <1>1. CASE StudioNext
    BY <1>1, StudioOnly, StudioRows DEF QuotaUsed, Studio, Portal
  <1>2. CASE PortalNext
    <2>1. ASSUME NEW a \in Assets, UploadLogo(a) PROVE QuotaUsed'
      BY <2>1, QuotaSame DEF UploadLogo, Charged
    <2>2. ASSUME NEW a \in Assets, NEW q \in Requests, NEW j \in Jobs, CreateGeneration(q, a, j)
          PROVE  QuotaUsed'
      BY <2>2, QuotaAccepts
    <2>3. CASE InviteEnds
      <3>1. invite'.used = invite.used
        BY <2>3 DEF InviteEnds, TypeOK
      <3> QED BY <2>3, <3>1, QuotaSame DEF InviteEnds, Charged
    <2>4. CASE CleanupInvite
      <3>1. \A k \in Jobs : job'[k].status = job[k].status /\ job'[k].refunded = job[k].refunded
        BY <2>4 DEF CleanupInvite, TypeOK, JobRows
      <3>2. Charged' = Charged
        BY <3>1 DEF Charged
      <3> QED BY <2>4, <3>2, QuotaSame DEF CleanupInvite
    <2> QED BY <1>2, <2>1, <2>2, <2>3, <2>4 DEF PortalNext
  <1>3. ASSUME NEW j \in Jobs, Claim(j) \/ Work(j) \/ Die(j) \/ LeaseRunsOut(j) PROVE QuotaUsed'
    <2>a. job[j] \in JobRows
      BY DEF TypeOK
    <2>1. CASE FinalizeFailure(j)
      BY <2>1, QuotaGivesBack
    <2>2. CASE UNCHANGED <<job, invite, deployment>>
      BY <2>2, QuotaSame DEF Charged
    <2>3. CASE Claim(j) \/ LeaseRunsOut(j) \/ (Live(j) /\ Succeeds(j) /\ UNCHANGED <<invite, deployment>>)
      <3>1. /\ job[j].status # "absent" <=> job'[j].status # "absent"
            /\ job'[j].refunded = job[j].refunded
            /\ \A k \in Jobs \ {j} : UNCHANGED job[k]
        BY <2>3, <2>a DEF Claim, LeaseRunsOut, Live, Succeeds, TypeOK, JobRows
      <3>2. Charged' = Charged
        BY <3>1 DEF Charged
      <3>3. UNCHANGED <<invite, deployment>>
        BY <2>3 DEF Claim, LeaseRunsOut
      <3> QED BY <3>2, <3>3, QuotaSame
    <2> QED BY <1>3, <2>1, <2>2, <2>3
            DEF Work, Send, PostAgain, PostWithout, Answer, FinalizeSuccess, LookAgain, Die, OnlyWorker
  <1>4. CASE RecoverStale
    <2>1. ASSUME NEW k \in Jobs
          PROVE  /\ job[k].status # "absent" <=> job'[k].status # "absent"
                 /\ job'[k].refunded = job[k].refunded
      <3>1. job[k] \in JobRows /\ (job[k].lease # "none" <=> job[k].status = "running")
        BY DEF TypeOK
      <3> QED BY <1>4, <3>1 DEF RecoverStale, JobRows
    <2>2. Charged' = Charged
      BY <2>1 DEF Charged
    <2> QED BY <1>4, <2>2, QuotaSame DEF RecoverStale
  <1>5. CASE UNCHANGED vars
    BY <1>5, QuotaSame DEF vars, Charged
  <1> QED BY <1>1, <1>2, <1>3, <1>4, <1>5 DEF Next

-----------------------------------------------------------------------------
(* The invariant *)

\* What `IInv' says of the quota: the count, and what was given back.
LEMMA QuotaParts == Once => (QuotaIsExact <=> QuotaUsed)
  BY DEF Once, OnceOf, QuotaIsExact, QuotaUsed, Charged

\* The strengthened invariant holds initially.
LEMMA InvariantInit == Init => IInv
  <1> SUFFICES ASSUME Init PROVE IInv
    OBVIOUS
  <1>1. TypeOK /\ Once
    BY InitType, OnceInit
  <1>2. NoPending /\ InputsHeld /\ FilesAreKept /\ ConversationIsSerial
    BY DEF Init, NoPending, InputsHeld, FilesAreKept, ConversationIsSerial, Active, Unfinished
  <1>3. Charged = {} /\ invite.used = 0
    BY DEF Init, Charged
  <1>4. QuotaUsed
    BY <1>3, FS_EmptySet DEF QuotaUsed
  <1> QED BY <1>1, <1>2, <1>4, QuotaParts DEF IInv

\* The strengthened invariant is inductive.
LEMMA InvariantStep == IInv /\ [Next]_vars => IInv'
  <1> SUFFICES ASSUME IInv, [Next]_vars PROVE IInv'
    OBVIOUS
  <1>1. TypeOK' /\ Once' /\ NoPending' /\ InputsHeld'
    BY TypeStep, OnceStep, PendingStep, InputsStep DEF IInv
  <1>2. FilesAreKept' /\ ConversationIsSerial'
    BY FilesStep, SerialStep DEF IInv
  <1>3. QuotaUsed'
    BY QuotaStep, QuotaParts DEF IInv
  <1>4. QuotaIsExact'
    BY <1>1, <1>3 DEF Once, OnceOf, QuotaIsExact, QuotaUsed, Charged
  <1> QED BY <1>1, <1>2, <1>4 DEF IInv

\* The strengthened invariant holds of every reachable state of both desks.
THEOREM Invariant == Spec => []IInv
  BY InvariantInit, InvariantStep, PTL DEF Spec

\* However requests, failures, recoveries and give-backs interleave, the quota
\* of an invitation counts exactly what was accepted and not given back, and
\* nothing that may have been billed is given back (create_generation,
\* finalize_failure, classify_image_error).
THEOREM QuotaCorrect == Spec => []QuotaIsExact
  <1>1. IInv => QuotaIsExact
    BY DEF IInv
  <1> QED BY <1>1, Invariant, PTL

\* No clean-up, deletion or lost acknowledgement removes an input of an
\* unfinished job or, except in the studio on a local disk, the image of one
\* that succeeded (cleanup_expired_drafts, cleanup_expired_invite_assets,
\* _reconcile_success).
THEOREM FilesCorrect == Spec => []FilesAreKept
  <1>1. IInv => FilesAreKept
    BY DEF IInv
  <1> QED BY <1>1, Invariant, PTL

\* Two requests of one conversation are never under way at a time, though a
\* retry or a late confirmation may come at any moment (_enforce_capacity).
THEOREM SerialCorrect == Spec => []ConversationIsSerial
  <1>1. IInv => ConversationIsSerial
    BY DEF IInv
  <1> QED BY <1>1, Invariant, PTL

\* No job is paid for twice except within the one call of the image service that lost
\* an answer, and none ends twice, whichever worker is slow, dead or late
\* (claim_next_job, _live_locked_job, recover_stale_jobs).
THEOREM PaidByOneCallCorrect == Spec => PaidByOneCall
  <1>1. IInv => \A j \in Jobs : worker[j].bill # "twice"
    BY DEF IInv, Once, OnceOf
  <1>2. ASSUME IInv, [Next]_vars, NEW j \in Jobs, job[j].status \in Ended
        PROVE  job'[j].status = job[j].status /\ job'[j].refunded = job[j].refunded
    <2>a. TypeOK /\ job[j].status # "absent" /\ job[j] \in JobRows
      BY <1>2 DEF IInv, Ended, TypeOK
    <2>1. CASE StudioNext
      BY <2>1, <2>a, StudioRows
    <2>2. CASE PortalNext
      <3>1. ASSUME NEW a \in Assets, UploadLogo(a) PROVE UNCHANGED job
        BY <3>1 DEF UploadLogo
      <3>2. ASSUME NEW a \in Assets, NEW q \in Requests, NEW i \in Jobs, CreateGeneration(q, a, i)
            PROVE  UNCHANGED job[j]
        <4>1. {i} \in Fresh /\ Adds({i}, q, None, {a}, TRUE)
          BY <3>2 DEF CreateGeneration
        <4> QED BY <2>a, <4>1, AddsRow
      <3>3. CASE CleanupInvite
        BY <3>3, <2>a DEF CleanupInvite, JobRows
      <3> QED BY <2>2, <3>1, <3>2, <3>3 DEF PortalNext, InviteEnds
    <2>3. CASE RecoverStale \/ \E i \in Jobs : Claim(i) \/ Work(i) \/ Die(i) \/ LeaseRunsOut(i)
      BY <1>2, <2>3, <2>a, WorkerKeeps
    <2>4. CASE UNCHANGED vars
      BY <2>4 DEF vars
    <2> QED BY <1>2, <2>1, <2>2, <2>3, <2>4 DEF Next
  <1>3. IInv /\ [Next]_vars =>
          [\A j \in Jobs : job[j].status \in Ended =>
              job'[j].status = job[j].status /\ job'[j].refunded = job[j].refunded]_vars
    BY <1>2
  <1> QED BY <1>1, <1>3, Invariant, PTL DEF Spec, PaidByOneCall
-----------------------------------------------------------------------------
(* The rotating scan: the strengthening *)

\* The rows the scan passes on its way from cursor c, round the table, to row i.
Gap(c, i) == {j \in Ids : IF c < i THEN c < j /\ j < i ELSE c < j \/ j < i}

\* A row that is left out has that much less of the way to wait for.
WayIsLeft == \A i \in Ids : missed[i] * Limit + Cardinality(Gap(cursor, i)) < Cardinality(Ids)

\* What Take, Handle and Restart need of one another: the batch is short and has no row
\* twice, and the way to each row is bounded.
ScanTypes ==
    /\ eligible \subseteq Ids /\ cursor \in Ids \cup {0} /\ batch \in Seq(Ids)
    /\ missed \in [Ids -> Nat]

ScanInv == ScanTypes /\ IsInjective(batch) /\ Len(batch) <= Limit /\ WayIsLeft

-----------------------------------------------------------------------------
(* The rotating scan: the order of the keys *)

\* The smaller of two lengths.
LEMMA MinSays ==
  ASSUME NEW m \in Nat, NEW n \in Nat
  PROVE  Min({m, n}) = IF m <= n THEN m ELSE n
  BY DEF Min

\* The rows before a row number it, without gaps.
LEMMA RankSays ==
  ASSUME NEW S, S \subseteq Nat, IsFiniteSet(S)
  PROVE  /\ \A i \in S : Cardinality(Before(S, i)) \in 0 .. Cardinality(S) - 1
         /\ \A i, j \in S : i < j => Cardinality(Before(S, i)) < Cardinality(Before(S, j))
         /\ \A k \in 0 .. Cardinality(S) - 1 : \E i \in S : Cardinality(Before(S, i)) = k
  <1>1. Cardinality(S) \in Nat
    BY FS_CardinalityType
  <1>2. ASSUME NEW i \in S
        PROVE  /\ IsFiniteSet(Before(S, i)) /\ Cardinality(Before(S, i)) \in Nat
               /\ Cardinality(Before(S, i)) < Cardinality(S)
    <2>1. Before(S, i) \in SUBSET S /\ i \notin Before(S, i)
      BY DEF Before
    <2>2. /\ IsFiniteSet(Before(S, i)) /\ Cardinality(Before(S, i)) <= Cardinality(S)
          /\ Cardinality(S) = Cardinality(Before(S, i)) => S = Before(S, i)
      BY <2>1, FS_Subset
    <2>3. Cardinality(Before(S, i)) \in Nat
      BY <2>2, FS_CardinalityType
    <2> QED BY <1>1, <2>1, <2>2, <2>3
  <1>3. ASSUME NEW i \in S, NEW j \in S, i < j
        PROVE  Cardinality(Before(S, i)) < Cardinality(Before(S, j))
    <2>1. \A x \in S : x \in Nat
      OBVIOUS
    <2>2. i \in Before(S, j) /\ i \notin Before(S, i)
      BY <1>3, <2>1 DEF Before
    <2>3. \A x \in Before(S, i) : x \in Before(S, j)
      <3>1. \A x \in S : x < i => x < j
        BY <1>3, <2>1
      <3> QED BY <3>1 DEF Before
    <2>4. Before(S, i) \in SUBSET Before(S, j)
      BY <2>3
    <2>5. /\ Cardinality(Before(S, i)) <= Cardinality(Before(S, j))
          /\ Cardinality(Before(S, j)) = Cardinality(Before(S, i)) => Before(S, j) = Before(S, i)
      BY <1>2, <2>4, FS_Subset
    <2> QED BY <1>2, <2>2, <2>5
  <1> DEFINE T == 0 .. Cardinality(S) - 1
             rank == [i \in S |-> Cardinality(Before(S, i))]
  <1>4. rank \in [S -> T]
    BY <1>1, <1>2
  <1>5. \A i, j \in S : rank[i] = rank[j] => i = j
    <2> SUFFICES ASSUME NEW i \in S, NEW j \in S, i # j PROVE rank[i] # rank[j]
      OBVIOUS
    <2>1. i < j \/ j < i
      OBVIOUS
    <2> QED BY <1>2, <1>3, <2>1
  <1>6. IsFiniteSet(T) /\ Cardinality(T) = Cardinality(S)
    <2>1. 0 \in Int /\ Cardinality(S) - 1 \in Int
      BY <1>1
    <2>2. IsFiniteSet(T) /\ Cardinality(T) = IF 0 > Cardinality(S) - 1 THEN 0 ELSE Cardinality(S) - 1 - 0 + 1
      BY <2>1, FS_Interval
    <2> QED BY <1>1, <2>2
  <1>7. rank \in Injection(S, T)
    BY <1>4, <1>5 DEF Injection, IsInjective
  <1>8. rank \in Surjection(S, T)
    BY <1>6, <1>7, FS_Injection
  <1>9. \A k \in T : \E i \in S : rank[i] = k
    BY <1>8 DEF Surjection
  <1> QED BY <1>1, <1>2, <1>3, <1>9

\* The lowest rows of a set come in order; those left out come after all of them.
LEMMA LowestSays ==
  ASSUME NEW S, S \subseteq Nat, IsFiniteSet(S), NEW n \in Nat
  PROVE  /\ Lowest(S, n) \in Seq(S) /\ Len(Lowest(S, n)) <= n
         /\ \A k, l \in 1 .. Len(Lowest(S, n)) : k < l => Lowest(S, n)[k] < Lowest(S, n)[l]
         /\ \A i \in S : (\E k \in 1 .. Len(Lowest(S, n)) : Lowest(S, n)[k] = i)
                         \/ /\ Len(Lowest(S, n)) = n
                            /\ \A k \in 1 .. n : Lowest(S, n)[k] < i
  <1> DEFINE m == Min({n, Cardinality(S)})
             L == Lowest(S, n)
  <1>1. Cardinality(S) \in Nat
    BY FS_CardinalityType
  <1>2. m \in Nat /\ m <= n /\ m <= Cardinality(S) /\ (m = n \/ m = Cardinality(S))
    BY <1>1, MinSays
  <1>3. \A k \in 1 .. m : L[k] = CHOOSE i \in S : Cardinality(Before(S, i)) = k - 1
    BY DEF Lowest
  <1> HIDE DEF m
  <1>4. \A k \in 1 .. m : L[k] \in S /\ Cardinality(Before(S, L[k])) = k - 1
    <2> SUFFICES ASSUME NEW k \in 1 .. m PROVE L[k] \in S /\ Cardinality(Before(S, L[k])) = k - 1
      OBVIOUS
    <2>1. \E i \in S : Cardinality(Before(S, i)) = k - 1
      <3>1. k - 1 \in 0 .. Cardinality(S) - 1
        BY <1>1, <1>2
      <3> QED BY <3>1, RankSays
    <2> QED BY <1>3, <2>1
  <1>5. L \in [1 .. m -> S]
    <2>1. L = [k \in 1 .. m |-> L[k]]
      BY DEF Lowest, m
    <2> QED BY <1>4, <2>1
  <1>6. L \in Seq(S) /\ Len(L) = m
    BY <1>2, <1>5
  <1> HIDE DEF L
  <1>7. ASSUME NEW i \in S, NEW j \in S, Cardinality(Before(S, i)) < Cardinality(Before(S, j))
        PROVE  i < j
    <2>1. i \in Nat /\ j \in Nat
      OBVIOUS
    <2>2. Cardinality(Before(S, i)) \in Nat /\ Cardinality(Before(S, j)) \in Nat
      <3>1. \A x \in S : Cardinality(Before(S, x)) \in 0 .. Cardinality(S) - 1
        BY RankSays
      <3> QED BY <1>1, <3>1
    <2>3. ~(j < i)
      <3>1. j < i => Cardinality(Before(S, j)) < Cardinality(Before(S, i))
        BY RankSays
      <3> QED BY <1>7, <2>2, <3>1
    <2>4. i # j
      BY <1>7, <2>2
    <2> QED BY <2>1, <2>3, <2>4
  <1>8. \A k, l \in 1 .. m : k < l => L[k] < L[l]
    <2> SUFFICES ASSUME NEW k \in 1 .. m, NEW l \in 1 .. m, k < l PROVE L[k] < L[l]
      OBVIOUS
    <2>1. k - 1 < l - 1
      BY <1>2
    <2>2. L[k] \in S /\ L[l] \in S /\ Cardinality(Before(S, L[k])) < Cardinality(Before(S, L[l]))
      BY <1>4, <2>1
    <2> QED BY <1>7, <2>2
  <1>9. ASSUME NEW i \in S
        PROVE  (\E k \in 1 .. m : L[k] = i) \/ (m = n /\ \A k \in 1 .. n : L[k] < i)
    <2>1. PICK r \in 0 .. Cardinality(S) - 1 : r = Cardinality(Before(S, i))
      BY RankSays
    <2>2. CASE r < m
      <3>1. r + 1 \in 1 .. m
        BY <1>1, <1>2, <2>2
      <3>2. L[r + 1] \in S /\ Cardinality(Before(S, L[r + 1])) = r
        BY <1>4, <3>1
      <3>3. ~(r < r)
        BY <1>1
      <3>4. ~(L[r + 1] < i) /\ ~(i < L[r + 1])
        BY <2>1, <3>2, <3>3, RankSays
      <3>5. L[r + 1] \in Nat /\ i \in Nat
        BY <3>2
      <3>6. L[r + 1] = i
        BY <3>4, <3>5
      <3> QED BY <3>1, <3>6
    <2>3. CASE ~(r < m)
      <3>1. m = n
        BY <1>1, <1>2, <2>3
      <3>2. ASSUME NEW k \in 1 .. n PROVE L[k] < i
        <4>1. L[k] \in S /\ Cardinality(Before(S, L[k])) = k - 1
          BY <1>4, <3>1
        <4>2. k - 1 < r
          BY <1>1, <1>2, <2>3, <3>1
        <4> QED BY <1>7, <2>1, <4>1, <4>2
      <3> QED BY <3>1, <3>2
    <2> QED BY <2>2, <2>3
  <1> QED BY <1>2, <1>6, <1>8, <1>9 DEF L

-----------------------------------------------------------------------------
(* The rotating scan: what a batch holds *)

\* A set of keys is a finite set of numbers.
LEMMA KeysAreNumbers ==
  ASSUME NEW S \in SUBSET Ids
  PROVE  S \subseteq Nat /\ IsFiniteSet(S)
  BY IdAssumption, FS_Subset

\* The part before the wrap and the part behind it.
Ahead == Lowest({i \in eligible : i > cursor}, Limit)
Behind == Lowest({i \in eligible : i <= cursor}, Limit - Len(Ahead))

\* Both parts are in order, and what is left out of one comes after all of it.
LEMMA PartsSay ==
  ASSUME ScanTypes
  PROVE  /\ Ahead \in Seq(Ids) /\ Len(Ahead) \in 0 .. Limit
         /\ \A k \in 1 .. Len(Ahead) : cursor < Ahead[k]
         /\ \A k, l \in 1 .. Len(Ahead) : k < l => Ahead[k] < Ahead[l]
         /\ \A i \in eligible : cursor < i =>
              (\E k \in 1 .. Len(Ahead) : Ahead[k] = i)
              \/ (Len(Ahead) = Limit /\ \A k \in 1 .. Len(Ahead) : Ahead[k] < i)
         /\ Behind \in Seq(Ids) /\ Len(Behind) \in 0 .. Limit - Len(Ahead)
         /\ \A k \in 1 .. Len(Behind) : Behind[k] <= cursor
         /\ \A k, l \in 1 .. Len(Behind) : k < l => Behind[k] < Behind[l]
         /\ \A i \in eligible : i <= cursor =>
              (\E k \in 1 .. Len(Behind) : Behind[k] = i)
              \/ (Len(Behind) = Limit - Len(Ahead) /\ \A k \in 1 .. Len(Behind) : Behind[k] < i)
  <1> DEFINE A == {i \in eligible : i > cursor}
             B == {i \in eligible : i <= cursor}
  <1>1. A \in SUBSET Ids /\ B \in SUBSET Ids /\ Limit \in Nat
    BY LimitAssumption DEF ScanTypes
  <1>2. \A i \in A : i \in Ids /\ i > cursor
    BY DEF ScanTypes
  <1>3. \A i \in B : i \in Ids /\ i <= cursor
    BY DEF ScanTypes
  <1>4. \A i \in eligible : (cursor < i => i \in A) /\ (i <= cursor => i \in B)
    <2>1. cursor \in Int /\ \A i \in eligible : i \in Int
      BY IdAssumption DEF ScanTypes
    <2> QED BY <2>1
  <1>5. A \subseteq Nat /\ IsFiniteSet(A) /\ B \subseteq Nat /\ IsFiniteSet(B)
    BY <1>1, KeysAreNumbers
  <1> HIDE DEF A, B
  <1>6. /\ Ahead \in Seq(A) /\ Len(Ahead) <= Limit
        /\ \A k, l \in 1 .. Len(Ahead) : k < l => Ahead[k] < Ahead[l]
        /\ \A i \in A : (\E k \in 1 .. Len(Ahead) : Ahead[k] = i)
                        \/ (Len(Ahead) = Limit /\ \A k \in 1 .. Limit : Ahead[k] < i)
    <2>1. Ahead = Lowest(A, Limit)
      BY DEF Ahead, A
    <2> QED BY <1>1, <1>5, <2>1, LowestSays
  <1>7. /\ Len(Ahead) \in 0 .. Limit /\ Ahead \in Seq(Ids)
        /\ \A k \in 1 .. Len(Ahead) : Ahead[k] \in A
    BY <1>1, <1>2, <1>6
  <1>8. Limit - Len(Ahead) \in Nat
    BY <1>1, <1>7
  <1>9. /\ Behind \in Seq(B) /\ Len(Behind) <= Limit - Len(Ahead)
        /\ \A k, l \in 1 .. Len(Behind) : k < l => Behind[k] < Behind[l]
        /\ \A i \in B : (\E k \in 1 .. Len(Behind) : Behind[k] = i)
                        \/ /\ Len(Behind) = Limit - Len(Ahead)
                           /\ \A k \in 1 .. Limit - Len(Ahead) : Behind[k] < i
    <2>1. Behind = Lowest(B, Limit - Len(Ahead))
      BY DEF Behind, B
    <2> QED BY <1>5, <1>8, <2>1, LowestSays
  <1>10. /\ Len(Behind) \in 0 .. Limit - Len(Ahead) /\ Behind \in Seq(Ids)
         /\ \A k \in 1 .. Len(Behind) : Behind[k] \in B
    BY <1>8, <1>3, <1>9
  <1>11. \A k \in 1 .. Len(Ahead) : cursor < Ahead[k]
    <2>1. cursor \in Int /\ \A i \in A : i \in Int
      BY <1>5, IdAssumption DEF ScanTypes
    <2> QED BY <1>2, <1>7, <2>1
  <1>12. \A k \in 1 .. Len(Behind) : Behind[k] <= cursor
    BY <1>3, <1>10
  <1> QED BY <1>4, <1>6, <1>7, <1>9, <1>10, <1>11, <1>12

\* A batch has no row twice; and a row that it leaves out, though eligible, finds it
\* full, all of it on the way to that row, and the cursor behind it.
LEMMA PickedSays ==
  ASSUME ScanTypes, Picked # <<>>
  PROVE  /\ Picked \in Seq(Ids) /\ IsInjective(Picked) /\ Len(Picked) <= Limit
         /\ Last(Picked) \in Ids
         /\ \A i \in eligible \ ToSet(Picked) :
              /\ Len(Picked) = Limit
              /\ ToSet(Picked) \subseteq Gap(cursor, i)
              /\ Gap(Last(Picked), i) \subseteq Gap(cursor, i) \ ToSet(Picked)
  <1>1. /\ Ahead \in Seq(Ids) /\ Len(Ahead) \in 0 .. Limit
        /\ \A k \in 1 .. Len(Ahead) : cursor < Ahead[k]
        /\ \A k, l \in 1 .. Len(Ahead) : k < l => Ahead[k] < Ahead[l]
        /\ Behind \in Seq(Ids) /\ Len(Behind) \in 0 .. Limit - Len(Ahead)
        /\ \A k \in 1 .. Len(Behind) : Behind[k] <= cursor
        /\ \A k, l \in 1 .. Len(Behind) : k < l => Behind[k] < Behind[l]
    BY PartsSay
  <1>2. \A i \in eligible : cursor < i =>
              (\E k \in 1 .. Len(Ahead) : Ahead[k] = i)
              \/ (Len(Ahead) = Limit /\ \A k \in 1 .. Len(Ahead) : Ahead[k] < i)
    BY PartsSay
  <1>3. \A i \in eligible : i <= cursor =>
              (\E k \in 1 .. Len(Behind) : Behind[k] = i)
              \/ (Len(Behind) = Limit - Len(Ahead) /\ \A k \in 1 .. Len(Behind) : Behind[k] < i)
    BY PartsSay
  <1>4. /\ \A i \in Ids : i \in Nat /\ 0 < i
        /\ cursor \in Nat /\ (cursor = 0 \/ cursor \in Ids) /\ eligible \subseteq Ids
        /\ Limit \in Nat /\ 0 < Limit
    BY IdAssumption, LimitAssumption DEF ScanTypes
  <1>5. Picked = IF Len(Ahead) < Limit /\ cursor # 0 THEN Ahead \o Behind ELSE Ahead
    BY DEF Picked, Ahead, Behind
  <1>6. \A i : i \in ToSet(Picked) <=> \E k \in DOMAIN Picked : Picked[k] = i
    BY DEF ToSet
  <1>7. Last(Picked) = Picked[Len(Picked)]
    BY DEF Last
  <1> HIDE DEF Ahead, Behind, Picked
  <1>8. CASE Picked = Ahead /\ (Len(Ahead) = Limit \/ cursor = 0)
    <2>1. Picked \in Seq(Ids) /\ Len(Picked) <= Limit /\ DOMAIN Picked = 1 .. Len(Ahead)
      BY <1>1, <1>8
    <2>2. Len(Picked) \in 1 .. Len(Ahead) /\ Len(Ahead) \in 1 .. Limit
      BY <1>1, <1>4, <1>8
    <2>3. IsInjective(Picked)
      <3>1. ASSUME NEW k \in 1 .. Len(Ahead), NEW l \in 1 .. Len(Ahead), k # l
            PROVE  Ahead[k] # Ahead[l]
        <4>1. k < l \/ l < k
          BY <3>1
        <4>2. Ahead[k] \in Nat /\ Ahead[l] \in Nat
          BY <1>1, <1>4
        <4> QED BY <1>1, <4>1, <4>2
      <3> QED BY <1>8, <2>1, <3>1 DEF IsInjective
    <2>4. Last(Picked) \in Ids
      BY <1>1, <1>7, <1>8, <2>2
    <2>5. ASSUME NEW i \in eligible \ ToSet(Picked)
          PROVE  /\ Len(Picked) = Limit
                 /\ ToSet(Picked) \subseteq Gap(cursor, i)
                 /\ Gap(Last(Picked), i) \subseteq Gap(cursor, i) \ ToSet(Picked)
      <3>1. PICK last \in Ids : last = Last(Picked) /\ last = Ahead[Len(Ahead)] /\ cursor < last
        BY <1>1, <1>7, <1>8, <2>2, <2>4
      <3>2. \A k \in 1 .. Len(Ahead) : Ahead[k] \in Ids /\ Ahead[k] <= last /\ Ahead[k] # i
        <4>1. ASSUME NEW k \in 1 .. Len(Ahead) PROVE Ahead[k] \in Ids /\ Ahead[k] <= last /\ Ahead[k] # i
          <5>1. Ahead[k] \in Ids /\ Ahead[k] # i
            BY <1>1, <1>6, <1>8, <2>1
          <5>2. k < Len(Ahead) \/ k = Len(Ahead)
            BY <2>2
          <5>3. k < Len(Ahead) => Ahead[k] < last
            BY <1>1, <2>2, <3>1
          <5> QED BY <1>4, <3>1, <5>1, <5>2, <5>3
        <4> QED BY <4>1
      <3>3. i \in Ids /\ i \in Nat
        BY <1>4
      <3>4. Len(Ahead) = Limit
        BY <1>2, <1>4, <1>8, <3>2, <3>3
      <3>5. cursor < i => \A k \in 1 .. Len(Ahead) : Ahead[k] < i
        BY <1>2, <3>2
      <3>6. cursor < i => last < i
        BY <2>2, <3>1, <3>5
      <3>7. ASSUME NEW x \in ToSet(Picked)
            PROVE  x \in Ids /\ cursor < x /\ x <= last /\ (cursor < i => x < i)
        BY <1>1, <1>6, <1>8, <2>1, <3>2, <3>5
      <3>8. ToSet(Picked) \subseteq Gap(cursor, i)
        BY <3>7 DEF Gap
      <3>9. ASSUME NEW x \in Gap(last, i)
            PROVE  x \in Gap(cursor, i) /\ x \notin ToSet(Picked)
        <4>1. x \in Ids /\ x \in Nat /\ last \in Nat
          BY <1>4, <3>1 DEF Gap
        <4>2. IF last < i THEN last < x /\ x < i ELSE last < x \/ x < i
          BY DEF Gap
        <4>3. x \in Gap(cursor, i)
          BY <1>4, <3>1, <3>3, <3>6, <4>1, <4>2 DEF Gap
        <4>4. x \notin ToSet(Picked)
          BY <1>4, <3>1, <3>3, <3>6, <3>7, <4>1, <4>2
        <4> QED BY <4>3, <4>4
      <3> QED BY <1>8, <3>1, <3>4, <3>8, <3>9
    <2> QED BY <2>1, <2>3, <2>4, <2>5
  <1>9. CASE Picked = Ahead \o Behind /\ Len(Ahead) < Limit /\ cursor # 0
    <2> DEFINE a == Len(Ahead)
               b == Len(Behind)
    <2>0. a \in Nat /\ b \in Nat /\ a + b <= Limit /\ a < Limit
      BY <1>1, <1>4, <1>9
    <2>1. /\ Picked \in Seq(Ids) /\ Len(Picked) = a + b /\ DOMAIN Picked = 1 .. a + b
          /\ \A k \in 1 .. a + b : Picked[k] = IF k <= a THEN Ahead[k] ELSE Behind[k - a]
      BY <1>1, <1>9
    <2>2. a + b \in 1 .. a + b
      BY <1>4, <2>0, <2>1
    <2> HIDE DEF a, b
    <2>3. ASSUME NEW k \in 1 .. a + b
          PROVE  /\ Picked[k] \in Ids /\ Picked[k] \in Nat
                 /\ k <= a => k \in 1 .. a /\ cursor < Picked[k]
                 /\ ~(k <= a) => k - a \in 1 .. b /\ Picked[k] <= cursor
      <3>1. Picked[k] = IF k <= a THEN Ahead[k] ELSE Behind[k - a]
        BY <2>1
      <3>2. CASE k <= a
        <4>1. k \in 1 .. a /\ Picked[k] = Ahead[k]
          BY <2>0, <3>1, <3>2
        <4> QED BY <1>1, <1>4, <3>2, <4>1 DEF a
      <3>3. CASE ~(k <= a)
        <4>1. k - a \in 1 .. b /\ Picked[k] = Behind[k - a]
          BY <2>0, <3>1, <3>3
        <4> QED BY <1>1, <1>4, <3>3, <4>1 DEF b
      <3> QED BY <3>2, <3>3
    <2>4. IsInjective(Picked)
      <3>1. ASSUME NEW k \in 1 .. a + b, NEW l \in 1 .. a + b, k < l
            PROVE  Picked[k] # Picked[l]
        <4>0. PICK p \in Nat, q \in Nat : p = Picked[k] /\ q = Picked[l]
          BY <2>3
        <4>1. CASE l <= a
          <5>1. k \in 1 .. a /\ l \in 1 .. a /\ Picked[k] = Ahead[k] /\ Picked[l] = Ahead[l]
            BY <2>0, <2>1, <3>1, <4>1
          <5>2. Picked[k] < Picked[l]
            BY <1>1, <3>1, <5>1 DEF a
          <5> QED BY <4>0, <5>2
        <4>2. CASE k <= a /\ ~(l <= a)
          <5>1. cursor < p /\ q <= cursor
            BY <2>3, <4>0, <4>2
          <5> QED BY <1>4, <4>0, <5>1
        <4>3. CASE ~(k <= a)
          <5>1. ~(l <= a) /\ k - a < l - a
            BY <2>0, <3>1, <4>3
          <5>2. k - a \in 1 .. b /\ l - a \in 1 .. b
            BY <2>0, <2>3, <4>3, <5>1
          <5>3. Picked[k] = Behind[k - a] /\ Picked[l] = Behind[l - a]
            BY <2>1, <4>3, <5>1
          <5>4. Picked[k] < Picked[l]
            BY <1>1, <5>1, <5>2, <5>3 DEF b
          <5> QED BY <4>0, <5>4
        <4> QED BY <4>1, <4>2, <4>3
      <3>2. \A k, l \in 1 .. a + b : k # l => k < l \/ l < k
        BY <2>0
      <3> QED BY <2>1, <3>1, <3>2 DEF IsInjective
    <2>5. Last(Picked) \in Ids
      BY <1>7, <2>1, <2>2, <2>3
    <2>6. ASSUME NEW i \in eligible \ ToSet(Picked)
          PROVE  /\ Len(Picked) = Limit
                 /\ ToSet(Picked) \subseteq Gap(cursor, i)
                 /\ Gap(Last(Picked), i) \subseteq Gap(cursor, i) \ ToSet(Picked)
      <3>1. i \in Ids /\ i \in Nat
        BY <1>4
      <3>2. \A k \in 1 .. a + b : Picked[k] # i
        BY <1>6, <2>1
      <3>3. i <= cursor
        <4>1. \A k \in 1 .. a : Ahead[k] # i
          <5>1. ASSUME NEW k \in 1 .. a PROVE Ahead[k] # i
            <6>1. k \in 1 .. a + b /\ k <= a
              BY <2>0
            <6> QED BY <2>1, <3>2, <6>1
          <5> QED BY <5>1
        <4>2. ~(cursor < i)
          BY <1>2, <1>9, <4>1, <2>0, <1>4 DEF a
        <4> QED BY <1>4, <3>1, <4>2
      <3>4. b = Limit - a /\ \A k \in 1 .. b : Behind[k] < i
        <4>1. \A k \in 1 .. b : Behind[k] # i
          <5>1. ASSUME NEW k \in 1 .. b PROVE Behind[k] # i
            <6>1. k + a \in 1 .. a + b /\ ~(k + a <= a) /\ k + a - a = k
              BY <2>0
            <6> QED BY <2>0, <2>1, <3>2, <6>1
          <5> QED BY <5>1
        <4> QED BY <1>3, <3>3, <4>1 DEF a, b
      <3>5. PICK last \in Ids : last = Last(Picked) /\ last = Behind[b] /\ last < i /\ b \in 1 .. b
        <4>1. b \in 1 .. b /\ a + b - a = b /\ ~(a + b <= a)
          BY <1>4, <2>0, <3>4
        <4> QED BY <1>7, <2>0, <2>1, <2>2, <2>5, <3>4, <4>1
      <3>6. \A k \in 1 .. b : Behind[k] <= last
        <4>1. ASSUME NEW k \in 1 .. b PROVE Behind[k] <= last
          <5>1. k < b \/ k = b
            BY <2>0
          <5>2. k < b => Behind[k] < last
            BY <1>1, <3>5 DEF b
          <5>3. Behind[k] \in Ids /\ Behind[k] \in Nat /\ last \in Nat
            BY <1>1, <1>4, <3>5 DEF b
          <5> QED BY <3>5, <5>1, <5>2, <5>3
        <4> QED BY <4>1
      <3>7. ASSUME NEW x \in ToSet(Picked)
            PROVE  x \in Ids /\ (cursor < x \/ (x < i /\ x <= last))
        <4>1. PICK k \in 1 .. a + b : x = Picked[k]
          BY <1>6, <2>1
        <4>2. ~(k <= a) => k - a \in 1 .. b /\ x = Behind[k - a]
          BY <2>0, <2>1, <2>3, <4>1
        <4>3. CASE k <= a
          BY <2>3, <4>1, <4>3
        <4>4. CASE ~(k <= a)
          <5>1. x \in Ids
            BY <2>3, <4>1
          <5> QED BY <3>4, <3>6, <4>2, <4>4, <5>1
        <4> QED BY <4>3, <4>4
      <3>8. ~(cursor < i)
        BY <1>4, <3>1, <3>3
      <3>9. ToSet(Picked) \subseteq Gap(cursor, i)
        BY <3>7, <3>8 DEF Gap
      <3>10. ASSUME NEW x \in Gap(last, i)
             PROVE  x \in Gap(cursor, i) /\ x \notin ToSet(Picked)
        <4>1. x \in Ids /\ x \in Nat /\ last \in Nat /\ last < x /\ x < i
          BY <1>4, <3>5 DEF Gap
        <4>2. x \in Gap(cursor, i)
          BY <3>8, <4>1 DEF Gap
        <4>3. x \notin ToSet(Picked)
          BY <1>4, <3>1, <3>3, <3>7, <4>1
        <4> QED BY <4>2, <4>3
      <3>11. Len(Picked) = Limit
        BY <1>4, <2>0, <2>1, <3>4
      <3>12. Gap(Last(Picked), i) \subseteq Gap(cursor, i) \ ToSet(Picked)
        BY <3>5, <3>10
      <3> QED BY <3>9, <3>11, <3>12
    <2> QED BY <2>0, <2>1, <2>4, <2>5, <2>6
  <1> QED BY <1>1, <1>4, <1>5, <1>8, <1>9

\* A full batch that leaves a row out takes its whole length off the way to that row.
LEMMA WayShortens ==
  ASSUME ScanTypes, Picked # <<>>, NEW i \in eligible \ ToSet(Picked)
  PROVE  Cardinality(Gap(Last(Picked), i)) + Limit <= Cardinality(Gap(cursor, i))
  <1>1. /\ Picked \in Seq(Ids) /\ IsInjective(Picked) /\ Len(Picked) = Limit
        /\ ToSet(Picked) \subseteq Gap(cursor, i)
        /\ Gap(Last(Picked), i) \subseteq Gap(cursor, i) \ ToSet(Picked)
    BY PickedSays
  <1>2. \A c : Gap(c, i) \in SUBSET Ids
    BY DEF Gap
  <1>3. \A c : IsFiniteSet(Gap(c, i))
    BY <1>2, IdAssumption, FS_Subset
  <1>4. Cardinality(ToSet(Picked)) = Limit
    <2> DEFINE T == ToSet(Picked)
    <2>1. DOMAIN Picked = 1 .. Limit /\ Limit \in Nat
      BY <1>1, LimitAssumption
    <2>2. Picked \in [1 .. Limit -> T] /\ \A t \in T : \E k \in 1 .. Limit : Picked[k] = t
      BY <1>1, <2>1 DEF ToSet
    <2>3. \A k, l \in 1 .. Limit : Picked[k] = Picked[l] => k = l
      BY <1>1, <2>1 DEF IsInjective
    <2> HIDE DEF T
    <2>4. Picked \in Bijection(1 .. Limit, T)
      BY <2>2, <2>3, Fun_IsBij
    <2>5. ExistsBijection(1 .. Limit, T)
      BY <2>4 DEF ExistsBijection
    <2> QED BY <2>1, <2>5, FS_CountingElements DEF T
  <1>5. /\ Cardinality(Gap(cursor, i)) \in Nat /\ Cardinality(Gap(Last(Picked), i)) \in Nat
        /\ Limit \in Nat
    BY <1>3, FS_CardinalityType, LimitAssumption
  <1>6. Cardinality(Gap(cursor, i) \ ToSet(Picked)) = Cardinality(Gap(cursor, i)) - Limit
    <2>1. Gap(cursor, i) \cap ToSet(Picked) = ToSet(Picked)
      BY <1>1
    <2> QED BY <1>3, <1>4, <2>1, FS_Difference
  <1>7. IsFiniteSet(Gap(cursor, i) \ ToSet(Picked))
    BY <1>3, FS_Difference
  <1>8. Cardinality(Gap(Last(Picked), i)) <= Cardinality(Gap(cursor, i) \ ToSet(Picked))
    BY <1>1, <1>7, FS_Subset
  <1> QED BY <1>5, <1>6, <1>8

\* However the scan stands, a row is not on the way to itself.
LEMMA WayIsBounded ==
  ASSUME NEW i \in Ids, NEW c \in Ids \cup {0}
  PROVE  Cardinality(Gap(c, i)) \in Nat /\ Cardinality(Gap(c, i)) < Cardinality(Ids)
  <1>1. Gap(c, i) \in SUBSET Ids /\ i \notin Gap(c, i)
    BY IdAssumption DEF Gap
  <1>2. /\ IsFiniteSet(Gap(c, i)) /\ Cardinality(Gap(c, i)) <= Cardinality(Ids)
        /\ Cardinality(Ids) = Cardinality(Gap(c, i)) => Ids = Gap(c, i)
    BY <1>1, IdAssumption, FS_Subset
  <1>3. Cardinality(Gap(c, i)) \in Nat /\ Cardinality(Ids) \in Nat
    BY <1>2, IdAssumption, FS_CardinalityType
  <1> QED BY <1>1, <1>2, <1>3

-----------------------------------------------------------------------------
(* The rotating scan: every step *)

\* Waiting is a number of rows, and one more batch is Limit rows more.
LEMMA WaitIsNumber ==
  ASSUME NEW m \in Nat
  PROVE  m * Limit \in Nat /\ 0 * Limit = 0 /\ (m + 1) * Limit = m * Limit + Limit
  BY LimitAssumption

\* A row that is out of the count, or of which nothing is counted anew, fits.
LEMMA WayKept ==
  ASSUME ScanInv, missed' \in [Ids -> Nat], cursor' \in Ids \cup {0},
         \A i \in Ids : missed'[i] = 0 \/ (missed'[i] = missed[i] /\ cursor' = cursor)
  PROVE  WayIsLeft'
  <1>1. ASSUME NEW i \in Ids
        PROVE  missed'[i] * Limit + Cardinality(Gap(cursor', i)) < Cardinality(Ids)
    <2>1. /\ Cardinality(Gap(cursor', i)) \in Nat
          /\ Cardinality(Gap(cursor', i)) < Cardinality(Ids)
      BY WayIsBounded
    <2>2. CASE missed'[i] = 0
      <3>1. missed'[i] * Limit = 0
        BY <2>2, WaitIsNumber
      <3> QED BY <2>1, <3>1
    <2>3. CASE missed'[i] = missed[i] /\ cursor' = cursor
      BY <2>3 DEF ScanInv, WayIsLeft
    <2> QED BY <2>2, <2>3
  <1> QED BY <1>1 DEF WayIsLeft, Gap

\* What is left of a batch has no row twice either, and no more rows.
LEMMA RestSays ==
  ASSUME ScanInv, batch # <<>>
  PROVE  /\ Head(batch) \in Ids /\ Tail(batch) \in Seq(Ids)
         /\ IsInjective(Tail(batch)) /\ Len(Tail(batch)) <= Limit
  <1>1. /\ batch \in Seq(Ids) /\ Len(batch) \in Nat /\ Len(batch) # 0 /\ Len(batch) <= Limit
        /\ \A k, l \in 1 .. Len(batch) : batch[k] = batch[l] => k = l
    BY DEF ScanInv, ScanTypes, IsInjective
  <1>2. /\ Head(batch) \in Ids /\ Tail(batch) \in Seq(Ids) /\ Len(Tail(batch)) = Len(batch) - 1
        /\ DOMAIN Tail(batch) = 1 .. Len(batch) - 1
        /\ \A k \in 1 .. Len(batch) - 1 : Tail(batch)[k] = batch[k + 1]
    BY <1>1
  <1>3. IsInjective(Tail(batch))
    <2>1. ASSUME NEW k \in 1 .. Len(batch) - 1, NEW l \in 1 .. Len(batch) - 1,
                 Tail(batch)[k] = Tail(batch)[l]
          PROVE  k = l
      <3>1. k + 1 \in 1 .. Len(batch) /\ l + 1 \in 1 .. Len(batch)
        BY <1>1
      <3>2. batch[k + 1] = batch[l + 1]
        BY <1>2, <2>1
      <3>3. k + 1 = l + 1
        BY <1>1, <3>1, <3>2
      <3> QED BY <3>3
    <2> QED BY <1>2, <2>1 DEF IsInjective
  <1>4. Len(Tail(batch)) <= Limit
    BY <1>1, <1>2, LimitAssumption
  <1> QED BY <1>2, <1>3, <1>4

\* An empty batch.
LEMMA NoBatch == <<>> \in Seq(Ids) /\ IsInjective(<<>>) /\ Len(<<>>) <= Limit
  BY LimitAssumption DEF IsInjective

\* An empty memory keeps nobody waiting.
LEMMA ScanBegins == ScanInit => ScanInv
  <1> SUFFICES ASSUME ScanInit PROVE ScanInv
    OBVIOUS
  <1>1. ScanTypes
    BY NoBatch DEF ScanInit, ScanTypes
  <1>2. WayIsLeft
    <2>1. ASSUME NEW i \in Ids
          PROVE  missed[i] * Limit + Cardinality(Gap(cursor, i)) < Cardinality(Ids)
      <3>1. /\ Cardinality(Gap(cursor, i)) \in Nat
            /\ Cardinality(Gap(cursor, i)) < Cardinality(Ids)
        BY <1>1, WayIsBounded DEF ScanTypes
      <3>2. missed[i] * Limit = 0
        BY WaitIsNumber DEF ScanInit
      <3> QED BY <3>1, <3>2
    <2> QED BY <2>1 DEF WayIsLeft
  <1> QED BY <1>1, <1>2, NoBatch DEF ScanInit, ScanInv

\* A batch is taken, and those it leaves out have waited once more.
LEMMA TakeKeeps ==
  ASSUME ScanInv, Take
  PROVE  ScanInv'
  <1>1. /\ Picked # <<>> /\ batch' = Picked /\ cursor' = Last(Picked)
        /\ missed' = [i \in Ids |->
              IF i \notin eligible \ ToSet(Picked) THEN 0
              ELSE IF missed[i] < Cardinality(Ids) THEN missed[i] + 1 ELSE missed[i]]
        /\ UNCHANGED eligible /\ ScanTypes
    BY DEF Take, Count, ScanInv
  <1>2. /\ Picked \in Seq(Ids) /\ IsInjective(Picked) /\ Len(Picked) <= Limit
        /\ Last(Picked) \in Ids
    BY <1>1, PickedSays
  <1>3. missed \in [Ids -> Nat]
    BY <1>1 DEF ScanTypes
  <1>4. missed' \in [Ids -> Nat]
    <2>1. \A i \in Ids : missed[i] \in Nat /\ missed[i] + 1 \in Nat
      BY <1>3
    <2> QED BY <1>1, <2>1
  <1>5. ASSUME NEW i \in Ids
        PROVE  missed'[i] * Limit + Cardinality(Gap(cursor', i)) < Cardinality(Ids)
    <2>1. /\ Cardinality(Gap(cursor', i)) \in Nat
          /\ Cardinality(Gap(cursor', i)) < Cardinality(Ids)
      BY <1>1, <1>2, WayIsBounded
    <2>2. CASE i \notin eligible \ ToSet(Picked)
      <3>1. missed'[i] * Limit = 0
        BY <1>1, <2>2, WaitIsNumber
      <3> QED BY <2>1, <3>1
    <2>3. CASE i \in eligible \ ToSet(Picked)
      <3>1. Cardinality(Gap(cursor', i)) + Limit <= Cardinality(Gap(cursor, i))
        BY <1>1, <2>3, WayShortens
      <3>2. missed[i] * Limit + Cardinality(Gap(cursor, i)) < Cardinality(Ids)
        BY DEF ScanInv, WayIsLeft
      <3>3. Cardinality(Gap(cursor, i)) \in Nat /\ Cardinality(Ids) \in Nat
        BY <1>1, WayIsBounded, IdAssumption, FS_CardinalityType DEF ScanTypes
      <3>4. PICK w \in Nat : /\ w = missed[i] * Limit
                             /\ (missed[i] + 1) * Limit = w + Limit
        BY <1>3, WaitIsNumber
      <3>5. missed'[i] * Limit \in {w, w + Limit}
        BY <1>1, <2>3, <3>4
      <3>6. Limit \in Nat
        BY LimitAssumption
      <3> QED BY <2>1, <3>1, <3>2, <3>3, <3>4, <3>5, <3>6
    <2> QED BY <2>2, <2>3
  <1>6. WayIsLeft'
    BY <1>5 DEF WayIsLeft, Gap
  <1> QED BY <1>1, <1>2, <1>4, <1>6 DEF ScanInv, ScanTypes

\* A row is handled, or its handler raises.
LEMMA HandleKeeps ==
  ASSUME ScanInv, Handle \/ HandleRaises
  PROVE  ScanInv'
  <1>1. batch # <<>> /\ UNCHANGED cursor /\ batch' \in {Tail(batch), <<>>} /\ eligible' \subseteq eligible
    BY DEF Handle, HandleRaises
  <1>2. missed \in [Ids -> Nat] /\ eligible \subseteq Ids /\ cursor \in Ids \cup {0}
    BY DEF ScanInv, ScanTypes
  <1>3. /\ missed' \in [Ids -> Nat]
        /\ \A i \in Ids : missed'[i] \in {0, missed[i]}
    BY <1>2 DEF Handle, HandleRaises
  <1>4. batch' \in Seq(Ids) /\ IsInjective(batch') /\ Len(batch') <= Limit
    BY <1>1, RestSays, NoBatch
  <1>5. WayIsLeft'
    BY <1>1, <1>2, <1>3, WayKept
  <1> QED BY <1>1, <1>2, <1>3, <1>4, <1>5 DEF ScanInv, ScanTypes

\* Rows come and go, and the process restarts.
LEMMA OthersKeep ==
  ASSUME ScanInv, Restart \/ (\E i \in Ids : Change(i)) \/ UNCHANGED scanVars
  PROVE  ScanInv'
  <1>1. /\ missed \in [Ids -> Nat] /\ eligible \subseteq Ids /\ cursor \in Ids \cup {0}
        /\ batch \in Seq(Ids) /\ IsInjective(batch) /\ Len(batch) <= Limit
    BY DEF ScanInv, ScanTypes
  <1>2. /\ eligible' \subseteq Ids /\ missed' \in [Ids -> Nat] /\ batch' \in {batch, <<>>}
        /\ cursor' \in Ids \cup {0}
        /\ \A i \in Ids : missed'[i] = 0 \/ (missed'[i] = missed[i] /\ cursor' = cursor)
    <2>1. CASE Restart
      BY <1>1, <2>1 DEF Restart
    <2>2. CASE \E i \in Ids : Change(i)
      BY <1>1, <2>2 DEF Change
    <2>3. CASE UNCHANGED scanVars
      BY <1>1, <2>3 DEF scanVars
    <2> QED BY <2>1, <2>2, <2>3
  <1>3. WayIsLeft'
    BY <1>2, WayKept
  <1> QED BY <1>1, <1>2, <1>3, NoBatch DEF ScanInv, ScanTypes

-----------------------------------------------------------------------------
(* The rotating scan: the results *)

\* A row has less of the way to wait for with every batch that leaves it out, whatever
\* rows come and go in between.
THEOREM ScanInvariant == ScanSpec => []ScanInv
  <1>1. ScanInv /\ [ScanNext]_scanVars => ScanInv'
    BY TakeKeeps, HandleKeeps, OthersKeep DEF ScanNext, Pass
  <1> QED BY ScanBegins, <1>1, PTL DEF ScanSpec

\* For any table and batch size: no batch is too long or has a row twice, and a row that
\* stays eligible is left out of fewer batches than the table has of them.
THEOREM WaitingIsBounded == ScanSpec => []WaitIsBounded
  <1>1. ScanInv => WaitIsBounded
    <2> SUFFICES ASSUME ScanInv, NEW i \in Ids PROVE missed[i] * Limit < Cardinality(Ids)
      BY DEF ScanInv, WaitIsBounded
    <2>1. missed[i] * Limit + Cardinality(Gap(cursor, i)) < Cardinality(Ids)
      BY DEF ScanInv, WayIsLeft
    <2>2. Cardinality(Gap(cursor, i)) \in Nat /\ Cardinality(Ids) \in Nat
      BY WayIsBounded, IdAssumption, FS_CardinalityType DEF ScanInv, ScanTypes
    <2>3. missed[i] * Limit \in Nat
      BY WaitIsNumber DEF ScanInv, ScanTypes
    <2> QED BY <2>1, <2>2, <2>3
  <1> QED BY <1>1, ScanInvariant, PTL
=============================================================================

-------------------------- MODULE ShipmentDeliveryProofs --------------------------
(***************************************************************************)
(* What holds of the outbound of a batch for any number of executions of   *)
(* deliver: the row, what its executors have still to do, the claim of a   *)
(* POST, and what OKKI holds fit each other, whatever people read and do.  *)
(***************************************************************************)
EXTENDS ShipmentDelivery, FiniteSetTheorems, TLAPS

Sent == INSTANCE SendingProofs WITH Removals <- {}, Identities <- Requests

-----------------------------------------------------------------------------
(* The strengthening *)

\* Nothing came of a request of this executor and nothing will.
Quiet(c) == post[c] \in {"none", "over"} /\ c \notin created \cup inflight

\* Its executor is past it.
Past(c) == post[c] \in {"none", "over"} /\ (prompt => c \notin inflight)

\* What an executor has still to do decides what may come of its requests.
WorkerFits(a) == LET w == worker[a] IN
    /\ w.stage \in {"idle", "claimed", "ready"} => w.round = 0
    /\ w.stage = "retry" => w.round = 1
    /\ w.stage \in {"idle", "claimed", "ready", "retry"} => \A k \in Rounds : Quiet(<<a, k>>)
    /\ w.stage = "sending" =>
          /\ w.round \in Rounds /\ post[OnWire(a)] \in {"ticket", "wire", "answered"}
          /\ \A k \in Rounds \ {w.round} : Quiet(<<a, k>>)
    /\ w.stage = "created" => w.round \in Rounds /\ OnWire(a) \in created
    /\ w.stage \in {"created", "verify", "refused", "unknown", "failed", "uncertain"} => \A k \in Rounds : Past(<<a, k>>)
    /\ w.stage = "verify" => row.remote # None

\* A row is bound for good, to a document that was created, and only a bound one is verified.
BoundFits ==
    /\ row.remote # None => row.remote \in created
                            /\ row.status \in Verified \cup {"verifying", "uncertain", "failed", "cancelled"}
    /\ row.remote = None => row.status \notin Verified \cup {"verifying"}
    /\ \A k \in Callers : check[k] # None => row.remote # None
    /\ read.kind = "active" => read.doc \in created

\* Verification closed every claim and took the state of the inspection with it.
VerifiedFits == row.status \in Verified =>
    /\ ~Sent!Frozen => \A c \in Requests : ~Sent!Open(c)
    /\ row.remote \notin deleted => (row.status = "shipped" <=> Complete(inspection[row.remote]))

\* A request that can still take effect, and one of which there is or may be a document.
Alive(c) == c \in inflight \/ (post[c] = "ticket" /\ claims[c].state = "sending")
Present(c) == c \in Active \/ Alive(c)

\* No handler wrote `failed' over the row of another executor, and OKKI is prompt.
Sound == prompt /\ ~overwritten

\* A request under way is of the executor that has or had the row last, even if the
\* sweep or a stale handler took that row to people; and while there is or may be a
\* document nobody cancels or retries the row, though it may be given back.
EffectOf(c) ==
    /\ Alive(c) => /\ row.status \in {"sending", "uncertain"} /\ row.token = c[1]
                   /\ row.remote = None /\ read.kind # "active"
                   /\ claims[c].leased
    /\ Present(c) =>
          /\ row.status \notin {"waiting", "paused", "cancelled"}
          /\ read.kind # "retired" /\ (read.kind = "absent" => row.status = "uncertain")
          /\ \A d \in Requests : Present(d) => d = c

\* The executor has the row, and any document is its own.
Alone(a) == row.status = "sending" /\ row.token = a =>
    \A c \in Requests : Present(c) => c[1] = a

\* Whoever still may send has found nothing and is alone.
ToSend == {"ready", "retry", "sending"}
EffectFits == Sound =>
    /\ \A c \in Requests : EffectOf(c)
    /\ \A a \in Attempts : worker[a].stage \in ToSend => Alone(a)

Types ==
    /\ row \in Rows /\ worker \in [Attempts -> Workers]
    /\ check \in [Callers -> Checks \cup {None}] /\ read \in Reads
    /\ inspection \in [Requests -> 0 .. MaxEdits \cup {None}] /\ deleted \subseteq created
    /\ gone \subseteq deleted /\ selected \in BOOLEAN /\ overwritten \in BOOLEAN

\* The inductive strengthening of all the invariants.
IInv ==
    /\ Types /\ Sent!SendInv
    /\ \A a \in Attempts : WorkerFits(a)
    /\ BoundFits /\ VerifiedFits /\ EffectFits

-----------------------------------------------------------------------------
(* The steps of sending are those that SendingProofs is about *)

\* What a sender does without its claim, what a crash does, and what OKKI does.
LEMMA SameSender ==
  ASSUME NEW c \in Requests
  PROVE  /\ Sending!Consume(c) => Sent!Consume(c)
         /\ \A r : Sending!Answer(c, r) => Sent!Answer(c, r)
         /\ Sending!RefuseTicket(c) => Sent!RefuseTicket(c)
         /\ Sending!Forget(c) => Sent!Forget(c)
         /\ Sending!Die(c) => Sent!Die(c)
         /\ Sending!Create(c) => Sent!Create(c)
  BY DEF Sending!Consume, Sent!Consume, Sending!Answer, Sent!Answer, Sending!RefuseTicket,
         Sent!RefuseTicket, Sending!Forget, Sent!Forget, Sending!Die, Sent!Die,
         Sending!Create, Sent!Create, Sending!Leave, Sent!Leave

\* Granting a send.
LEMMA SameGrant ==
  ASSUME NEW c \in Requests, Sending!Grant(c, 1)
  PROVE  Sent!Grant(c, 1)
  BY DEF Sending!Grant, Sent!Grant, Sending!Gates!Start, Sent!Gates!Start,
         Sending!Gates!RequireRoute, Sent!Gates!RequireRoute, Sending!Gates!PhaseAllows,
         Sent!Gates!PhaseAllows, Sending!Gates!WritersReady, Sent!Gates!WritersReady,
         Sending!Gates!OpenClaims, Sent!Gates!OpenClaims, Sending!Gates!Open, Sent!Gates!Open,
         Sending!Gates!ManuallyReleasable, Sent!Gates!ManuallyReleasable

\* Storing an observation.
LEMMA SameObserve ==
  ASSUME NEW c \in Requests, NEW outcome, NEW id
  PROVE  Sending!Gates!Observe(c, outcome, id) => Sent!Gates!Observe(c, outcome, id)
  BY DEF Sending!Gates!Observe, Sent!Gates!Observe, Sending!Gates!Cardinality,
         Sent!Gates!Cardinality, Sending!Cardinality, Sent!Cardinality,
         Sending!Gates!IsFiniteSet, Sent!Gates!IsFiniteSet, Sending!IsFiniteSet, Sent!IsFiniteSet

\* Finishing a request.
LEMMA SameFinish ==
  ASSUME NEW c \in Requests, NEW outcome, NEW id
  PROVE  Sending!Gates!FinishSend(c, outcome, id) => Sent!Gates!FinishSend(c, outcome, id)
  BY SameObserve DEF Sending!Gates!FinishSend, Sent!Gates!FinishSend,
         Sending!Gates!ResolveClaim, Sent!Gates!ResolveClaim,
         Sending!Gates!RepeatObservation, Sent!Gates!RepeatObservation,
         Sending!Gates!ReopenOnConflict, Sent!Gates!ReopenOnConflict,
         Sending!Gates!Contradicts, Sent!Gates!Contradicts, Sending!Gates!Resolved,
         Sent!Gates!Resolved, Sending!Gates!Open, Sent!Gates!Open,
         Sending!Gates!Terminal, Sent!Gates!Terminal,
         Sending!Gates!ManuallyReleasable, Sent!Gates!ManuallyReleasable

\* Storing the answer.
LEMMA SameRemember ==
  ASSUME NEW c \in Requests, NEW id, Sending!Remember(c, id)
  PROVE  Sent!Remember(c, id)
  BY SameFinish DEF Sending!Remember, Sent!Remember, Sending!Outcome, Sent!Outcome,
                    Sending!Leave, Sent!Leave

\* Closing the unresolved requests that a readback found the document of.
LEMMA SameSettle ==
  ASSUME NEW S, NEW id, Sending!SettleOpen(S, id)
  PROVE  Sent!SettleOpen(S, id)
  BY DEF Sending!SettleOpen, Sent!SettleOpen, Sending!Gates!Resolved, Sent!Gates!Resolved,
         Sending!Gates!Terminal, Sent!Gates!Terminal,
         Sending!Gates!ManuallyReleasable, Sent!Gates!ManuallyReleasable

\* Releasing a request as not sent.
LEMMA SameRelease ==
  ASSUME NEW c \in Requests, Sending!Gates!ConfirmNotSent(c)
  PROVE  Sent!Gates!ConfirmNotSent(c)
  BY SameObserve DEF Sending!Gates!ConfirmNotSent, Sent!Gates!ConfirmNotSent,
         Sending!Gates!Open, Sent!Gates!Open,
         Sending!Gates!PhaseAllows, Sent!Gates!PhaseAllows,
         Sending!Gates!WritersReady, Sent!Gates!WritersReady,
         Sending!Gates!ManuallyReleasable, Sent!Gates!ManuallyReleasable

\* The end of a claim's lease.
LEMMA SameExpiry ==
  ASSUME NEW c \in Requests, Sending!ClaimLeaseExpires(c)
  PROVE  Sent!ClaimLeaseExpires(c)
  BY DEF Sending!ClaimLeaseExpires, Sent!ClaimLeaseExpires, Sending!Gates!LeaseExpires,
         Sent!Gates!LeaseExpires, Sending!Gates!Open, Sent!Gates!Open,
         Sending!Gates!ManuallyReleasable, Sent!Gates!ManuallyReleasable

\* The types of the shared rows.
LEMMA SameTypes == Sending!SendingTypeOK <=> Sent!SendingTypeOK
  BY DEF Sending!SendingTypeOK, Sent!SendingTypeOK, Sending!Stages, Sent!Stages,
         Sending!Replies, Sent!Replies, Sending!Gates!Authorities, Sent!Gates!Authorities,
         Sending!Gates!Routes, Sent!Gates!Routes, Sending!Gates!ClaimRows, Sent!Gates!ClaimRows,
         Sending!Gates!ClaimStates, Sent!Gates!ClaimStates, Sending!Gates!Terminal,
         Sent!Gates!Terminal, Sending!Gates!ManuallyReleasable, Sent!Gates!ManuallyReleasable,
         Sending!Gates!Observations, Sent!Gates!Observations

\* The unresolved requests of the order; the gate is open as long as nothing is frozen.
LEMMA OpenMeans ==
  ASSUME Sent!SendInv
  PROVE  /\ OpenClaims = {c \in Requests : Sent!Open(c)}
         /\ GateOpen <=> ~Sent!Frozen
  <1>1. OpenClaims = {c \in Requests : Sent!Open(c)}
    BY DEF OpenClaims, Sending!Gates!OpenClaims, Sending!Gates!Open,
           Sending!Gates!ManuallyReleasable, Sent!Open, Sent!SendInv, Sent!RequestFits
  <1>2. authority[Invoice].state \in {"active", "frozen"}
    BY DEF Sent!SendInv, Sent!SendingTypeOK, Sent!Gates!Authorities
  <1>3. GateOpen <=> ~Sent!Frozen
    BY <1>2 DEF GateOpen, Sending!Gates!RequireRoute, Sending!Gates!PhaseAllows,
                Sending!Gates!WritersReady, Sent!SendInv, Sent!Frozen
  <1> QED BY <1>1, <1>3

\* Executors and their requests.
LEMMA Keys ==
  /\ \A a \in Attempts : /\ a # 0 /\ a \in 0 .. MaxAttempts
                         /\ \A k \in Rounds : <<a, k>> \in Requests /\ <<a, k>>[1] = a
                                              /\ <<a, k>>[2] = k
  /\ \A c \in Requests : c[1] \in Attempts /\ c[2] \in Rounds /\ c = <<c[1], c[2]>>
  /\ Rounds = {1, 2}
  BY BoundAssumption DEF Attempts, Rounds, Requests

\* A verified document closes everything that is open.
LEMMA SettleEffect ==
  ASSUME Sent!SendInv, NEW id \in created, Sending!SettleOpen(OpenClaims, id), prompt' = prompt
  PROVE  /\ Sent!SendInv' /\ UNCHANGED <<authority, post, inflight, created>>
         /\ \A c \in Requests : /\ ~Sent!Open(c)'
                                /\ ~Sent!Open(c) => claims'[c] = claims[c]
  <1>1. id \in Requests
    BY DEF Sent!SendInv, Sent!SendingTypeOK
  <1> DEFINE S == {c \in Requests : Sent!Open(c)}
  <1>2. Sent!SettleOpen(S, id)
    BY OpenMeans, SameSettle
  <1>3. UNCHANGED <<authority, post, inflight, created>>
    BY <1>2 DEF Sent!SettleOpen
  <1>4. \A c \in Requests : c \notin S => claims'[c] = claims[c]
    BY <1>2 DEF Sent!SettleOpen
  <1>5. S \subseteq {c \in Requests : Sent!Open(c)}
    OBVIOUS
  <1>6. \A c \in Requests : c \in S <=> Sent!Open(c)
    OBVIOUS
  <1> HIDE DEF S
  <1>7. /\ Sent!SendInv'
        /\ \A c \in Requests : claims'[c].state = IF c \in S THEN "succeeded" ELSE claims[c].state
    BY <1>1, <1>2, <1>5, NoneAssumption, Sent!SettleKeeps
  <1> QED BY <1>3, <1>4, <1>6, <1>7 DEF Sent!Open

\* An attested absence closes everything that is open as not sent.
LEMMA ReleaseEffect ==
  ASSUME Sent!SendInv, ~Sent!Frozen, Sending!ReleaseUnsent(OpenClaims), prompt' = prompt
  PROVE  /\ Sent!SendInv' /\ UNCHANGED <<authority, post, inflight, created>>
         /\ \A c \in Requests : /\ ~Sent!Open(c)'
                                /\ Sent!Open(c) => ~claims[c].leased
                                /\ ~Sent!Open(c) => claims'[c] = claims[c]
  <1>1. OpenClaims = {c \in Requests : Sent!Open(c)}
    BY OpenMeans
  <1>2. Sent!ReleaseUnsent(OpenClaims)
    BY <1>1, SameRelease DEF Sending!ReleaseUnsent, Sending!sendVars, Sent!ReleaseUnsent, Sent!sendVars
  <1>3. /\ Sent!SendInv' /\ UNCHANGED <<authority, post, reply, inflight, created>>
        /\ \A c \in Requests : /\ c \in OpenClaims => claims'[c].state = "not_sent"
                               /\ c \notin OpenClaims => claims'[c] = claims[c]
    BY <1>1, <1>2, Sent!ReleaseUnsentKeeps
  <1>4. \A c \in Requests : Sent!Open(c) => ~claims[c].leased
    <2>1. ASSUME NEW d \in Requests, Sent!Gates!ConfirmNotSent(d)
          PROVE  \A c \in Requests : Sent!Open(c) => ~claims[c].leased
      <3>1. Sent!Open(d) /\ ~claims[d].leased
        BY <2>1, Sent!ReleaseEffect
      <3> QED BY <3>1 DEF Sent!SendInv
    <2> QED BY <1>1, <1>2, <2>1 DEF Sent!ReleaseUnsent
  <1> QED BY <1>1, <1>3, <1>4 DEF Sent!Open

\* The first state.
LEMMA SameInit == Sending!SendingInit => Sent!SendingInit
  BY DEF Sending!SendingInit, Sent!SendingInit, Sending!Gates!NoClaim, Sent!Gates!NoClaim

-----------------------------------------------------------------------------
(* What stays as it is *)

\* An executor that does nothing while its requests stay as they are.
LEMMA OtherWorker ==
  ASSUME NEW a \in Attempts, WorkerFits(a), worker'[a] = worker[a], prompt' = prompt,
         row.remote # None => row'.remote # None,
         \A k \in Rounds : /\ post'[<<a, k>>] = post[<<a, k>>]
                           /\ <<a, k>> \in inflight' <=> <<a, k>> \in inflight
                           /\ <<a, k>> \in created' <=> <<a, k>> \in created
  PROVE  WorkerFits(a)'
  <1>1. OnWire(a)' = OnWire(a)
    BY DEF OnWire
  <1>2. \A k \in Rounds : (Quiet(<<a, k>>) => Quiet(<<a, k>>)') /\ (Past(<<a, k>>) => Past(<<a, k>>)')
    BY DEF Quiet, Past
  <1>3. worker[a].round \in Rounds => post'[OnWire(a)] = post[OnWire(a)]
                                      /\ (OnWire(a) \in created => OnWire(a) \in created')
    BY DEF OnWire
  <1> QED BY <1>1, <1>2, <1>3 DEF WorkerFits

\* When there is nothing and when nothing is under way.
LEMMA NothingThere ==
  ASSUME IInv, Sound
  PROVE  /\ (\/ row.status \in {"waiting", "paused", "cancelled"} \/ read.kind = "retired"
             \/ read.kind = "absent" /\ row.status # "uncertain")
               => \A c \in Requests : ~Present(c)
         /\ (\/ row.status \notin {"sending", "uncertain"} \/ row.remote # None
             \/ read.kind = "active")
               => \A c \in Requests : ~Alive(c)
         /\ \A c \in Requests : Alive(c) => /\ row.token = c[1] /\ Sent!Open(c)
                                            /\ claims[c].leased /\ Present(c)
  BY DEF IInv, EffectFits, EffectOf, Present, Sent!SendInv, Sent!RequestFits

\* Presence only goes away, and the row follows.
LEMMA EffectMoves ==
  ASSUME EffectFits, Sound' => Sound,
         Sound' => \A c \in Requests : Present(c)' =>
            /\ Present(c)
            /\ row'.status \notin {"waiting", "paused", "cancelled"}
            /\ row'.status = "sending" => row.status = "sending" /\ row'.token = row.token
            /\ read'.kind # "retired" /\ (read'.kind = "absent" => row'.status = "uncertain"),
         Sound' => \A c \in Requests : Alive(c)' =>
            /\ Alive(c) /\ claims'[c].leased
            /\ row'.status \in {"sending", "uncertain"} /\ row'.token = row.token
            /\ row'.remote = None /\ read'.kind # "active",
         Sound' => \A a \in Attempts : worker'[a].stage \in ToSend =>
            worker[a].stage \in ToSend \/ Alone(a)
  PROVE  EffectFits'
  <1> SUFFICES ASSUME Sound' PROVE (\A c \in Requests : EffectOf(c)')
                                   /\ \A a \in Attempts : worker'[a].stage \in ToSend => Alone(a)'
    BY DEF EffectFits
  <1>1. /\ \A c \in Requests : EffectOf(c)
        /\ \A a \in Attempts : worker[a].stage \in ToSend => Alone(a)
    BY DEF EffectFits
  <1>2. \A c \in Requests : EffectOf(c)'
    BY <1>1 DEF EffectOf
  <1>3. \A a \in Attempts : worker'[a].stage \in ToSend => Alone(a)'
    BY <1>1 DEF Alone
  <1> QED BY <1>2, <1>3

\* What can be said when none of it moves.
LEMMA EffectSays ==
  ASSUME IInv, Sound
  PROVE  /\ \A c \in Requests : Present(c) =>
               /\ row.status \notin {"waiting", "paused", "cancelled"}
               /\ read.kind # "retired" /\ (read.kind = "absent" => row.status = "uncertain")
         /\ \A c \in Requests : Alive(c) =>
               /\ Present(c) /\ row.status \in {"sending", "uncertain"} /\ row.token = c[1]
               /\ row.remote = None /\ read.kind # "active" /\ claims[c].leased
  BY DEF IInv, EffectFits, EffectOf, Present

\* A step of the row, of reading or of a document, without executor, claim and POST.
LEMMA RowMoves ==
  ASSUME IInv, UNCHANGED <<worker, sending>>, Types', BoundFits', VerifiedFits',
         deleted \subseteq deleted', row.remote # None => row'.remote # None,
         Sound' => Sound,
         Sound' =>
            \/ \A c \in Requests : ~Present(c)
            \/ /\ \A c \in Requests : ~Alive(c)
               /\ row'.status \notin {"waiting", "paused", "cancelled", "sending"}
               /\ read'.kind \notin {"absent", "retired"}
            \/ row' = row /\ read' \in {read, NoRead}
            \/ /\ row'.status = "uncertain" /\ row'.token = row.token /\ row'.remote = row.remote
               /\ read'.kind \in {"none", "absent"}
  PROVE  IInv'
  <1>1. UNCHANGED <<authority, claims, evidence, post, reply, inflight, created, prompt>>
    BY DEF sending
  <1>2. Sent!SendInv'
    BY <1>1, Sent!SendingUntouched DEF IInv
  <1>3. \A a \in Attempts : WorkerFits(a)'
    BY <1>1, OtherWorker DEF IInv
  <1>4. \A c \in Requests : (Alive(c)' <=> Alive(c)) /\ (Present(c)' => Present(c))
    BY <1>1 DEF Present, Alive, Active
  <1>5. EffectFits'
    <2>1. \A c \in Requests : Alive(c) => Present(c)
      BY DEF Present
    <2>2. EffectFits /\ \A a \in Attempts : worker'[a].stage \in ToSend => worker[a].stage \in ToSend
      BY DEF IInv
    <2>3. ASSUME Sound', NEW c \in Requests, Present(c)'
          PROVE  /\ Present(c)
                 /\ row'.status \notin {"waiting", "paused", "cancelled"}
                 /\ row'.status = "sending" => row.status = "sending" /\ row'.token = row.token
                 /\ read'.kind # "retired" /\ (read'.kind = "absent" => row'.status = "uncertain")
      BY <1>4, <2>3, EffectSays DEF NoRead
    <2>4. ASSUME Sound', NEW c \in Requests, Alive(c)'
          PROVE  /\ Alive(c) /\ claims'[c].leased
                 /\ row'.status \in {"sending", "uncertain"} /\ row'.token = row.token
                 /\ row'.remote = None /\ read'.kind # "active"
      BY <1>1, <1>4, <2>1, <2>4, EffectSays DEF NoRead
    <2> QED BY <2>2, <2>3, <2>4, EffectMoves
  <1> QED BY <1>2, <1>3, <1>5 DEF IInv

-----------------------------------------------------------------------------
(* The batch, people who read, and the inspection *)

\* What the invariant says of the row.
LEMMA RowSays ==
  ASSUME IInv
  PROVE  /\ row \in Rows /\ read \in Reads /\ deleted \subseteq created
         /\ check \in [Callers -> Checks \cup {None}]
         /\ inspection \in [Requests -> 0 .. MaxEdits \cup {None}]
         /\ worker \in [Attempts -> Workers] /\ created \subseteq Requests
         /\ \A k \in Callers : check[k] # None => row.remote # None
         /\ row.remote # None => row.remote \in created /\ row.remote \in Requests
                /\ row.status \in Verified \cup {"verifying", "uncertain", "failed", "cancelled"}
         /\ row.remote = None => row.status \notin Verified \cup {"verifying"}
         /\ NoRead \in Reads /\ NoRead.kind = "none"
         /\ gone \subseteq deleted /\ selected \in BOOLEAN /\ overwritten \in BOOLEAN
  BY DEF IInv, Types, BoundFits, Sent!SendInv, Sent!SendingTypeOK, Reads, NoRead

\* A step that leaves what the row says of its document, and any reading, alone.
LEMMA KeptRow ==
  ASSUME IInv, UNCHANGED <<inspection, deleted, prompt, overwritten, read>>,
         gone' \subseteq deleted', selected' \in BOOLEAN, created \subseteq created',
         row' \in Rows, row'.status = row.status, row'.remote = row.remote,
         row'.token = row.token,
         worker' \in [Attempts -> Workers], \A a \in Attempts : WorkerFits(a)',
         check' \in [Callers -> Checks \cup {None}],
         \A k \in Callers : check'[k] # None => check[k] # None,
         Sent!SendInv', Sent!Frozen => Sent!Frozen',
         ~Sent!Frozen' => \A c \in Requests : Sent!Open(c)' => Sent!Open(c),
         Sound => \A c \in Requests : /\ Present(c)' => Present(c)
                                      /\ Alive(c)' => Alive(c)
                                      /\ Alive(c)' /\ claims[c].leased => claims'[c].leased,
         Sound => \A a \in Attempts : worker'[a].stage \in ToSend =>
            worker[a].stage \in ToSend \/ Alone(a)
  PROVE  IInv'
  <1>1. Types'
    BY RowSays DEF Types
  <1>2. BoundFits'
    BY DEF IInv, BoundFits
  <1>3. VerifiedFits'
    BY DEF IInv, VerifiedFits
  <1>4. EffectFits'
    <2>1. Sound' <=> Sound
      BY DEF Sound
    <2>2. EffectFits
      BY DEF IInv
    <2>3. ASSUME Sound, NEW c \in Requests, Present(c)'
          PROVE  /\ Present(c)
                 /\ row'.status \notin {"waiting", "paused", "cancelled"}
                 /\ row'.status = "sending" => row.status = "sending" /\ row'.token = row.token
                 /\ read'.kind # "retired" /\ (read'.kind = "absent" => row'.status = "uncertain")
      BY <2>3, EffectSays
    <2>4. ASSUME Sound, NEW c \in Requests, Alive(c)'
          PROVE  /\ Alive(c) /\ claims'[c].leased
                 /\ row'.status \in {"sending", "uncertain"} /\ row'.token = row.token
                 /\ row'.remote = None /\ read'.kind # "active"
      BY <2>4, EffectSays
    <2> QED BY <2>1, <2>2, <2>3, <2>4, EffectMoves
  <1> QED BY <1>1, <1>2, <1>3, <1>4 DEF IInv

\* A step that writes a row which is not verified.
LEMMA WrittenRow ==
  ASSUME IInv, UNCHANGED <<inspection, deleted, prompt, created, gone>>,
         selected' \in BOOLEAN, overwritten' \in BOOLEAN,
         NEW new \in Rows, Write(new),
         new.status \notin Verified, new.remote \in {row.remote} \cup created,
         new.remote = None => new.status # "verifying" /\ row.remote = None,
         new.remote # None => new.status \in {"verifying", "uncertain", "failed", "cancelled"},
         worker' \in [Attempts -> Workers], \A a \in Attempts : WorkerFits(a)',
         check' \in [Callers -> Checks \cup {None}],
         \A k \in Callers : check'[k] # None => check[k] # None,
         Sent!SendInv', EffectFits'
  PROVE  IInv'
  <1>1. row' = new /\ read' = NoRead /\ read'.kind = "none"
    BY DEF Write, NoRead
  <1>2. Types'
    BY <1>1, RowSays DEF Types
  <1>3. BoundFits'
    BY <1>1, RowSays DEF BoundFits
  <1>4. VerifiedFits'
    BY <1>1 DEF VerifiedFits
  <1> QED BY <1>2, <1>3, <1>4 DEF IInv

\* A row that is written unbound or uncertain has nothing to be verified.
LEMMA PlainWrite ==
  ASSUME IInv, UNCHANGED <<worker, check, inspection, deleted, sending, gone, overwritten>>,
         selected' \in BOOLEAN,
         NEW new \in Rows, Write(new), new.remote = row.remote,
         new.status \notin Verified \cup {"verifying"},
         row.remote # None => new.status \in {"uncertain", "cancelled"},
         Sound => \/ \A c \in Requests : ~Present(c)
                  \/ /\ \A c \in Requests : ~Alive(c)
                     /\ new.status \in {"uncertain", "failed", "pending"}
                  \/ new.status = "uncertain" /\ new.token = row.token
  PROVE  IInv'
  <1>1. row' = new /\ read' = NoRead /\ read'.kind = "none"
    BY DEF Write, NoRead
  <1>2. created' = created /\ (Sound' <=> Sound)
    BY DEF sending, Sound
  <1>3. Types'
    BY <1>1, <1>2, RowSays DEF Types
  <1>4. BoundFits'
    BY <1>1, <1>2, RowSays DEF BoundFits
  <1>5. VerifiedFits'
    BY <1>1 DEF VerifiedFits
  <1> QED BY <1>1, <1>2, <1>3, <1>4, <1>5, RowMoves

\* The batch before and while its outbound waits.
LEMMA BatchKeeps ==
  ASSUME IInv, QueueReady \/ Pause \/ CancelUnqueued \/ Park
  PROVE  IInv'
  <1>1. row \in Rows /\ row.remote = None
    BY RowSays DEF QueueReady, Pause, CancelUnqueued, Park, Verified
  <1>2. PICK status \in {"pending", "paused", "waiting", "cancelled", "uncertain"} :
           /\ Write([row EXCEPT !.status = status])
           /\ \/ row.status \in {"waiting", "paused"}
              \/ row.status = "pending" /\ status = "uncertain"
    BY DEF QueueReady, Pause, CancelUnqueued, Park
  <1> DEFINE new == [row EXCEPT !.status = status]
  <1>3. new \in Rows /\ new.remote = None /\ new.status = status /\ new.token = row.token
    BY <1>1 DEF Rows, Statuses
  <1>4. Sound => \/ \A c \in Requests : ~Present(c)
                 \/ status = "uncertain"
    BY <1>2, NothingThere
  <1>5. UNCHANGED <<worker, check, inspection, deleted, sending, others>>
    BY DEF QueueReady, Pause, CancelUnqueued, Park
  <1> HIDE DEF new
  <1> QED BY <1>1, <1>2, <1>3, <1>4, <1>5, PlainWrite, RowSays DEF new, Verified, others

\* recover_expired takes the row to people, whatever has become of it since the selection.
LEMMA SweepKeeps ==
  ASSUME IInv, SweepWrites
  PROVE  IInv'
  <1> DEFINE new == [row EXCEPT !.status = "uncertain", !.leased = FALSE]
  <1>1. /\ Write(new) /\ UNCHANGED <<worker, check, inspection, deleted, sending, gone, overwritten>>
        /\ selected' \in BOOLEAN
    BY DEF SweepWrites
  <1>2. new \in Rows /\ new.remote = row.remote /\ new.status = "uncertain" /\ new.token = row.token
    BY RowSays DEF Rows, Statuses
  <1> HIDE DEF new
  <1> QED BY <1>1, <1>2, PlainWrite DEF Verified

\* The lease of a row ends; what was granted under it may still be under way.
LEMMA RowLeaseKeeps ==
  ASSUME IInv, RowLeaseExpires
  PROVE  IInv'
  <1> DEFINE new == [row EXCEPT !.leased = FALSE]
  <1>1. row' = new /\ UNCHANGED <<worker, check, inspection, deleted, sending, others, read>>
    BY DEF RowLeaseExpires
  <1>2. /\ new \in Rows /\ new.status = row.status /\ new.remote = row.remote
        /\ new.token = row.token
    BY RowSays DEF Rows
  <1> HIDE DEF new
  <1>3. UNCHANGED <<authority, claims, evidence, post, reply, inflight, created, prompt>>
    BY <1>1 DEF sending
  <1>4. Sent!SendInv'
    BY <1>3, Sent!SendingUntouched DEF IInv
  <1>5. \A a \in Attempts : WorkerFits(a)'
    BY <1>1, <1>2, <1>3, OtherWorker DEF IInv
  <1>6. \A c \in Requests : /\ Present(c)' <=> Present(c)
                            /\ Alive(c)' <=> Alive(c)
                            /\ Sent!Open(c)' <=> Sent!Open(c)
    BY <1>1, <1>3 DEF Present, Alive, Active, Sent!Open
  <1> QED BY <1>1, <1>2, <1>3, <1>4, <1>5, <1>6, RowSays, KeptRow DEF Sent!Frozen, others

\* What people and the job read; nothing but the reading changes.
LEMMA ReadingKeeps ==
  ASSUME IInv,
         \/ ReadAbsence \/ ReadDeletion \/ (\E o \in Requests : ReadDocument(o))
         \/ \E k \in Callers, same \in BOOLEAN : CheckRead(k, same)
  PROVE  IInv'
  <1>1. UNCHANGED <<row, worker, inspection, deleted, sending, gone, selected, overwritten>>
    BY DEF ReadAbsence, ReadDeletion, ReadDocument, CheckRead, Finds, KeepRow, others
  <1>2. /\ UNCHANGED <<authority, claims, evidence, post, reply, inflight, created, prompt>>
        /\ (Sound' <=> Sound)
    BY <1>1 DEF sending, Sound
  <1>3. VerifiedFits'
    BY <1>1, <1>2 DEF IInv, VerifiedFits, Sent!Open, Sent!Frozen
  <1>4. CASE ReadAbsence \/ ReadDeletion
    <2>1. Active = {} /\ UNCHANGED check
      BY <1>4 DEF ReadAbsence, ReadDeletion, SerialUnused, Finds
    <2>2. read'.kind \in {"absent", "retired"} /\ read' \in Reads
      BY <1>4, RowSays DEF ReadAbsence, ReadDeletion, Finds, Reads
    <2>3. \/ row.status = "uncertain" /\ read'.kind = "absent"
          \/ row.status = "failed" \/ row.remote # None
      BY <1>4, RowSays, NoneAssumption DEF ReadAbsence, ReadDeletion, Finds
    <2>4. \/ row.status = "uncertain" /\ read'.kind = "absent"
          \/ Sound => \A c \in Requests : ~Present(c)
      BY <2>1, <2>3, NothingThere DEF Present
    <2>5. Types' /\ BoundFits'
      BY <1>1, <1>2, <2>1, <2>2 DEF IInv, Types, BoundFits
    <2> QED BY <1>1, <1>2, <1>3, <2>4, <2>5, RowMoves
  <1>5. ASSUME NEW o \in Requests, ReadDocument(o) PROVE IInv'
    <2>1. /\ o \in created /\ row.status \in {"uncertain", "failed"} /\ UNCHANGED check
          /\ read' = [kind |-> "active", doc |-> o]
      BY <1>5 DEF ReadDocument, Active, Finds
    <2>2. read' \in Reads /\ read'.kind = "active" /\ read'.doc \in created
      BY <2>1 DEF Reads
    <2>3. Types' /\ BoundFits'
      BY <1>1, <1>2, <2>1, <2>2 DEF IInv, Types, BoundFits
    <2>4. Sound => \A c \in Requests : ~Alive(c)
      <3>1. o \in Requests /\ Present(o)
        BY <1>5 DEF Present, ReadDocument
      <3>2. ASSUME Sound, NEW c \in Requests, Alive(c) PROVE FALSE
        <4>1. c = o
          BY <3>1, <3>2, EffectSays DEF IInv, EffectFits, EffectOf
        <4> QED BY <2>1, <3>2, <4>1 DEF Alive, IInv, Sent!SendInv, Sent!RequestFits
      <3> QED BY <3>2
    <2> QED BY <1>1, <1>2, <1>3, <2>1, <2>2, <2>3, <2>4, RowMoves
  <1>6. ASSUME NEW k \in Callers, NEW same \in BOOLEAN, CheckRead(k, same) PROVE IInv'
    <2>1. row.remote # None
      BY <1>6, RowSays DEF CheckRead, IInv, WorkerFits, Callers
    <2>2. PICK active \in BOOLEAN, seen \in 0 .. MaxEdits \cup {None} :
             check' = [check EXCEPT ![k] = [active |-> active, seen |-> seen]]
      <3>1. CASE row.remote \in Active /\ same
        BY <1>6, <2>1, <3>1, RowSays DEF CheckRead
      <3>2. CASE ~(row.remote \in Active /\ same)
        BY <1>6, <3>2 DEF CheckRead
      <3> QED BY <3>1, <3>2
    <2>3. [active |-> active, seen |-> seen] \in Checks
      BY DEF Checks
    <2>4. check' \in [Callers -> Checks \cup {None}]
      BY <2>2, <2>3, RowSays
    <2>5. UNCHANGED read
      BY <1>6 DEF CheckRead, KeepRow
    <2>6. Types' /\ BoundFits'
      BY <1>1, <1>2, <2>1, <2>4, <2>5 DEF IInv, Types, BoundFits
    <2> QED BY <1>1, <1>2, <1>3, <2>5, <2>6, RowMoves
  <1> QED BY <1>4, <1>5, <1>6

\* A row without document is given back or cancelled when none was found, and one whose
\* document was deleted is cancelled.
LEMMA GivenBackKeeps ==
  ASSUME IInv, Retry \/ CancelFailed \/ CancelDeleted
  PROVE  IInv'
  <1>1. /\ row \in Rows /\ read.kind \in {"absent", "retired"}
        /\ UNCHANGED <<worker, check, inspection, deleted, sending, gone, selected, overwritten>>
        /\ read.kind = "absent" => row.status = "failed"
    BY RowSays DEF Retry, CancelFailed, CancelDeleted, others
  <1>2. Sound => \A c \in Requests : ~Present(c)
    BY <1>1, NothingThere
  <1>3. PICK new \in Rows : /\ Write(new) /\ new.remote = row.remote
                            /\ new.status \in {"pending", "cancelled"}
                            /\ row.remote # None => new.status = "cancelled"
    <2>1. CASE Retry
      <3> DEFINE new == [row EXCEPT !.status = "pending", !.token = 0, !.leased = FALSE]
      <3>1. 0 \in 0 .. MaxAttempts
        BY BoundAssumption
      <3>2. new \in Rows /\ new.remote = row.remote /\ new.status = "pending"
        BY <1>1, <3>1 DEF Rows, Statuses
      <3>3. Write(new) /\ row.remote = None
        BY <2>1 DEF Retry
      <3> QED BY <3>2, <3>3
    <2>2. CASE CancelFailed \/ CancelDeleted
      <3> DEFINE new == [row EXCEPT !.status = "cancelled"]
      <3>1. new \in Rows /\ new.remote = row.remote /\ new.status = "cancelled"
        BY <1>1 DEF Rows, Statuses
      <3>2. Write(new)
        BY <2>2 DEF CancelFailed, CancelDeleted
      <3> QED BY <3>1, <3>2
    <2> QED BY <2>1, <2>2
  <1> QED BY <1>1, <1>2, <1>3, RowSays, PlainWrite DEF Verified

-----------------------------------------------------------------------------
(* Closing claims, and the documents themselves *)

\* A row is written and every claim of the order closed in one transaction.
LEMMA RowCloses ==
  ASSUME IInv, NEW new \in Rows, Write(new), UNCHANGED <<deleted, prompt, overwritten>>,
         \A a \in Attempts : worker'[a].stage \in ToSend => worker[a].stage \in ToSend,
         Types', BoundFits', Sent!SendInv', \A a \in Attempts : WorkerFits(a)',
         UNCHANGED <<authority, post, inflight, created>>,
         \A c \in Requests : ~Sent!Open(c)',
         new.status \in Verified => (new.status = "shipped" <=> Complete(inspection'[new.remote])),
         Sound => \A c \in Requests : ~Alive(c),
         new.status \in Verified \cup {"pending"}
  PROVE  IInv'
  <1>1. row' = new /\ read' = NoRead /\ read'.kind = "none"
    BY DEF Write, NoRead
  <1>2. VerifiedFits'
    BY <1>1 DEF VerifiedFits
  <1>3. \A c \in Requests : (Alive(c)' => Alive(c)) /\ (Present(c)' => Present(c))
    <2>1. \A c \in Requests : claims'[c].state # "sending"
      BY DEF Sent!Open
    <2> QED BY <2>1 DEF Alive, Present, Active
  <1>4. EffectFits'
    <2>1. Sound' <=> Sound
      BY DEF Sound
    <2>2. EffectFits
      BY DEF IInv
    <2> QED BY <1>1, <1>3, <2>1, <2>2, EffectMoves DEF Verified
  <1> QED BY <1>2, <1>4 DEF IInv

\* An administrator attests that nothing was created, or binds what was found.
LEMMA DecisionKeeps ==
  ASSUME IInv, Recover \/ Reconcile
  PROVE  IInv'
  <1>1. UNCHANGED <<worker, check, inspection, deleted, prompt, gone, selected, overwritten>>
    BY DEF Recover, Reconcile, others
  <1>2. CASE Recover
    <2> DEFINE new == [row EXCEPT !.status = "pending", !.token = 0]
    <2>1. /\ Write(new) /\ row.remote = None /\ read.kind = "absent"
          /\ Sending!ReleaseUnsent(OpenClaims)
      BY <1>2 DEF Recover
    <2>2. 0 \in 0 .. MaxAttempts
      BY BoundAssumption
    <2>3. new \in Rows /\ new.status = "pending" /\ new.remote = None
      BY <2>1, <2>2, RowSays DEF Rows, Statuses
    <2> HIDE DEF new
    <2>5. CASE Sent!Frozen
      <3>1. UNCHANGED <<authority, claims, evidence, post, reply, inflight, created>>
        <4>1. \A c \in Requests : ~Sending!Gates!ConfirmNotSent(c)
          BY <2>5, SameRelease, Sent!ReleaseEffect DEF IInv
        <4>2. OpenClaims \subseteq Requests
          BY OpenMeans DEF IInv
        <4> QED BY <2>1, <4>1, <4>2 DEF Sending!ReleaseUnsent, Sending!sendVars
      <3>2. OpenClaims = {}
        BY <2>1, <2>5, SameRelease, Sent!ReleaseEffect, OpenMeans DEF IInv, Sending!ReleaseUnsent
      <3>3. Sound => \A c \in Requests : ~Alive(c)
        BY <3>2, OpenMeans, NothingThere DEF IInv
      <3> QED BY <1>1, <2>1, <2>3, <3>1, <3>3, RowSays, PlainWrite DEF sending, Verified
    <2>6. CASE ~Sent!Frozen
      <3>1. /\ Sent!SendInv' /\ UNCHANGED <<authority, post, inflight, created>>
            /\ \A c \in Requests : ~Sent!Open(c)' /\ (Sent!Open(c) => ~claims[c].leased)
        BY <1>1, <2>1, <2>6, ReleaseEffect DEF IInv
      <3>2. row' = new /\ read' = NoRead
        BY <2>1 DEF Write
      <3>3. Types' /\ BoundFits'
        BY <1>1, <2>1, <2>3, <3>1, <3>2, RowSays DEF Types, BoundFits, Verified
      <3>4. \A a \in Attempts : WorkerFits(a)'
        BY <1>1, <2>1, <3>1, OtherWorker DEF IInv
      <3>5. Sound => \A c \in Requests : ~Alive(c)
        BY <3>1, NothingThere
      <3> QED BY <1>1, <2>1, <2>3, <3>1, <3>3, <3>4, <3>5, RowCloses DEF Verified
    <2> QED BY <2>5, <2>6
  <1>3. CASE Reconcile
    <2> DEFINE o == read.doc
               new == [row EXCEPT !.status = Applied(inspection[o]), !.remote = o]
    <2>1. /\ Write(new) /\ row.remote = None /\ read.kind = "active"
          /\ row.status \in {"uncertain", "failed"} /\ Sending!SettleOpen(OpenClaims, o)
      BY <1>3 DEF Reconcile
    <2>2. o \in created /\ o \in Requests /\ o # None
      BY <2>1, RowSays, NoneAssumption DEF IInv, BoundFits
    <2>3. Applied(inspection[o]) \in Verified
          /\ (Applied(inspection[o]) = "shipped" <=> Complete(inspection[o]))
      BY DEF Applied, Verified
    <2>4. new \in Rows /\ new.status = Applied(inspection[o]) /\ new.remote = o
      BY <2>2, <2>3, RowSays DEF Rows, Statuses
    <2>5. Sound => \A c \in Requests : ~Alive(c)
      BY <2>1, NothingThere
    <2>6. /\ Sent!SendInv' /\ UNCHANGED <<authority, post, inflight, created>>
          /\ \A c \in Requests : ~Sent!Open(c)'
      BY <1>1, <2>1, <2>2, SettleEffect DEF IInv
    <2> HIDE DEF new, o
    <2>7. row' = new /\ read' = NoRead
      BY <2>1 DEF Write
    <2>8. Types' /\ BoundFits'
      BY <1>1, <2>2, <2>3, <2>4, <2>6, <2>7, RowSays DEF Types, BoundFits
    <2>9. \A a \in Attempts : WorkerFits(a)'
      BY <1>1, <2>1, <2>6, OtherWorker DEF IInv
    <2> QED BY <1>1, <2>1, <2>3, <2>4, <2>5, <2>6, <2>8, <2>9, RowCloses
  <1> QED BY <1>2, <1>3

\* An inspection is mirrored, submitted or recalled.
LEMMA InspectionKeeps ==
  ASSUME IInv, NEW o \in Requests, Mirror(o) \/ SubmitOrRecall(o)
  PROVE  IInv'
  <1>1. /\ UNCHANGED <<worker, check, deleted, sending, gone, selected, overwritten>> /\ created' = created
        /\ (Sound' <=> Sound)
    BY DEF Mirror, SubmitOrRecall, Inspect, sending, others, Sound
  <1>2. PICK n \in 0 .. MaxEdits :
           /\ inspection' = [inspection EXCEPT ![o] = n]
           /\ \/ inspection[o] = None /\ n = 0 /\ UNCHANGED row /\ Outdates(o)
              \/ row.remote = o /\ row.status \in Verified /\ Write([row EXCEPT !.status = Applied(n)])
              \/ /\ row.remote # o \/ row.status \notin Verified \/ o \in deleted
                 /\ UNCHANGED row /\ Outdates(o)
    <2>1. CASE Mirror(o)
      <3>1. 0 \in 0 .. MaxEdits
        BY BoundAssumption
      <3> QED BY <2>1, <3>1 DEF Mirror, Inspect
    <2>2. CASE SubmitOrRecall(o)
      <3>1. inspection[o] + 1 \in 0 .. MaxEdits
        BY <2>2, RowSays, BoundAssumption DEF SubmitOrRecall
      <3> QED BY <2>2, <3>1 DEF SubmitOrRecall, Inspect
    <2> QED BY <2>1, <2>2
  <1>3. /\ inspection' \in [Requests -> 0 .. MaxEdits \cup {None}] /\ inspection'[o] = n
        /\ \A p \in Requests \ {o} : inspection'[p] = inspection[p]
    BY <1>2, RowSays
  <1>4. ~Complete(0) /\ ~Complete(None)
    BY DEF Complete
  <1>5. CASE UNCHANGED row /\ Outdates(o)
    <2>1. read' \in {read, NoRead}
      BY <1>5 DEF Outdates
    <2>2. Types' /\ BoundFits'
      BY <1>1, <1>3, <1>5, <2>1, RowSays DEF IInv, Types, BoundFits
    <2>3. VerifiedFits'
      <3>1. row.status \in Verified => row.remote \in Requests
        BY RowSays
      <3>2. row.status \in Verified /\ row.remote = o /\ o \notin deleted =>
               (Complete(inspection'[o]) <=> Complete(inspection[o]))
        <4>1. CASE inspection[o] = None /\ n = 0
          BY <1>3, <1>4, <4>1
        <4>2. CASE Write([row EXCEPT !.status = Applied(n)]) /\ row.remote = o /\ row.status \in Verified
          <5>1. Applied(n) = row.status
            BY <1>5, <4>2, RowSays DEF Write, Rows
          <5>2. row.remote \notin deleted => (row.status = "shipped" <=> Complete(inspection[o]))
            BY <4>2 DEF IInv, VerifiedFits
          <5> QED BY <1>3, <4>2, <5>1, <5>2 DEF Applied
        <4> QED BY <1>2, <4>1, <4>2
      <3> QED BY <1>1, <1>3, <1>5, <3>1, <3>2 DEF IInv, VerifiedFits, Sent!Open, Sent!Frozen, sending
    <2> QED BY <1>1, <1>5, <2>1, <2>2, <2>3, RowMoves
  <1>6. CASE row.remote = o /\ row.status \in Verified /\ Write([row EXCEPT !.status = Applied(n)])
    <2> DEFINE new == [row EXCEPT !.status = Applied(n)]
    <2>1. Applied(n) \in Verified /\ (Applied(n) = "shipped" <=> Complete(n))
      BY DEF Applied, Verified
    <2>2. new \in Rows /\ new.status = Applied(n) /\ new.remote = o
      BY <1>6, <2>1, RowSays DEF Rows, Statuses
    <2>3. row' = new /\ read' = NoRead
      BY <1>6 DEF Write
    <2> HIDE DEF new
    <2>4. Types' /\ BoundFits'
      BY <1>1, <1>3, <1>6, <2>1, <2>2, <2>3, RowSays, NoneAssumption DEF Types, BoundFits
    <2>5. VerifiedFits'
      BY <1>1, <1>3, <1>6, <2>1, <2>2, <2>3 DEF IInv, VerifiedFits, Sent!Open, Sent!Frozen, sending
    <2>6. Sound => \A c \in Requests : ~Alive(c)
      BY <1>6, NothingThere DEF Verified
    <2> QED BY <1>1, <1>6, <2>1, <2>2, <2>3, <2>4, <2>5, <2>6, RowMoves, RowSays DEF Verified
  <1> QED BY <1>2, <1>5, <1>6

\* A document is deleted in OKKI, and may then not be found any more.
LEMMA DeleteKeeps ==
  ASSUME IInv, NEW o \in Requests, Delete(o) \/ Vanish(o)
  PROVE  IInv'
  <1>1. /\ UNCHANGED <<row, read, worker, check, inspection, sending, selected, overwritten>>
        /\ created' = created /\ o \in created
        /\ deleted' \in {deleted, deleted \cup {o}} /\ gone' \subseteq deleted'
        /\ (Sound' <=> Sound)
    BY RowSays DEF Delete, Vanish, KeepRow, Active, sending, others, Sound
  <1>2. Types' /\ BoundFits' /\ VerifiedFits'
    BY <1>1 DEF IInv, Types, BoundFits, VerifiedFits, Sent!Open, Sent!Frozen, sending
  <1> QED BY <1>1, <1>2, RowMoves

-----------------------------------------------------------------------------
(* The executors *)

\* An executor goes on to a stage, to the end of its handler, or is over.
LEMMA StageMoves ==
  ASSUME worker \in [Attempts -> Workers], NEW a \in Attempts,
         NEW stage \in {"claimed", "ready", "retry", "created", "verify", "refused", "unknown",
                        "failed", "uncertain", "over"}
  PROVE  /\ Stops(a, stage) => /\ worker' \in [Attempts -> Workers] /\ worker'[a].stage = stage
                               /\ \A b \in Attempts \ {a} : worker'[b] = worker[b]
         /\ To(a, stage) => /\ worker' \in [Attempts -> Workers] /\ worker'[a].stage = stage
                            /\ worker'[a].round = worker[a].round
                            /\ \A b \in Attempts \ {a} : worker'[b] = worker[b]
  <1>1. worker[a] \in Workers
    OBVIOUS
  <1>2. ASSUME Stops(a, stage)
        PROVE  /\ worker' \in [Attempts -> Workers] /\ worker'[a].stage = stage
               /\ \A b \in Attempts \ {a} : worker'[b] = worker[b]
    <2>1. worker' = [worker EXCEPT ![a] = [worker[a] EXCEPT !.stage = stage, !.round = 0]]
      BY <1>2 DEF Stops
    <2>2. 0 \in 0 .. 2
      OBVIOUS
    <2>3. [worker[a] EXCEPT !.stage = stage, !.round = 0] \in Workers
      BY <1>1, <2>2 DEF Workers
    <2> QED BY <1>1, <2>1, <2>3 DEF Workers
  <1>3. ASSUME To(a, stage) PROVE /\ worker' \in [Attempts -> Workers] /\ worker'[a].stage = stage
                                  /\ worker'[a].round = worker[a].round
                                  /\ \A b \in Attempts \ {a} : worker'[b] = worker[b]
    <2>1. worker' = [worker EXCEPT ![a] = [worker[a] EXCEPT !.stage = stage]]
      BY <1>3 DEF To
    <2>2. [worker[a] EXCEPT !.stage = stage] \in Workers
      BY <1>1 DEF Workers
    <2> QED BY <1>1, <2>1, <2>2 DEF Workers
  <1> QED BY <1>2, <1>3

\* An executor that is over has nothing left to do.
LEMMA Over ==
  ASSUME worker \in [Attempts -> Workers], NEW a \in Attempts, Ends(a)
  PROVE  /\ worker' \in [Attempts -> Workers] /\ WorkerFits(a)' /\ worker'[a].stage = "over"
         /\ \A b \in Attempts \ {a} : worker'[b] = worker[b]
         /\ \A b \in Attempts : worker'[b].stage \in ToSend => worker[b].stage \in ToSend
  <1>1. /\ worker' \in [Attempts -> Workers] /\ worker'[a].stage = "over"
        /\ \A b \in Attempts \ {a} : worker'[b] = worker[b]
    BY StageMoves DEF Ends
  <1> QED BY <1>1 DEF WorkerFits, ToSend

\* Any executor comes to its exception handler past its requests, and takes its verdict
\* or ends; the row stays as it is.
LEMMA FailsKeeps ==
  ASSUME IInv, NEW a \in Attempts, NEW doubt \in BOOLEAN, Fails(a, doubt),
         UNCHANGED <<inspection, deleted, prompt, others, authority, claims, inflight, created>>,
         check' \in [Callers -> Checks \cup {None}],
         \A k \in Callers : check'[k] # None => check[k] # None,
         Sent!SendInv', \A c \in Requests : c[1] # a => post'[c] = post[c],
         \A k \in Rounds : Past(<<a, k>>)'
  PROVE  IInv'
  <1>1. row' = row /\ read' = read /\ row \in Rows
    BY RowSays DEF Fails, KeepRow
  <1>2. PICK stage \in {"failed", "uncertain", "over"} : Stops(a, stage)
    BY DEF Fails, Ends, Verdict
  <1>3. /\ worker' \in [Attempts -> Workers] /\ worker'[a].stage = stage
        /\ \A b \in Attempts \ {a} : worker'[b] = worker[b]
    BY <1>2, RowSays, StageMoves
  <1>4. WorkerFits(a)'
    BY <1>3 DEF WorkerFits
  <1>5. ASSUME NEW b \in Attempts PROVE WorkerFits(b)'
    <2>1. CASE b # a
      BY <1>1, <1>3, <2>1, Keys, OtherWorker DEF IInv
    <2> QED BY <1>4, <2>1
  <1>6. Sound => \A c \in Requests : (Alive(c)' => Alive(c)) /\ (Present(c)' => Present(c))
    <2>1. \A c \in Requests : Alive(c)' => Alive(c)
      <3>1. ASSUME NEW c \in Requests, c[1] # a PROVE Alive(c)' => Alive(c)
        BY <3>1 DEF Alive
      <3>2. ASSUME NEW c \in Requests, c[1] = a PROVE Alive(c)' => Alive(c)
        <4>1. Past(c)'
          BY <3>2, Keys
        <4> QED BY <4>1 DEF Past, Alive
      <3> QED BY <3>1, <3>2
    <2> QED BY <2>1 DEF Present, Active
  <1>7. /\ Sent!Frozen' <=> Sent!Frozen
        /\ \A c \in Requests : Sent!Open(c)' <=> Sent!Open(c)
    BY DEF Sent!Frozen, Sent!Open
  <1>8. \A b \in Attempts : worker'[b].stage \in ToSend => worker[b].stage \in ToSend
    BY <1>3 DEF ToSend
  <1>9. UNCHANGED <<overwritten, selected, gone>>
    BY DEF others
  <1> QED BY <1>1, <1>3, <1>5, <1>6, <1>7, <1>8, <1>9, RowSays, KeptRow

\* Only an executor inside invoke has a request that can still take effect.
LEMMA OnlySenders ==
  ASSUME IInv, NEW a \in Attempts,
         worker[a].stage \in {"idle", "claimed", "ready", "retry", "created", "verify",
                              "refused", "unknown", "failed", "uncertain"}
  PROVE  /\ \A k \in Rounds : Past(<<a, k>>)
         /\ prompt => \A k \in Rounds : ~Alive(<<a, k>>)
  BY DEF IInv, WorkerFits, Quiet, Past, Alive

\* The ends of deliver outside invoke.
LEMMA EndKeeps ==
  ASSUME IInv, NEW a \in Attempts,
         \/ PrepareFails(a) \/ PersistFails(a) \/ CheckFails(a) \/ Handle(a)
         \/ \E doubt \in BOOLEAN : RefuseGrant(a, doubt)
  PROVE  IInv'
  <1>1. /\ UNCHANGED <<check, inspection, deleted, sending, others>>
        /\ \E doubt \in BOOLEAN : Fails(a, doubt)
        /\ worker[a].stage \in {"claimed", "ready", "retry", "created", "verify", "refused", "unknown"}
    BY DEF PrepareFails, PersistFails, CheckFails, Handle, RefuseGrant
  <1>2. UNCHANGED <<authority, claims, evidence, post, reply, inflight, created, prompt>>
    BY <1>1 DEF sending
  <1>3. Sent!SendInv'
    BY <1>2, Sent!SendingUntouched DEF IInv
  <1>4. \A k \in Rounds : Past(<<a, k>>)'
    BY <1>1, <1>2, OnlySenders DEF Past
  <1> QED BY <1>1, <1>2, <1>3, <1>4, RowSays, FailsKeeps

\* A handler writes its verdict, by primary key: `failed' over its own row only, as long
\* as nothing was overwritten, and `uncertain' over any.
LEMMA RecordKeeps ==
  ASSUME IInv, NEW a \in Attempts, Record(a)
  PROVE  IInv'
  <1> DEFINE verdict == worker[a].stage
             new == [row EXCEPT !.status = verdict, !.leased = FALSE]
  <1>1. /\ verdict \in {"failed", "uncertain"} /\ Write(new) /\ Ends(a)
        /\ overwritten' = (overwritten \/ (verdict = "failed" /\ row.token # a))
        /\ UNCHANGED <<check, inspection, deleted, sending, gone, selected>>
    BY DEF Record
  <1>2. UNCHANGED <<authority, claims, evidence, post, reply, inflight, created, prompt>>
    BY <1>1 DEF sending
  <1>3. Sent!SendInv'
    BY <1>2, Sent!SendingUntouched DEF IInv
  <1>4. new \in Rows /\ new.remote = row.remote /\ new.status = verdict /\ new.token = row.token
    BY <1>1, RowSays DEF Rows, Statuses
  <1>5. row' = new /\ read'.kind = "none"
    BY <1>1 DEF Write, NoRead
  <1>6. /\ worker' \in [Attempts -> Workers] /\ WorkerFits(a)'
        /\ \A b \in Attempts \ {a} : worker'[b] = worker[b]
        /\ \A b \in Attempts : worker'[b].stage \in ToSend => worker[b].stage \in ToSend
    BY <1>1, RowSays, Over
  <1>7. prompt => \A k \in Rounds : ~Alive(<<a, k>>)
    BY <1>1, OnlySenders
  <1>8. overwritten' \in BOOLEAN /\ (Sound' => Sound /\ (verdict = "failed" => row.token = a))
    BY <1>1, <1>2 DEF Sound
  <1> HIDE DEF new, verdict
  <1>9. \A b \in Attempts : WorkerFits(b)'
    BY <1>2, <1>4, <1>5, <1>6, OtherWorker DEF IInv
  <1>10. EffectFits'
    <2>1. \A c \in Requests : (Present(c)' <=> Present(c)) /\ (Alive(c)' <=> Alive(c))
      BY <1>1, <1>2 DEF Present, Alive, Active
    <2>2. ASSUME Sound', NEW c \in Requests, Alive(c)'
          PROVE  verdict = "uncertain" /\ row'.remote = None
      <3>1. Sound /\ Alive(c) /\ c[1] = row.token /\ row.remote = None
        BY <1>8, <2>1, <2>2, EffectSays
      <3>2. CASE verdict = "failed"
        BY <1>7, <1>8, <2>2, <3>1, <3>2, Keys DEF Sound
      <3> QED BY <1>1, <1>4, <1>5, <3>1, <3>2
    <2>3. EffectFits
      BY DEF IInv
    <2>4. ASSUME Sound', NEW c \in Requests, Present(c)'
          PROVE  /\ Present(c)
                 /\ row'.status \notin {"waiting", "paused", "cancelled"}
                 /\ row'.status = "sending" => row.status = "sending" /\ row'.token = row.token
                 /\ read'.kind # "retired" /\ (read'.kind = "absent" => row'.status = "uncertain")
      BY <1>1, <1>4, <1>5, <2>1, <2>4
    <2>5. ASSUME Sound', NEW c \in Requests, Alive(c)'
          PROVE  /\ Alive(c) /\ claims'[c].leased
                 /\ row'.status \in {"sending", "uncertain"} /\ row'.token = row.token
                 /\ row'.remote = None /\ read'.kind # "active"
      BY <1>2, <1>4, <1>5, <1>8, <2>1, <2>2, <2>5, EffectSays
    <2> QED BY <1>6, <1>8, <2>3, <2>4, <2>5, EffectMoves
  <1> QED BY <1>1, <1>2, <1>3, <1>4, <1>6, <1>8, <1>9, <1>10, RowSays, WrittenRow DEF Verified

\* An executor takes a row that waits, for which there is nothing.
LEMMA ClaimKeeps ==
  ASSUME IInv, NEW a \in Attempts, Claim(a)
  PROVE  IInv'
  <1> DEFINE new == [row EXCEPT !.status = "sending", !.token = a, !.leased = TRUE]
  <1>1. /\ row.status = "pending" /\ Write(new) /\ To(a, "claimed")
        /\ UNCHANGED <<check, inspection, deleted, sending, others>> /\ worker[a].stage = "idle"
    BY DEF Claim
  <1>2. UNCHANGED <<authority, claims, evidence, post, reply, inflight, created, prompt>>
    BY <1>1 DEF sending
  <1>3. row.remote = None
    BY <1>1, RowSays DEF Verified
  <1>4. new \in Rows /\ new.status = "sending" /\ new.remote = None /\ new.token = a
    BY <1>3, RowSays, Keys DEF Rows, Statuses
  <1> HIDE DEF new
  <1>5. row' = new /\ read'.kind = "none"
    BY <1>1 DEF Write, NoRead
  <1>6. /\ worker' \in [Attempts -> Workers] /\ worker'[a].stage = "claimed"
        /\ worker'[a].round = worker[a].round
        /\ \A b \in Attempts \ {a} : worker'[b] = worker[b]
    BY <1>1, RowSays, StageMoves
  <1>7. WorkerFits(a)'
    BY <1>1, <1>2, <1>6 DEF IInv, WorkerFits, Quiet
  <1>8. \A b \in Attempts : WorkerFits(b)'
    BY <1>2, <1>3, <1>6, <1>7, OtherWorker DEF IInv
  <1>9. Sent!SendInv'
    BY <1>2, Sent!SendingUntouched DEF IInv
  <1>10. UNCHANGED <<gone, selected, overwritten>> /\ (Sound' <=> Sound)
    BY <1>1, <1>2 DEF others, Sound
  <1>11. EffectFits'
    <2>1. \A c \in Requests : (Present(c)' <=> Present(c)) /\ (Alive(c)' <=> Alive(c))
      BY <1>1, <1>2 DEF Present, Alive, Active
    <2>2. Sound => \A c \in Requests : ~Alive(c)
      BY <1>1, NothingThere
    <2>3. ASSUME Sound, NEW c \in Requests PROVE EffectOf(c)'
      <3>1. Present(c) => \A d \in Requests : Present(d) => d = c
        BY <2>3 DEF IInv, EffectFits, EffectOf
      <3> QED BY <1>4, <1>5, <2>1, <2>2, <2>3, <3>1 DEF EffectOf
    <2>4. ASSUME NEW b \in Attempts, worker'[b].stage \in ToSend PROVE Alone(b)'
      BY <1>4, <1>5, <1>6, <2>4 DEF Alone, ToSend
    <2> QED BY <1>10, <2>3, <2>4 DEF EffectFits
  <1> QED BY <1>1, <1>2, <1>3, <1>4, <1>6, <1>8, <1>9, <1>10, <1>11, RowSays, WrittenRow DEF Verified

\* What an executor has read lets it ask for its ticket.
LEMMA PrepareKeeps ==
  ASSUME IInv, NEW a \in Attempts, Prepare(a)
  PROVE  IInv'
  <1>1. /\ To(a, "ready") /\ row' = row /\ read' = read /\ worker[a].stage = "claimed"
        /\ UNCHANGED <<check, inspection, deleted, sending, others>> /\ Active = {}
    BY DEF Prepare, KeepRow, SerialUnused
  <1>2. UNCHANGED <<authority, claims, evidence, post, reply, inflight, created, prompt>>
    BY <1>1 DEF sending
  <1>3. /\ worker' \in [Attempts -> Workers] /\ worker'[a].stage = "ready"
        /\ worker'[a].round = worker[a].round
        /\ \A b \in Attempts \ {a} : worker'[b] = worker[b]
    BY <1>1, RowSays, StageMoves
  <1>4. WorkerFits(a)'
    BY <1>1, <1>2, <1>3 DEF IInv, WorkerFits, Quiet
  <1>5. \A b \in Attempts : WorkerFits(b)'
    BY <1>1, <1>2, <1>3, <1>4, OtherWorker DEF IInv
  <1>6. Sent!SendInv'
    BY <1>2, Sent!SendingUntouched DEF IInv
  <1>7. \A c \in Requests : /\ Present(c)' <=> Present(c)
                            /\ Alive(c)' <=> Alive(c)
                            /\ Sent!Open(c)' <=> Sent!Open(c)
    BY <1>1, <1>2 DEF Present, Alive, Active, Sent!Open
  <1>8. Sound => Alone(a)
    <2>1. ASSUME Sound, NEW c \in Requests, Present(c) PROVE c[1] = row.token
      BY <1>1, <2>1, EffectSays DEF Present
    <2> QED BY <2>1 DEF Alone
  <1>9. \A b \in Attempts \ {a} : worker'[b].stage \in ToSend => worker[b].stage \in ToSend
    BY <1>3
  <1>10. UNCHANGED <<gone, selected, overwritten>> /\ Sent!Frozen' = Sent!Frozen
    BY <1>1, <1>2 DEF others, Sent!Frozen
  <1> QED BY <1>1, <1>2, <1>3, <1>5, <1>6, <1>7, <1>8, <1>9, <1>10, RowSays, KeptRow

\* The identity reaches the row that is still its own, or is kept for people.
LEMMA PersistKeeps ==
  ASSUME IInv, NEW a \in Attempts, Persist(a)
  PROVE  IInv'
  <1>1. /\ worker[a].stage = "created" /\ UNCHANGED <<check, inspection, deleted, sending, others>>
        /\ worker[a].round \in Rounds /\ OnWire(a) \in created /\ OnWire(a) \in Requests
        /\ \A k \in Rounds : Past(<<a, k>>)
    BY Keys DEF Persist, IInv, WorkerFits, OnWire
  <1>2. UNCHANGED <<authority, claims, evidence, post, reply, inflight, created, prompt>>
    BY <1>1 DEF sending
  <1>3. Sent!SendInv'
    BY <1>2, Sent!SendingUntouched DEF IInv
  <1>4. \A c \in Requests : /\ Present(c)' <=> Present(c)
                            /\ Alive(c)' <=> Alive(c)
                            /\ Sent!Open(c)' <=> Sent!Open(c)
    BY <1>1, <1>2 DEF Present, Alive, Active, Sent!Open
  <1>0. UNCHANGED <<gone, selected, overwritten>> /\ (Sound' <=> Sound)
    BY <1>1, <1>2 DEF others, Sound
  <1>5. CASE row.token = a /\ row.status = "sending"
    <2> DEFINE new == [row EXCEPT !.status = "verifying", !.remote = OnWire(a), !.leased = FALSE]
    <2>1. Write(new) /\ To(a, "verify")
      BY <1>5 DEF Persist
    <2>2. row.remote = None
      BY <1>5, RowSays DEF Verified
    <2>3. new \in Rows /\ new.status = "verifying" /\ new.remote = OnWire(a)
      BY <1>1, RowSays DEF Rows, Statuses
    <2>4. OnWire(a) # None
      BY <1>1, NoneAssumption
    <2> HIDE DEF new
    <2>5. row' = new /\ read'.kind = "none"
      BY <2>1 DEF Write, NoRead
    <2>6. /\ worker' \in [Attempts -> Workers] /\ worker'[a].stage = "verify"
          /\ \A b \in Attempts \ {a} : worker'[b] = worker[b]
          /\ \A b \in Attempts : worker'[b].stage \in ToSend => worker[b].stage \in ToSend
      BY <2>1, RowSays, StageMoves DEF ToSend
    <2>7. WorkerFits(a)'
      BY <1>1, <1>2, <2>3, <2>4, <2>5, <2>6 DEF WorkerFits, Past
    <2>8. \A b \in Attempts : WorkerFits(b)'
      BY <1>2, <2>2, <2>6, <2>7, OtherWorker DEF IInv
    <2>9. EffectFits'
      <3>1. Sound => \A c \in Requests : ~Alive(c)
        <4>1. prompt => \A k \in Rounds : ~Alive(<<a, k>>)
          BY <1>1, OnlySenders
        <4> QED BY <1>5, <4>1, Keys, NothingThere DEF Sound
      <3>2. EffectFits
        BY DEF IInv
      <3> QED BY <1>0, <1>4, <2>3, <2>5, <2>6, <3>1, <3>2, EffectMoves
    <2> QED BY <1>0, <1>1, <1>2, <1>3, <2>1, <2>2, <2>3, <2>4, <2>6, <2>8, <2>9, RowSays, WrittenRow
            DEF Verified
  <1>6. CASE ~(row.token = a /\ row.status = "sending")
    <2>1. row' = [row EXCEPT !.late = row.late \cup {OnWire(a)}] /\ read' = read /\ Ends(a)
      BY <1>6 DEF Persist
    <2>2. /\ row' \in Rows /\ row'.status = row.status /\ row'.remote = row.remote
          /\ row'.token = row.token /\ row'.leased = row.leased
      BY <1>1, <2>1, RowSays DEF Rows
    <2>3. /\ worker' \in [Attempts -> Workers] /\ WorkerFits(a)'
          /\ \A b \in Attempts \ {a} : worker'[b] = worker[b]
          /\ \A b \in Attempts : worker'[b].stage \in ToSend => worker[b].stage \in ToSend
      BY <2>1, RowSays, Over
    <2>4. \A b \in Attempts : WorkerFits(b)'
      BY <1>2, <2>2, <2>3, OtherWorker DEF IInv
    <2>5. Sent!Frozen' = Sent!Frozen
      BY <1>2 DEF Sent!Frozen
    <2> QED BY <1>0, <1>1, <1>2, <1>3, <1>4, <2>1, <2>2, <2>3, <2>4, <2>5, RowSays, KeptRow
  <1> QED BY <1>5, <1>6

\* What refresh has read no longer fits; an executor that finds that ends.
LEMMA RefusedKeeps ==
  ASSUME IInv, NEW k \in Callers, CheckRefused(k)
  PROVE  IInv'
  <1>1. /\ check[k] # None /\ check' = [check EXCEPT ![k] = None] /\ row.remote # None
        /\ UNCHANGED <<inspection, deleted, sending, others>>
    BY RowSays DEF CheckRefused, Refreshing
  <1>2. UNCHANGED <<authority, claims, evidence, post, reply, inflight, created, prompt>>
    BY <1>1 DEF sending
  <1>3. Sent!SendInv'
    BY <1>2, Sent!SendingUntouched DEF IInv
  <1>4. /\ check' \in [Callers -> Checks \cup {None}]
        /\ \A j \in Callers : check'[j] # None => check[j] # None
    BY <1>1, RowSays
  <1>5. \A c \in Requests : /\ Present(c)' <=> Present(c)
                            /\ Alive(c)' <=> Alive(c)
                            /\ Sent!Open(c)' <=> Sent!Open(c)
    BY <1>1, <1>2 DEF Present, Alive, Active, Sent!Open
  <1>6. UNCHANGED <<gone, selected, overwritten>> /\ Sent!Frozen' = Sent!Frozen
    BY <1>1, <1>2 DEF others, Sent!Frozen
  <1>7. CASE k = 0
    <2>1. UNCHANGED <<row, read, worker>>
      BY <1>7 DEF CheckRefused, KeepRow
    <2>2. \A a \in Attempts : WorkerFits(a)'
      BY <1>2, <2>1, OtherWorker DEF IInv
    <2> QED BY <1>1, <1>2, <1>3, <1>4, <1>5, <1>6, <2>1, <2>2, RowSays, KeptRow
  <1>8. CASE k \in Attempts
    <2>1. Fails(k, TRUE) /\ worker[k].stage = "verify"
      BY <1>8, Keys DEF CheckRefused, Refreshing
    <2>2. \A j \in Rounds : Past(<<k, j>>)'
      BY <1>2, <1>8, <2>1, OnlySenders DEF Past
    <2> QED BY <1>1, <1>2, <1>3, <1>4, <1>8, <2>1, <2>2, FailsKeeps
  <1> QED BY <1>7, <1>8 DEF Callers

\* refresh commits what it read: the document is gone, or it is verified.
LEMMA CommitKeeps ==
  ASSUME IInv, NEW k \in Callers, CheckCommits(k)
  PROVE  IInv'
  <1>1. /\ check[k] # None /\ check' = [check EXCEPT ![k] = None]
        /\ row.remote # None /\ row.remote \in created /\ row.remote \in Requests
        /\ UNCHANGED <<inspection, deleted, gone, selected, overwritten>> /\ prompt' = prompt
        /\ (Sound' <=> Sound)
    BY RowSays DEF CheckCommits, Refreshing, CheckEnds, sending, others, Sound
  <1>2. /\ check' \in [Callers -> Checks \cup {None}]
        /\ \A j \in Callers : check'[j] # None => check[j] # None
    BY <1>1, RowSays
  <1>3. /\ worker' \in [Attempts -> Workers]
        /\ \A a \in Attempts : worker'[a] = worker[a] \/ WorkerFits(a)'
        /\ \A a \in Attempts : worker'[a].stage \in ToSend => worker[a].stage \in ToSend
    <2>1. CASE k = 0
      BY <2>1, RowSays DEF CheckCommits, CheckEnds
    <2>2. CASE k \in Attempts
      <3>1. Ends(k)
        BY <2>2, Keys DEF CheckCommits, CheckEnds
      <3> QED BY <2>2, <3>1, RowSays, Over
    <2> QED BY <2>1, <2>2 DEF Callers
  <1>4. Sound => \A c \in Requests : ~Alive(c)
    BY <1>1, NothingThere
  <1>5. CASE row.status = "cancelled"
    <2>1. row' = row /\ read' = read /\ UNCHANGED sending
      BY <1>5 DEF CheckCommits, KeepRow
    <2>2. UNCHANGED <<authority, claims, evidence, post, reply, inflight, created, prompt>>
      BY <2>1 DEF sending
    <2>3. Sent!SendInv'
      BY <2>2, Sent!SendingUntouched DEF IInv
    <2>4. \A a \in Attempts : WorkerFits(a)'
      BY <1>3, <2>1, <2>2, OtherWorker DEF IInv
    <2>5. \A c \in Requests : /\ Present(c)' <=> Present(c)
                              /\ Alive(c)' <=> Alive(c)
                              /\ Sent!Open(c)' <=> Sent!Open(c)
      BY <1>1, <2>2 DEF Present, Alive, Active, Sent!Open
    <2> QED BY <1>1, <1>2, <1>3, <1>4, <2>1, <2>2, <2>3, <2>4, <2>5, RowSays, KeptRow
            DEF Sent!Frozen
  <1>6. CASE row.status # "cancelled" /\ ~check[k].active
    <2> DEFINE new == [row EXCEPT !.status = "uncertain"]
    <2>1. Write(new) /\ UNCHANGED sending
      BY <1>6 DEF CheckCommits
    <2>2. new \in Rows /\ new.status = "uncertain" /\ new.remote = row.remote
      BY RowSays DEF Rows, Statuses
    <2> HIDE DEF new
    <2>3. row' = new /\ read'.kind = "none"
      BY <2>1 DEF Write, NoRead
    <2>4. UNCHANGED <<authority, claims, evidence, post, reply, inflight, created, prompt>>
      BY <2>1 DEF sending
    <2>5. Sent!SendInv'
      BY <2>4, Sent!SendingUntouched DEF IInv
    <2>6. \A a \in Attempts : WorkerFits(a)'
      BY <1>3, <2>2, <2>3, <2>4, OtherWorker DEF IInv
    <2>7. EffectFits'
      <3>1. \A c \in Requests : (Present(c)' <=> Present(c)) /\ (Alive(c)' <=> Alive(c))
        BY <1>1, <2>4 DEF Present, Alive, Active
      <3>2. EffectFits
        BY DEF IInv
      <3> QED BY <1>1, <1>3, <1>4, <2>2, <2>3, <3>1, <3>2, EffectMoves
    <2> QED BY <1>1, <1>2, <1>3, <2>1, <2>2, <2>4, <2>5, <2>6, <2>7, RowSays, WrittenRow DEF Verified
  <1>7. CASE row.status # "cancelled" /\ check[k].active
    <2> DEFINE new == [row EXCEPT !.status = Applied(check[k].seen)]
    <2>1. /\ Write(new) /\ Sending!SettleOpen(OpenClaims, row.remote)
          /\ check[k].seen = inspection[row.remote]
      BY <1>7 DEF CheckCommits
    <2>2. Applied(check[k].seen) \in Verified
          /\ (Applied(check[k].seen) = "shipped" <=> Complete(check[k].seen))
      BY DEF Applied, Verified
    <2>3. /\ new \in Rows /\ new.status = Applied(check[k].seen) /\ new.remote = row.remote
      BY <2>2, RowSays DEF Rows, Statuses
    <2> HIDE DEF new
    <2>4. /\ Sent!SendInv' /\ UNCHANGED <<authority, post, inflight, created>>
          /\ \A c \in Requests : ~Sent!Open(c)'
      BY <1>1, <2>1, SettleEffect DEF IInv
    <2>5. row' = new /\ read' = NoRead
      BY <2>1 DEF Write
    <2>6. Types' /\ BoundFits'
      BY <1>1, <1>2, <1>3, <2>2, <2>3, <2>4, <2>5, RowSays DEF Types, BoundFits
    <2>7. \A a \in Attempts : WorkerFits(a)'
      BY <1>1, <1>3, <2>3, <2>4, <2>5, OtherWorker DEF IInv
    <2>8. new.status = "shipped" <=> Complete(inspection'[new.remote])
      BY <1>1, <2>1, <2>2, <2>3
    <2> QED BY <1>1, <1>3, <1>4, <2>1, <2>2, <2>3, <2>4, <2>6, <2>7, <2>8, RowCloses
  <1> QED BY <1>5, <1>6, <1>7

-----------------------------------------------------------------------------
(* An executor inside invoke *)

\* The request it has there, and its other one.
LEMMA SenderSays ==
  ASSUME IInv, NEW a \in Attempts, Sends(a)
  PROVE  /\ worker[a].round \in Rounds /\ OnWire(a) \in Requests /\ OnWire(a)[1] = a
         /\ OnWire(a) = <<a, worker[a].round>>
         /\ \A k \in Rounds : <<a, k>> # OnWire(a) => Quiet(<<a, k>>)
         /\ Sent!SendInv /\ Sent!RequestFits(OnWire(a)) /\ Sent!PromptFits(OnWire(a))
         /\ post \in [Requests -> Sent!Stages]
  <1>1. worker[a].round \in Rounds /\ (\A k \in Rounds \ {worker[a].round} : Quiet(<<a, k>>))
    BY DEF IInv, WorkerFits, Sends
  <1>2. OnWire(a) \in Requests /\ OnWire(a)[1] = a /\ OnWire(a) = <<a, worker[a].round>>
    BY <1>1, Keys DEF OnWire
  <1> QED BY <1>1, <1>2 DEF IInv, Sent!SendInv, Sent!SendingTypeOK

\* A granted send is the only request of which there is or may be a document.
LEMMA GrantKeeps ==
  ASSUME IInv, NEW a \in Attempts, Grant(a)
  PROVE  IInv'
  <1> DEFINE k == worker[a].round + 1
             c == <<a, k>>
  <1>1. /\ worker[a].stage \in {"ready", "retry"} /\ row.token = a /\ row.status = "sending"
        /\ row.leased /\ Sending!Grant(c, 1) /\ Write(row)
        /\ worker' = [worker EXCEPT ![a].stage = "sending", ![a].round = @ + 1]
        /\ UNCHANGED <<check, inspection, deleted, prompt, others>>
    BY DEF Grant
  <1>2. worker[a].round \in {0, 1} /\ \A j \in Rounds : Quiet(<<a, j>>)
    BY <1>1 DEF IInv, WorkerFits
  <1>3. k \in Rounds /\ c \in Requests /\ c[1] = a
    BY <1>2, Keys
  <1>4. row' = row /\ read' = NoRead /\ read'.kind = "none" /\ row.remote = None
    BY <1>1, RowSays DEF Write, NoRead, Verified
  <1>5. /\ worker' \in [Attempts -> Workers] /\ worker'[a].stage = "sending" /\ worker'[a].round = k
        /\ \A b \in Attempts \ {a} : worker'[b] = worker[b]
    <2>1. worker[a] \in Workers /\ worker \in [Attempts -> Workers]
      BY RowSays
    <2>2. worker' = [worker EXCEPT ![a] = [worker[a] EXCEPT !.stage = "sending", !.round = k]]
      BY <1>1
    <2>3. k \in 0 .. 2
      BY <1>2
    <2>4. [worker[a] EXCEPT !.stage = "sending", !.round = k] \in Workers
      BY <2>1, <2>3 DEF Workers
    <2> QED BY <2>1, <2>2, <2>4 DEF Workers
  <1> HIDE DEF k, c
  <1>6. Sent!Grant(c, 1)
    BY <1>1, <1>3, SameGrant
  <1>7. /\ UNCHANGED <<inflight, created>> /\ post' = [post EXCEPT ![c] = "ticket"]
        /\ \A d \in Requests \ {c} : claims'[d] = claims[d] /\ post'[d] = post[d]
        /\ post'[c] = "ticket" /\ claims'[c].leased
    <2>1. /\ UNCHANGED <<inflight, created>> /\ post' = [post EXCEPT ![c] = "ticket"]
          /\ claims' = [claims EXCEPT ![c] =
               [state |-> "sending", invoice |-> Invoice, route |-> "legacy", epoch |-> 1,
                holdsKey |-> TRUE, externalId |-> None, leased |-> TRUE]]
      BY <1>3, <1>6, Sent!GrantEffect DEF IInv
    <2>2. claims \in [Requests -> Sent!Gates!ClaimRows] /\ post \in [Requests -> Sent!Stages]
      BY DEF IInv, Sent!SendInv, Sent!SendingTypeOK
    <2> QED BY <1>3, <2>1, <2>2
  <1>8. Sent!SendInv'
    BY <1>1, <1>3, <1>6, Sent!GrantKeeps DEF IInv
  <1>9. \A b \in Attempts : WorkerFits(b)'
    <2>1. ASSUME NEW b \in Attempts \ {a} PROVE WorkerFits(b)'
      <3>1. ASSUME NEW j \in Rounds PROVE <<b, j>> \in Requests \ {c}
        <4>1. <<b, j>> \in Requests /\ <<b, j>>[1] = b
          BY Keys
        <4> QED BY <1>3, <4>1
      <3> QED BY <1>1, <1>4, <1>5, <1>7, <3>1, OtherWorker DEF IInv
    <2>2. WorkerFits(a)'
      <3>1. OnWire(a)' = c
        BY <1>5 DEF OnWire, c
      <3>2. \A j \in Rounds \ {k} : Quiet(<<a, j>>)'
        <4>1. \A j \in Rounds \ {k} : <<a, j>> \in Requests \ {c}
          BY <1>3, Keys DEF c
        <4> QED BY <1>2, <1>7, <4>1 DEF Quiet
      <3> QED BY <1>3, <1>5, <1>7, <3>1, <3>2 DEF WorkerFits
    <2> QED BY <2>1, <2>2
  <1>10. UNCHANGED <<gone, selected, overwritten>> /\ (Sound' <=> Sound)
    BY <1>1 DEF others, Sound
  <1>11. EffectFits'
    <2>1. ASSUME Sound, NEW d \in Requests PROVE ~Present(d)
      <3>1. Alone(a)
        BY <1>1, <2>1 DEF IInv, EffectFits, ToSend
      <3>2. Present(d) => d = <<a, d[2]>> /\ d[2] \in Rounds
        BY <1>1, <3>1, Keys DEF Alone
      <3> QED BY <1>2, <3>2 DEF Quiet, Present, Active, Alive
    <2>2. \A d \in Requests \ {c} : (Present(d)' <=> Present(d)) /\ (Alive(d)' <=> Alive(d))
      BY <1>1, <1>7 DEF Present, Alive, Active
    <2>3. \A d \in Requests : Alive(d) => Present(d)
      BY DEF Present
    <2>4. Sound => \A d \in Requests : (Present(d)' \/ Alive(d)' => d = c)
      BY <2>1, <2>2, <2>3
    <2>5. Sound => \A d \in Requests : EffectOf(d)'
      BY <1>1, <1>3, <1>4, <1>7, <2>4 DEF EffectOf
    <2>6. Sound => \A b \in Attempts : Alone(b)'
      BY <1>1, <1>3, <1>4, <2>4 DEF Alone
    <2> QED BY <1>10, <2>5, <2>6 DEF EffectFits
  <1>12. row \in Rows
    BY RowSays
  <1> QED BY <1>1, <1>4, <1>5, <1>7, <1>8, <1>9, <1>10, <1>11, <1>12, RowSays, WrittenRow DEF Verified

\* invoke ends without an answer that anybody keeps.
LEMMA LeaveKeeps ==
  ASSUME IInv, NEW a \in Attempts,
         LoseTicket(a) \/ RefuseTicket(a) \/ \E doubt \in BOOLEAN : Forget(a, doubt)
  PROVE  IInv'
  <1> DEFINE c == OnWire(a)
  <1>1. /\ Sends(a) /\ UNCHANGED <<check, inspection, deleted, prompt, others>>
        /\ \E doubt \in BOOLEAN : Fails(a, doubt)
        /\ \/ post[c] = "ticket" /\ Sending!Die(c)
           \/ Sending!RefuseTicket(c)
           \/ Sending!Forget(c)
    BY DEF LoseTicket, RefuseTicket, Forget
  <1>2. c \in Requests /\ c[1] = a /\ c = <<a, worker[a].round>>
    BY <1>1, SenderSays
  <1>3. /\ UNCHANGED <<authority, claims, inflight, created>> /\ post' = [post EXCEPT ![c] = "over"]
        /\ post[c] \in {"ticket", "answered"}
    BY <1>1 DEF Sending!Die, Sending!RefuseTicket, Sending!Forget, Sending!Leave
  <1>4. prompt => c \notin inflight
    BY <1>1, <1>3, SenderSays DEF Sent!RequestFits, Sent!PromptFits
  <1> HIDE DEF c
  <1>5. Sent!SendInv'
    <2>1. Sent!RefuseTicket(c) \/ Sent!Forget(c) \/ Sent!Die(c)
      BY <1>1, <1>2, SameSender
    <2> QED BY <1>1, <1>2, <2>1, Sent!LeaveKeeps DEF IInv
  <1>6. post'[c] = "over" /\ \A d \in Requests \ {c} : post'[d] = post[d]
    BY <1>1, <1>2, <1>3, SenderSays
  <1>7. \A k \in Rounds : Past(<<a, k>>)'
    <2>1. ASSUME NEW k \in Rounds PROVE Past(<<a, k>>)'
      <3>1. <<a, k>> \in Requests /\ (<<a, k>> # c => Quiet(<<a, k>>))
        BY <1>1, SenderSays, Keys DEF c
      <3>2. CASE <<a, k>> = c
        BY <1>1, <1>3, <1>4, <1>6, <3>2 DEF Past
      <3>3. CASE <<a, k>> # c
        BY <1>1, <1>3, <1>6, <3>1, <3>3 DEF Past, Quiet
      <3> QED BY <3>2, <3>3
    <2> QED BY <2>1
  <1> QED BY <1>1, <1>2, <1>3, <1>5, <1>6, <1>7, RowSays, FailsKeeps

\* A process dies, inside invoke or elsewhere.
LEMMA DieKeeps ==
  ASSUME IInv, NEW a \in Attempts, Die(a)
  PROVE  IInv'
  <1>1. /\ Ends(a) /\ check' = [check EXCEPT ![a] = None] /\ row' = row /\ read' = read
        /\ UNCHANGED <<inspection, deleted, prompt, gone, selected, overwritten>>
    BY DEF Die, KeepRow, others
  <1>2. /\ UNCHANGED <<authority, claims, inflight, created>>
        /\ \A c \in Requests : post'[c] \in {post[c], "over"} /\ (c[1] # a => post'[c] = post[c])
        /\ Sent!SendInv'
    <2>1. CASE Sends(a)
      <3>1. Sending!Die(OnWire(a)) /\ Sent!Die(OnWire(a))
        BY <2>1, SenderSays, SameSender DEF Die
      <3>2. Sent!SendInv'
        BY <1>1, <2>1, <3>1, SenderSays, Sent!LeaveKeeps DEF IInv
      <3> QED BY <2>1, <3>1, <3>2, SenderSays DEF Sending!Die, Sending!Leave
    <2>2. CASE ~Sends(a)
      <3>1. UNCHANGED <<authority, claims, evidence, post, reply, inflight, created, prompt>>
        BY <2>2 DEF Die, sending
      <3> QED BY <3>1, Sent!SendingUntouched DEF IInv
    <2> QED BY <2>1, <2>2
  <1>3. /\ worker' \in [Attempts -> Workers] /\ WorkerFits(a)'
        /\ \A b \in Attempts \ {a} : worker'[b] = worker[b]
        /\ \A b \in Attempts : worker'[b].stage \in ToSend => worker[b].stage \in ToSend
    BY <1>1, RowSays, Over
  <1>4. \A b \in Attempts : WorkerFits(b)'
    <2>1. ASSUME NEW b \in Attempts \ {a} PROVE WorkerFits(b)'
      <3>1. \A k \in Rounds : <<b, k>> \in Requests /\ post'[<<b, k>>] = post[<<b, k>>]
        BY <1>2, Keys
      <3> QED BY <1>1, <1>2, <1>3, <3>1, OtherWorker DEF IInv
    <2> QED BY <1>3, <2>1
  <1>5. /\ check' \in [Callers -> Checks \cup {None}]
        /\ \A j \in Callers : check'[j] # None => check[j] # None
    BY <1>1, RowSays
  <1>6. \A c \in Requests : /\ Present(c)' => Present(c)
                            /\ Alive(c)' => Alive(c)
                            /\ Sent!Open(c)' <=> Sent!Open(c)
    BY <1>1, <1>2 DEF Present, Alive, Active, Sent!Open
  <1>7. Sent!Frozen' = Sent!Frozen
    BY <1>2 DEF Sent!Frozen
  <1> QED BY <1>1, <1>2, <1>3, <1>4, <1>5, <1>6, <1>7, RowSays, KeptRow

\* A request goes on the wire, and is answered.
LEMMA WireKeeps ==
  ASSUME IInv, NEW a \in Attempts,
         Consume(a) \/ \E r \in {"identity", "unauthorized", "rejected", "unknown"} : Answer(a, r)
  PROVE  IInv'
  <1> DEFINE c == OnWire(a)
  <1>1. /\ Sends(a) /\ UNCHANGED <<worker, check, inspection, deleted, prompt, gone, selected, overwritten>>
        /\ row' = row /\ read' = read
        /\ Sending!Consume(c) \/ \E r : Sending!Answer(c, r)
    BY DEF Consume, Answer, KeepRow, others
  <1>2. c \in Requests /\ c[1] = a /\ c = <<a, worker[a].round>>
    BY <1>1, SenderSays
  <1>3. /\ UNCHANGED <<authority, claims, created>>
        /\ \A d \in Requests \ {c} : post'[d] = post[d] /\ (d \in inflight' <=> d \in inflight)
        /\ post'[c] \in {"wire", "answered"}
        /\ c \in inflight' => c \in inflight \/ (post[c] = "ticket" /\ claims[c].state = "sending")
    BY <1>1, <1>2, SenderSays DEF Sending!Consume, Sending!Answer
  <1>4. Sent!SendInv'
    <2>1. Sent!Consume(c) \/ \E r : Sent!Answer(c, r)
      BY <1>1, <1>2, SameSender
    <2> QED BY <1>1, <1>2, <2>1, Sent!ConsumeKeeps, Sent!AnswerKeeps DEF IInv
  <1> HIDE DEF c
  <1>5. \A b \in Attempts : WorkerFits(b)'
    <2>1. ASSUME NEW b \in Attempts \ {a} PROVE WorkerFits(b)'
      <3>1. ASSUME NEW k \in Rounds PROVE <<b, k>> \in Requests \ {c}
        <4>1. <<b, k>> \in Requests /\ <<b, k>>[1] = b
          BY Keys
        <4> QED BY <1>2, <4>1
      <3> QED BY <1>1, <1>3, <3>1, OtherWorker DEF IInv
    <2>2. WorkerFits(a)'
      <3>1. OnWire(a)' = c /\ worker'[a].stage = "sending" /\ worker'[a].round \in Rounds
        BY <1>1, SenderSays DEF OnWire, c, Sends
      <3>2. \A k \in Rounds \ {worker[a].round} : Quiet(<<a, k>>)'
        <4>1. \A k \in Rounds \ {worker[a].round} : <<a, k>> \in Requests \ {c} /\ Quiet(<<a, k>>)
          BY <1>1, <1>2, Keys, SenderSays DEF c
        <4> QED BY <1>3, <4>1 DEF Quiet
      <3> QED BY <1>1, <1>3, <3>1, <3>2 DEF WorkerFits
    <2> QED BY <2>1, <2>2
  <1>6. \A d \in Requests : Alive(d)' => Alive(d)
    BY <1>3 DEF Alive
  <1>7. \A d \in Requests : Present(d)' => Present(d)
    BY <1>1, <1>3, <1>6 DEF Present, Active
  <1>8. \A b \in Attempts : worker'[b].stage \in ToSend => worker[b].stage \in ToSend
    BY <1>1
  <1>9. /\ Sent!Frozen' <=> Sent!Frozen
        /\ \A d \in Requests : Sent!Open(d)' <=> Sent!Open(d)
    BY <1>3 DEF Sent!Frozen, Sent!Open
  <1> QED BY <1>1, <1>3, <1>4, <1>5, <1>6, <1>7, <1>8, <1>9, RowSays, KeptRow

\* The answer is kept: after a 401 that OKKI did not act on it goes on with its second
\* request, with an identity to its row, and otherwise to its end.
LEMMA RememberKeeps ==
  ASSUME IInv, NEW a \in Attempts, Remember(a)
  PROVE  IInv'
  <1>0. PICK c \in Requests : c = OnWire(a)
    BY SenderSays DEF Remember
  <1> DEFINE r == reply[c]
             id == IF r = "identity" THEN c ELSE None
  <1>1. /\ Sends(a) /\ UNCHANGED <<check, inspection, deleted, prompt, gone, selected, overwritten>>
        /\ row' = row /\ read' = read /\ Sending!Remember(c, id)
    BY <1>0 DEF Remember, KeepRow, others
  <1>2. PICK stage \in {"created", "retry", "unknown", "refused"} :
           /\ To(a, stage)
           /\ stage = "created" => r = "identity"
           /\ stage = "retry" => r = "unauthorized" /\ worker[a].round = 1
    BY <1>0 DEF Remember
  <1>3. /\ c[1] = a /\ c = <<a, worker[a].round>> /\ worker[a].round \in Rounds
        /\ \A k \in Rounds : <<a, k>> # c => Quiet(<<a, k>>)
        /\ Sent!RequestFits(c) /\ Sent!PromptFits(c) /\ post[c] = "answered"
    BY <1>0, <1>1, SenderSays DEF Sending!Remember
  <1>4. /\ r = "identity" => c \in created
        /\ r = "unauthorized" => c \notin inflight \cup created
        /\ prompt => c \notin inflight
    BY <1>3 DEF Sent!RequestFits, Sent!PromptFits
  <1>5. id \in Requests \cup {None}
    BY <1>3
  <1> HIDE DEF id
  <1>6. Sent!Remember(c, id)
    BY <1>1, <1>3, SameRemember
  <1>7. Sent!SendInv'
    BY <1>1, <1>3, <1>5, <1>6, Sent!RememberKeeps DEF IInv
  <1>8. /\ UNCHANGED <<inflight, created>> /\ post'[c] = "over"
        /\ \A d \in Requests \ {c} :
              claims'[d] = claims[d] /\ post'[d] = post[d] /\ reply'[d] = reply[d]
        /\ Sent!Frozen => Sent!Frozen'
        /\ ~Sent!Frozen' => (Sent!Open(c)' => Sent!Open(c))
    <2>1. Sent!SendInv
      BY DEF IInv
    <2> QED BY <1>3, <1>6, <2>1, Sent!RememberEffect
  <1>9. /\ worker' \in [Attempts -> Workers] /\ worker'[a].stage = stage
        /\ worker'[a].round = worker[a].round
        /\ \A b \in Attempts \ {a} : worker'[b] = worker[b]
    BY <1>2, RowSays, StageMoves
  <1>10. \A b \in Attempts : WorkerFits(b)'
    <2>1. ASSUME NEW b \in Attempts \ {a} PROVE WorkerFits(b)'
      <3>1. ASSUME NEW k \in Rounds PROVE <<b, k>> \in Requests \ {c}
        <4>1. <<b, k>> \in Requests /\ <<b, k>>[1] = b
          BY Keys
        <4> QED BY <1>3, <4>1
      <3> QED BY <1>1, <1>8, <1>9, <3>1, OtherWorker DEF IInv
    <2>2. WorkerFits(a)'
      <3>1. OnWire(a)' = c
        BY <1>3, <1>9 DEF OnWire
      <3>2. ASSUME NEW k \in Rounds PROVE /\ Past(<<a, k>>)'
                                          /\ stage = "retry" => Quiet(<<a, k>>)'
        <4>1. CASE <<a, k>> = c
          BY <1>1, <1>2, <1>4, <1>8, <4>1 DEF Past, Quiet
        <4>2. CASE <<a, k>> # c
          <5>1. <<a, k>> \in Requests \ {c} /\ Quiet(<<a, k>>)
            BY <1>3, <4>2, Keys
          <5> QED BY <1>8, <5>1 DEF Past, Quiet
        <4> QED BY <4>1, <4>2
      <3> QED BY <1>2, <1>3, <1>4, <1>8, <1>9, <3>1, <3>2 DEF WorkerFits
    <2> QED BY <2>1, <2>2
  <1>11. ASSUME ~Sent!Frozen', NEW d \in Requests PROVE Sent!Open(d)' => Sent!Open(d)
    <2>1. d # c => (Sent!Open(d)' <=> Sent!Open(d))
      BY <1>8 DEF Sent!Open
    <2> QED BY <1>8, <1>11, <2>1
  <1>12. prompt => \A d \in Requests : Alive(d)' => Alive(d) /\ d # c
    BY <1>1, <1>4, <1>8 DEF Alive
  <1>13. prompt => \A d \in Requests : Present(d)' => Present(d)
    BY <1>1, <1>8, <1>12 DEF Present, Active
  <1>14. prompt => \A d \in Requests : Alive(d)' /\ claims[d].leased => claims'[d].leased
    BY <1>8, <1>12
  <1>15. \A b \in Attempts : worker'[b].stage \in ToSend => worker[b].stage \in ToSend
    BY <1>1, <1>9 DEF ToSend, Sends
  <1> QED BY <1>1, <1>7, <1>8, <1>9, <1>10, <1>11, <1>12, <1>13, <1>14, <1>15,
            RowSays, KeptRow DEF Sound

-----------------------------------------------------------------------------
(* OKKI and the clock *)

\* An executor whose requests OKKI or the clock moves on.
LEMMA OutsideWorker ==
  ASSUME NEW a \in Attempts, WorkerFits(a), UNCHANGED <<row, worker, post, prompt>>,
         created \subseteq created',
         \A k \in Rounds : /\ <<a, k>> \in inflight' => <<a, k>> \in inflight
                           /\ <<a, k>> \in created' => <<a, k>> \in created \cup inflight
  PROVE  WorkerFits(a)'
  <1>1. OnWire(a)' = OnWire(a)
    BY DEF OnWire
  <1>2. \A k \in Rounds : (Quiet(<<a, k>>) => Quiet(<<a, k>>)') /\ (Past(<<a, k>>) => Past(<<a, k>>)')
    BY DEF Quiet, Past
  <1> QED BY <1>1, <1>2 DEF WorkerFits

\* OKKI creates a document late or in time, and the lease of a claim ends.
LEMMA OutsideKeeps ==
  ASSUME IInv, NEW c \in Requests, Create(c) \/ ClaimLeaseExpires(c)
  PROVE  IInv'
  <1>1. UNCHANGED <<row, read, worker, check, inspection, deleted, prompt, gone, selected, overwritten>>
    BY DEF Create, ClaimLeaseExpires, KeepRow, others
  <1>2. CASE Create(c)
    <2>1. /\ Sent!Create(c) /\ c \in inflight /\ inflight' = inflight \ {c}
          /\ created' = created \cup {c} /\ UNCHANGED <<authority, claims, post>>
      BY <1>2, SameSender DEF Create, Sending!Create
    <2>2. Sent!SendInv'
      BY <1>1, <2>1, Sent!CreateKeeps DEF IInv
    <2>3. \A a \in Attempts : WorkerFits(a)'
      BY <1>1, <2>1, OutsideWorker DEF IInv
    <2>4. \A d \in Requests : Alive(d)' => Alive(d)
      BY <2>1 DEF Alive
    <2>5. \A d \in Requests : Present(d)' => Present(d)
      BY <1>1, <2>1, <2>4 DEF Present, Active, Alive
    <2>6. created \subseteq created'
      BY <2>1
    <2>7. /\ Sent!Frozen' <=> Sent!Frozen
          /\ \A d \in Requests : Sent!Open(d)' <=> Sent!Open(d)
      BY <2>1 DEF Sent!Frozen, Sent!Open
    <2> QED BY <1>1, <2>1, <2>2, <2>3, <2>4, <2>5, <2>6, <2>7, RowSays, KeptRow
  <1>3. CASE ClaimLeaseExpires(c)
    <2>1. Sent!ClaimLeaseExpires(c)
      BY <1>3, SameExpiry DEF ClaimLeaseExpires
    <2>2. Sent!SendInv'
      BY <1>1, <2>1, Sent!ExpiryKeeps DEF IInv
    <2>3. /\ claims' = [claims EXCEPT ![c].leased = FALSE]
          /\ prompt => post[c] \notin {"ticket", "wire"} /\ inflight' = inflight \ {c}
          /\ inflight' \subseteq inflight
          /\ UNCHANGED <<authority, evidence, post, reply, created>>
      BY <2>1, Sent!ExpiryEffect
    <2>4. /\ \A d \in Requests \ {c} : claims'[d] = claims[d]
          /\ \A d \in Requests : claims'[d].state = claims[d].state
      BY <2>3 DEF IInv, Sent!SendInv, Sent!SendingTypeOK, Sent!Gates!ClaimRows
    <2>5. \A a \in Attempts : WorkerFits(a)'
      BY <1>1, <2>3, OutsideWorker DEF IInv
    <2>6. prompt => \A d \in Requests : Alive(d)' => Alive(d) /\ d # c
      BY <1>1, <2>3, <2>4 DEF Alive
    <2>7. prompt => \A d \in Requests : Present(d)' => Present(d)
      BY <1>1, <2>3, <2>6 DEF Present, Active
    <2>8. prompt => \A d \in Requests : Alive(d)' /\ claims[d].leased => claims'[d].leased
      BY <2>4, <2>6
    <2>9. /\ Sent!Frozen' <=> Sent!Frozen
          /\ \A d \in Requests : Sent!Open(d)' <=> Sent!Open(d)
      BY <2>3, <2>4 DEF Sent!Frozen, Sent!Open
    <2> QED BY <1>1, <2>2, <2>3, <2>5, <2>6, <2>7, <2>8, <2>9, RowSays, KeptRow DEF Sound
  <1> QED BY <1>2, <1>3

-----------------------------------------------------------------------------
(* The theorems *)

\* Nothing is queued, sent or read at first.
LEMMA InitKeeps == Init => IInv
  <1> SUFFICES ASSUME Init PROVE IInv
    OBVIOUS
  <1>1. Sent!SendInv
    BY SameInit, PromptAssumption, Sent!SendingStarts DEF Init
  <1>2. 0 \in 0 .. MaxAttempts /\ 0 \in 0 .. 2
    BY BoundAssumption
  <1>3. [stage |-> "idle", round |-> 0] \in Workers
    BY <1>2 DEF Workers
  <1>4. row \in Rows
    BY <1>2 DEF Init, Rows, Statuses
  <1>5. Types
    BY <1>3, <1>4 DEF Init, Types, Reads, NoRead
  <1>6. \A a \in Attempts : WorkerFits(a)
    BY Keys DEF Init, WorkerFits, Quiet, Sending!SendingInit
  <1>7. BoundFits /\ VerifiedFits
    BY DEF Init, BoundFits, VerifiedFits, Verified, NoRead
  <1>8. EffectFits
    BY DEF Init, EffectFits, EffectOf, Alone, ToSend, Present, Alive, Active, Sending!SendingInit
  <1> QED BY <1>1, <1>5, <1>6, <1>7, <1>8 DEF IInv

\* Nothing happens, or recover_expired selects the row.
LEMMA StutterKeeps ==
  ASSUME IInv, UNCHANGED vars \/ SweepSelects
  PROVE  IInv'
  <1>1. /\ UNCHANGED <<row, worker, check, read, inspection, deleted, gone, overwritten>>
        /\ UNCHANGED <<authority, claims, evidence, post, reply, inflight, created, prompt>>
        /\ selected' \in BOOLEAN
    BY RowSays DEF vars, SweepSelects, KeepRow, sending, others
  <1>2. Sent!SendInv'
    BY <1>1, Sent!SendingUntouched DEF IInv
  <1>3. \A a \in Attempts : WorkerFits(a)'
    BY <1>1, OtherWorker DEF IInv
  <1>4. \A c \in Requests : /\ Present(c)' <=> Present(c)
                            /\ Alive(c)' <=> Alive(c)
                            /\ Sent!Open(c)' <=> Sent!Open(c)
    BY <1>1 DEF Present, Alive, Active, Sent!Open
  <1>5. Sent!Frozen' = Sent!Frozen
    BY <1>1 DEF Sent!Frozen
  <1> QED BY <1>1, <1>2, <1>3, <1>4, <1>5, RowSays, KeptRow

\* Every step of an executor, of refresh, of people, of OKKI and of the clock.
LEMMA NextKeeps ==
  ASSUME IInv, Next
  PROVE  IInv'
  <1>1. CASE QueueReady \/ Park \/ Pause \/ CancelUnqueued
    BY <1>1, BatchKeeps
  <1>2. CASE SweepSelects \/ SweepWrites \/ RowLeaseExpires
    BY <1>2, StutterKeeps, SweepKeeps, RowLeaseKeeps
  <1>3. ASSUME NEW a \in Attempts, Deliver(a) PROVE IInv'
    <2>1. CASE Claim(a)
      BY <2>1, ClaimKeeps
    <2>2. CASE Prepare(a)
      BY <2>2, PrepareKeeps
    <2>3. CASE \/ PrepareFails(a) \/ PersistFails(a) \/ CheckFails(a) \/ Handle(a)
               \/ \E doubt \in BOOLEAN : RefuseGrant(a, doubt)
      BY <2>3, EndKeeps
    <2>4. CASE Grant(a)
      BY <2>4, GrantKeeps
    <2>5. CASE LoseTicket(a) \/ RefuseTicket(a) \/ \E doubt \in BOOLEAN : Forget(a, doubt)
      BY <2>5, LeaveKeeps
    <2>6. CASE \/ Consume(a)
               \/ \E r \in {"identity", "unauthorized", "rejected", "unknown"} : Answer(a, r)
      BY <2>6, WireKeeps
    <2>7. CASE Remember(a)
      BY <2>7, RememberKeeps
    <2>8. CASE Persist(a)
      BY <2>8, PersistKeeps
    <2>9. CASE Record(a)
      BY <2>9, RecordKeeps
    <2>10. CASE Die(a)
      BY <2>10, DieKeeps
    <2> QED BY <1>3, <2>1, <2>2, <2>3, <2>4, <2>5, <2>6, <2>7, <2>8, <2>9, <2>10 DEF Deliver
  <1>4. ASSUME NEW k \in Callers, Refresh(k) PROVE IInv'
    <2>1. CASE \E same \in BOOLEAN : CheckRead(k, same)
      BY <2>1, ReadingKeeps
    <2>2. CASE CheckCommits(k)
      BY <2>2, CommitKeeps
    <2>3. CASE CheckRefused(k)
      BY <2>3, RefusedKeeps
    <2> QED BY <1>4, <2>1, <2>2, <2>3 DEF Refresh
  <1>5. CASE ReadAbsence \/ ReadDeletion \/ \E o \in Requests : ReadDocument(o)
    BY <1>5, ReadingKeeps
  <1>6. CASE Recover \/ Reconcile
    BY <1>6, DecisionKeeps
  <1>7. CASE Retry \/ CancelFailed \/ CancelDeleted
    BY <1>7, GivenBackKeeps
  <1>8. ASSUME NEW o \in Requests, Mirror(o) \/ SubmitOrRecall(o) \/ Delete(o) \/ Vanish(o) PROVE IInv'
    BY <1>8, InspectionKeeps, DeleteKeeps
  <1>9. ASSUME NEW c \in Requests, Create(c) \/ ClaimLeaseExpires(c) PROVE IInv'
    BY <1>9, OutsideKeeps
  <1> QED BY <1>1, <1>2, <1>3, <1>4, <1>5, <1>6, <1>7, <1>8, <1>9 DEF Next, People

\* The row of a batch, what its executors have still to do, the claims of their POSTs
\* and the documents in OKKI fit each other, in every behaviour of shipment_delivery.py
\* and the services of the people who repair it.
THEOREM ShipmentInvariant == Spec => []IInv
  <1>1. IInv /\ [Next]_vars => IInv'
    BY NextKeeps, StutterKeeps
  <1> QED BY InitKeeps, <1>1, PTL DEF Spec

\* Every variable keeps its type.
THEOREM TypeCorrect == Spec => []TypeOK
  <1>1. IInv => TypeOK
    BY SameTypes DEF IInv, Types, TypeOK, Sent!SendInv
  <1> QED BY <1>1, ShipmentInvariant, PTL

\* For any number of executions, each with its second POST after a 401, and for handlers
\* and sweeps that write over whatever the row has become: if POSTs are prompt, and no
\* handler's `failed' was written over the row of another executor, OKKI never holds two
\* outbounds of a batch, nor can a second one still arise, and of a cancelled batch none.
THEOREM OneOutboundOnly == Spec => []OneOutbound
  <1>1. IInv => OneOutbound
    <2> SUFFICES ASSUME IInv, Sound
                 PROVE  Cardinality(Active \cup inflight) <= IF row.status = "cancelled" THEN 0 ELSE 1
      BY DEF OneOutbound, Sound
    <2>1. \A c \in Active \cup inflight : c \in Requests /\ Present(c)
      BY DEF IInv, Sent!SendInv, Sent!SendingTypeOK, Active, Present, Alive
    <2>2. \A c, d \in Active \cup inflight : c = d
      BY <2>1 DEF IInv, EffectFits, EffectOf
    <2>3. row.status = "cancelled" => Active \cup inflight = {}
      BY <2>1, NothingThere
    <2>4. CASE Active \cup inflight = {}
      BY <2>4, FS_EmptySet
    <2>5. CASE Active \cup inflight # {}
      <3>1. PICK c : Active \cup inflight = {c}
        BY <2>2, <2>5
      <3>2. Cardinality({c}) = 1
        BY FS_Singleton
      <3> QED BY <2>3, <2>5, <3>1, <3>2
    <2> QED BY <2>4, <2>5
  <1> QED BY <1>1, ShipmentInvariant, PTL

\* A batch shown as created or shipped has its document, no claim left open, and is
\* shipped exactly while the inspection of that document is submitted, for any number
\* of executions, submissions and recalls, and for POSTs that are late as well.
THEOREM OutboundsAreTrue == Spec => []OutboundIsTrue
  <1>1. IInv => OutboundIsTrue
    <2> SUFFICES ASSUME IInv, row.status \in Verified PROVE OutboundIsTrue
      BY DEF OutboundIsTrue
    <2>1. row.remote \in created
      BY RowSays
    <2>2. OpenClaims = {} \/ authority[Invoice].state = "frozen"
      <3>1. OpenClaims = {c \in Requests : Sent!Open(c)}
        BY OpenMeans DEF IInv
      <3> QED BY <3>1 DEF IInv, VerifiedFits, Sent!Frozen
    <2> QED BY <2>1, <2>2 DEF IInv, VerifiedFits, OutboundIsTrue
  <1> QED BY <1>1, ShipmentInvariant, PTL
=============================================================================

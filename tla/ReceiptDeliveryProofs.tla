--------------------------- MODULE ReceiptDeliveryProofs ---------------------------
(***************************************************************************)
(* What holds of the delivery of receipts for any number of them, of       *)
(* claims and of limits: the row, the worker that holds it, the claim of   *)
(* its POST and what OKKI did fit each other, whatever people do between.  *)
(***************************************************************************)
EXTENDS ReceiptDelivery, FiniteSetTheorems, TLAPS

Sent == INSTANCE SendingProofs
    WITH Removals <- {}, Identities <- Requests, prompt <- Prompt

Of(c) == <<c[1], c[2]>>    \* the attempt that a request belongs to

-----------------------------------------------------------------------------
(* A worker and its requests *)

\* Nothing came of a request and nothing will.
Quiet(c) == /\ post[c] \in {"none", "over"} /\ c \notin created \cup inflight
            /\ Sent!Open(c) => Sent!Frozen

\* Its sender is past it.
Past(c) == post[c] \in {"none", "over"} /\ (Prompt => c \notin inflight)

AllQuiet(a)    == \A k \in 1 .. MaxRounds : Quiet(Key(a, k))
OthersQuiet(a) == \A k \in 1 .. MaxRounds \ {attempt[a].round} : Quiet(Key(a, k))
AllPast(a)     == \A k \in 1 .. MaxRounds : Past(Key(a, k))
AllOver(a)     == \A k \in 1 .. MaxRounds : post[Key(a, k)] \in {"none", "over"}
AllClosed(a)   == \A k \in 1 .. MaxRounds : Sent!Open(Key(a, k)) => Sent!Frozen

\* What a worker has still to do decides what may come of its requests.
StageFits(a) == LET w == attempt[a] IN
    /\ w.stage \in {"idle", "claimed", "prepared"} => w.round = 0
    /\ w.stage \in {"again", "sending", "returned", "persisted"} => w.round \in 1 .. MaxRounds
    /\ w.stage \in {"idle", "claimed", "prepared", "again"}
       \/ (w.stage = "raised" /\ w.error = "okki") => AllQuiet(a)
    /\ w.stage = "again" => w.round < MaxRounds
    /\ w.stage = "sending" =>
          /\ post[OnWire(a)] \in {"ticket", "wire", "answered"}
          /\ reply[OnWire(a)] = "unauthorized" => w.round < MaxRounds
          /\ OthersQuiet(a)
    /\ w.stage \in {"returned", "persisted"} =>
          OnWire(a) \in created /\ AllPast(a) /\ AllClosed(a)
    /\ w.stage = "raised" => AllPast(a)
    /\ w.stage = "done" => AllOver(a)

\* An identity that came back is of a document, and once handled its row is bound or waits.
ReturnFits(a) == LET w == attempt[a] IN
    /\ w.stage \in {"idle", "claimed", "prepared", "again", "sending", "returned"}
          => w.remote = None /\ ~w.handled
    /\ w.stage = "persisted" => w.remote = OnWire(a)
    /\ w.remote # None => w.remote \in created /\ w.remote[1] = a[1]
    /\ w.handled => w.remote # None /\ row[a[1]].sync \in {"synced", "uncertain"}

WorkerFits(a) == StageFits(a) /\ ReturnFits(a)

-----------------------------------------------------------------------------
(* A row and its requests *)

\* A bound row is out of the sending states, and the retries count what is left.
RowShape(w) ==
    /\ w.status = "voided" => w.sync \in {"pending", "failed"}
    /\ w.id # None => w.sync \in {"synced", "uncertain"}
    /\ w.id = None => w.tries <= PrepareLimit
    /\ w.sync \in {"pending", "syncing"} \/ w.kind = "prepare_retry" => w.tries < PrepareLimit
    /\ w.kind = "verify" => w.tries <= PrepareLimit \/ w.tries < VerifyLimit

IdentityFits(r) == row[r].id # None =>
    /\ row[r].id \in created
    /\ \A s \in Receipts \ {r} : row[s].id # row[r].id

\* An unresolved request of an active invoice is the one its row is being sent with.
UnresolvedFits(r) == \A c \in Requests : c[1] = r /\ Sent!Open(c) /\ ~Sent!Frozen =>
    /\ row[r].sync \in {"syncing", "uncertain"}
    /\ row[r].sync = "syncing" => row[r].phase = "sending" /\ row[r].token = c[2]

\* Two identities that came back, both seen, are waiting for a person.
ConflictFits(r) == (\E x, y \in Returned(r) : x # y) /\ Late(r) = {} =>
    row[r].sync = "uncertain" /\ row[r].kind = "blocked"

\* A request that can still take effect.
Alive(c) == c \in inflight \/ (post[c] = "ticket" /\ claims[c].state = "sending")

\* While a request can take effect its worker's row is leased to it and has no document;
\* and a document keeps its row away from sending.
EffectOf(c) == LET w == row[c[1]] IN
    /\ c \in inflight => claims[c].leased
    /\ Alive(c) =>
          /\ w.sync = "syncing" /\ w.phase = "sending" /\ w.token = c[2] /\ w.leased
          /\ \A d \in Requests : d[1] = c[1] => d \notin created /\ (Alive(d) => d = c)
    /\ c \in created =>
          /\ \/ w.sync \in {"synced", "uncertain"}
             \/ w.sync = "syncing" /\ w.phase = "sending" /\ w.token = c[2]
          /\ ~w.reviewed /\ claims[c].state # "not_sent"
          /\ \A d \in Requests : d[1] = c[1] /\ d \in created => d = c

\* So it is with a prompt OKKI.
EffectFits(r) == Prompt => \A c \in Requests : c[1] = r => EffectOf(c)

RowFits(r) ==
    /\ RowShape(row[r]) /\ IdentityFits(r)
    /\ row[r].reviewed => row[r].sync = "uncertain"
    /\ UnresolvedFits(r) /\ ConflictFits(r) /\ EffectFits(r)

\* The inductive strengthening of all the invariants.
IInv ==
    /\ row \in [Receipts -> Rows] /\ attempt \in [Attempts -> Workers]
    /\ Sent!SendInv
    /\ \A a \in Attempts : WorkerFits(a)
    /\ \A r \in Receipts : RowFits(r)

-----------------------------------------------------------------------------
(* The steps of sending are those that SendingProofs is about *)

\* What a sender does without its claim, what a crash does, and what OKKI does.
LEMMA SameSender ==
  ASSUME NEW c \in Requests
  PROVE  /\ Sending!Consume(c) => Sent!Consume(c)
         /\ \A r : Sending!Answer(c, r) => Sent!Answer(c, r)
         /\ Sending!RefuseTicket(c) => Sent!RefuseTicket(c)
         /\ Sending!Forget(c) => Sent!Forget(c)
         /\ Sending!Die(c) => Sent!Die(c)
         /\ Sending!Create(c) => Sent!Create(c)
  BY DEF Sending!Consume, Sent!Consume, Sending!Answer, Sent!Answer, Sending!RefuseTicket,
         Sent!RefuseTicket, Sending!Forget, Sent!Forget, Sending!Die, Sent!Die,
         Sending!Create, Sent!Create, Sending!Leave, Sent!Leave

\* Granting a send.
LEMMA SameGrant ==
  ASSUME NEW c \in Requests, Sending!Grant(c, 1)
  PROVE  Sent!Grant(c, 1)
  BY DEF Sending!Grant, Sent!Grant, Sending!Gates!Start, Sent!Gates!Start,
         Sending!Gates!RequireRoute, Sent!Gates!RequireRoute, Sending!Gates!PhaseAllows,
         Sent!Gates!PhaseAllows, Sending!Gates!WritersReady, Sent!Gates!WritersReady,
         Sending!Gates!OpenClaims, Sent!Gates!OpenClaims, Sending!Gates!Open, Sent!Gates!Open,
         Sending!Gates!ManuallyReleasable, Sent!Gates!ManuallyReleasable

\* Storing an observation.
LEMMA SameObserve ==
  ASSUME NEW c \in Requests, NEW outcome, NEW id
  PROVE  Sending!Gates!Observe(c, outcome, id) => Sent!Gates!Observe(c, outcome, id)
  BY DEF Sending!Gates!Observe, Sent!Gates!Observe, Sending!Gates!Cardinality,
         Sent!Gates!Cardinality, Sending!Cardinality, Sent!Cardinality,
         Sending!Gates!IsFiniteSet, Sent!Gates!IsFiniteSet, Sending!IsFiniteSet, Sent!IsFiniteSet

\* Finishing a request.
LEMMA SameFinish ==
  ASSUME NEW c \in Requests, NEW outcome, NEW id
  PROVE  Sending!Gates!FinishSend(c, outcome, id) => Sent!Gates!FinishSend(c, outcome, id)
  BY SameObserve DEF Sending!Gates!FinishSend, Sent!Gates!FinishSend,
         Sending!Gates!ResolveClaim, Sent!Gates!ResolveClaim,
         Sending!Gates!RepeatObservation, Sent!Gates!RepeatObservation,
         Sending!Gates!ReopenOnConflict, Sent!Gates!ReopenOnConflict,
         Sending!Gates!Contradicts, Sent!Gates!Contradicts, Sending!Gates!Resolved,
         Sent!Gates!Resolved, Sending!Gates!Open, Sent!Gates!Open,
         Sending!Gates!Terminal, Sent!Gates!Terminal,
         Sending!Gates!ManuallyReleasable, Sent!Gates!ManuallyReleasable

\* Storing the answer.
LEMMA SameRemember ==
  ASSUME NEW c \in Requests, NEW id, Sending!Remember(c, id)
  PROVE  Sent!Remember(c, id)
  BY SameFinish DEF Sending!Remember, Sent!Remember, Sending!Outcome, Sent!Outcome,
                    Sending!Leave, Sent!Leave

\* Closing the unresolved requests that a readback found the document of.
LEMMA SameSettle ==
  ASSUME NEW S, NEW id, Sending!SettleOpen(S, id)
  PROVE  Sent!SettleOpen(S, id)
  BY DEF Sending!SettleOpen, Sent!SettleOpen, Sending!Gates!Resolved, Sent!Gates!Resolved,
         Sending!Gates!Terminal, Sent!Gates!Terminal,
         Sending!Gates!ManuallyReleasable, Sent!Gates!ManuallyReleasable

\* Releasing a request as not sent.
LEMMA SameRelease ==
  ASSUME NEW c \in Requests, Sending!Gates!ConfirmNotSent(c)
  PROVE  Sent!Gates!ConfirmNotSent(c)
  BY SameObserve DEF Sending!Gates!ConfirmNotSent, Sent!Gates!ConfirmNotSent,
         Sending!Gates!Open, Sent!Gates!Open,
         Sending!Gates!PhaseAllows, Sent!Gates!PhaseAllows,
         Sending!Gates!WritersReady, Sent!Gates!WritersReady,
         Sending!Gates!ManuallyReleasable, Sent!Gates!ManuallyReleasable

\* The end of a claim's lease.
LEMMA SameExpiry ==
  ASSUME NEW c \in Requests, Sending!ClaimLeaseExpires(c)
  PROVE  Sent!ClaimLeaseExpires(c)
  BY DEF Sending!ClaimLeaseExpires, Sent!ClaimLeaseExpires, Sending!Gates!LeaseExpires,
         Sent!Gates!LeaseExpires, Sending!Gates!Open, Sent!Gates!Open,
         Sending!Gates!ManuallyReleasable, Sent!Gates!ManuallyReleasable

\* The types of the shared rows.
LEMMA SameTypes == Sending!SendingTypeOK <=> Sent!SendingTypeOK
  BY DEF Sending!SendingTypeOK, Sent!SendingTypeOK, Sending!Stages, Sent!Stages,
         Sending!Replies, Sent!Replies, Sending!Gates!Authorities, Sent!Gates!Authorities,
         Sending!Gates!Routes, Sent!Gates!Routes, Sending!Gates!ClaimRows, Sent!Gates!ClaimRows,
         Sending!Gates!ClaimStates, Sent!Gates!ClaimStates, Sending!Gates!Terminal,
         Sent!Gates!Terminal, Sending!Gates!ManuallyReleasable, Sent!Gates!ManuallyReleasable,
         Sending!Gates!Observations, Sent!Gates!Observations

\* The first state.
LEMMA SameInit == Sending!SendingInit => Sent!SendingInit
  BY DEF Sending!SendingInit, Sent!SendingInit, Sending!Gates!NoClaim, Sent!Gates!NoClaim

\* The unresolved requests of a receipt; with any of an active invoice the gate is open.
LEMMA OpenMeans ==
  ASSUME Sent!SendInv
  PROVE  /\ OpenClaims = {c \in Requests : Sent!Open(c)}
         /\ \A r : OwnClaims(r) = {c \in Requests : c[1] = r /\ Sent!Open(c)}
         /\ GateOpen <=> ~Sent!Frozen
         /\ authority[Invoice].state = "active" <=> ~Sent!Frozen
  <1>1. OpenClaims = {c \in Requests : Sent!Open(c)}
    BY DEF OpenClaims, Sending!Gates!OpenClaims, Sending!Gates!Open,
           Sending!Gates!ManuallyReleasable, Sent!Open, Sent!SendInv, Sent!RequestFits
  <1>2. authority[Invoice].state \in {"active", "frozen"}
    BY DEF Sent!SendInv, Sent!SendingTypeOK, Sent!Gates!Authorities
  <1>3. authority[Invoice].state = "active" <=> ~Sent!Frozen
    BY <1>2 DEF Sent!Frozen
  <1>4. GateOpen <=> ~Sent!Frozen
    BY <1>3 DEF GateOpen, Sending!Gates!RequireRoute, Sending!Gates!PhaseAllows,
                Sending!Gates!WritersReady, Sent!SendInv
  <1> QED BY <1>1, <1>3, <1>4 DEF OwnClaims

-----------------------------------------------------------------------------
(* Requests, attempts and rows *)

\* A request is a round of one attempt, and an attempt is of one receipt.
LEMMA Keys ==
  /\ \A a \in Attempts : /\ a[1] \in Receipts /\ a[2] \in 1 .. MaxAttempts /\ a = <<a[1], a[2]>>
                         /\ \A k \in 1 .. MaxRounds : Key(a, k) \in Requests /\ Of(Key(a, k)) = a
                               /\ Key(a, k)[1] = a[1] /\ Key(a, k)[2] = a[2] /\ Key(a, k)[3] = k
  /\ \A c \in Requests : /\ c[1] \in Receipts /\ c[3] \in 1 .. MaxRounds
                         /\ Of(c) \in Attempts /\ c = Key(Of(c), c[3])
                         /\ Of(c)[1] = c[1] /\ Of(c)[2] = c[2]
  BY DEF Attempts, Requests, Key, Of

\* The request that a worker has on the wire.
LEMMA WireKey ==
  ASSUME NEW a \in Attempts, attempt[a].round \in 1 .. MaxRounds
  PROVE  /\ OnWire(a) \in Requests /\ Of(OnWire(a)) = a
         /\ OnWire(a)[1] = a[1] /\ OnWire(a)[2] = a[2]
         /\ \A k \in 1 .. MaxRounds : Key(a, k) = OnWire(a) <=> k = attempt[a].round
  BY Keys DEF OnWire

\* What an invariant of the whole says of one worker.
LEMMA WorkerOf ==
  ASSUME IInv, NEW a \in Attempts
  PROVE  /\ attempt[a] \in Workers /\ a[1] \in Receipts /\ row[a[1]] \in Rows
         /\ WorkerFits(a) /\ RowFits(a[1])
  BY Keys DEF IInv

\* A worker that does nothing while its requests stay as they are.
LEMMA OtherWorker ==
  ASSUME IInv, NEW a \in Attempts, attempt'[a] = attempt[a], Sent!Frozen => Sent!Frozen',
         \A c \in Requests : Of(c) = a =>
            /\ claims'[c] = claims[c] /\ post'[c] = post[c] /\ reply'[c] = reply[c]
            /\ (c \in inflight' <=> c \in inflight) /\ (c \in created' <=> c \in created),
         created \subseteq created',
         attempt[a].handled => row'[a[1]].sync \in {"synced", "uncertain"}
  PROVE  WorkerFits(a)'
  <1>1. WorkerFits(a)
    BY DEF IInv
  <1>2. \A k \in 1 .. MaxRounds :
           /\ claims'[Key(a, k)] = claims[Key(a, k)] /\ post'[Key(a, k)] = post[Key(a, k)]
           /\ reply'[Key(a, k)] = reply[Key(a, k)]
           /\ (Key(a, k) \in inflight' <=> Key(a, k) \in inflight)
           /\ (Key(a, k) \in created' <=> Key(a, k) \in created)
    BY Keys
  <1>3. attempt[a].round \in 1 .. MaxRounds =>
           /\ post'[OnWire(a)] = post[OnWire(a)] /\ reply'[OnWire(a)] = reply[OnWire(a)]
    BY WireKey
  <1>4. OnWire(a)' = OnWire(a)
    BY DEF OnWire
  <1>5. AllQuiet(a) => AllQuiet(a)'
    BY <1>2 DEF AllQuiet, Quiet, Sent!Open, Key
  <1>6. OthersQuiet(a) => OthersQuiet(a)'
    BY <1>2 DEF OthersQuiet, Quiet, Sent!Open, Key
  <1>7. AllPast(a) => AllPast(a)'
    BY <1>2 DEF AllPast, Past, Key
  <1>8. AllOver(a) => AllOver(a)'
    BY <1>2 DEF AllOver, Key
  <1>9. AllClosed(a) => AllClosed(a)'
    BY <1>2 DEF AllClosed, Sent!Open, Key
  <1>10. StageFits(a)'
    BY <1>1, <1>3, <1>4, <1>5, <1>6, <1>7, <1>8, <1>9 DEF WorkerFits, StageFits
  <1>11. ReturnFits(a)'
    BY <1>1, <1>4 DEF WorkerFits, ReturnFits
  <1> QED BY <1>10, <1>11 DEF WorkerFits

\* A step that concerns one receipt answers for that receipt and its workers alone, if
\* the invoice stays frozen once it is and documents stay.
LEMMA OneReceipt ==
  ASSUME IInv, NEW r \in Receipts, row' \in [Receipts -> Rows],
         attempt' \in [Attempts -> Workers], Sent!SendInv', Sent!Frozen => Sent!Frozen',
         \A s \in Receipts \ {r} : row'[s] = row[s],
         \A a \in Attempts : a[1] # r => attempt'[a] = attempt[a],
         \A c \in Requests : c[1] # r =>
            /\ claims'[c] = claims[c] /\ post'[c] = post[c] /\ reply'[c] = reply[c]
            /\ (c \in inflight' <=> c \in inflight) /\ (c \in created' <=> c \in created),
         created \subseteq created',
         RowFits(r)', \A a \in Attempts : a[1] = r => WorkerFits(a)'
  PROVE  IInv'
  <1>1. ASSUME NEW a \in Attempts, a[1] # r PROVE WorkerFits(a)'
    <2>1. attempt'[a] = attempt[a] /\ WorkerFits(a) /\ row'[a[1]] = row[a[1]]
      BY <1>1, Keys DEF IInv
    <2>2. \A c \in Requests : Of(c) = a => c[1] # r
      BY <1>1, Keys
    <2>3. attempt[a].handled => row'[a[1]].sync \in {"synced", "uncertain"}
      BY <2>1 DEF WorkerFits, ReturnFits
    <2> QED BY <2>1, <2>2, <2>3, OtherWorker
  <1>2. ASSUME NEW s \in Receipts, s # r PROVE RowFits(s)'
    <2>1. row'[s] = row[s] /\ RowFits(s)
      BY <1>2 DEF IInv
    <2>2. /\ RowShape(row[s])' /\ (row'[s].reviewed => row'[s].sync = "uncertain")
          /\ UnresolvedFits(s)' /\ EffectFits(s)'
      <3>1. RowShape(row[s])' /\ (row'[s].reviewed => row'[s].sync = "uncertain")
        BY <2>1 DEF RowFits, RowShape
      <3>2. UnresolvedFits(s)'
        BY <1>2, <2>1 DEF RowFits, UnresolvedFits, Sent!Open
      <3>3. EffectFits(s)'
        <4>1. ASSUME NEW c \in Requests, c[1] = s PROVE EffectOf(c) => EffectOf(c)'
          <5>1. \A d \in Requests : d[1] = s =>
                   /\ (d \in inflight' <=> d \in inflight) /\ (d \in created' <=> d \in created)
                   /\ claims'[d] = claims[d] /\ post'[d] = post[d]
            BY <1>2
          <5>2. claims'[c] = claims[c] /\ post'[c] = post[c]
            BY <1>2, <4>1
          <5> QED BY <2>1, <4>1, <5>1, <5>2 DEF EffectOf, Alive
        <4> QED BY <2>1, <4>1 DEF RowFits, EffectFits
      <3> QED BY <3>1, <3>2, <3>3
    <2>3. IdentityFits(s)'
      BY <1>2, <2>1 DEF RowFits, IdentityFits
    <2>4. ConflictFits(s)'
      <3>1. \A a \in Attempts : a[1] = s => attempt'[a] = attempt[a]
        BY <1>2
      <3>2. Returned(s)' = Returned(s) /\ Late(s)' = Late(s)
        BY <3>1 DEF Returned, Late
      <3> QED BY <2>1, <3>2 DEF RowFits, ConflictFits
    <2> QED BY <2>1, <2>2, <2>3, <2>4 DEF RowFits
  <1>3. \A a \in Attempts : WorkerFits(a)'
    BY <1>1
  <1>4. \A s \in Receipts : RowFits(s)'
    BY <1>2
  <1> QED BY <1>3, <1>4 DEF IInv

-----------------------------------------------------------------------------
(* Writing a row *)

\* What a write leaves in the row.
LEMMA WriteEffect ==
  ASSUME row \in [Receipts -> Rows], NEW r \in Receipts, NEW new \in Rows, Write(r, new)
  PROVE  /\ row' \in [Receipts -> Rows] /\ \A s \in Receipts \ {r} : row'[s] = row[s]
         /\ row'[r].status = new.status /\ row'[r].sync = new.sync /\ row'[r].phase = new.phase
         /\ row'[r].kind = new.kind /\ row'[r].due = new.due /\ row'[r].tries = new.tries
         /\ row'[r].id = new.id /\ row'[r].corrected = new.corrected
         /\ ~row'[r].prepared /\ ~row'[r].reviewed
         /\ new.sync = "syncing" => row'[r].token = new.token
  <1> DEFINE w == [new EXCEPT !.prepared = FALSE, !.reviewed = FALSE,
                              !.token = IF new.sync = "syncing" THEN new.token ELSE 0,
                              !.leased = new.leased /\ new.sync = "syncing"]
  <1>1. row' = [row EXCEPT ![r] = w]
    BY DEF Write
  <1>2. (new.leased /\ new.sync = "syncing") \in BOOLEAN
    BY DEF Rows
  <1>3. (IF new.sync = "syncing" THEN new.token ELSE 0) \in 0 .. MaxAttempts
    BY AttemptAssumption DEF Rows
  <1>4. w \in Rows
    BY <1>2, <1>3 DEF Rows
  <1>5. row'[r] = w
    BY <1>1
  <1>6. /\ w.status = new.status /\ w.sync = new.sync /\ w.phase = new.phase
        /\ w.kind = new.kind /\ w.due = new.due /\ w.tries = new.tries
        /\ w.id = new.id /\ w.corrected = new.corrected /\ ~w.prepared /\ ~w.reviewed
        /\ new.sync = "syncing" => w.token = new.token
    BY DEF Rows
  <1> HIDE DEF w
  <1> QED BY <1>1, <1>4, <1>5, <1>6

\* What the state of a row says of its requests and workers.
LEMMA RowSays ==
  ASSUME IInv, NEW r \in Receipts
  PROVE  /\ row[r] \in Rows /\ RowShape(row[r])
         /\ ~Sent!Frozen /\ (\/ row[r].sync \notin {"syncing", "uncertain"}
                             \/ row[r].sync = "syncing" /\ row[r].phase # "sending")
               => \A c \in Requests : c[1] = r => ~Sent!Open(c)
         /\ Prompt /\ (\/ row[r].sync # "syncing" \/ ~row[r].leased \/ row[r].phase # "sending"
                       \/ Returned(r) # {})
               => \A c \in Requests : c[1] = r => ~Alive(c)
         /\ Prompt /\ (\/ row[r].sync \notin {"syncing", "synced", "uncertain"} \/ row[r].reviewed
                       \/ row[r].sync = "syncing" /\ row[r].phase # "sending")
               => \A c \in Requests : c[1] = r => c \notin created
         /\ row[r].sync \notin {"synced", "uncertain"}
               => \A a \in Attempts : a[1] = r => ~attempt[a].handled
         /\ Returned(r) \subseteq created /\ \A c \in Returned(r) : c[1] = r /\ c \in Requests
  <1>1. row[r] \in Rows /\ RowShape(row[r]) /\ UnresolvedFits(r) /\ EffectFits(r)
    BY DEF IInv, RowFits
  <1>2. \A a \in Attempts : a[1] = r => /\ attempt[a] \in Workers
                                        /\ attempt[a].remote # None =>
                                             attempt[a].remote \in created /\ attempt[a].remote[1] = r
                                        /\ attempt[a].handled => row[r].sync \in {"synced", "uncertain"}
    BY DEF IInv, WorkerFits, ReturnFits
  <1>3. \A c \in Returned(r) : c \in created /\ c[1] = r /\ c \in Requests
    BY <1>2 DEF Returned, Workers
  <1>4. ~Sent!Frozen /\ (\/ row[r].sync \notin {"syncing", "uncertain"}
                         \/ row[r].sync = "syncing" /\ row[r].phase # "sending")
               => \A c \in Requests : c[1] = r => ~Sent!Open(c)
    BY <1>1 DEF UnresolvedFits
  <1>5. ASSUME Prompt, NEW c \in Requests, c[1] = r
        PROVE  /\ (\/ row[r].sync # "syncing" \/ ~row[r].leased \/ row[r].phase # "sending"
                   \/ Returned(r) # {}) => ~Alive(c)
               /\ (\/ row[r].sync \notin {"syncing", "synced", "uncertain"} \/ row[r].reviewed
                   \/ row[r].sync = "syncing" /\ row[r].phase # "sending") => c \notin created
    BY <1>1, <1>3, <1>5 DEF EffectFits, EffectOf
  <1> QED BY <1>1, <1>2, <1>3, <1>4, <1>5

\* Closing requests of others' rows apart, a worker that neither moves nor returns
\* anything stays right; its identity may be marked handled once the row is bound or waits.
LEMMA WorkerStays ==
  ASSUME IInv, NEW a \in Attempts, UNCHANGED <<authority, post, reply, inflight, created>>,
         \A c \in Requests : Sent!Open(c)' => Sent!Open(c),
         NEW h \in BOOLEAN, attempt'[a] = [attempt[a] EXCEPT !.handled = h],
         h => attempt[a].remote # None /\ row'[a[1]].sync \in {"synced", "uncertain"}
  PROVE  WorkerFits(a)'
  <1>1. /\ attempt[a] \in Workers /\ StageFits(a) /\ ReturnFits(a)
    BY WorkerOf DEF WorkerFits
  <1>2. /\ attempt'[a].stage = attempt[a].stage /\ attempt'[a].round = attempt[a].round
        /\ attempt'[a].error = attempt[a].error /\ attempt'[a].remote = attempt[a].remote
        /\ attempt'[a].handled = h
    BY <1>1 DEF Workers
  <1>3. OnWire(a)' = OnWire(a)
    BY <1>2 DEF OnWire
  <1>4. Sent!Frozen' = Sent!Frozen
    BY DEF Sent!Frozen
  <1>5. \A k \in 1 .. MaxRounds : Sent!Open(Key(a, k))' => Sent!Open(Key(a, k))
    BY Keys DEF Key
  <1>6. AllQuiet(a) => AllQuiet(a)'
    BY <1>4, <1>5 DEF AllQuiet, Quiet, Key, Sent!Open
  <1>7. OthersQuiet(a) => OthersQuiet(a)'
    BY <1>2, <1>4, <1>5 DEF OthersQuiet, Quiet, Key, Sent!Open
  <1>8. AllPast(a) => AllPast(a)'
    BY DEF AllPast, Past, Key
  <1>9. AllOver(a) => AllOver(a)'
    BY DEF AllOver, Key
  <1>10. AllClosed(a) => AllClosed(a)'
    BY <1>4, <1>5 DEF AllClosed, Key, Sent!Open
  <1>11. StageFits(a)'
    BY <1>1, <1>2, <1>3, <1>6, <1>7, <1>8, <1>9, <1>10 DEF StageFits
  <1>12. ReturnFits(a)'
    BY <1>1, <1>2, <1>3 DEF ReturnFits
  <1> QED BY <1>11, <1>12 DEF WorkerFits

\* A write of a row that no request can still surprise keeps the invariant.
LEMMA RowStep ==
  ASSUME IInv, NEW r \in Receipts, NEW new \in Rows, Write(r, new),
         attempt' \in [Attempts -> Workers],
         \A a \in Attempts : IF a[1] = r THEN WorkerFits(a)' ELSE attempt'[a] = attempt[a],
         Sent!SendInv', UNCHANGED <<authority, post, reply, inflight, created>>,
         \A c \in Requests : /\ c[1] # r => claims'[c] = claims[c]
                             /\ Sent!Open(c)' => Sent!Open(c)
                             /\ claims'[c].state = "sending" => claims[c].state = "sending",
         RowShape(new),
         \/ new.id = row[r].id
         \/ new.id \in created /\ ~BoundElsewhere(r, new.id),
         ~Sent!Frozen /\ new.sync # "uncertain" =>
            \A c \in Requests : c[1] = r => ~Sent!Open(c)',
         Prompt => \A c \in Requests : c[1] = r => ~Alive(c),
         Prompt => \A c \in Requests : c[1] = r /\ c \in created =>
            new.sync \in {"synced", "uncertain"} /\ claims'[c].state # "not_sent",
         ConflictFits(r)'
  PROVE  IInv'
  <1>1. /\ row' \in [Receipts -> Rows] /\ \A s \in Receipts \ {r} : row'[s] = row[s]
        /\ row'[r].status = new.status /\ row'[r].sync = new.sync /\ row'[r].phase = new.phase
        /\ row'[r].kind = new.kind /\ row'[r].due = new.due /\ row'[r].tries = new.tries
        /\ row'[r].id = new.id /\ ~row'[r].reviewed
    BY WriteEffect DEF IInv
  <1>2. RowShape(row[r])' /\ (row'[r].reviewed => row'[r].sync = "uncertain")
    BY <1>1 DEF RowShape
  <1>3. IdentityFits(r)'
    <2>1. IdentityFits(r)
      BY DEF IInv, RowFits
    <2>2. CASE new.id = row[r].id
      BY <1>1, <2>1, <2>2 DEF IdentityFits
    <2>3. CASE new.id \in created /\ ~BoundElsewhere(r, new.id)
      BY <1>1, <2>3 DEF IdentityFits, BoundElsewhere
    <2> QED BY <2>2, <2>3
  <1>4. Sent!Frozen' <=> Sent!Frozen
    BY DEF Sent!Frozen
  <1>5. UnresolvedFits(r)'
    BY <1>1, <1>4 DEF UnresolvedFits, Sent!Open
  <1>6. EffectFits(r)'
    <2>1. ASSUME Prompt, NEW c \in Requests, c[1] = r PROVE EffectOf(c)'
      <3>1. ~Alive(c)'
        BY <2>1 DEF Alive
      <3>2. EffectOf(c)
        BY <2>1 DEF IInv, RowFits, EffectFits
      <3>3. c \notin inflight
        BY <2>1 DEF Alive
      <3> QED BY <1>1, <2>1, <3>1, <3>2, <3>3 DEF EffectOf
    <2> QED BY <2>1 DEF EffectFits
  <1>7. RowFits(r)'
    BY <1>2, <1>3, <1>5, <1>6 DEF RowFits
  <1> QED BY <1>1, <1>4, <1>7, OneReceipt

\* The same of a write beside which nothing happens.
LEMMA PlainWrite ==
  ASSUME IInv, NEW r \in Receipts, NEW new \in Rows, Write(r, new),
         UNCHANGED <<attempt, sending>>, RowShape(new), new.id = row[r].id,
         ~Sent!Frozen /\ new.sync # "uncertain" =>
            \A c \in Requests : c[1] = r => ~Sent!Open(c),
         Prompt => \A c \in Requests : c[1] = r => ~Alive(c),
         Prompt /\ new.sync \notin {"synced", "uncertain"} =>
            \A c \in Requests : c[1] = r => c \notin created,
         new.sync \notin {"synced", "uncertain"} =>
            \A a \in Attempts : a[1] = r => ~attempt[a].handled,
         row[r].sync # "uncertain" \/ row[r].kind # "blocked" \/ Returned(r) = {}
         \/ (new.sync = "uncertain" /\ new.kind = "blocked")
  PROVE  IInv'
  <1>1. Sent!SendInv'
    BY Sent!SendingUntouched DEF IInv, sending
  <1>2. /\ row'[r].sync = new.sync /\ row'[r].kind = new.kind
    BY WriteEffect DEF IInv
  <1>3. ASSUME NEW a \in Attempts, a[1] = r PROVE WorkerFits(a)'
    <2>1. /\ attempt[a] \in Workers /\ ReturnFits(a)
      BY WorkerOf DEF WorkerFits
    <2>2. attempt'[a] = [attempt[a] EXCEPT !.handled = attempt[a].handled]
          /\ attempt[a].handled \in BOOLEAN
      BY <2>1 DEF Workers
    <2>3. attempt[a].handled => attempt[a].remote # None /\ row'[a[1]].sync \in {"synced", "uncertain"}
      BY <1>2, <1>3, <2>1 DEF ReturnFits
    <2>4. \A c \in Requests : Sent!Open(c)' => Sent!Open(c)
      BY DEF sending, Sent!Open
    <2> QED BY <2>2, <2>3, <2>4, WorkerStays DEF sending
  <1>4. ConflictFits(r)'
    <2>1. ConflictFits(r)
      BY DEF IInv, RowFits
    <2>2. Returned(r)' = Returned(r) /\ Late(r)' = Late(r)
      BY DEF Returned, Late
    <2> QED BY <1>2, <2>1, <2>2 DEF ConflictFits
  <1>5. \A c \in Requests : claims'[c] = claims[c] /\ (Sent!Open(c)' <=> Sent!Open(c))
    BY DEF sending, Sent!Open
  <1>6. Prompt => \A c \in Requests : c[1] = r /\ c \in created => claims'[c].state # "not_sent"
    BY <1>5 DEF IInv, RowFits, EffectFits, EffectOf
  <1>7. attempt' \in [Attempts -> Workers] /\ \A a \in Attempts : attempt'[a] = attempt[a]
    BY DEF IInv
  <1> QED BY <1>1, <1>3, <1>4, <1>5, <1>6, <1>7, RowStep DEF sending

-----------------------------------------------------------------------------
(* Recovery passes and people, where nothing is sent or closed *)

\* A retry counts one more and stops at its limit.
LEMMA RetriedEffect ==
  ASSUME NEW w \in Rows, NEW kind \in {"prepare_retry", "verify"}, RowShape(w),
         kind = "prepare_retry" => w.tries < PrepareLimit,
         kind = "verify" => w.kind = "verify"
  PROVE  /\ Retried(w, kind) \in Rows
         /\ Retried(w, kind).tries = w.tries + 1
         /\ Retried(w, kind).status = w.status /\ Retried(w, kind).sync = w.sync
         /\ Retried(w, kind).id = w.id /\ Retried(w, kind).phase = w.phase
         /\ \/ Retried(w, kind).kind = "exhausted"
            \/ /\ Retried(w, kind).kind = kind
               /\ w.tries + 1 < (IF kind = "prepare_retry" THEN PrepareLimit ELSE VerifyLimit)
  <1> DEFINE more == w.tries + 1 < (IF kind = "prepare_retry" THEN PrepareLimit ELSE VerifyLimit)
             new == [w EXCEPT !.tries = w.tries + 1, !.kind = IF more THEN kind ELSE "exhausted",
                              !.due = more]
  <1>1. Retried(w, kind) = new
    BY DEF Retried
  <1>2. w.tries + 1 \in 0 .. PrepareLimit + VerifyLimit
    BY LimitAssumption DEF Rows, RowShape
  <1>3. more \in BOOLEAN /\ (IF more THEN kind ELSE "exhausted") \in {"prepare_retry", "verify", "exhausted"}
    OBVIOUS
  <1>4. new \in Rows
    BY <1>2, <1>3 DEF Rows
  <1>5. /\ new.tries = w.tries + 1 /\ new.status = w.status /\ new.sync = w.sync
        /\ new.id = w.id /\ new.phase = w.phase /\ new.kind = IF more THEN kind ELSE "exhausted"
    BY DEF Rows
  <1> QED BY <1>1, <1>4, <1>5

\* A row that waits behind an unresolved claim is parked by whose claim it is.
LEMMA HeldEffect ==
  ASSUME IInv, NEW r \in Receipts, row[r].id = None, row[r].status = "active",
         row[r].sync \in {"pending", "syncing"}
  PROVE  /\ Held(r) \in Rows /\ RowShape(Held(r)) /\ Held(r).id = row[r].id
         /\ Held(r).sync \in {"failed", "uncertain"}
         /\ Held(r).sync = "failed" => \A c \in Requests : c[1] = r => ~Sent!Open(c)
  <1>1. row[r] \in Rows /\ RowShape(row[r])
    BY RowSays
  <1>2. OwnClaims(r) = {c \in Requests : c[1] = r /\ Sent!Open(c)}
    BY OpenMeans DEF IInv
  <1>3. CASE OwnClaims(r) # {}
    <2> DEFINE new == [row[r] EXCEPT !.sync = "uncertain", !.phase = "sending",
                          !.kind = "unknown", !.due = FALSE, !.corrected = FALSE]
    <2>1. new \in Rows
      BY <1>1 DEF Rows
    <2>2. new.id = row[r].id /\ new.status = row[r].status /\ new.sync = "uncertain"
          /\ new.tries = row[r].tries /\ new.kind = "unknown"
      BY <1>1 DEF Rows
    <2>3. Held(r) = new
      BY <1>3 DEF Held
    <2> HIDE DEF new
    <2> QED BY <1>1, <2>1, <2>2, <2>3 DEF RowShape
  <1>4. CASE OwnClaims(r) = {}
    <2> DEFINE new == [row[r] EXCEPT !.sync = "failed", !.phase = "none", !.kind = "blocked",
                                     !.due = FALSE, !.corrected = FALSE]
    <2>1. new \in Rows
      BY <1>1 DEF Rows
    <2>2. new.id = row[r].id /\ new.status = row[r].status /\ new.sync = "failed"
          /\ new.tries = row[r].tries /\ new.kind = "blocked"
      BY <1>1 DEF Rows
    <2>3. Held(r) = new
      BY <1>4 DEF Held
    <2>4. \A c \in Requests : c[1] = r => ~Sent!Open(c)
      BY <1>2, <1>4
    <2> HIDE DEF new
    <2> QED BY <1>1, <2>1, <2>2, <2>3, <2>4 DEF RowShape
  <1> QED BY <1>3, <1>4

\* What waits behind a claim.
LEMMA HoldKeeps ==
  ASSUME IInv, NEW r \in Receipts, HoldPending(r)
  PROVE  IInv'
  <1>1. row[r].id = None /\ row[r].status = "active" /\ row[r].sync = "pending" /\ ~Sent!Frozen
    BY OpenMeans DEF IInv, HoldPending, Deliverable, Active
  <1>2. /\ Held(r) \in Rows /\ RowShape(Held(r)) /\ Held(r).id = row[r].id
    BY <1>1, HeldEffect
  <1> QED BY <1>1, <1>2, RowSays, PlainWrite DEF HoldPending

\* The recovery of an expired lease.
LEMMA RecoverExpiredKeeps ==
  ASSUME IInv, NEW r \in Receipts, RecoverExpired(r)
  PROVE  IInv'
  <1>1. /\ row[r] \in Rows /\ RowShape(row[r]) /\ row[r].sync = "syncing" /\ ~row[r].leased
        /\ row[r].id = None /\ row[r].status = "active" /\ row[r].tries < PrepareLimit
    BY RowSays DEF RecoverExpired, RowShape, Rows
  <1>2. UNCHANGED <<attempt, sending>>
    BY DEF RecoverExpired
  <1>3. CASE row[r].phase = "preparing"
    <2> DEFINE w == Retried(row[r], "prepare_retry")
               new == [w EXCEPT !.sync = "failed", !.corrected = FALSE]
    <2>1. /\ w \in Rows /\ w.tries = row[r].tries + 1 /\ w.status = row[r].status
          /\ w.id = row[r].id /\ w.phase = row[r].phase
          /\ \/ w.kind = "exhausted"
             \/ w.kind = "prepare_retry" /\ row[r].tries + 1 < PrepareLimit
      BY <1>1, RetriedEffect
    <2>2. Write(r, new)
      BY <1>1, <1>3 DEF RecoverExpired
    <2> HIDE DEF w
    <2>3. new \in Rows
      BY <2>1 DEF Rows
    <2>4. new.sync = "failed" /\ new.tries = w.tries /\ new.status = w.status
          /\ new.id = w.id /\ new.kind = w.kind
      BY <2>1 DEF Rows
    <2> HIDE DEF new
    <2>5. new.tries <= PrepareLimit /\ (new.kind = "prepare_retry" => new.tries < PrepareLimit)
      <3>1. row[r].tries \in Int /\ PrepareLimit \in Int
        BY <1>1, LimitAssumption DEF Rows
      <3> QED BY <1>1, <2>1, <2>4, <3>1
    <2>6. RowShape(new)
      BY <1>1, <2>1, <2>4, <2>5 DEF RowShape
    <2> QED BY <1>1, <1>2, <1>3, <2>1, <2>2, <2>3, <2>4, <2>6, RowSays, PlainWrite
  <1>4. CASE row[r].phase # "preparing"
    <2> DEFINE new == [row[r] EXCEPT !.sync = "uncertain", !.kind = "unknown", !.due = FALSE,
                                     !.corrected = FALSE]
    <2>1. Write(r, new)
      BY <1>1, <1>4 DEF RecoverExpired
    <2>2. new \in Rows
      BY <1>1 DEF Rows
    <2>3. new.sync = "uncertain" /\ new.tries = row[r].tries /\ new.status = row[r].status
          /\ new.id = row[r].id /\ new.kind = "unknown"
      BY <1>1 DEF Rows
    <2> HIDE DEF new
    <2>4. RowShape(new)
      BY <1>1, <2>3 DEF RowShape, Rows
    <2> QED BY <1>1, <1>2, <2>1, <2>2, <2>3, <2>4, RowSays, PlainWrite
  <1> QED BY <1>3, <1>4

\* What people or the scheduler do with a row that was not sent.
LEMMA UnsentKeeps ==
  ASSUME IInv, NEW r \in Receipts, PrepareDue(r) \/ Retry(r) \/ Edit(r) \/ Void(r)
  PROVE  IInv'
  <1>1. /\ row[r] \in Rows /\ RowShape(row[r])
    BY RowSays
  <1>2. CASE PrepareDue(r)
    <2> DEFINE new == [row[r] EXCEPT !.sync = "pending", !.due = FALSE]
    <2>1. Write(r, new)
      BY <1>2 DEF PrepareDue
    <2>2. new \in Rows
      BY <1>1 DEF Rows
    <2>3. new.sync = "pending" /\ new.tries = row[r].tries /\ new.status = row[r].status
          /\ new.id = row[r].id /\ new.kind = row[r].kind
      BY <1>1 DEF Rows
    <2> HIDE DEF new
    <2>4. RowShape(new)
      BY <1>1, <1>2, <2>3 DEF RowShape, Rows, PrepareDue
    <2> QED BY <1>2, <2>1, <2>2, <2>3, <2>4, RowSays, PlainWrite DEF PrepareDue
  <1>3. CASE Retry(r)
    <2> DEFINE new == [row[r] EXCEPT !.sync = "pending", !.phase = "none", !.kind = "none",
                                     !.due = FALSE, !.tries = 0, !.corrected = FALSE]
    <2>1. Write(r, new)
      BY <1>3 DEF Retry
    <2>2. new \in Rows
      <3>1. 0 \in 0 .. PrepareLimit + VerifyLimit
        BY LimitAssumption
      <3> QED BY <1>1, <3>1 DEF Rows
    <2>3. new.sync = "pending" /\ new.tries = 0 /\ new.status = row[r].status
          /\ new.id = row[r].id /\ new.kind = "none"
      BY <1>1 DEF Rows
    <2> HIDE DEF new
    <2>4. RowShape(new)
      BY <1>1, <1>3, <2>3, LimitAssumption DEF RowShape, Rows, Retry
    <2> QED BY <1>3, <2>1, <2>2, <2>3, <2>4, RowSays, PlainWrite DEF Retry
  <1>4. CASE Edit(r)
    <2> DEFINE new == [row[r] EXCEPT !.sync = "failed", !.corrected = TRUE]
    <2>1. Write(r, new)
      BY <1>4 DEF Edit
    <2>2. new \in Rows
      BY <1>1 DEF Rows
    <2>3. new.sync = "failed" /\ new.tries = row[r].tries /\ new.status = row[r].status
          /\ new.id = row[r].id /\ new.kind = row[r].kind
      BY <1>1 DEF Rows
    <2> HIDE DEF new
    <2>4. RowShape(new)
      BY <1>1, <1>4, <2>3 DEF RowShape, Rows, Edit
    <2> QED BY <1>4, <2>1, <2>2, <2>3, <2>4, RowSays, PlainWrite DEF Edit
  <1>5. CASE Void(r)
    <2> DEFINE new == [row[r] EXCEPT !.status = "voided"]
    <2>1. Write(r, new)
      BY <1>5 DEF Void
    <2>2. new \in Rows
      BY <1>1 DEF Rows
    <2>3. new.sync = row[r].sync /\ new.tries = row[r].tries /\ new.status = "voided"
          /\ new.id = row[r].id /\ new.kind = row[r].kind
      BY <1>1 DEF Rows
    <2> HIDE DEF new
    <2>4. RowShape(new)
      BY <1>1, <1>5, <2>3 DEF RowShape, Rows, Void
    <2> QED BY <1>5, <2>1, <2>2, <2>3, <2>4, RowSays, PlainWrite DEF Void
  <1> QED BY <1>2, <1>3, <1>4, <1>5

\* A verification that finds something else, or nothing this time.
LEMMA VerifyKeeps ==
  ASSUME IInv, NEW r \in Receipts, NEW new, Write(r, new), UNCHANGED <<attempt, sending>>,
         row[r].status = "active", row[r].sync \in {"synced", "uncertain"}, row[r].id # None,
         row[r].kind = "verify",
         \/ new = [row[r] EXCEPT !.sync = "uncertain", !.kind = "blocked", !.due = FALSE,
                                 !.corrected = FALSE]
         \/ new = [Retried(row[r], "verify") EXCEPT !.corrected = FALSE]
  PROVE  IInv'
  <1>1. /\ row[r] \in Rows /\ RowShape(row[r])
    BY RowSays
  <1>2. CASE new = [row[r] EXCEPT !.sync = "uncertain", !.kind = "blocked", !.due = FALSE,
                                  !.corrected = FALSE]
    <2>1. new \in Rows
      BY <1>1, <1>2 DEF Rows
    <2>2. new.sync = "uncertain" /\ new.tries = row[r].tries /\ new.status = row[r].status
          /\ new.id = row[r].id /\ new.kind = "blocked"
      BY <1>1, <1>2 DEF Rows
    <2>3. RowShape(new)
      BY <1>1, <2>2 DEF RowShape
    <2> QED BY <2>1, <2>2, <2>3, RowSays, PlainWrite
  <1>3. CASE new = [Retried(row[r], "verify") EXCEPT !.corrected = FALSE]
    <2> DEFINE w == Retried(row[r], "verify")
    <2>1. /\ w \in Rows /\ w.tries = row[r].tries + 1 /\ w.status = row[r].status
          /\ w.id = row[r].id /\ w.phase = row[r].phase /\ w.sync = row[r].sync
          /\ \/ w.kind = "exhausted"
             \/ w.kind = "verify" /\ row[r].tries + 1 < VerifyLimit
      BY <1>1, RetriedEffect
    <2> HIDE DEF w
    <2>2. new = [w EXCEPT !.corrected = FALSE]
      BY <1>3 DEF w
    <2>3. new \in Rows
      BY <2>1, <2>2 DEF Rows
    <2>4. new.sync = w.sync /\ new.tries = w.tries /\ new.status = w.status
          /\ new.id = w.id /\ new.kind = w.kind
      BY <2>1, <2>2 DEF Rows
    <2>5. RowShape(new)
      BY <1>1, <2>1, <2>4 DEF RowShape
    <2>6. row[r].sync = "synced" => \A c \in Requests : c[1] = r /\ ~Sent!Frozen => ~Sent!Open(c)
      BY RowSays
    <2> QED BY <2>1, <2>3, <2>4, <2>5, <2>6, RowSays, PlainWrite
  <1> QED BY <1>2, <1>3

\* A row field that neither state nor token depends on.
LEMMA RowAside ==
  ASSUME IInv, NEW r \in Receipts, UNCHANGED sending,
         row' \in [Receipts -> Rows], \A s \in Receipts \ {r} : row'[s] = row[s],
         attempt' \in [Attempts -> Workers],
         \A a \in Attempts : /\ a[1] = r => WorkerFits(a)'
                             /\ a[1] # r => attempt'[a] = attempt[a]
                             /\ attempt'[a].remote = attempt[a].remote
                             /\ attempt'[a].handled = attempt[a].handled,
         /\ row'[r].status = row[r].status /\ row'[r].sync = row[r].sync
         /\ row'[r].phase = row[r].phase /\ row'[r].kind = row[r].kind
         /\ row'[r].tries = row[r].tries /\ row'[r].id = row[r].id
         /\ row'[r].token = row[r].token,
         (row'[r].leased <=> row[r].leased) \/ (Prompt => \A c \in Requests : c[1] = r => ~Alive(c)),
         row'[r].reviewed => \/ row[r].reviewed
                             \/ row[r].sync = "uncertain" /\ \A c \in Requests : c[1] = r => c \notin created
  PROVE  IInv'
  <1>1. Sent!SendInv'
    BY Sent!SendingUntouched DEF IInv, sending
  <1>2. /\ RowShape(row[r]) /\ IdentityFits(r) /\ UnresolvedFits(r) /\ ConflictFits(r)
        /\ EffectFits(r) /\ (row[r].reviewed => row[r].sync = "uncertain")
    BY DEF IInv, RowFits
  <1>3. RowShape(row[r])' /\ (row'[r].reviewed => row'[r].sync = "uncertain")
    BY <1>2 DEF RowShape
  <1>4. IdentityFits(r)'
    BY <1>2 DEF IdentityFits, sending
  <1>5. UnresolvedFits(r)'
    BY <1>2 DEF UnresolvedFits, sending, Sent!Open, Sent!Frozen
  <1>6. ConflictFits(r)'
    <2>1. Returned(r)' = Returned(r) /\ Late(r)' = Late(r)
      BY DEF Returned, Late
    <2> QED BY <1>2, <2>1 DEF ConflictFits
  <1>7. EffectFits(r)'
    <2>1. ASSUME Prompt, NEW c \in Requests, c[1] = r PROVE EffectOf(c)'
      <3>1. EffectOf(c)
        BY <1>2, <2>1 DEF EffectFits
      <3>2. Alive(c)' <=> Alive(c)
        BY DEF Alive, sending
      <3>3. Alive(c) => row'[r].leased
        BY <2>1, <3>1 DEF EffectOf
      <3>4. Alive(c) => \A d \in Requests : d[1] = c[1] => d \notin created /\ (Alive(d) => d = c)
        BY <3>1 DEF EffectOf
      <3>5. Alive(c)' => \A d \in Requests : d[1] = c[1] => d \notin created' /\ (Alive(d)' => d = c)
        BY <3>2, <3>4 DEF Alive, sending
      <3> QED BY <2>1, <3>1, <3>2, <3>3, <3>5 DEF EffectOf, sending
    <2> QED BY <2>1 DEF EffectFits
  <1>8. RowFits(r)'
    BY <1>3, <1>4, <1>5, <1>6, <1>7 DEF RowFits
  <1>9. Sent!Frozen => Sent!Frozen'
    BY DEF Sent!Frozen, sending
  <1> QED BY <1>1, <1>8, <1>9, OneReceipt DEF sending

\* The clock and the read-back write no state of a row.
LEMMA AsideKeeps ==
  ASSUME IInv, NEW r \in Receipts, RowLeaseExpires(r) \/ Review(r)
  PROVE  IInv'
  <1>1. row \in [Receipts -> Rows] /\ row[r] \in Rows /\ Sent!SendInv /\ attempt \in [Attempts -> Workers]
    BY DEF IInv
  <1>2. UNCHANGED <<attempt, sending>>
    BY DEF RowLeaseExpires, Review
  <1>3. \A c \in Requests : Sent!Open(c)' => Sent!Open(c)
    BY <1>2 DEF sending, Sent!Open
  <1>4. ASSUME row'[r].sync = row[r].sync, \A s \in Receipts \ {r} : row'[s] = row[s]
        PROVE  \A a \in Attempts : WorkerFits(a)'
    <2> TAKE a \in Attempts
    <2>1. /\ attempt[a] \in Workers /\ ReturnFits(a) /\ a[1] \in Receipts
      BY WorkerOf DEF WorkerFits
    <2>2. attempt'[a] = [attempt[a] EXCEPT !.handled = attempt[a].handled]
          /\ attempt[a].handled \in BOOLEAN
      BY <1>2, <2>1 DEF Workers
    <2>3. attempt[a].handled => attempt[a].remote # None /\ row'[a[1]].sync \in {"synced", "uncertain"}
      BY <1>4, <2>1 DEF ReturnFits
    <2> QED BY <1>2, <1>3, <2>2, <2>3, WorkerStays DEF sending
  <1>5. CASE RowLeaseExpires(r)
    <2> DEFINE new == [row[r] EXCEPT !.leased = FALSE]
    <2>1. row' = [row EXCEPT ![r] = new] /\ new \in Rows
      BY <1>1, <1>5 DEF RowLeaseExpires, Rows
    <2>2. /\ new.status = row[r].status /\ new.sync = row[r].sync
          /\ new.phase = row[r].phase /\ new.kind = row[r].kind
          /\ new.tries = row[r].tries /\ new.id = row[r].id
          /\ new.token = row[r].token /\ new.reviewed = row[r].reviewed
      BY <1>1 DEF Rows
    <2> HIDE DEF new
    <2>3. row' \in [Receipts -> Rows] /\ row'[r] = new /\ \A s \in Receipts \ {r} : row'[s] = row[s]
      BY <1>1, <2>1
    <2>4. Prompt => \A c \in Requests : c[1] = r => ~Alive(c)
      <3>1. row[r].phase = "sending" => \A c \in Requests : c[1] = r /\ Sent!Open(c) => ~claims[c].leased
        BY <1>1, <1>5, OpenMeans DEF RowLeaseExpires
      <3>2. ASSUME Prompt, NEW c \in Requests, c[1] = r, Alive(c) PROVE FALSE
        <4>1. row[r].phase = "sending" /\ (c \in inflight => claims[c].leased)
          BY <3>2 DEF IInv, RowFits, EffectFits, EffectOf
        <4>2. claims[c].leased => Sent!Open(c)
          BY <1>1 DEF Sent!SendInv, Sent!RequestFits
        <4>3. claims[c].state = "sending" /\ post[c] = "ticket" => claims[c].leased
          BY <1>1, <3>2 DEF Sent!SendInv, Sent!PromptFits
        <4> QED BY <3>1, <3>2, <4>1, <4>2, <4>3 DEF Alive
      <3> QED BY <3>2
    <2>5. \A a \in Attempts : WorkerFits(a)'
      BY <1>4, <2>2, <2>3
    <2>6. attempt' = attempt /\ UNCHANGED sending
      BY <1>2
    <2> QED BY <1>1, <2>2, <2>3, <2>4, <2>5, <2>6, RowAside
  <1>6. CASE Review(r)
    <2> DEFINE new == [row[r] EXCEPT !.reviewed = TRUE]
    <2>1. row' = [row EXCEPT ![r] = new] /\ new \in Rows
      BY <1>1, <1>6 DEF Review, Rows
    <2>2. /\ new.status = row[r].status /\ new.sync = row[r].sync
          /\ new.phase = row[r].phase /\ new.kind = row[r].kind
          /\ new.tries = row[r].tries /\ new.id = row[r].id
          /\ new.token = row[r].token /\ new.leased = row[r].leased
      BY <1>1 DEF Rows
    <2> HIDE DEF new
    <2>3. row' \in [Receipts -> Rows] /\ row'[r] = new /\ \A s \in Receipts \ {r} : row'[s] = row[s]
      BY <1>1, <2>1
    <2>4. row[r].sync = "uncertain" /\ \A c \in Requests : c[1] = r => c \notin created
      BY <1>6 DEF Review, Unresolved, Candidates
    <2>5. \A a \in Attempts : WorkerFits(a)'
      BY <1>4, <2>2, <2>3
    <2>6. attempt' = attempt /\ UNCHANGED sending
      BY <1>2
    <2> QED BY <1>1, <2>2, <2>3, <2>4, <2>5, <2>6, RowAside
  <1> QED BY <1>5, <1>6

\* Binding a row to a document closes every unresolved request of its own.
LEMMA BindKeeps ==
  ASSUME IInv, NEW r \in Receipts, NEW id, NEW effective \in BOOLEAN, BindRemote(r, id, effective),
         row[r].sync \in {"synced", "uncertain"}
  PROVE  IInv'
  <1>1. /\ row[r] \in Rows /\ RowShape(row[r]) /\ Sent!SendInv
        /\ \A c \in Requests : c[1] = r => (Prompt => ~Alive(c))
    BY RowSays DEF IInv
  <1>2. /\ id \in created /\ id \in Requests /\ id # None /\ Returned(r) \subseteq {id}
        /\ row[r].id \in {None, id} /\ ~BoundElsewhere(r, id) /\ UNCHANGED attempt
    BY <1>1, NoneAssumption DEF BindRemote, MayBind, Candidates, Sent!SendInv, Sent!SendingTypeOK
  <1> DEFINE S == {c \in Requests : c[1] = r /\ Sent!Open(c)}
             new == [row[r] EXCEPT !.id = id, !.sync = "synced", !.phase = "verified", !.tries = 0,
                                   !.kind = IF effective THEN "none" ELSE "verify",
                                   !.due = ~effective, !.corrected = FALSE]
  <1>3. Write(r, new) /\ Sent!SettleOpen(S, id)
    BY <1>1, OpenMeans, SameSettle DEF BindRemote
  <1>4. /\ Sent!SendInv'
        /\ \A c \in Requests : claims'[c].state = IF c \in S THEN "succeeded" ELSE claims[c].state
    <2>1. S \subseteq {c \in Requests : Sent!Open(c)}
      OBVIOUS
    <2> HIDE DEF S
    <2> QED BY <1>1, <1>2, <1>3, <2>1, NoneAssumption, Sent!SettleKeeps
  <1>5. /\ UNCHANGED <<authority, post, reply, inflight, created>>
        /\ \A c \in Requests : c[1] # r => claims'[c] = claims[c]
    BY <1>3 DEF Sent!SettleOpen
  <1>6. \A c \in Requests : /\ Sent!Open(c)' => Sent!Open(c)
                            /\ claims'[c].state = "sending" => claims[c].state = "sending"
                            /\ claims'[c].state = "not_sent" => claims[c].state = "not_sent"
                            /\ c[1] = r => ~Sent!Open(c)'
    BY <1>4 DEF Sent!Open
  <1>7. new \in Rows
    <2>1. 0 \in 0 .. PrepareLimit + VerifyLimit /\ (~effective) \in BOOLEAN
          /\ (IF effective THEN "none" ELSE "verify") \in {"none", "verify"}
      BY LimitAssumption
    <2> QED BY <1>1, <1>2, <2>1 DEF Rows
  <1>8. /\ new.sync = "synced" /\ new.tries = 0 /\ new.status = row[r].status /\ new.id = id
        /\ new.kind \in {"none", "verify"}
    BY <1>1 DEF Rows
  <1> HIDE DEF new, S
  <1>9. RowShape(new)
    BY <1>1, <1>2, <1>8, LimitAssumption DEF RowShape
  <1>10. row'[r].sync = "synced"
    BY <1>3, <1>7, <1>8, WriteEffect DEF IInv
  <1>11. ASSUME NEW a \in Attempts, a[1] = r PROVE WorkerFits(a)'
    <2>1. /\ attempt[a] \in Workers /\ ReturnFits(a)
      BY WorkerOf DEF WorkerFits
    <2>2. attempt'[a] = [attempt[a] EXCEPT !.handled = attempt[a].handled]
          /\ attempt[a].handled \in BOOLEAN
      BY <1>2, <2>1 DEF Workers
    <2>3. attempt[a].handled => attempt[a].remote # None /\ row'[a[1]].sync \in {"synced", "uncertain"}
      BY <1>10, <1>11, <2>1 DEF ReturnFits
    <2> QED BY <1>5, <1>6, <2>2, <2>3, WorkerStays
  <1>12. ConflictFits(r)'
    <2>1. Returned(r)' = Returned(r)
      BY <1>2 DEF Returned
    <2> QED BY <1>2, <2>1 DEF ConflictFits
  <1>13. Prompt => \A c \in Requests : c[1] = r /\ c \in created => claims'[c].state # "not_sent"
    BY <1>6 DEF IInv, RowFits, EffectFits, EffectOf
  <1>14. attempt' \in [Attempts -> Workers] /\ \A a \in Attempts : attempt'[a] = attempt[a]
    BY <1>2 DEF IInv
  <1> QED BY <1>1, <1>2, <1>3, <1>4, <1>5, <1>6, <1>7, <1>8, <1>9, <1>11, <1>12, <1>13, <1>14, RowStep

\* A decision that nothing was created closes the unresolved request of the row.
LEMMA ConfirmEffect ==
  ASSUME IInv, NEW r \in Receipts, ConfirmNotCreated(r)
  PROVE  /\ Sent!SendInv' /\ UNCHANGED <<authority, post, reply, inflight, created, attempt>>
         /\ \A c \in Requests : /\ c[1] # r => claims'[c] = claims[c]
                                /\ Sent!Open(c)' => Sent!Open(c)
                                /\ claims'[c].state = "sending" => claims[c].state = "sending"
                                /\ c[1] = r => ~Sent!Open(c)'
  <1>1. /\ ~Sent!Frozen /\ Sent!SendInv
        /\ OwnClaims(r) = {c \in Requests : c[1] = r /\ Sent!Open(c)}
    BY OpenMeans DEF IInv, ConfirmNotCreated, Unresolved
  <1>2. UNCHANGED <<post, reply, inflight, created, attempt>>
    BY DEF ConfirmNotCreated, Sending!ReleaseUnsent, Sending!sendVars
  <1>3. Sent!ReleaseUnsent(OwnClaims(r))
    BY <1>1, SameRelease DEF ConfirmNotCreated, Sending!ReleaseUnsent, Sending!sendVars,
                             Sent!ReleaseUnsent, Sent!sendVars
  <1>4. /\ Sent!SendInv' /\ UNCHANGED <<authority, post, reply, inflight, created>>
        /\ \A c \in Requests : /\ c \in OwnClaims(r) => claims'[c].state = "not_sent"
                               /\ c \notin OwnClaims(r) => claims'[c] = claims[c]
    BY <1>1, <1>3, Sent!ReleaseUnsentKeeps
  <1> QED BY <1>1, <1>2, <1>4 DEF Sent!Open

\* That decision frees the row for sending.
LEMMA ConfirmKeeps ==
  ASSUME IInv, NEW r \in Receipts, ConfirmNotCreated(r)
  PROVE  IInv'
  <1>1. /\ Sent!SendInv' /\ UNCHANGED <<authority, post, reply, inflight, created, attempt>>
        /\ \A c \in Requests : /\ c[1] # r => claims'[c] = claims[c]
                               /\ Sent!Open(c)' => Sent!Open(c)
                               /\ claims'[c].state = "sending" => claims[c].state = "sending"
                               /\ c[1] = r => ~Sent!Open(c)'
    BY ConfirmEffect
  <1>2. /\ row[r] \in Rows /\ RowShape(row[r]) /\ row[r].sync = "uncertain" /\ row[r].reviewed
        /\ row[r].status = "active" /\ row[r].id = None /\ Returned(r) = {}
    BY RowSays DEF ConfirmNotCreated, Unresolved, Active
  <1>3. Prompt => \A c \in Requests : c[1] = r => ~Alive(c) /\ c \notin created
    BY <1>2, RowSays
  <1> DEFINE new == [row[r] EXCEPT !.sync = "pending", !.phase = "none", !.kind = "none",
                                   !.due = FALSE, !.tries = 0, !.corrected = FALSE]
  <1>4. Write(r, new)
    BY DEF ConfirmNotCreated
  <1>5. new \in Rows
    <2>1. 0 \in 0 .. PrepareLimit + VerifyLimit
      BY LimitAssumption
    <2> QED BY <1>2, <2>1 DEF Rows
  <1>6. /\ new.sync = "pending" /\ new.tries = 0 /\ new.status = row[r].status
        /\ new.id = row[r].id /\ new.kind = "none"
    BY <1>2 DEF Rows
  <1> HIDE DEF new
  <1>7. RowShape(new)
    BY <1>2, <1>6, LimitAssumption DEF RowShape
  <1>8. ASSUME NEW a \in Attempts, a[1] = r PROVE WorkerFits(a)'
    <2>1. /\ attempt[a] \in Workers /\ ReturnFits(a)
      BY WorkerOf DEF WorkerFits
    <2>2. attempt[a].remote = None
      BY <1>2, <1>8 DEF Returned
    <2>3. attempt'[a] = [attempt[a] EXCEPT !.handled = attempt[a].handled]
          /\ attempt[a].handled \in BOOLEAN
      BY <1>1, <2>1 DEF Workers
    <2>4. attempt[a].handled => attempt[a].remote # None /\ row'[a[1]].sync \in {"synced", "uncertain"}
      BY <2>1, <2>2 DEF ReturnFits
    <2> QED BY <1>1, <2>3, <2>4, WorkerStays
  <1>9. ConflictFits(r)'
    <2>1. Returned(r)' = Returned(r)
      BY <1>1 DEF Returned
    <2> QED BY <1>2, <2>1 DEF ConflictFits
  <1>10. attempt' \in [Attempts -> Workers] /\ \A a \in Attempts : attempt'[a] = attempt[a]
    BY <1>1 DEF IInv
  <1> QED BY <1>1, <1>3, <1>4, <1>5, <1>6, <1>7, <1>8, <1>9, <1>10, RowStep

\* The scheduler looks at identities whose worker had lost the row.
LEMMA RecoverLateKeeps ==
  ASSUME IInv, NEW r \in Receipts, RecoverLate(r)
  PROVE  IInv'
  <1> DEFINE ids == Returned(r)
             id == CHOOSE x \in ids : TRUE
             free == row[r].id = None /\ ids = {id} /\ ~BoundElsewhere(r, id)
             freed == [row[r] EXCEPT !.sync = "uncertain", !.phase = "accepted",
                                     !.corrected = FALSE]
             new == IF free THEN [freed EXCEPT !.id = id, !.kind = "verify", !.due = TRUE]
                    ELSE [freed EXCEPT !.kind = "blocked", !.due = FALSE]
  <1>1. /\ row[r] \in Rows /\ RowShape(row[r]) /\ row[r].status = "active"
        /\ ids \subseteq created /\ \A c \in ids : c[1] = r /\ c \in Requests
        /\ row[r].sync \notin {"synced", "uncertain"}
               => \A a \in Attempts : a[1] = r => ~attempt[a].handled
    BY RowSays DEF RecoverLate, Active
  <1>2. UNCHANGED sending /\ Late(r) # {}
    BY DEF RecoverLate
  <1>3. attempt' = [a \in Attempts |->
           IF a \in Late(r) THEN [attempt[a] EXCEPT !.handled = TRUE] ELSE attempt[a]]
    BY DEF RecoverLate
  <1>4. IF ids = {row[r].id} THEN UNCHANGED row ELSE Write(r, new)
    BY DEF RecoverLate
  <1>5. \A a \in Attempts : a \in Late(r) <=> a[1] = r /\ attempt[a].remote # None /\ ~attempt[a].handled
    BY DEF Late
  <1>6. \A a \in Attempts : attempt[a] \in Workers
    BY DEF IInv
  <1>7. \A a \in Attempts :
           /\ attempt'[a] \in Workers /\ attempt'[a].remote = attempt[a].remote
           /\ attempt'[a].handled <=> attempt[a].handled \/ a \in Late(r)
           /\ attempt'[a] = [attempt[a] EXCEPT !.handled = attempt'[a].handled]
           /\ a[1] # r => attempt'[a] = attempt[a]
    BY <1>3, <1>5, <1>6 DEF Workers
  <1>8. attempt' \in [Attempts -> Workers]
    BY <1>3, <1>7
  <1>9. ids # {} /\ None \notin ids
    <2>1. PICK a \in Attempts : a[1] = r /\ attempt[a].remote # None
      BY <1>2, <1>5 DEF Late
    <2> QED BY <2>1 DEF Returned
  <1>10. Returned(r)' = ids /\ Late(r)' = {}
    <2>1. Returned(r)' = ids
      <3>1. \A a \in Attempts : attempt'[a].remote = attempt[a].remote
        BY <1>7
      <3>2. Returned(r)' = Returned(r)
        BY ONLY <3>1 DEF Returned
      <3> QED BY <3>2
    <2>2. ASSUME NEW a \in Attempts, a \in Late(r)' PROVE FALSE
      <3>1. a[1] = r /\ attempt'[a].remote # None /\ ~attempt'[a].handled
        BY <2>2 DEF Late
      <3> QED BY <1>5, <1>7, <3>1
    <2>3. \A a \in Late(r)' : a \in Attempts
      BY DEF Late
    <2> QED BY <2>1, <2>2, <2>3
  <1>11. Sent!SendInv'
    BY <1>2, Sent!SendingUntouched DEF IInv, sending
  <1>12. ASSUME row'[r].sync \in {"synced", "uncertain"}
         PROVE  \A a \in Attempts : a[1] = r => WorkerFits(a)'
    <2> TAKE a \in Attempts
    <2> HAVE a[1] = r
    <2>1. ReturnFits(a)
      BY WorkerOf DEF WorkerFits
    <2>2. attempt'[a].handled => attempt[a].remote # None
      BY <1>5, <1>7, <2>1 DEF ReturnFits
    <2>3. \A c \in Requests : Sent!Open(c)' => Sent!Open(c)
      BY <1>2 DEF sending, Sent!Open
    <2>4. attempt'[a].handled \in BOOLEAN
      BY <1>7 DEF Workers
    <2>5. UNCHANGED <<authority, post, reply, inflight, created>>
      BY <1>2 DEF sending
    <2>6. PICK h \in BOOLEAN : h = attempt'[a].handled
      BY <2>4
    <2>7. attempt'[a] = [attempt[a] EXCEPT !.handled = h] /\ (h => attempt[a].remote # None)
      BY <1>7, <2>2, <2>6
    <2> QED BY <1>12, <2>3, <2>5, <2>7, WorkerStays
  <1>13. CASE ids = {row[r].id}
    <2>1. row' = row /\ row[r].id # None /\ row[r].sync \in {"synced", "uncertain"}
      BY <1>1, <1>4, <1>9, <1>13 DEF RowShape
    <2>2. RowFits(r)
      BY DEF IInv
    <2>3. RowFits(r)'
      <3>1. RowShape(row[r])' /\ (row'[r].reviewed => row'[r].sync = "uncertain")
        BY <2>1, <2>2 DEF RowFits
      <3>2. IdentityFits(r)'
        BY <1>2, <2>1, <2>2 DEF RowFits, IdentityFits, sending
      <3>3. UnresolvedFits(r)'
        BY <1>2, <2>1, <2>2 DEF RowFits, UnresolvedFits, sending, Sent!Open, Sent!Frozen
      <3>4. ConflictFits(r)'
        BY <1>10, <1>13 DEF ConflictFits
      <3>5. EffectFits(r)'
        BY <1>2, <2>1, <2>2 DEF RowFits, EffectFits, EffectOf, Alive, sending
      <3> QED BY <3>1, <3>2, <3>3, <3>4, <3>5 DEF RowFits
    <2>4. \A a \in Attempts : a[1] = r => WorkerFits(a)'
      BY <1>12, <2>1
    <2>5. row' \in [Receipts -> Rows]
      BY <2>1 DEF IInv
    <2>6. Sent!Frozen => Sent!Frozen'
      BY <1>2 DEF sending, Sent!Frozen
    <2> QED BY <1>2, <1>7, <1>8, <1>11, <2>1, <2>3, <2>4, <2>5, <2>6, OneReceipt DEF sending
  <1>14. CASE ids # {row[r].id}
    <2>1. Write(r, new)
      BY <1>4, <1>14
    <2>2. freed \in Rows /\ freed.tries = row[r].tries /\ freed.status = "active"
          /\ freed.id = row[r].id /\ freed.sync = "uncertain"
      BY <1>1 DEF Rows
    <2>3. free => id \in created /\ id \in Requests
      BY <1>1
    <2> HIDE DEF id, ids, freed
    <2>4. new \in Rows
      BY <2>2, <2>3 DEF Rows
    <2>5. /\ new.sync = "uncertain" /\ new.tries = row[r].tries /\ new.status = "active"
          /\ free => new.id = id /\ new.kind = "verify"
          /\ ~free => new.id = row[r].id /\ new.kind = "blocked"
      BY <2>2 DEF Rows
    <2>6. \/ new.id = row[r].id
          \/ new.id \in created /\ ~BoundElsewhere(r, new.id)
      BY <2>3, <2>5
    <2>7. (\E x, y \in ids : x # y) => new.kind = "blocked"
      BY <2>5
    <2>8. RowShape(new)
      <3>1. free => row[r].tries <= PrepareLimit
        BY <1>1 DEF RowShape
      <3>2. new.id = None => row[r].id = None
        BY <2>3, <2>5, NoneAssumption
      <3> QED BY <1>1, <2>5, <3>1, <3>2 DEF RowShape
    <2> HIDE DEF new, free
    <2>9. row'[r].sync = "uncertain" /\ row'[r].kind = new.kind
      BY <2>1, <2>4, <2>5, WriteEffect DEF IInv
    <2>10. ConflictFits(r)'
      BY <1>10, <2>7, <2>9 DEF ConflictFits
    <2>11. Prompt => \A c \in Requests : c[1] = r => ~Alive(c)
      BY <1>9, RowSays DEF ids
    <2>12. Prompt => \A c \in Requests : c[1] = r /\ c \in created => claims'[c].state # "not_sent"
      BY <1>2 DEF IInv, RowFits, EffectFits, EffectOf, sending
    <2>13. \A a \in Attempts : IF a[1] = r THEN WorkerFits(a)' ELSE attempt'[a] = attempt[a]
      BY <1>7, <1>12, <2>9
    <2>14. \A c \in Requests : claims'[c] = claims[c] /\ (Sent!Open(c)' => Sent!Open(c))
      BY <1>2 DEF sending, Sent!Open
    <2> QED BY <1>2, <1>8, <1>11, <2>1, <2>4, <2>5, <2>6, <2>8, <2>10, <2>11, <2>12, <2>13,
               <2>14, RowStep DEF sending
  <1> QED BY <1>13, <1>14

-----------------------------------------------------------------------------
(* Workers, where nothing is sent *)

\* Requests that nobody touches.
LEMMA SameRequests ==
  ASSUME UNCHANGED sending, NEW a \in Attempts
  PROVE  /\ AllQuiet(a)' <=> AllQuiet(a)
         /\ AllPast(a)' <=> AllPast(a)
         /\ AllOver(a)' <=> AllOver(a)
         /\ AllClosed(a)' <=> AllClosed(a)
         /\ Sent!Frozen' <=> Sent!Frozen
  BY DEF sending, AllQuiet, AllPast, AllOver, AllClosed, Quiet, Past, Key, Sent!Open, Sent!Frozen

\* What is quiet is past, and what is past is over.
LEMMA QuietIsPast ==
  ASSUME NEW a \in Attempts
  PROVE  /\ AllQuiet(a) => AllPast(a) /\ AllOver(a)
         /\ AllPast(a) => AllOver(a)
  BY DEF AllQuiet, AllPast, AllOver, Quiet, Past

\* Before it leaves, every worker but a sending one is past its requests.
LEMMA NotSendingIsOver ==
  ASSUME IInv, NEW a \in Attempts, attempt[a].stage # "sending"
  PROVE  AllOver(a)
  <1>1. attempt[a] \in Workers /\ StageFits(a)
    BY WorkerOf DEF WorkerFits
  <1> QED BY <1>1, QuietIsPast DEF StageFits, Workers

\* A worker that moves without a request, and at most a mark on its row.
LEMMA WorkerMoves ==
  ASSUME IInv, NEW a \in Attempts, UNCHANGED sending,
         NEW w \in Workers, attempt' = [attempt EXCEPT ![a] = w],
         w.remote = attempt[a].remote, w.handled = attempt[a].handled, StageFits(a)',
         w.stage = "persisted" => attempt[a].stage = "persisted" /\ OnWire(a)' = OnWire(a),
         w.stage \in {"idle", "claimed", "prepared", "again", "sending", "returned"} =>
            attempt[a].stage \in {"idle", "claimed", "prepared", "again", "sending", "returned"},
         NEW new \in Rows, row' = [row EXCEPT ![a[1]] = new],
         /\ new.status = row[a[1]].status /\ new.sync = row[a[1]].sync
         /\ new.phase = row[a[1]].phase /\ new.kind = row[a[1]].kind
         /\ new.tries = row[a[1]].tries /\ new.id = row[a[1]].id
         /\ new.token = row[a[1]].token /\ new.leased = row[a[1]].leased
         /\ new.reviewed => row[a[1]].reviewed
  PROVE  IInv'
  <1> DEFINE r == a[1]
  <1>1. attempt[a] \in Workers /\ r \in Receipts /\ ReturnFits(a)
    BY WorkerOf DEF WorkerFits
  <1>2. attempt'[a] = w /\ \A b \in Attempts \ {a} : attempt'[b] = attempt[b]
    BY DEF IInv
  <1>3. /\ row' \in [Receipts -> Rows] /\ row'[r] = new
        /\ \A s \in Receipts \ {r} : row'[s] = row[s]
    BY <1>1 DEF IInv
  <1>4. attempt' \in [Attempts -> Workers]
    BY DEF IInv
  <1>5. WorkerFits(a)'
    <2>1. ReturnFits(a)'
      BY <1>1, <1>2, <1>3 DEF ReturnFits, sending
    <2> QED BY <2>1 DEF WorkerFits
  <1>6. ASSUME NEW b \in Attempts, b # a PROVE WorkerFits(b)'
    <2>1. attempt'[b] = attempt[b] /\ ReturnFits(b) /\ b[1] \in Receipts
      BY <1>2, <1>6, WorkerOf DEF WorkerFits
    <2>2. row'[b[1]].sync = row[b[1]].sync
      BY <1>3, <2>1
    <2>3. attempt[b].handled => row'[b[1]].sync \in {"synced", "uncertain"}
      BY <2>1, <2>2 DEF ReturnFits
    <2>4. Sent!Frozen => Sent!Frozen'
      BY SameRequests
    <2> QED BY <2>1, <2>3, <2>4, OtherWorker DEF sending
  <1>7. \A b \in Attempts : /\ b[1] = r => WorkerFits(b)'
                            /\ b[1] # r => attempt'[b] = attempt[b]
                            /\ attempt'[b].remote = attempt[b].remote
                            /\ attempt'[b].handled = attempt[b].handled
    BY <1>2, <1>5, <1>6
  <1>8. /\ row'[r].status = row[r].status /\ row'[r].sync = row[r].sync
        /\ row'[r].phase = row[r].phase /\ row'[r].kind = row[r].kind
        /\ row'[r].tries = row[r].tries /\ row'[r].id = row[r].id
        /\ row'[r].token = row[r].token
    BY <1>3
  <1>9. (row'[r].leased <=> row[r].leased) /\ (row'[r].reviewed => row[r].reviewed)
    BY <1>3
  <1> HIDE DEF r
  <1> QED BY <1>1, <1>3, <1>4, <1>7, <1>8, <1>9, RowAside

\* Its row unmarked.
LEMMA WorkerGoesOn ==
  ASSUME IInv, NEW a \in Attempts, UNCHANGED <<row, sending>>,
         NEW w \in Workers, attempt' = [attempt EXCEPT ![a] = w],
         w.remote = attempt[a].remote, w.handled = attempt[a].handled, StageFits(a)',
         w.stage = "persisted" => attempt[a].stage = "persisted" /\ OnWire(a)' = OnWire(a),
         w.stage \in {"idle", "claimed", "prepared", "again", "sending", "returned"} =>
            attempt[a].stage \in {"idle", "claimed", "prepared", "again", "sending", "returned"}
  PROVE  IInv'
  <1>1. a[1] \in Receipts /\ row[a[1]] \in Rows
    BY WorkerOf
  <1>2. row' = [row EXCEPT ![a[1]] = row[a[1]]]
    BY <1>1 DEF IInv
  <1> QED BY <1>1, <1>2, WorkerMoves

\* Raising leaves everything behind.
LEMMA RaiseKeeps ==
  ASSUME IInv, NEW a \in Attempts, UNCHANGED <<row, sending>>, Raise(a, attempt'[a].error),
         attempt'[a].error \in {"none", "transient", "business", "transition", "okki", "uncertain", "database"},
         AllPast(a), attempt'[a].error = "okki" => AllQuiet(a)
  PROVE  IInv'
  <1>1. attempt[a] \in Workers
    BY WorkerOf
  <1> DEFINE w == [attempt[a] EXCEPT !.stage = "raised", !.error = attempt'[a].error]
  <1>2. attempt' = [attempt EXCEPT ![a] = w]
    BY DEF Raise
  <1>3. w \in Workers /\ w.stage = "raised" /\ w.error = attempt'[a].error
        /\ w.remote = attempt[a].remote /\ w.handled = attempt[a].handled
    BY <1>1 DEF Workers
  <1> HIDE DEF w
  <1>4. attempt'[a] = w
    BY <1>2 DEF IInv
  <1>5. StageFits(a)'
    BY <1>3, <1>4, SameRequests DEF StageFits
  <1> QED BY <1>2, <1>3, <1>5, WorkerGoesOn

\* The reads before a POST and what they find.
LEMMA ReadingKeeps ==
  ASSUME IInv, NEW a \in Attempts,
         \/ \E error \in {"transient", "business", "okki"} : PrepareFails(a, error)
         \/ BeforeSendRefused(a) \/ OutcomeFails(a)
  PROVE  IInv'
  <1>1. attempt[a] \in Workers /\ StageFits(a) /\ UNCHANGED <<row, sending>>
    BY WorkerOf DEF WorkerFits, PrepareFails, BeforeSendRefused, OutcomeFails
  <1>2. PICK error \in {"transient", "business", "okki", "transition", "database"} :
           Raise(a, error) /\ (error = "okki" => attempt[a].stage \in {"claimed", "prepared", "again"})
    BY DEF PrepareFails, BeforeSendRefused, OutcomeFails
  <1>3. attempt'[a].error = error
    BY <1>1, <1>2 DEF Raise, IInv, Workers
  <1>4. attempt[a].stage \in {"claimed", "prepared", "again", "returned", "persisted"}
    BY DEF PrepareFails, BeforeSendRefused, OutcomeFails
  <1>5. AllPast(a) /\ (error = "okki" => AllQuiet(a))
    BY <1>1, <1>2, <1>4, QuietIsPast DEF StageFits
  <1> QED BY <1>1, <1>2, <1>3, <1>5, RaiseKeeps

\* A prepared row.
LEMMA PrepareKeeps ==
  ASSUME IInv, NEW a \in Attempts, Prepare(a)
  PROVE  IInv'
  <1>1. /\ attempt[a] \in Workers /\ StageFits(a) /\ a[1] \in Receipts /\ row[a[1]] \in Rows
        /\ attempt[a].stage = "claimed" /\ UNCHANGED sending
    BY WorkerOf DEF WorkerFits, Prepare
  <1> DEFINE w == [attempt[a] EXCEPT !.stage = "prepared"]
             new == [row[a[1]] EXCEPT !.prepared = TRUE]
  <1>2. attempt' = [attempt EXCEPT ![a] = w] /\ row' = [row EXCEPT ![a[1]] = new]
    BY DEF Prepare, To
  <1>3. /\ w \in Workers /\ w.stage = "prepared" /\ w.round = attempt[a].round
        /\ w.remote = attempt[a].remote /\ w.handled = attempt[a].handled
    BY <1>1 DEF Workers
  <1>4. /\ new \in Rows /\ new.status = row[a[1]].status /\ new.sync = row[a[1]].sync
        /\ new.phase = row[a[1]].phase /\ new.kind = row[a[1]].kind
        /\ new.tries = row[a[1]].tries /\ new.id = row[a[1]].id
        /\ new.token = row[a[1]].token /\ new.leased = row[a[1]].leased
        /\ new.reviewed = row[a[1]].reviewed
    BY <1>1 DEF Rows
  <1> HIDE DEF w, new
  <1>5. attempt'[a] = w
    BY <1>2 DEF IInv
  <1>6. StageFits(a)'
    BY <1>1, <1>3, <1>5, SameRequests DEF StageFits
  <1> QED BY <1>1, <1>2, <1>3, <1>4, <1>6, WorkerMoves

\* A worker that leaves without its row.
LEMMA LeaveKeeps ==
  ASSUME IInv, NEW a \in Attempts, UNCHANGED sending, Leave(a, attempt[a].handled), AllOver(a),
         \/ UNCHANGED row
         \/ row' = [row EXCEPT ![a[1]].reviewed = FALSE]
  PROVE  IInv'
  <1>1. attempt[a] \in Workers /\ a[1] \in Receipts /\ row[a[1]] \in Rows
    BY WorkerOf
  <1> DEFINE w == [stage |-> "done", error |-> "none", round |-> 0, sent |-> FALSE,
                   remote |-> attempt[a].remote, handled |-> attempt[a].handled]
  <1>2. attempt' = [attempt EXCEPT ![a] = w]
    BY DEF Leave
  <1>3. /\ w \in Workers /\ w.stage = "done"
        /\ w.remote = attempt[a].remote /\ w.handled = attempt[a].handled
    BY <1>1, AttemptAssumption DEF Workers
  <1> HIDE DEF w
  <1>4. attempt'[a] = w
    BY <1>2 DEF IInv
  <1>5. StageFits(a)'
    BY <1>3, <1>4, SameRequests DEF StageFits
  <1>6. CASE UNCHANGED row
    BY <1>2, <1>3, <1>5, <1>6, WorkerGoesOn
  <1>7. CASE row' = [row EXCEPT ![a[1]].reviewed = FALSE]
    <2> DEFINE new == [row[a[1]] EXCEPT !.reviewed = FALSE]
    <2>1. row' = [row EXCEPT ![a[1]] = new]
      BY <1>7
    <2>2. /\ new \in Rows /\ new.status = row[a[1]].status /\ new.sync = row[a[1]].sync
          /\ new.phase = row[a[1]].phase /\ new.kind = row[a[1]].kind
          /\ new.tries = row[a[1]].tries /\ new.id = row[a[1]].id
          /\ new.token = row[a[1]].token /\ new.leased = row[a[1]].leased
          /\ ~new.reviewed
      BY <1>1 DEF Rows
    <2> HIDE DEF new
    <2> QED BY <1>2, <1>3, <1>5, <2>1, <2>2, WorkerMoves
  <1> QED BY <1>6, <1>7

-----------------------------------------------------------------------------
(* Workers that take, lose or keep their row *)

\* A document that OKKI has and a worker holds is committed before anybody is asked.
LEMMA PersistKeeps ==
  ASSUME IInv, NEW a \in Attempts, Persist(a)
  PROVE  IInv'
  <1>1. /\ attempt[a] \in Workers /\ StageFits(a) /\ ReturnFits(a) /\ a[1] \in Receipts
        /\ attempt[a].stage = "returned" /\ UNCHANGED <<row, sending>>
    BY WorkerOf DEF WorkerFits, Persist
  <1>2. /\ attempt[a].round \in 1 .. MaxRounds /\ OnWire(a) \in created /\ AllPast(a) /\ AllClosed(a)
        /\ OnWire(a) \in Requests /\ OnWire(a)[1] = a[1] /\ ~attempt[a].handled
    BY <1>1, WireKey DEF StageFits, ReturnFits
  <1> DEFINE w == [attempt[a] EXCEPT !.stage = "persisted", !.remote = OnWire(a)]
  <1>3. attempt' = [attempt EXCEPT ![a] = w]
    BY DEF Persist
  <1>4. /\ w \in Workers /\ w.stage = "persisted" /\ w.round = attempt[a].round
        /\ w.remote = OnWire(a) /\ w.handled = attempt[a].handled
    BY <1>1, <1>2 DEF Workers
  <1> HIDE DEF w
  <1>5. attempt'[a] = w /\ \A b \in Attempts \ {a} : attempt'[b] = attempt[b]
    BY <1>3 DEF IInv
  <1>6. OnWire(a)' = OnWire(a)
    BY <1>4, <1>5 DEF OnWire
  <1>7. WorkerFits(a)'
    <2>1. StageFits(a)'
      BY <1>1, <1>2, <1>4, <1>5, <1>6, SameRequests DEF StageFits, sending
    <2>2. ReturnFits(a)'
      BY <1>1, <1>2, <1>4, <1>5, <1>6 DEF ReturnFits, sending
    <2> QED BY <2>1, <2>2 DEF WorkerFits
  <1>8. ASSUME NEW b \in Attempts, b # a PROVE WorkerFits(b)'
    <2>1. attempt'[b] = attempt[b] /\ ReturnFits(b)
      BY <1>5, <1>8, WorkerOf DEF WorkerFits
    <2>2. attempt[b].handled => row'[b[1]].sync \in {"synced", "uncertain"}
      BY <1>1, <2>1 DEF ReturnFits
    <2>3. Sent!Frozen => Sent!Frozen'
      BY <1>1, SameRequests
    <2> QED BY <1>1, <2>1, <2>2, <2>3, OtherWorker DEF sending
  <1> DEFINE r == a[1]
  <1>9. RowFits(r)'
    <2>1. RowFits(r)
      BY <1>1 DEF IInv
    <2>2. RowShape(row[r])' /\ (row'[r].reviewed => row'[r].sync = "uncertain")
      BY <1>1, <2>1 DEF RowFits
    <2>3. IdentityFits(r)'
      BY <1>1, <2>1 DEF RowFits, IdentityFits, sending
    <2>4. UnresolvedFits(r)'
      BY <1>1, <2>1 DEF RowFits, UnresolvedFits, sending, Sent!Open, Sent!Frozen
    <2>5. ConflictFits(r)'
      <3>1. a \in Late(r)'
        BY <1>2, <1>4, <1>5, NoneAssumption DEF Late
      <3> QED BY <3>1 DEF ConflictFits
    <2>6. EffectFits(r)'
      BY <1>1, <2>1 DEF RowFits, EffectFits, EffectOf, Alive, sending
    <2> QED BY <2>2, <2>3, <2>4, <2>5, <2>6 DEF RowFits
  <1>10. Sent!SendInv'
    BY <1>1, Sent!SendingUntouched DEF IInv, sending
  <1>11. row' \in [Receipts -> Rows] /\ attempt' \in [Attempts -> Workers]
    BY <1>1, <1>3, <1>4 DEF IInv
  <1>12. Sent!Frozen => Sent!Frozen'
    BY <1>1, SameRequests
  <1>13. \A b \in Attempts : b[1] # r => attempt'[b] = attempt[b]
    BY <1>5
  <1>14. \A b \in Attempts : b[1] = r => WorkerFits(b)'
    BY <1>7, <1>8
  <1> HIDE DEF r
  <1>15. r \in Receipts
    BY <1>1 DEF r
  <1> QED BY <1>1, <1>9, <1>10, <1>11, <1>12, <1>13, <1>14, <1>15, OneReceipt DEF sending

\* A worker that leaves, or moves, with a write of its row; nothing else happens.
LEMMA WorkerWrites ==
  ASSUME IInv, NEW a \in Attempts, UNCHANGED sending,
         NEW w \in Workers, attempt' = [attempt EXCEPT ![a] = w], w.remote = attempt[a].remote,
         w.handled => w.remote # None, StageFits(a)',
         w.stage = "done" \/ (w.stage = "claimed" /\ w.remote = None),
         NEW new \in Rows, Write(a[1], new), RowShape(new),
         \/ new.id = row[a[1]].id
         \/ new.id \in created /\ ~BoundElsewhere(a[1], new.id),
         ~Sent!Frozen /\ new.sync # "uncertain" =>
            \A c \in Requests : c[1] = a[1] => ~Sent!Open(c),
         Prompt => \A c \in Requests : c[1] = a[1] => ~Alive(c),
         Prompt => \A c \in Requests : c[1] = a[1] /\ c \in created =>
            new.sync \in {"synced", "uncertain"},
         \A b \in Attempts : b[1] = a[1] => ~attempt[b].handled,
         w.handled => new.sync \in {"synced", "uncertain"}
  PROVE  IInv'
  <1> DEFINE r == a[1]
  <1>1. attempt[a] \in Workers /\ r \in Receipts /\ ReturnFits(a)
    BY WorkerOf DEF WorkerFits
  <1>2. attempt'[a] = w /\ \A b \in Attempts \ {a} : attempt'[b] = attempt[b]
    BY DEF IInv
  <1>3. row'[r].sync = new.sync /\ \A s \in Receipts \ {r} : row'[s] = row[s]
    BY <1>1, WriteEffect DEF IInv
  <1>4. attempt' \in [Attempts -> Workers]
    BY DEF IInv
  <1>5. WorkerFits(a)'
    <2>1. ReturnFits(a)'
      BY <1>1, <1>2, <1>3 DEF ReturnFits, sending
    <2> QED BY <2>1 DEF WorkerFits
  <1>6. ASSUME NEW b \in Attempts, b # a PROVE b[1] = r => WorkerFits(b)'
    <2>1. attempt'[b] = attempt[b]
      BY <1>2, <1>6
    <2>2. Sent!Frozen => Sent!Frozen'
      BY SameRequests
    <2> QED BY <2>1, <2>2, OtherWorker DEF sending
  <1>7. Sent!SendInv'
    BY Sent!SendingUntouched DEF IInv, sending
  <1>8. ConflictFits(r)'
    <2>1. Returned(r)' = Returned(r)
      <3>1. \A b \in Attempts : attempt'[b].remote = attempt[b].remote
        BY <1>2
      <3> QED BY ONLY <3>1 DEF Returned
    <2>2. ASSUME NEW x \in Returned(r), NEW y \in Returned(r), x # y PROVE Late(r)' # {}
      <3>1. PICK b \in Attempts : b # a /\ b[1] = r /\ attempt[b].remote # None
        BY <2>2 DEF Returned
      <3>2. b \in Late(r)'
        BY <1>2, <3>1 DEF Late
      <3> QED BY <3>2
    <2> QED BY <2>1, <2>2 DEF ConflictFits
  <1>9. \A c \in Requests : claims'[c] = claims[c] /\ (Sent!Open(c)' <=> Sent!Open(c))
    BY DEF sending, Sent!Open
  <1>10. Prompt => \A c \in Requests : c[1] = r /\ c \in created =>
            new.sync \in {"synced", "uncertain"} /\ claims'[c].state # "not_sent"
    BY <1>1, <1>9 DEF IInv, RowFits, EffectFits, EffectOf
  <1>11. \A b \in Attempts : IF b[1] = r THEN WorkerFits(b)' ELSE attempt'[b] = attempt[b]
    BY <1>2, <1>5, <1>6
  <1> HIDE DEF r
  <1>12. Write(r, new) /\ (new.id = row[r].id \/ (new.id \in created /\ ~BoundElsewhere(r, new.id)))
    BY DEF r
  <1>13. /\ ~Sent!Frozen /\ new.sync # "uncertain" =>
               \A c \in Requests : c[1] = r => ~Sent!Open(c)'
         /\ Prompt => \A c \in Requests : c[1] = r => ~Alive(c)
    BY <1>9 DEF r
  <1> QED BY <1>1, <1>4, <1>7, <1>8, <1>9, <1>10, <1>11, <1>12, <1>13, RowStep DEF sending

\* A worker takes a row while nothing of the invoice is unresolved.
LEMMA ClaimKeeps ==
  ASSUME IInv, NEW a \in Attempts, Claim(a)
  PROVE  IInv'
  <1> DEFINE r == a[1]
  <1>1. /\ attempt[a] \in Workers /\ StageFits(a) /\ ReturnFits(a) /\ r \in Receipts
        /\ a[2] \in 1 .. MaxAttempts /\ attempt[a].stage = "idle" /\ UNCHANGED sending
    BY WorkerOf, Keys DEF WorkerFits, Claim
  <1>2. /\ row[r] \in Rows /\ RowShape(row[r])
        /\ row[r].status = "active" /\ row[r].sync = "pending" /\ row[r].id = None
    BY <1>1, RowSays DEF Claim, Deliverable, Active
  <1>3. \A c \in Requests : ~Sent!Open(c)
    BY OpenMeans DEF Claim, IInv
  <1> DEFINE w == [attempt[a] EXCEPT !.stage = "claimed"]
             new == [row[r] EXCEPT !.sync = "syncing", !.phase = "preparing", !.kind = "none",
                                   !.due = FALSE, !.token = a[2], !.leased = TRUE]
  <1>4. attempt' = [attempt EXCEPT ![a] = w] /\ Write(r, new)
    BY DEF Claim, To
  <1>5. /\ w \in Workers /\ w.stage = "claimed" /\ w.round = attempt[a].round
        /\ w.remote = None /\ ~w.handled /\ attempt[a].remote = None
    BY <1>1 DEF Workers, ReturnFits
  <1>6. new \in Rows
    <2>1. a[2] \in 0 .. MaxAttempts
      BY <1>1, AttemptAssumption
    <2> QED BY <1>2, <2>1 DEF Rows
  <1>7. /\ new.sync = "syncing" /\ new.tries = row[r].tries /\ new.status = row[r].status
        /\ new.id = row[r].id /\ new.kind = "none"
    BY <1>2 DEF Rows
  <1> HIDE DEF w, new
  <1>8. RowShape(new)
    BY <1>2, <1>7 DEF RowShape
  <1>9. attempt'[a] = w
    BY <1>4 DEF IInv
  <1>10. StageFits(a)'
    BY <1>1, <1>5, <1>9, SameRequests DEF StageFits
  <1>11. /\ Prompt => \A c \in Requests : c[1] = r => ~Alive(c) /\ c \notin created
         /\ \A b \in Attempts : b[1] = r => ~attempt[b].handled
    BY <1>1, <1>2, RowSays
  <1> QED BY <1>1, <1>3, <1>4, <1>5, <1>6, <1>7, <1>8, <1>10, <1>11, WorkerWrites

\* What a document or an unresolved request says of the worker whose row it is: the row is
\* in its sending phase and the request is its own.
LEMMA HolderOwns ==
  ASSUME IInv, NEW a \in Attempts, Holds(a), NEW c \in Requests, c[1] = a[1]
  PROVE  /\ Sent!Open(c) /\ ~Sent!Frozen => row[a[1]].phase = "sending" /\ Of(c) = a
         /\ Prompt /\ (c \in created \/ Alive(c)) => row[a[1]].phase = "sending" /\ Of(c) = a
  <1>1. /\ UnresolvedFits(a[1]) /\ EffectFits(a[1]) /\ row[a[1]].sync = "syncing"
        /\ row[a[1]].token = a[2] /\ a = <<a[1], a[2]>>
    BY WorkerOf, Keys DEF RowFits, Holds
  <1>2. Sent!Open(c) /\ ~Sent!Frozen => row[a[1]].phase = "sending" /\ c[2] = a[2]
    BY <1>1 DEF UnresolvedFits
  <1>3. Prompt /\ (c \in created \/ Alive(c)) => row[a[1]].phase = "sending" /\ c[2] = a[2]
    BY <1>1 DEF EffectFits, EffectOf
  <1> QED BY <1>1, <1>2, <1>3 DEF Of

\* Nothing is under way for a worker that is past its requests and holds its row.
LEMMA HolderIsPast ==
  ASSUME IInv, NEW a \in Attempts, Holds(a), AllPast(a), Prompt
  PROVE  \A c \in Requests : c[1] = a[1] => ~Alive(c)
  <1> SUFFICES ASSUME NEW c \in Requests, c[1] = a[1], Alive(c) PROVE FALSE
    OBVIOUS
  <1>1. Of(c) = a
    BY HolderOwns
  <1>2. Past(c)
    BY <1>1, Keys DEF AllPast
  <1> QED BY <1>2 DEF Past, Alive

\* The identity that came back is bound to the row of the worker it came back to.
LEMMA AcceptKeeps ==
  ASSUME IInv, NEW a \in Attempts, Accept(a)
  PROVE  IInv'
  <1> DEFINE r == a[1]
  <1>1. /\ attempt[a] \in Workers /\ StageFits(a) /\ ReturnFits(a) /\ r \in Receipts
        /\ attempt[a].stage = "persisted" /\ UNCHANGED sending /\ Holds(a)
        /\ ~BoundElsewhere(r, attempt[a].remote)
    BY WorkerOf DEF WorkerFits, Accept
  <1>2. /\ row[r] \in Rows /\ RowShape(row[r]) /\ row[r].sync = "syncing"
        /\ \A b \in Attempts : b[1] = r => ~attempt[b].handled
    BY <1>1, RowSays DEF Holds
  <1>3. /\ attempt[a].remote \in created /\ attempt[a].remote \in Requests
        /\ attempt[a].remote # None /\ AllPast(a) /\ AllClosed(a)
    <2>1. attempt[a].remote = OnWire(a) /\ attempt[a].round \in 1 .. MaxRounds
          /\ OnWire(a) \in created /\ AllPast(a) /\ AllClosed(a)
      BY <1>1 DEF StageFits, ReturnFits
    <2> QED BY <2>1, WireKey, NoneAssumption
  <1> DEFINE w == [stage |-> "done", error |-> "none", round |-> 0, sent |-> FALSE,
                   remote |-> attempt[a].remote, handled |-> TRUE]
             new == [row[r] EXCEPT !.id = attempt[a].remote, !.sync = "synced",
                                   !.phase = "accepted", !.kind = "verify", !.due = TRUE,
                                   !.tries = 0, !.corrected = FALSE]
  <1>4. attempt' = [attempt EXCEPT ![a] = w] /\ Write(r, new)
    BY DEF Accept, Leave
  <1>5. w \in Workers /\ w.stage = "done" /\ w.remote = attempt[a].remote /\ w.handled
    BY <1>1, AttemptAssumption DEF Workers
  <1>6. new \in Rows
    <2>1. 0 \in 0 .. PrepareLimit + VerifyLimit
      BY LimitAssumption
    <2> QED BY <1>2, <1>3, <2>1 DEF Rows
  <1>7. /\ new.sync = "synced" /\ new.tries = 0 /\ new.status = row[r].status
        /\ new.id = attempt[a].remote /\ new.kind = "verify"
    BY <1>2 DEF Rows
  <1> HIDE DEF w, new
  <1>8. RowShape(new)
    BY <1>2, <1>3, <1>7, LimitAssumption DEF RowShape
  <1>9. attempt'[a] = w
    BY <1>4 DEF IInv
  <1>10. StageFits(a)'
    <2>1. AllOver(a)'
      BY <1>1, <1>3, QuietIsPast, SameRequests
    <2> QED BY <1>5, <1>9, <2>1 DEF StageFits
  <1>11. ~Sent!Frozen => \A c \in Requests : c[1] = r => ~Sent!Open(c)
    <2> SUFFICES ASSUME ~Sent!Frozen, NEW c \in Requests, c[1] = r, Sent!Open(c) PROVE FALSE
      OBVIOUS
    <2>1. Of(c) = a
      BY <1>1, HolderOwns
    <2> QED BY <1>3, <2>1, Keys DEF AllClosed
  <1>12. Prompt => \A c \in Requests : c[1] = r => ~Alive(c)
    BY <1>1, <1>3, HolderIsPast
  <1> QED BY <1>1, <1>2, <1>3, <1>4, <1>5, <1>6, <1>7, <1>8, <1>10, <1>11, <1>12, WorkerWrites

\* What the except clause writes: nothing unresolved and no document is behind a row that
\* it calls failed.
LEMMA FailedEffect ==
  ASSUME IInv, NEW a \in Attempts, Holds(a), attempt[a].stage = "raised"
  PROVE  /\ Failed(a) \in Rows /\ RowShape(Failed(a)) /\ Failed(a).id = row[a[1]].id
         /\ ~Sent!Frozen /\ Failed(a).sync # "uncertain" =>
               \A c \in Requests : c[1] = a[1] => ~Sent!Open(c)
         /\ Prompt => \A c \in Requests : c[1] = a[1] /\ c \in created =>
               Failed(a).sync = "uncertain"
  <1> DEFINE r == a[1]
             sent == attempt[a].sent \/ row[r].phase = "sending"
             error == attempt[a].error
             uncertain == error = "uncertain" \/ (sent /\ error # "okki")
             base == [row[r] EXCEPT !.corrected = FALSE]
             held == ~sent /\ error = "transition" /\ OpenClaims # {}
  <1>1. /\ attempt[a] \in Workers /\ StageFits(a) /\ r \in Receipts
        /\ row[r] \in Rows /\ RowShape(row[r]) /\ row[r].sync = "syncing"
        /\ row[r].id = None /\ row[r].status = "active" /\ row[r].tries < PrepareLimit
    BY WorkerOf, RowSays DEF WorkerFits, Holds, RowShape, Rows
  <1>2. ASSUME ~sent \/ error = "okki", NEW c \in Requests, c[1] = r
        PROVE  /\ ~Sent!Frozen => ~Sent!Open(c)
               /\ Prompt => c \notin created
    <2>1. CASE row[r].phase # "sending"
      BY <1>2, <2>1, HolderOwns
    <2>2. CASE error = "okki"
      <3>1. AllQuiet(a)
        BY <1>1, <2>2 DEF StageFits
      <3>2. Of(c) = a => Quiet(c)
        BY <3>1, Keys DEF AllQuiet
      <3> QED BY <1>2, <3>2, HolderOwns DEF Quiet
    <2> QED BY <1>2, <2>1, <2>2
  <1>3. base \in Rows /\ base.tries = row[r].tries /\ base.status = row[r].status
        /\ base.id = row[r].id /\ base.sync = row[r].sync /\ base.kind = row[r].kind
    BY <1>1 DEF Rows
  <1>4. CASE held
    <2>1. Failed(a) = Held(r)
      BY <1>4 DEF Failed
    <2> QED BY <1>1, <1>2, <1>4, <2>1, HeldEffect
  <1>5. CASE ~held /\ uncertain
    <2> DEFINE new == [base EXCEPT !.sync = "uncertain", !.phase = "sending", !.kind = "unknown",
                                   !.due = FALSE]
    <2>1. Failed(a) = new
      BY <1>5 DEF Failed
    <2> HIDE DEF base
    <2>2. /\ new \in Rows /\ new.sync = "uncertain" /\ new.tries = base.tries
          /\ new.status = base.status /\ new.id = base.id /\ new.kind = "unknown"
      BY <1>3 DEF Rows
    <2> HIDE DEF new
    <2> QED BY <1>1, <1>3, <2>1, <2>2 DEF RowShape
  <1>6. CASE ~held /\ ~uncertain /\ ~sent /\ error = "transient"
    <2> DEFINE x == Retried(base, "prepare_retry")
               new == [x EXCEPT !.sync = "failed", !.phase = "preparing"]
    <2>1. Failed(a) = new
      BY <1>6 DEF Failed
    <2>2. RowShape(base)
      BY <1>1, <1>3 DEF RowShape
    <2> HIDE DEF base
    <2>3. /\ x \in Rows /\ x.tries = base.tries + 1 /\ x.status = base.status
          /\ x.id = base.id
          /\ \/ x.kind = "exhausted"
             \/ x.kind = "prepare_retry" /\ base.tries + 1 < PrepareLimit
      BY <1>1, <1>3, <2>2, RetriedEffect
    <2> HIDE DEF x
    <2>4. /\ new \in Rows /\ new.sync = "failed" /\ new.tries = x.tries
          /\ new.status = x.status /\ new.id = x.id /\ new.kind = x.kind
      BY <2>3 DEF Rows
    <2> HIDE DEF new
    <2>5. new.tries <= PrepareLimit /\ (new.kind = "prepare_retry" => new.tries < PrepareLimit)
      <3>1. base.tries \in Int /\ PrepareLimit \in Int
        BY <1>3, LimitAssumption DEF Rows
      <3> QED BY <1>1, <1>3, <2>3, <2>4, <3>1
    <2>6. RowShape(new)
      BY <1>1, <1>3, <2>3, <2>4, <2>5 DEF RowShape
    <2> QED BY <1>1, <1>2, <1>3, <1>6, <2>1, <2>3, <2>4, <2>6
  <1>7. CASE ~held /\ ~uncertain /\ ~(~sent /\ error = "transient")
    <2> DEFINE new == [base EXCEPT !.sync = "failed",
                                   !.phase = IF sent THEN "rejected" ELSE "preparing",
                                   !.kind = "blocked", !.due = FALSE]
    <2>1. Failed(a) = new
      BY <1>7 DEF Failed
    <2>2. ~sent \/ error = "okki"
      BY <1>7
    <2>3. (IF sent THEN "rejected" ELSE "preparing") \in {"rejected", "preparing"}
      OBVIOUS
    <2> HIDE DEF base, sent
    <2>4. /\ new \in Rows /\ new.sync = "failed" /\ new.tries = base.tries
          /\ new.status = base.status /\ new.id = base.id /\ new.kind = "blocked"
      BY <1>3, <2>3 DEF Rows
    <2> HIDE DEF new
    <2>5. RowShape(new)
      BY <1>1, <1>3, <2>4 DEF RowShape
    <2> QED BY <1>1, <1>2, <1>3, <2>1, <2>2, <2>4, <2>5
  <1> QED BY <1>4, <1>5, <1>6, <1>7

\* A worker that ends without success, or dies outside invoke.
LEMMA EndKeeps ==
  ASSUME IInv, NEW a \in Attempts,
         LateResult(a) \/ Handle(a) \/ (Crash(a) /\ attempt[a].stage # "sending")
  PROVE  IInv'
  <1>1. /\ attempt[a] \in Workers /\ StageFits(a) /\ ReturnFits(a) /\ a[1] \in Receipts
    BY WorkerOf DEF WorkerFits
  <1>2. AllOver(a)
    BY NotSendingIsOver DEF LateResult, Handle
  <1>3. UNCHANGED sending /\ Leave(a, attempt[a].handled)
    BY DEF LateResult, Handle, Crash
  <1>4. CASE LateResult(a) \/ (Handle(a) /\ ~Holds(a)) \/ Crash(a)
    <2>1. UNCHANGED row \/ row' = [row EXCEPT ![a[1]].reviewed = FALSE]
      BY <1>4 DEF LateResult, Handle, Crash
    <2> QED BY <1>2, <1>3, <2>1, LeaveKeeps
  <1>5. CASE Handle(a) /\ Holds(a)
    <2>1. Write(a[1], Failed(a)) /\ attempt[a].stage = "raised" /\ AllPast(a)
      BY <1>1, <1>5 DEF Handle, StageFits
    <2>2. /\ Failed(a) \in Rows /\ RowShape(Failed(a)) /\ Failed(a).id = row[a[1]].id
          /\ ~Sent!Frozen /\ Failed(a).sync # "uncertain" =>
                \A c \in Requests : c[1] = a[1] => ~Sent!Open(c)
          /\ Prompt => \A c \in Requests : c[1] = a[1] /\ c \in created =>
                Failed(a).sync = "uncertain"
      BY <1>5, <2>1, FailedEffect
    <2>3. /\ \A b \in Attempts : b[1] = a[1] => ~attempt[b].handled
      BY <1>1, <1>5, RowSays DEF Holds
    <2>4. Prompt => \A c \in Requests : c[1] = a[1] => ~Alive(c)
      BY <1>5, <2>1, HolderIsPast
    <2> DEFINE w == [stage |-> "done", error |-> "none", round |-> 0, sent |-> FALSE,
                     remote |-> attempt[a].remote, handled |-> attempt[a].handled]
    <2>5. attempt' = [attempt EXCEPT ![a] = w]
      BY <1>3 DEF Leave
    <2>6. w \in Workers /\ w.stage = "done" /\ w.remote = attempt[a].remote /\ ~w.handled
      BY <1>1, <2>3, AttemptAssumption DEF Workers
    <2> HIDE DEF w
    <2>7. attempt'[a] = w
      BY <2>5 DEF IInv
    <2>8. StageFits(a)'
      BY <1>2, <1>3, <2>6, <2>7, SameRequests DEF StageFits
    <2> QED BY <1>3, <2>1, <2>2, <2>3, <2>4, <2>5, <2>6, <2>8, WorkerWrites
  <1> QED BY <1>4, <1>5 DEF Handle

-----------------------------------------------------------------------------
(* The request itself: granted, sent, answered, created, given up *)

\* A step of one request that frees nothing keeps every row; its worker answers for itself.
LEMMA RequestStep ==
  ASSUME IInv, NEW c \in Requests, NEW a \in Attempts, Of(c) = a, UNCHANGED <<row, created>>,
         Sent!SendInv', Sent!Frozen => Sent!Frozen',
         NEW w \in Workers, attempt' = [attempt EXCEPT ![a] = w],
         w.remote = attempt[a].remote, w.handled = attempt[a].handled, WorkerFits(a)',
         \A d \in Requests \ {c} :
            /\ claims'[d] = claims[d] /\ post'[d] = post[d] /\ reply'[d] = reply[d]
            /\ d \in inflight' <=> d \in inflight,
         ~Sent!Frozen' => (Sent!Open(c)' => Sent!Open(c)),
         Prompt => (Alive(c)' => Alive(c)) /\ (c \in inflight' => claims'[c].leased),
         claims'[c].state = "not_sent" => claims[c].state = "not_sent"
  PROVE  IInv'
  <1> DEFINE r == a[1]
  <1>1. r \in Receipts /\ c[1] = r
    BY Keys
  <1>2. attempt'[a] = w /\ \A b \in Attempts \ {a} : attempt'[b] = attempt[b]
    BY DEF IInv
  <1>3. ASSUME NEW b \in Attempts, b # a PROVE WorkerFits(b)'
    <2>1. ReturnFits(b) /\ attempt'[b] = attempt[b]
      BY <1>2, <1>3, WorkerOf DEF WorkerFits
    <2>2. attempt[b].handled => row'[b[1]].sync \in {"synced", "uncertain"}
      BY <2>1 DEF ReturnFits
    <2>3. \A d \in Requests : Of(d) = b =>
            /\ claims'[d] = claims[d] /\ post'[d] = post[d] /\ reply'[d] = reply[d]
            /\ (d \in inflight' <=> d \in inflight) /\ (d \in created' <=> d \in created)
      BY <1>3
    <2> QED BY <2>1, <2>2, <2>3, OtherWorker
  <1>4. /\ RowShape(row[r]) /\ IdentityFits(r) /\ UnresolvedFits(r) /\ ConflictFits(r)
        /\ EffectFits(r) /\ (row[r].reviewed => row[r].sync = "uncertain")
    BY <1>1 DEF IInv, RowFits
  <1>5. RowFits(r)'
    <2>1. RowShape(row[r])' /\ (row'[r].reviewed => row'[r].sync = "uncertain")
      BY <1>4
    <2>2. IdentityFits(r)'
      BY <1>4 DEF IdentityFits
    <2>3. UnresolvedFits(r)'
      <3>1. ASSUME NEW d \in Requests, ~Sent!Frozen', Sent!Open(d)' PROVE Sent!Open(d) /\ ~Sent!Frozen
        <4>1. CASE d = c
          BY <3>1, <4>1
        <4>2. CASE d # c
          BY <3>1, <4>2 DEF Sent!Open
        <4> QED BY <4>1, <4>2
      <3> QED BY <1>4, <3>1 DEF UnresolvedFits, Sent!Open
    <2>4. ConflictFits(r)'
      <3>1. \A b \in Attempts : attempt'[b].remote = attempt[b].remote
                                /\ attempt'[b].handled = attempt[b].handled
        BY <1>2
      <3>2. Returned(r)' = Returned(r) /\ Late(r)' = Late(r)
        BY ONLY <3>1 DEF Returned, Late
      <3> QED BY <1>4, <3>2 DEF ConflictFits
    <2>5. EffectFits(r)'
      <3>1. ASSUME Prompt, NEW d \in Requests, Alive(d)' PROVE Alive(d)
        <4>1. CASE d = c
          BY <3>1, <4>1
        <4>2. CASE d # c
          BY <3>1, <4>2 DEF Alive
        <4> QED BY <4>1, <4>2
      <3>2. ASSUME Prompt, NEW d \in Requests, d[1] = r PROVE EffectOf(d)'
        <4>1. EffectOf(d)
          BY <1>4, <3>2 DEF EffectFits
        <4>2. d \in inflight' => claims'[d].leased
          BY <3>2, <4>1 DEF EffectOf
        <4>3. claims'[d].state = "not_sent" => claims[d].state = "not_sent"
          OBVIOUS
        <4>4. \A e \in Requests : Alive(e)' => Alive(e)
          BY <3>1, <3>2 DEF Alive
        <4>5. (Alive(d) => \A e \in Requests : e[1] = d[1] => e \notin created /\ (Alive(e) => e = d))
          BY <4>1 DEF EffectOf
        <4>6. Alive(d)' => \A e \in Requests : e[1] = d[1] => e \notin created' /\ (Alive(e)' => e = d)
          BY <4>4, <4>5 DEF Alive
        <4> QED BY <4>1, <4>2, <4>3, <4>4, <4>6 DEF EffectOf
      <3> QED BY <3>2 DEF EffectFits
    <2> QED BY <2>1, <2>2, <2>3, <2>4, <2>5 DEF RowFits
  <1>6. /\ row' \in [Receipts -> Rows] /\ attempt' \in [Attempts -> Workers]
    BY DEF IInv
  <1>7. \A b \in Attempts : /\ b[1] # r => attempt'[b] = attempt[b]
                            /\ b[1] = r => WorkerFits(b)'
    BY <1>2, <1>3
  <1> HIDE DEF r
  <1> QED BY <1>1, <1>5, <1>6, <1>7, OneReceipt

\* What the other rounds of an attempt are while one request of it moves.
LEMMA OtherRounds ==
  ASSUME NEW a \in Attempts, NEW c \in Requests, Of(c) = a, created' = created,
         attempt[a].round = c[3], Sent!Frozen => Sent!Frozen', OthersQuiet(a),
         \A d \in Requests \ {c} :
            /\ claims'[d] = claims[d] /\ post'[d] = post[d]
            /\ d \in inflight' <=> d \in inflight
  PROVE  /\ attempt'[a].round = c[3] => OthersQuiet(a)'
         /\ post'[c] \in {"none", "over"} => AllOver(a)'
         /\ Past(c)' => AllPast(a)'
         /\ Quiet(c)' => AllQuiet(a)'
         /\ (Sent!Open(c)' => Sent!Frozen') => AllClosed(a)'
  <1>1. /\ c[3] \in 1 .. MaxRounds /\ c = Key(a, c[3])
        /\ \A k \in 1 .. MaxRounds : Key(a, k) \in Requests /\ (k # c[3] => Key(a, k) # c)
    BY Keys
  <1>2. ASSUME NEW k \in 1 .. MaxRounds, k # c[3]
        PROVE  /\ post'[Key(a, k)] \in {"none", "over"}
               /\ Key(a, k) \notin created' \cup inflight'
               /\ claims'[Key(a, k)].state \in {"sending", "unknown"} => Sent!Frozen'
    <2>1. Quiet(Key(a, k))
      BY <1>2 DEF OthersQuiet
    <2> QED BY <1>1, <1>2, <2>1 DEF Quiet, Sent!Open
  <1>3. attempt'[a].round = c[3] => OthersQuiet(a)'
    BY <1>2 DEF OthersQuiet, Quiet, Sent!Open, Key
  <1>4. post'[c] \in {"none", "over"} => AllOver(a)'
    BY <1>1, <1>2 DEF AllOver, Key
  <1>5. Past(c)' => AllPast(a)'
    BY <1>1, <1>2 DEF AllPast, Past, Key
  <1>6. Quiet(c)' => AllQuiet(a)'
    BY <1>1, <1>2 DEF AllQuiet, Quiet, Sent!Open, Key
  <1>7. (Sent!Open(c)' => Sent!Frozen') => AllClosed(a)'
    BY <1>1, <1>2 DEF AllClosed, Sent!Open, Key
  <1> QED BY <1>3, <1>4, <1>5, <1>6, <1>7

\* A sender and the request it has under way.
LEMMA SenderSays ==
  ASSUME IInv, NEW a \in Attempts, attempt[a].stage = "sending"
  PROVE  /\ attempt[a] \in Workers /\ attempt[a].round \in 1 .. MaxRounds
         /\ OnWire(a) \in Requests /\ Of(OnWire(a)) = a /\ OnWire(a)[3] = attempt[a].round
         /\ OthersQuiet(a) /\ attempt[a].remote = None /\ ~attempt[a].handled
         /\ post[OnWire(a)] \in {"ticket", "wire", "answered"}
         /\ reply[OnWire(a)] = "unauthorized" => attempt[a].round < MaxRounds
         /\ Sent!SendInv /\ Sent!RequestFits(OnWire(a)) /\ Sent!PromptFits(OnWire(a))
         /\ Prompt => EffectOf(OnWire(a))
  <1>1. attempt[a] \in Workers /\ StageFits(a) /\ ReturnFits(a) /\ EffectFits(a[1])
    BY WorkerOf DEF WorkerFits, RowFits
  <1>2. attempt[a].round \in 1 .. MaxRounds
    BY <1>1 DEF StageFits
  <1>3. OnWire(a) \in Requests /\ Of(OnWire(a)) = a /\ OnWire(a)[1] = a[1]
        /\ OnWire(a)[3] = attempt[a].round
    BY <1>2, WireKey, Keys DEF OnWire
  <1>4. Sent!SendInv /\ Sent!RequestFits(OnWire(a)) /\ Sent!PromptFits(OnWire(a))
    BY <1>3 DEF IInv, Sent!SendInv
  <1>5. Prompt => EffectOf(OnWire(a))
    BY <1>1, <1>3 DEF EffectFits
  <1> QED BY <1>1, <1>2, <1>3, <1>4, <1>5 DEF StageFits, ReturnFits

\* A ticket becomes a POST, and a POST gets its answer.
LEMMA WireKeeps ==
  ASSUME IInv, NEW a \in Attempts,
         Consume(a) \/ \E r \in Replies : Answer(a, r)
  PROVE  IInv'
  <1>1. attempt[a].stage = "sending" /\ UNCHANGED <<row, attempt>>
    BY DEF Consume, Answer
  <1>2. PICK c \in Requests :
        /\ attempt[a] \in Workers /\ attempt[a].round \in 1 .. MaxRounds
        /\ c = OnWire(a) /\ Of(c) = a /\ c[3] = attempt[a].round
        /\ OthersQuiet(a) /\ attempt[a].remote = None /\ ~attempt[a].handled
        /\ post[c] \in {"ticket", "wire", "answered"}
        /\ reply[c] = "unauthorized" => attempt[a].round < MaxRounds
        /\ Sent!SendInv /\ Sent!RequestFits(c) /\ (Prompt => EffectOf(c))
    BY <1>1, SenderSays
  <1>3. OnWire(a)' = c
    BY <1>1, <1>2 DEF OnWire
  <1>4. \/ Sent!Consume(c)
        \/ \E r : Sent!Answer(c, r) /\ (r = "unauthorized" => attempt[a].round < MaxRounds)
    BY <1>2, SameSender DEF Consume, Answer
  <1>5. Sent!SendInv'
    BY <1>2, <1>4, Sent!ConsumeKeeps, Sent!AnswerKeeps
  <1>6. /\ UNCHANGED <<authority, claims, evidence, created>>
        /\ post'[c] \in {"wire", "answered"}
        /\ \A d \in Requests \ {c} : /\ post'[d] = post[d] /\ reply'[d] = reply[d]
                                     /\ d \in inflight' <=> d \in inflight
        /\ c \in inflight' => Alive(c)
        /\ reply'[c] = "unauthorized" => attempt[a].round < MaxRounds
    <2>1. post \in [Requests -> Sent!Stages] /\ reply \in [Requests -> Sent!Replies]
      BY <1>2 DEF Sent!SendInv, Sent!SendingTypeOK
    <2>2. CASE Sent!Consume(c)
      BY <1>2, <2>1, <2>2 DEF Sent!Consume, Alive
    <2>3. CASE \E r : Sent!Answer(c, r) /\ (r = "unauthorized" => attempt[a].round < MaxRounds)
      BY <1>2, <2>1, <2>3 DEF Sent!Answer, Alive
    <2> QED BY <1>4, <2>2, <2>3
  <1>7. Sent!Frozen' <=> Sent!Frozen
    BY <1>6 DEF Sent!Frozen
  <1>8. WorkerFits(a)'
    <2>1. OthersQuiet(a)'
      BY <1>1, <1>2, <1>6, <1>7, OtherRounds
    <2>2. StageFits(a)'
      BY <1>1, <1>2, <1>3, <1>6, <2>1 DEF StageFits
    <2>3. ReturnFits(a)'
      BY <1>1, <1>2 DEF ReturnFits
    <2> QED BY <2>2, <2>3 DEF WorkerFits
  <1>9. attempt' = [attempt EXCEPT ![a] = attempt[a]]
    BY <1>1 DEF IInv
  <1>10. Prompt => (Alive(c)' => Alive(c)) /\ (c \in inflight' => claims'[c].leased)
    <2>1. Alive(c)' => Alive(c)
      BY <1>6 DEF Alive
    <2>2. ASSUME Prompt, c \in inflight' PROVE claims[c].leased
      <3>1. Alive(c) /\ EffectOf(c) /\ Sent!PromptFits(c)
        BY <1>2, <1>6, <2>2 DEF Sent!SendInv
      <3> QED BY <2>2, <3>1 DEF Alive, EffectOf, Sent!PromptFits
    <2> QED BY <1>6, <2>1, <2>2
  <1>11. Sent!Open(c)' <=> Sent!Open(c)
    BY <1>6 DEF Sent!Open
  <1>12. UNCHANGED <<row, created>>
    BY <1>1, <1>6
  <1>13. Sent!Frozen => Sent!Frozen'
    BY <1>7
  <1> QED BY <1>2, <1>5, <1>6, <1>8, <1>9, <1>10, <1>11, <1>12, <1>13, RequestStep

\* A sender that stops short of its answer, or loses it.
LEMMA GiveUpKeeps ==
  ASSUME IInv, NEW a \in Attempts,
         RefuseTicket(a) \/ Forget(a) \/ (Crash(a) /\ attempt[a].stage = "sending")
  PROVE  IInv'
  <1>1. attempt[a].stage = "sending" /\ UNCHANGED row
    BY DEF RefuseTicket, Forget, Crash
  <1>2. PICK c \in Requests :
        /\ attempt[a] \in Workers /\ attempt[a].round \in 1 .. MaxRounds
        /\ c = OnWire(a) /\ Of(c) = a /\ c[3] = attempt[a].round
        /\ OthersQuiet(a) /\ attempt[a].remote = None /\ ~attempt[a].handled
        /\ Sent!SendInv /\ Sent!RequestFits(c) /\ Sent!PromptFits(c) /\ (Prompt => EffectOf(c))
    BY <1>1, SenderSays
  <1>3. Sent!RefuseTicket(c) \/ Sent!Forget(c) \/ Sent!Die(c)
    BY <1>1, <1>2, SameSender DEF RefuseTicket, Forget, Crash
  <1>4. Sent!SendInv'
    BY <1>2, <1>3, Sent!LeaveKeeps
  <1>5. /\ UNCHANGED <<authority, claims, evidence, created, inflight>>
        /\ post'[c] = "over"
        /\ \A d \in Requests \ {c} : post'[d] = post[d] /\ reply'[d] = reply[d]
    <2>1. post \in [Requests -> Sent!Stages] /\ reply \in [Requests -> Sent!Replies]
      BY <1>2 DEF Sent!SendInv, Sent!SendingTypeOK
    <2> QED BY <1>2, <1>3, <2>1 DEF Sent!RefuseTicket, Sent!Forget, Sent!Die, Sent!Leave
  <1>6. PICK w \in Workers : /\ attempt' = [attempt EXCEPT ![a] = w]
                             /\ w.remote = None /\ ~w.handled
                             /\ \/ w.stage = "done"
                                \/ w.stage = "raised" /\ w.error = "transition"
                                   /\ post[c] \in {"ticket", "answered"}
    <2>1. CASE RefuseTicket(a) \/ Forget(a)
      <3> DEFINE v == [attempt[a] EXCEPT !.stage = "raised", !.error = "transition"]
      <3>1. attempt' = [attempt EXCEPT ![a] = v] /\ post[c] \in {"ticket", "answered"}
        BY <1>2, <2>1 DEF RefuseTicket, Forget, Raise, Sending!RefuseTicket, Sending!Forget
      <3>2. v \in Workers /\ v.stage = "raised" /\ v.error = "transition"
            /\ v.remote = None /\ ~v.handled
        BY <1>2 DEF Workers
      <3> QED BY <3>1, <3>2
    <2>2. CASE Crash(a)
      <3> DEFINE v == [stage |-> "done", error |-> "none", round |-> 0, sent |-> FALSE,
                       remote |-> attempt[a].remote, handled |-> attempt[a].handled]
      <3>1. attempt' = [attempt EXCEPT ![a] = v]
        BY <2>2 DEF Crash, Leave
      <3>2. v \in Workers /\ v.stage = "done" /\ v.remote = None /\ ~v.handled
        BY <1>2, AttemptAssumption DEF Workers
      <3> QED BY <3>1, <3>2
    <2> QED BY <2>1, <2>2
  <1>7. attempt'[a] = w
    BY <1>6 DEF IInv
  <1>8. Sent!Frozen' <=> Sent!Frozen
    BY <1>5 DEF Sent!Frozen
  <1>9. WorkerFits(a)'
    <2>1. AllOver(a)'
      BY <1>2, <1>5, <1>8, OtherRounds
    <2>2. post[c] \in {"ticket", "answered"} => AllPast(a)'
      <3>1. post[c] \in {"ticket", "answered"} => Past(c)'
        BY <1>2, <1>5 DEF Past, Sent!RequestFits, Sent!PromptFits
      <3> QED BY <1>2, <1>5, <1>8, <3>1, OtherRounds
    <2>3. StageFits(a)'
      BY <1>6, <1>7, <2>1, <2>2 DEF StageFits
    <2>4. ReturnFits(a)'
      BY <1>6, <1>7 DEF ReturnFits
    <2> QED BY <2>3, <2>4 DEF WorkerFits
  <1>10. Prompt => (Alive(c)' => Alive(c)) /\ (c \in inflight' => claims'[c].leased)
    BY <1>2, <1>5 DEF Alive, EffectOf
  <1>11. Sent!Open(c)' <=> Sent!Open(c)
    BY <1>5 DEF Sent!Open
  <1>12. UNCHANGED <<row, created>> /\ (Sent!Frozen => Sent!Frozen')
    BY <1>1, <1>5, <1>8
  <1>13. w.remote = attempt[a].remote /\ w.handled = attempt[a].handled
    BY <1>2, <1>6 DEF Workers
  <1> QED BY <1>2, <1>4, <1>5, <1>6, <1>9, <1>10, <1>11, <1>12, <1>13, RequestStep

\* The clock passes a claim's lease.
LEMMA ClaimLeaseKeeps ==
  ASSUME IInv, NEW c \in Requests, ClaimLeaseExpires(c)
  PROVE  IInv'
  <1> PICK a \in Attempts : a = Of(c)
    BY Keys
  <1>1. /\ Sent!SendInv /\ UNCHANGED <<row, attempt>> /\ Sent!ClaimLeaseExpires(c)
        /\ a \in Attempts /\ attempt[a] \in Workers
    BY SameExpiry, Keys DEF ClaimLeaseExpires, IInv
  <1>2. Sent!SendInv'
    BY <1>1, Sent!ExpiryKeeps
  <1>3. /\ Sent!Open(c) /\ claims[c].leased
        /\ claims' = [claims EXCEPT ![c].leased = FALSE]
        /\ Prompt => post[c] \notin {"ticket", "wire"}
        /\ inflight' = IF Prompt THEN inflight \ {c} ELSE inflight
        /\ UNCHANGED <<authority, evidence, post, reply, created>>
    BY <1>1, Sent!ExpiryEffect
  <1>4. claims'[c].state = claims[c].state /\ \A d \in Requests \ {c} : claims'[d] = claims[d]
    <2>1. claims \in [Requests -> Sent!Gates!ClaimRows]
      BY <1>1 DEF Sent!SendInv, Sent!SendingTypeOK
    <2> QED BY <1>3, <2>1 DEF Sent!Gates!ClaimRows
  <1>5. /\ \A d \in Requests : Sent!Open(d)' <=> Sent!Open(d)
        /\ Sent!Frozen' <=> Sent!Frozen
        /\ inflight' \subseteq inflight
    BY <1>3, <1>4 DEF Sent!Open, Sent!Frozen
  <1>6. WorkerFits(a)'
    <2>1. StageFits(a) /\ ReturnFits(a)
      BY <1>1, WorkerOf DEF WorkerFits
    <2>2. OnWire(a)' = OnWire(a)
      BY <1>1 DEF OnWire
    <2>3. \A k \in 1 .. MaxRounds : Sent!Open(Key(a, k))' <=> Sent!Open(Key(a, k))
      BY <1>1, <1>5, Keys DEF Key
    <2>4. AllQuiet(a) => AllQuiet(a)'
      BY <1>3, <1>5, <2>3 DEF AllQuiet, Quiet, Key, Sent!Open
    <2>5. OthersQuiet(a) => OthersQuiet(a)'
      BY <1>1, <1>3, <1>5, <2>3 DEF OthersQuiet, Quiet, Key, Sent!Open
    <2>6. AllPast(a) => AllPast(a)'
      BY <1>3, <1>5 DEF AllPast, Past, Key
    <2>7. AllOver(a) => AllOver(a)'
      BY <1>3 DEF AllOver, Key
    <2>8. AllClosed(a) => AllClosed(a)'
      BY <1>5, <2>3 DEF AllClosed, Key, Sent!Open
    <2>9. StageFits(a)'
      BY <1>1, <1>3, <2>1, <2>2, <2>4, <2>5, <2>6, <2>7, <2>8 DEF StageFits
    <2>10. ReturnFits(a)'
      BY <1>1, <1>3, <2>1, <2>2 DEF ReturnFits
    <2> QED BY <2>9, <2>10 DEF WorkerFits
  <1>7. Prompt => (Alive(c)' => Alive(c)) /\ (c \in inflight' => claims'[c].leased)
    BY <1>3 DEF Alive
  <1>8. attempt' = [attempt EXCEPT ![a] = attempt[a]]
    BY <1>1 DEF IInv
  <1>9. Sent!Open(c)' <=> Sent!Open(c)
    BY <1>4 DEF Sent!Open
  <1>10. Of(c) = a
    OBVIOUS
  <1>11. UNCHANGED <<row, created>> /\ (Sent!Frozen => Sent!Frozen')
    BY <1>1, <1>3, <1>5
  <1>12. \A d \in Requests \ {c} :
            /\ claims'[d] = claims[d] /\ post'[d] = post[d] /\ reply'[d] = reply[d]
            /\ d \in inflight' <=> d \in inflight
    BY <1>3, <1>4
  <1> QED BY <1>1, <1>2, <1>4, <1>6, <1>7, <1>8, <1>9, <1>10, <1>11, <1>12, RequestStep

\* The answer is stored and invoke returns or raises by it.
LEMMA RememberKeeps ==
  ASSUME IInv, NEW a \in Attempts, Remember(a)
  PROVE  IInv'
  <1>1. attempt[a].stage = "sending" /\ UNCHANGED row
    BY DEF Remember
  <1>2. PICK c \in Requests :
        /\ attempt[a] \in Workers /\ attempt[a].round \in 1 .. MaxRounds
        /\ c = OnWire(a) /\ Of(c) = a /\ c[3] = attempt[a].round
        /\ OthersQuiet(a) /\ attempt[a].remote = None /\ ~attempt[a].handled
        /\ reply[c] = "unauthorized" => attempt[a].round < MaxRounds
        /\ Sent!SendInv /\ Sent!RequestFits(c) /\ Sent!PromptFits(c)
    BY <1>1, SenderSays
  <1> DEFINE id == IF reply[c] = "identity" THEN c ELSE None
  <1>3. Sent!Remember(c, id) /\ id \in Requests \cup {None}
    BY <1>2, SameRemember DEF Remember
  <1>4. /\ UNCHANGED <<inflight, created>> /\ post'[c] = "over"
        /\ \A d \in Requests \ {c} :
              claims'[d] = claims[d] /\ post'[d] = post[d] /\ reply'[d] = reply[d]
        /\ Sent!Frozen => Sent!Frozen'
        /\ ~Sent!Frozen' => (Sent!Open(c)' => Sent!Open(c))
        /\ reply[c] \in {"identity", "unauthorized", "rejected"} => (Sent!Open(c)' => Sent!Frozen')
        /\ claims'[c].state = "not_sent" => claims[c].state = "not_sent"
    BY <1>2, <1>3, Sent!RememberEffect
  <1>5. Sent!SendInv'
    BY <1>2, <1>3, Sent!RememberKeeps
  <1> HIDE DEF id
  <1>6. post[c] = "answered" /\ reply[c] \in {"identity", "unauthorized", "rejected", "unknown"}
    <2>1. reply[c] \in Sent!Replies
      BY <1>2 DEF Sent!SendInv, Sent!SendingTypeOK
    <2> QED BY <1>2, <1>3, <2>1 DEF Sent!Remember, Sent!RequestFits, Sent!Replies
  <1>7. PICK w \in Workers :
           /\ attempt' = [attempt EXCEPT ![a] = w]
           /\ w.remote = None /\ ~w.handled /\ w.round = attempt[a].round
           /\ w.stage = IF reply[c] = "identity" THEN "returned"
                        ELSE IF reply[c] = "unauthorized" THEN "again" ELSE "raised"
           /\ w.stage = "raised" /\ w.error = "okki" => reply[c] = "rejected"
    <2>1. CASE reply[c] = "identity"
      <3> DEFINE v == [attempt[a] EXCEPT !.stage = "returned"]
      <3>1. attempt' = [attempt EXCEPT ![a] = v]
        BY <1>2, <2>1 DEF Remember, To
      <3>2. v \in Workers /\ v.stage = "returned" /\ v.remote = None /\ ~v.handled
            /\ v.round = attempt[a].round
        BY <1>2 DEF Workers
      <3> QED BY <2>1, <3>1, <3>2
    <2>2. CASE reply[c] = "unauthorized"
      <3> DEFINE v == [attempt[a] EXCEPT !.stage = "again"]
      <3>1. attempt' = [attempt EXCEPT ![a] = v]
        BY <1>2, <2>2 DEF Remember, To
      <3>2. v \in Workers /\ v.stage = "again" /\ v.remote = None /\ ~v.handled
            /\ v.round = attempt[a].round
        BY <1>2 DEF Workers
      <3> QED BY <2>2, <3>1, <3>2
    <2>3. CASE reply[c] \in {"rejected", "unknown"}
      <3> DEFINE v == [attempt[a] EXCEPT !.stage = "raised",
                          !.error = IF reply[c] = "unknown" THEN "uncertain" ELSE "okki"]
      <3>1. attempt' = [attempt EXCEPT ![a] = v]
        BY <1>2, <2>3 DEF Remember, Raise
      <3>2. v \in Workers /\ v.stage = "raised" /\ v.remote = None /\ ~v.handled
            /\ v.round = attempt[a].round
            /\ v.error = IF reply[c] = "unknown" THEN "uncertain" ELSE "okki"
        BY <1>2 DEF Workers
      <3> HIDE DEF v
      <3>3. v.error = "okki" => reply[c] = "rejected"
        BY <2>3, <3>2
      <3>4. reply[c] # "identity" /\ reply[c] # "unauthorized"
        BY <2>3
      <3> QED BY <3>1, <3>2, <3>3, <3>4
    <2> QED BY <1>6, <2>1, <2>2, <2>3
  <1>8. attempt'[a] = w
    BY <1>7 DEF IInv
  <1>9. WorkerFits(a)'
    <2>1. OnWire(a)' = c
      BY <1>2, <1>7, <1>8 DEF OnWire
    <2>2. Past(c)' /\ (reply[c] \in {"unauthorized", "rejected"} => Quiet(c)')
      BY <1>2, <1>4, <1>6 DEF Past, Quiet, Sent!RequestFits, Sent!PromptFits
    <2>3. /\ AllPast(a)'
          /\ reply[c] \in {"unauthorized", "rejected"} => AllQuiet(a)'
          /\ reply[c] = "identity" => AllClosed(a)'
      BY <1>2, <1>4, <2>2, OtherRounds
    <2>4. reply[c] = "identity" => c \in created
      BY <1>2 DEF Sent!RequestFits
    <2>5. StageFits(a)'
      BY <1>2, <1>4, <1>6, <1>7, <1>8, <2>1, <2>3, <2>4 DEF StageFits
    <2>6. ReturnFits(a)'
      BY <1>6, <1>7, <1>8 DEF ReturnFits
    <2> QED BY <2>5, <2>6 DEF WorkerFits
  <1>10. Prompt => (Alive(c)' => Alive(c)) /\ (c \in inflight' => claims'[c].leased)
    BY <1>2, <1>4, <1>6 DEF Alive, Sent!PromptFits
  <1>11. UNCHANGED <<row, created>>
    BY <1>1, <1>4
  <1>12. w.remote = attempt[a].remote /\ w.handled = attempt[a].handled
    BY <1>2, <1>7 DEF Workers
  <1> QED BY <1>2, <1>4, <1>5, <1>7, <1>9, <1>10, <1>11, <1>12, RequestStep

\* A POST takes effect at OKKI.
LEMMA CreateKeeps ==
  ASSUME IInv, NEW c \in Requests, Remote(c)
  PROVE  IInv'
  <1> DEFINE r == c[1]
  <1>1. /\ Sent!SendInv /\ UNCHANGED <<row, attempt>> /\ Sent!Create(c) /\ r \in Receipts
    BY SameSender, Keys DEF Remote, IInv
  <1>2. Sent!SendInv'
    BY <1>1, Sent!CreateKeeps
  <1>3. /\ c \in inflight /\ inflight' = inflight \ {c} /\ created' = created \cup {c}
        /\ UNCHANGED <<authority, claims, evidence, post, reply>>
    BY <1>1 DEF Sent!Create
  <1>4. Sent!RequestFits(c) /\ c \notin created
    BY <1>1, <1>3 DEF Sent!SendInv, Sent!RequestFits
  <1>5. Sent!Frozen' <=> Sent!Frozen
    BY <1>3 DEF Sent!Frozen
  <1>6. ASSUME NEW a \in Attempts PROVE WorkerFits(a)'
    <2>1. StageFits(a) /\ ReturnFits(a) /\ attempt'[a] = attempt[a] /\ row'[a[1]] = row[a[1]]
      BY <1>1, WorkerOf DEF WorkerFits
    <2>2. OnWire(a)' = OnWire(a)
      BY <1>1 DEF OnWire
    <2>3. AllQuiet(a) => AllQuiet(a)'
      BY <1>3, <1>5 DEF AllQuiet, Quiet, Key, Sent!Open
    <2>4. OthersQuiet(a) => OthersQuiet(a)'
      BY <1>3, <1>5, <2>1 DEF OthersQuiet, Quiet, Key, Sent!Open
    <2>5. AllPast(a) => AllPast(a)'
      BY <1>3 DEF AllPast, Past, Key
    <2>6. AllOver(a) => AllOver(a)'
      BY <1>3 DEF AllOver, Key
    <2>7. AllClosed(a) => AllClosed(a)'
      BY <1>3, <1>5 DEF AllClosed, Key, Sent!Open
    <2>8. StageFits(a)'
      BY <1>3, <2>1, <2>2, <2>3, <2>4, <2>5, <2>6, <2>7 DEF StageFits
    <2>9. ReturnFits(a)'
      BY <1>3, <2>1, <2>2 DEF ReturnFits
    <2> QED BY <2>8, <2>9 DEF WorkerFits
  <1>7. /\ RowShape(row[r]) /\ IdentityFits(r) /\ UnresolvedFits(r) /\ ConflictFits(r)
        /\ EffectFits(r) /\ (row[r].reviewed => row[r].sync = "uncertain")
    BY <1>1 DEF IInv, RowFits
  <1>8. RowFits(r)'
    <2>1. RowShape(row[r])' /\ (row'[r].reviewed => row'[r].sync = "uncertain")
      BY <1>1, <1>7
    <2>2. IdentityFits(r)'
      BY <1>1, <1>3, <1>7 DEF IdentityFits
    <2>3. UnresolvedFits(r)'
      BY <1>1, <1>3, <1>7 DEF UnresolvedFits, Sent!Open, Sent!Frozen
    <2>4. ConflictFits(r)'
      BY <1>1, <1>7 DEF ConflictFits, Returned, Late
    <2>5. EffectFits(r)'
      <3>1. ASSUME Prompt, NEW d \in Requests, d[1] = r PROVE EffectOf(d)'
        <4>1. EffectOf(c) /\ EffectOf(d) /\ Alive(c)
          BY <1>3, <1>7, <3>1 DEF EffectFits, Alive
        <4>2. /\ row[r].sync = "syncing" /\ row[r].phase = "sending" /\ row[r].token = c[2]
              /\ row[r].leased /\ claims[c].leased
              /\ \A e \in Requests : e[1] = r => e \notin created /\ (Alive(e) => e = c)
          BY <1>3, <4>1 DEF EffectOf
        <4>3. claims[c].state # "not_sent"
          BY <1>4, <4>2 DEF Sent!RequestFits, Sent!Open
        <4>4. CASE d = c
          <5>1. ~Alive(c)'
            BY <1>3, <1>4 DEF Alive, Sent!RequestFits
          <5>2. c \notin inflight'
            BY <1>3
          <5> QED BY <1>1, <1>3, <1>7, <4>2, <4>3, <4>4, <5>1, <5>2 DEF EffectOf
        <4>5. CASE d # c
          <5>1. ~Alive(d)'
            BY <1>3, <3>1, <4>2, <4>5 DEF Alive
          <5>2. d \notin inflight' /\ d \notin created'
            BY <1>3, <3>1, <4>2, <4>5, <5>1 DEF Alive
          <5> QED BY <5>1, <5>2 DEF EffectOf
        <4> QED BY <4>4, <4>5
      <3> QED BY <3>1 DEF EffectFits
    <2> QED BY <2>1, <2>2, <2>3, <2>4, <2>5 DEF RowFits
  <1>9. /\ row' \in [Receipts -> Rows] /\ attempt' \in [Attempts -> Workers]
        /\ \A a \in Attempts : attempt'[a] = attempt[a]
        /\ \A s \in Receipts \ {r} : row'[s] = row[s]
    BY <1>1 DEF IInv
  <1>10. \A d \in Requests : d[1] # r =>
            /\ claims'[d] = claims[d] /\ post'[d] = post[d] /\ reply'[d] = reply[d]
            /\ (d \in inflight' <=> d \in inflight) /\ (d \in created' <=> d \in created)
    BY <1>3
  <1>11. created \subseteq created' /\ (Sent!Frozen => Sent!Frozen')
    BY <1>3, <1>5
  <1> HIDE DEF r
  <1> QED BY <1>1, <1>2, <1>6, <1>8, <1>9, <1>10, <1>11, OneReceipt

\* The commit that makes a crash's outcome unknown: the worker still holds the row it read,
\* and with nothing unresolved and no document of the receipt the ticket is its only one.
LEMMA BeforeSendKeeps ==
  ASSUME IInv, NEW a \in Attempts, BeforeSend(a)
  PROVE  IInv'
  <1> DEFINE r == a[1]  k == attempt[a].round + 1
  <1>1. /\ attempt[a] \in Workers /\ StageFits(a) /\ ReturnFits(a) /\ r \in Receipts
        /\ attempt[a].stage \in {"prepared", "again"} /\ StillMine(a) /\ Holds(a)
        /\ a[2] \in 1 .. MaxAttempts /\ row[r] \in Rows
    BY WorkerOf, Keys DEF WorkerFits, BeforeSend, StillMine
  <1>2. k \in 1 .. MaxRounds /\ AllQuiet(a) /\ attempt[a].remote = None /\ ~attempt[a].handled
    BY <1>1, AttemptAssumption DEF StageFits, ReturnFits
  <1>3. PICK c \in Requests : /\ c = Key(a, k) /\ Of(c) = a /\ c[1] = r /\ c[2] = a[2] /\ c[3] = k
                              /\ \A j \in 1 .. MaxRounds : Key(a, j) \in Requests
                                    /\ (j # k => Key(a, j) # c)
    BY <1>2, Keys
  <1>4. Sent!Grant(c, 1) /\ Sent!SendInv
    BY <1>3, SameGrant DEF BeforeSend, IInv
  <1>5. Sent!SendInv'
    BY <1>4, Sent!GrantKeeps
  <1>6. /\ claims[c].state = "absent" /\ post[c] = "none" /\ ~Sent!Frozen
        /\ \A d \in Requests : ~Sent!Open(d)
        /\ authority' = [authority EXCEPT ![Invoice].confirmed = TRUE]
        /\ claims' = [claims EXCEPT ![c] =
              [state |-> "sending", invoice |-> Invoice, route |-> "legacy", epoch |-> 1,
               holdsKey |-> TRUE, externalId |-> None, leased |-> TRUE]]
        /\ post' = [post EXCEPT ![c] = "ticket"]
        /\ UNCHANGED <<evidence, reply, inflight, created>>
    BY <1>4, Sent!GrantEffect
  <1>7. /\ claims'[c].state = "sending" /\ claims'[c].leased /\ post'[c] = "ticket"
        /\ \A d \in Requests \ {c} : claims'[d] = claims[d] /\ post'[d] = post[d]
        /\ ~Sent!Frozen'
    <2>1. /\ claims \in [Requests -> Sent!Gates!ClaimRows] /\ post \in [Requests -> Sent!Stages]
          /\ authority \in [{Invoice} -> Sent!Gates!Authorities]
      BY <1>4 DEF Sent!SendInv, Sent!SendingTypeOK
    <2> QED BY <1>6, <2>1 DEF Sent!Frozen, Sent!Gates!Authorities
  <1>8. reply[c] = "none" /\ c \notin inflight \cup created
    BY <1>4, <1>6 DEF Sent!SendInv, Sent!RequestFits
  <1> DEFINE w == [attempt[a] EXCEPT !.stage = "sending", !.sent = TRUE, !.round = k]
             new == [row[r] EXCEPT !.phase = "sending", !.leased = TRUE]
  <1>9. attempt' = [attempt EXCEPT ![a] = w] /\ row' = [row EXCEPT ![r] = new]
    BY DEF BeforeSend
  <1>10. /\ w \in Workers /\ w.stage = "sending" /\ w.round = k
         /\ w.remote = None /\ ~w.handled
    <2>1. k \in 0 .. MaxRounds
      BY <1>2
    <2> HIDE DEF k
    <2> QED BY <1>1, <1>2, <2>1 DEF Workers
  <1>11. /\ new \in Rows /\ new.status = row[r].status /\ new.sync = row[r].sync
         /\ new.kind = row[r].kind /\ new.tries = row[r].tries /\ new.id = row[r].id
         /\ new.token = row[r].token /\ new.reviewed = row[r].reviewed
         /\ new.phase = "sending" /\ new.leased
    BY <1>1 DEF Rows
  <1> HIDE DEF w, new, r, k
  <1>12. /\ attempt'[a] = w /\ \A b \in Attempts \ {a} : attempt'[b] = attempt[b]
         /\ attempt' \in [Attempts -> Workers]
    BY <1>9, <1>10 DEF IInv
  <1>13. /\ row'[r] = new /\ \A s \in Receipts \ {r} : row'[s] = row[s]
         /\ row' \in [Receipts -> Rows]
    BY <1>1, <1>9, <1>11 DEF IInv
  <1>14. row[r].sync = "syncing" /\ row[r].token = a[2] /\ Returned(r) = {}
    BY <1>1 DEF Holds, StillMine, r
  <1>15. WorkerFits(a)'
    <2>1. OnWire(a)' = c
      BY <1>3, <1>10, <1>12 DEF OnWire
    <2>2. OthersQuiet(a)'
      <3>1. ASSUME NEW j \in 1 .. MaxRounds, j # k
            PROVE  /\ post'[Key(a, j)] \in {"none", "over"}
                   /\ Key(a, j) \notin created' \cup inflight'
                   /\ ~(claims'[Key(a, j)].state \in {"sending", "unknown"})
        <4>1. Quiet(Key(a, j)) /\ Key(a, j) \in Requests \ {c}
          BY <1>2, <1>3, <3>1 DEF AllQuiet
        <4> QED BY <1>6, <1>7, <4>1 DEF Quiet, Sent!Open
      <3> QED BY <1>10, <1>12, <3>1 DEF OthersQuiet, Quiet, Sent!Open, Key
    <2>3. reply'[c] = "none"
      BY <1>6, <1>8
    <2>4. StageFits(a)'
      BY <1>2, <1>7, <1>10, <1>12, <2>1, <2>2, <2>3 DEF StageFits
    <2>5. ReturnFits(a)'
      BY <1>10, <1>12 DEF ReturnFits
    <2> QED BY <2>4, <2>5 DEF WorkerFits
  <1>16. ASSUME NEW b \in Attempts, b # a, b[1] = r PROVE WorkerFits(b)'
    <2>1. attempt'[b] = attempt[b] /\ ReturnFits(b)
      BY <1>12, <1>16, WorkerOf DEF WorkerFits
    <2>2. ~attempt[b].handled
      BY <1>14, <1>16, <2>1 DEF ReturnFits
    <2>3. \A d \in Requests : Of(d) = b =>
            /\ claims'[d] = claims[d] /\ post'[d] = post[d] /\ reply'[d] = reply[d]
            /\ (d \in inflight' <=> d \in inflight) /\ (d \in created' <=> d \in created)
      BY <1>3, <1>6, <1>7, <1>16
    <2>4. created \subseteq created'
      BY <1>6
    <2> QED BY <1>6, <2>1, <2>2, <2>3, <2>4, OtherWorker
  <1>17. /\ RowShape(row[r]) /\ IdentityFits(r) /\ EffectFits(r)
         /\ (row[r].reviewed => row[r].sync = "uncertain")
    BY <1>1 DEF IInv, RowFits
  <1>18. RowFits(r)'
    <2>1. RowShape(row[r])' /\ (row'[r].reviewed => row'[r].sync = "uncertain")
      BY <1>11, <1>13, <1>17 DEF RowShape
    <2>2. IdentityFits(r)'
      BY <1>6, <1>11, <1>13, <1>17 DEF IdentityFits
    <2>3. UnresolvedFits(r)'
      BY <1>3, <1>6, <1>7, <1>11, <1>13, <1>14 DEF UnresolvedFits, Sent!Open
    <2>4. ConflictFits(r)'
      <3>1. \A b \in Attempts : attempt'[b].remote = attempt[b].remote
        BY <1>2, <1>10, <1>12
      <3>2. Returned(r)' = Returned(r)
        BY ONLY <3>1 DEF Returned
      <3> QED BY <1>14, <3>2 DEF ConflictFits
    <2>5. EffectFits(r)'
      <3>1. ASSUME Prompt, NEW d \in Requests, d[1] = r
            PROVE d \notin created' /\ d \notin inflight' /\ (Alive(d)' => d = c)
        <4>1. d \notin created
          <5>1. d \in created => Of(d) = a
            BY <1>1, <3>1, HolderOwns DEF r
          <5>2. Of(d) = a => Quiet(d)
            BY <1>2, Keys DEF AllQuiet
          <5> QED BY <5>1, <5>2 DEF Quiet
        <4>2. d \notin inflight
          <5>1. EffectOf(d) /\ Sent!RequestFits(d) /\ ~Sent!Open(d)
            BY <1>4, <1>6, <1>17, <3>1 DEF EffectFits, Sent!SendInv
          <5> QED BY <5>1 DEF EffectOf, Sent!RequestFits
        <4>3. d # c => claims'[d].state # "sending"
          BY <1>6, <1>7 DEF Sent!Open
        <4> QED BY <1>6, <4>1, <4>2, <4>3 DEF Alive
      <3>2. ASSUME Prompt, NEW d \in Requests, d[1] = r PROVE EffectOf(d)'
        <4>1. d \notin created' /\ d \notin inflight' /\ (Alive(d)' => d = c)
          BY <3>1, <3>2
        <4>2. \A e \in Requests : e[1] = r => e \notin created' /\ (Alive(e)' => e = c)
          BY <3>1, <3>2 DEF Alive
        <4>3. d = c => row'[d[1]].token = d[2]
          BY <1>3, <1>11, <1>13, <1>14
        <4> QED BY <1>11, <1>13, <1>14, <3>2, <4>1, <4>2, <4>3 DEF EffectOf
      <3> QED BY <3>2 DEF EffectFits
    <2> QED BY <2>1, <2>2, <2>3, <2>4, <2>5 DEF RowFits
  <1>19. \A b \in Attempts : /\ b[1] # r => attempt'[b] = attempt[b]
                             /\ b[1] = r => WorkerFits(b)'
    <2>1. \A b \in Attempts : b[1] # r => b # a
      BY DEF r
    <2> QED BY <1>12, <1>15, <1>16, <2>1
  <1>20. \A d \in Requests : d[1] # r =>
            /\ claims'[d] = claims[d] /\ post'[d] = post[d] /\ reply'[d] = reply[d]
            /\ (d \in inflight' <=> d \in inflight) /\ (d \in created' <=> d \in created)
    BY <1>3, <1>6, <1>7
  <1>21. created \subseteq created' /\ (Sent!Frozen => Sent!Frozen')
    BY <1>6
  <1> QED BY <1>1, <1>5, <1>12, <1>13, <1>18, <1>19, <1>20, <1>21, OneReceipt

-----------------------------------------------------------------------------
(* The whole system *)

\* The first state: nothing was claimed, sent or returned.
LEMMA InitKeeps == Init => IInv
  <1> SUFFICES ASSUME Init PROVE IInv
    OBVIOUS
  <1>1. Sending!SendingInit
    BY DEF Init
  <1>2. Sent!SendInv
    BY <1>1, SameInit, Sent!SendingStarts, SettingAssumption
  <1>3. \A c \in Requests : /\ post[c] = "none" /\ claims[c].state = "absent"
                            /\ c \notin created /\ c \notin inflight
    BY <1>1, SameInit DEF Sent!SendingInit, Sent!Gates!NoClaim
  <1>4. 0 \in 0 .. PrepareLimit + VerifyLimit /\ 0 \in 0 .. MaxAttempts /\ 0 \in 0 .. MaxRounds
    BY LimitAssumption, AttemptAssumption
  <1>5. row \in [Receipts -> Rows]
    BY <1>4 DEF Init, Rows
  <1>6. attempt \in [Attempts -> Workers]
    BY <1>4 DEF Init, Workers
  <1>7. ASSUME NEW a \in Attempts PROVE WorkerFits(a)
    <2>1. AllQuiet(a)
      BY <1>3, Keys DEF AllQuiet, Quiet, Sent!Open
    <2>2. /\ attempt[a].stage = "idle" /\ attempt[a].round = 0
          /\ attempt[a].remote = None /\ ~attempt[a].handled
      BY DEF Init
    <2> QED BY <2>1, <2>2 DEF WorkerFits, StageFits, ReturnFits
  <1>8. ASSUME NEW r \in Receipts PROVE RowFits(r)
    <2>1. /\ row[r].status = "active" /\ row[r].sync = "pending" /\ row[r].kind = "none"
          /\ row[r].tries = 0 /\ row[r].id = None /\ ~row[r].reviewed
      BY DEF Init
    <2>2. RowShape(row[r])
      BY <2>1, LimitAssumption DEF RowShape
    <2>3. IdentityFits(r)
      BY <2>1 DEF IdentityFits
    <2>4. UnresolvedFits(r)
      BY <1>3 DEF UnresolvedFits, Sent!Open
    <2>5. ConflictFits(r)
      <3>1. \A a \in Attempts : attempt[a].remote = None
        BY DEF Init
      <3> QED BY <3>1 DEF ConflictFits, Returned
    <2>6. EffectFits(r)
      BY <1>3 DEF EffectFits, EffectOf, Alive
    <2> QED BY <2>1, <2>2, <2>3, <2>4, <2>5, <2>6 DEF RowFits
  <1> QED BY <1>2, <1>5, <1>6, <1>7, <1>8 DEF IInv

\* Nothing happens.
LEMMA StutterKeeps ==
  ASSUME IInv, UNCHANGED vars
  PROVE  IInv'
  <1>1. UNCHANGED <<row, attempt, sending>> /\ row \in [Receipts -> Rows]
        /\ attempt \in [Attempts -> Workers] /\ Sent!SendInv
    BY DEF vars, sending, IInv
  <1>2. Sent!SendInv'
    BY <1>1, Sent!SendingUntouched DEF sending
  <1>3. ASSUME NEW a \in Attempts PROVE WorkerFits(a)'
    <2>1. WorkerFits(a)
      BY WorkerOf
    <2> QED BY <1>1, <2>1, SameRequests
            DEF WorkerFits, StageFits, ReturnFits, OnWire, OthersQuiet, Quiet, Key, sending,
                Sent!Open, Sent!Frozen
  <1>4. ASSUME NEW r \in Receipts PROVE RowFits(r)'
    <2>1. RowFits(r)
      BY DEF IInv
    <2> QED BY <1>1, <2>1 DEF RowFits, IdentityFits, UnresolvedFits, ConflictFits, EffectFits,
                 EffectOf, Alive, Returned, Late, sending, Sent!Open, Sent!Frozen
  <1> QED BY <1>1, <1>2, <1>3, <1>4 DEF IInv

\* A worker's step or its death.
LEMMA WorkerKeeps ==
  ASSUME IInv, NEW a \in Attempts, Worker(a) \/ Crash(a)
  PROVE  IInv'
  <1>1. CASE Claim(a)
    BY <1>1, ClaimKeeps
  <1>2. CASE Prepare(a)
    BY <1>2, PrepareKeeps
  <1>3. CASE (\E error \in {"transient", "business", "okki"} : PrepareFails(a, error))
             \/ BeforeSendRefused(a) \/ OutcomeFails(a)
    BY <1>3, ReadingKeeps
  <1>4. CASE BeforeSend(a)
    BY <1>4, BeforeSendKeeps
  <1>5. CASE Consume(a) \/ \E r \in Replies : Answer(a, r)
    BY <1>5, WireKeeps
  <1>6. CASE RefuseTicket(a) \/ Forget(a) \/ (Crash(a) /\ attempt[a].stage = "sending")
    BY <1>6, GiveUpKeeps
  <1>7. CASE Remember(a)
    BY <1>7, RememberKeeps
  <1>8. CASE Persist(a)
    BY <1>8, PersistKeeps
  <1>9. CASE Accept(a)
    BY <1>9, AcceptKeeps
  <1>10. CASE LateResult(a) \/ Handle(a) \/ (Crash(a) /\ attempt[a].stage # "sending")
    BY <1>10, EndKeeps
  <1> QED BY <1>1, <1>2, <1>3, <1>4, <1>5, <1>6, <1>7, <1>8, <1>9, <1>10 DEF Worker

\* A scheduler's pass or a person's decision about one row.
LEMMA ReceiptKeeps ==
  ASSUME IInv, NEW r \in Receipts, HoldPending(r) \/ RowLeaseExpires(r) \/ Recovery(r) \/ People(r)
  PROVE  IInv'
  <1>1. CASE HoldPending(r)
    BY <1>1, HoldKeeps
  <1>2. CASE RowLeaseExpires(r) \/ Review(r)
    BY <1>2, AsideKeeps
  <1>3. CASE RecoverExpired(r)
    BY <1>3, RecoverExpiredKeeps
  <1>4. CASE PrepareDue(r) \/ Retry(r) \/ Edit(r) \/ Void(r)
    BY <1>4, UnsentKeeps
  <1>5. CASE RecoverLate(r)
    BY <1>5, RecoverLateKeeps
  <1>6. CASE VerifyDue(r)
    <2> DEFINE blocked == [row[r] EXCEPT !.sync = "uncertain", !.kind = "blocked", !.due = FALSE,
                                         !.corrected = FALSE]
               again == [Retried(row[r], "verify") EXCEPT !.corrected = FALSE]
    <2>1. /\ row[r].status = "active" /\ row[r].sync \in {"synced", "uncertain"}
          /\ row[r].id # None /\ row[r].kind = "verify"
      BY <1>6 DEF VerifyDue, Active
    <2>2. \/ \E effective \in BOOLEAN : BindRemote(r, row[r].id, effective)
          \/ Write(r, blocked) /\ UNCHANGED <<attempt, sending>>
          \/ Write(r, again) /\ UNCHANGED <<attempt, sending>>
      BY <1>6 DEF VerifyDue
    <2>3. CASE \E effective \in BOOLEAN : BindRemote(r, row[r].id, effective)
      BY <2>1, <2>3, BindKeeps
    <2>4. ASSUME NEW new, new \in {blocked, again}, Write(r, new), UNCHANGED <<attempt, sending>>
          PROVE  IInv'
      BY <2>1, <2>4, VerifyKeeps
    <2> HIDE DEF blocked, again
    <2> QED BY <2>2, <2>3, <2>4
  <1>7. CASE ConfirmNotCreated(r)
    BY <1>7, ConfirmKeeps
  <1>8. CASE \E id \in created, effective \in BOOLEAN : BindByHand(r, id, effective)
    <2>1. PICK id \in created, effective \in BOOLEAN : BindByHand(r, id, effective)
      BY <1>8
    <2>2. BindRemote(r, id, effective) /\ row[r].sync \in {"synced", "uncertain"}
      BY <2>1 DEF BindByHand, Unresolved
    <2> QED BY <2>2, BindKeeps
  <1> QED BY <1>1, <1>2, <1>3, <1>4, <1>5, <1>6, <1>7, <1>8 DEF Recovery, People

\* Every step keeps all of it.
LEMMA NextKeeps == IInv /\ [Next]_vars => IInv'
  <1> SUFFICES ASSUME IInv, [Next]_vars PROVE IInv'
    OBVIOUS
  <1>1. CASE \E a \in Attempts : Worker(a) \/ Crash(a)
    BY <1>1, WorkerKeeps
  <1>2. CASE \E r \in Receipts : HoldPending(r) \/ RowLeaseExpires(r) \/ Recovery(r) \/ People(r)
    BY <1>2, ReceiptKeeps
  <1>3. CASE \E c \in Requests : Remote(c) \/ ClaimLeaseExpires(c)
    BY <1>3, CreateKeeps, ClaimLeaseKeeps
  <1>4. CASE UNCHANGED vars
    BY <1>4, StutterKeeps
  <1> QED BY <1>1, <1>2, <1>3, <1>4 DEF Next

-----------------------------------------------------------------------------
(* What a step does to a row *)

\* Only a decision takes a row out of `uncertain', and nothing takes its document away.
LEMMA RowGoesOn ==
  ASSUME IInv, [Next]_vars, NEW r \in Receipts
  PROVE  /\ row[r].id # None => row'[r].id = row[r].id
         /\ row[r].sync = "uncertain" /\ row'[r].sync # "uncertain" =>
               \/ row'[r].id \in created
               \/ row[r].reviewed /\ Returned(r) = {} /\ OwnClaims(r)' = {}
  <1> DEFINE Kept == /\ row[r].id # None => row'[r].id = row[r].id
                     /\ row[r].sync = "uncertain" /\ row'[r].sync # "uncertain" =>
                           \/ row'[r].id \in created
                           \/ row[r].reviewed /\ Returned(r) = {} /\ OwnClaims(r)' = {}
  <1>1. row \in [Receipts -> Rows] /\ \A s \in Receipts : row[s] \in Rows /\ RowShape(row[s])
    BY DEF IInv, RowFits
  \* a row that is not bound or uncertain may do what it likes
  <1>2. ASSUME NEW s \in Receipts, row[s].sync \notin {"synced", "uncertain"},
               r # s => row'[r] = row[r]
        PROVE  Kept
    BY <1>1, <1>2 DEF RowShape
  <1>3. ASSUME row'[r].id = row[r].id, row'[r].sync = row[r].sync PROVE Kept
    BY <1>3
  <1>4. ASSUME NEW s \in Receipts, s # r, NEW new, Write(s, new) PROVE Kept
    BY <1>1, <1>3, <1>4 DEF Write
  <1>5. ASSUME NEW s \in Receipts, row[s].sync \notin {"synced", "uncertain"}, NEW new,
               Write(s, new)
        PROVE  Kept
    BY <1>1, <1>2, <1>5 DEF Write
  <1>6. ASSUME NEW s \in Receipts, NEW id, NEW effective \in BOOLEAN, BindRemote(s, id, effective)
        PROVE  Kept
    <2> DEFINE new == [row[s] EXCEPT !.id = id, !.sync = "synced", !.phase = "verified",
                                     !.tries = 0, !.kind = IF effective THEN "none" ELSE "verify",
                                     !.due = ~effective, !.corrected = FALSE]
    <2>1. Write(s, new) /\ id \in created /\ row[s].id \in {None, id}
      BY <1>6 DEF BindRemote, MayBind, Candidates
    <2>2. s = r => row'[r].id = id
      BY <1>1, <2>1 DEF Write, Rows
    <2> HIDE DEF new
    <2> QED BY <1>4, <2>1, <2>2
  <1>7. ASSUME NEW a \in Attempts, Worker(a) \/ Crash(a) PROVE Kept
    <2>1. a[1] \in Receipts
      BY Keys
    <2>2. CASE Claim(a)
      BY <1>5, <2>1, <2>2 DEF Claim, Deliverable
    <2>3. CASE Accept(a)
      BY <1>5, <2>1, <2>3 DEF Accept, Holds
    <2>4. CASE Handle(a)
      BY <1>3, <1>5, <2>1, <2>4 DEF Handle, Holds
    <2>5. CASE Prepare(a)
      BY <1>1, <1>3, <2>1, <2>5 DEF Prepare, Rows
    <2>6. CASE BeforeSend(a)
      BY <1>1, <1>3, <2>1, <2>6 DEF BeforeSend, Rows
    <2>7. CASE LateResult(a)
      BY <1>1, <1>3, <2>1, <2>7 DEF LateResult, Rows
    <2>8. CASE UNCHANGED row
      BY <1>3, <2>8
    <2> QED BY <1>7, <2>2, <2>3, <2>4, <2>5, <2>6, <2>7, <2>8
            DEF Worker, Crash, PrepareFails, BeforeSendRefused, Consume, RefuseTicket, Answer,
                Remember, Forget, Persist, OutcomeFails
  <1>8. ASSUME NEW s \in Receipts, HoldPending(s) \/ RowLeaseExpires(s) PROVE Kept
    <2>1. CASE HoldPending(s)
      BY <1>5, <2>1 DEF HoldPending, Deliverable
    <2>2. CASE RowLeaseExpires(s)
      BY <1>1, <1>3, <2>2 DEF RowLeaseExpires, Rows
    <2> QED BY <1>8, <2>1, <2>2
  <1>9. ASSUME NEW s \in Receipts, Recovery(s) PROVE Kept
    <2>1. CASE RecoverExpired(s)
      BY <1>5, <2>1 DEF RecoverExpired
    <2>2. CASE PrepareDue(s)
      BY <1>5, <2>2 DEF PrepareDue
    <2>3. CASE RecoverLate(s)
      <3> DEFINE ids == Returned(s)
                 id == CHOOSE x \in ids : TRUE
                 freed == [row[s] EXCEPT !.sync = "uncertain", !.phase = "accepted",
                                         !.corrected = FALSE]
                 free == row[s].id = None /\ ids = {id} /\ ~BoundElsewhere(s, id)
                 bound == [freed EXCEPT !.id = id, !.kind = "verify", !.due = TRUE]
                 blocked == [freed EXCEPT !.kind = "blocked", !.due = FALSE]
      <3>1. UNCHANGED row \/ (row[s].id = None /\ Write(s, bound)) \/ Write(s, blocked)
        BY <2>3 DEF RecoverLate
      <3>2. ASSUME s = r, Write(s, bound) PROVE row'[r].sync = "uncertain"
        <4>1. bound.sync = "uncertain"
          BY <1>1 DEF Rows
        <4> HIDE DEF bound
        <4> QED BY <1>1, <3>2, <4>1 DEF Write
      <3>3. ASSUME s = r, Write(s, blocked)
            PROVE row'[r].sync = "uncertain" /\ row'[r].id = row[r].id
        BY <1>1, <3>3 DEF Write, Rows
      <3> HIDE DEF bound, blocked
      <3> QED BY <1>3, <1>4, <3>1, <3>2, <3>3
    <2>4. CASE VerifyDue(s)
      <3> DEFINE again == [Retried(row[s], "verify") EXCEPT !.corrected = FALSE]
                 blocked == [row[s] EXCEPT !.sync = "uncertain", !.kind = "blocked",
                                           !.due = FALSE, !.corrected = FALSE]
      <3>1. \/ \E effective \in BOOLEAN : BindRemote(s, row[s].id, effective)
            \/ Write(s, blocked) \/ Write(s, again)
        BY <2>4 DEF VerifyDue
      <3>2. ASSUME s = r, Write(s, blocked)
            PROVE row'[r].sync = "uncertain" /\ row'[r].id = row[r].id
        BY <1>1, <3>2 DEF Write, Rows
      <3>3. ASSUME s = r, Write(s, again)
            PROVE row'[r].sync = row[r].sync /\ row'[r].id = row[r].id
        BY <1>1, <3>3 DEF Write, Retried, Rows
      <3> HIDE DEF again, blocked
      <3> QED BY <1>3, <1>4, <1>6, <3>1, <3>2, <3>3
    <2> QED BY <1>9, <2>1, <2>2, <2>3, <2>4 DEF Recovery
  <1>10. ASSUME NEW s \in Receipts, People(s) PROVE Kept
    <2>1. CASE Retry(s)
      BY <1>5, <2>1 DEF Retry
    <2>2. CASE Edit(s)
      BY <1>5, <2>2 DEF Edit
    <2>3. CASE Void(s)
      BY <1>5, <2>3 DEF Void
    <2>4. CASE Review(s)
      BY <1>1, <1>3, <2>4 DEF Review, Rows
    <2>5. CASE ConfirmNotCreated(s)
      <3>1. row[s].id = None /\ row[s].reviewed /\ Returned(s) = {}
        BY <2>5 DEF ConfirmNotCreated
      <3>2. OwnClaims(s)' = {}
        <4>1. \A c \in Requests : c[1] = s => ~Sent!Open(c)'
          BY <2>5, ConfirmEffect
        <4> QED BY <4>1 DEF OwnClaims, OpenClaims, Sending!Gates!OpenClaims, Sending!Gates!Open,
                   Sending!Gates!ManuallyReleasable, Sent!Open
      <3>3. CASE s = r
        BY <3>1, <3>2, <3>3
      <3>4. CASE s # r
        BY <1>4, <2>5, <3>4 DEF ConfirmNotCreated
      <3> QED BY <3>3, <3>4
    <2>6. CASE \E id \in created, effective \in BOOLEAN : BindByHand(s, id, effective)
      BY <1>6, <2>6 DEF BindByHand
    <2> QED BY <1>10, <2>1, <2>2, <2>3, <2>4, <2>5, <2>6 DEF People
  <1>11. CASE \E c \in Requests : Remote(c) \/ ClaimLeaseExpires(c)
    BY <1>3, <1>11 DEF Remote, ClaimLeaseExpires
  <1>12. CASE UNCHANGED vars
    BY <1>3, <1>12 DEF vars
  <1> QED BY <1>7, <1>8, <1>9, <1>10, <1>11, <1>12 DEF Next

-----------------------------------------------------------------------------
(* The theorems *)

\* The inductive invariant: the row, the worker that holds it, the claim of its POST and
\* what OKKI did fit each other in every reachable state.
THEOREM DeliveryInvariant == Spec => []IInv
  BY InitKeeps, NextKeeps, PTL DEF Spec

\* Every reachable state of a delivery is well typed.
THEOREM TypeCorrect == Spec => []TypeOK
  <1>1. IInv => TypeOK
    BY SameTypes DEF IInv, Sent!SendInv, TypeOK
  <1> QED BY <1>1, DeliveryInvariant, PTL

\* One receipt never becomes two documents at OKKI, if no POST takes effect after its
\* sender's timeouts: through every crash, retry, recovery and decision
\* (sync_service.deliver, recovery.py, reconciliation_service._resolve).
THEOREM NoReceiptIsDuplicated == ASSUME Prompt PROVE Spec => []NoDuplicateReceipt
  <1>1. ASSUME IInv PROVE NoDuplicateReceipt
    <2>1. ASSUME NEW r \in Receipts PROVE Cardinality(Documents(r)) <= 1
      <3>1. Documents(r) \subseteq Requests
        BY <1>1 DEF Documents, IInv, Sent!SendInv, Sent!SendingTypeOK
      <3>2. \A c, d \in Documents(r) : d = c
        BY <1>1, <3>1 DEF Documents, IInv, RowFits, EffectFits, EffectOf
      <3>3. CASE Documents(r) = {}
        BY <3>3, FS_EmptySet
      <3>4. ASSUME NEW c \in Documents(r) PROVE Cardinality(Documents(r)) = 1
        <4>1. Documents(r) = {c}
          BY <3>2
        <4> QED BY <4>1, FS_Singleton
      <3> QED BY <3>3, <3>4
    <2> QED BY <2>1 DEF NoDuplicateReceipt
  <1> QED BY <1>1, DeliveryInvariant, PTL

\* A request attested as not sent, and every request of a voided receipt, created nothing
\* and never will (transition_service.release_unsent, edit_service.void).
THEOREM NotSentMeansNotSent == ASSUME Prompt PROVE Spec => []NotSentIsTrue
  <1>1. ASSUME IInv PROVE NotSentIsTrue
    <2>1. ASSUME NEW c \in Requests
          PROVE  EffectOf(c) /\ Sent!RequestFits(c) /\ RowShape(row[c[1]]) /\ c[1] \in Receipts
      BY <1>1, Keys DEF IInv, RowFits, EffectFits, Sent!SendInv
    <2>2. created \cup inflight \subseteq Requests
      BY <1>1 DEF IInv, Sent!SendInv, Sent!SendingTypeOK
    <2>3. ASSUME NEW c \in Requests, claims[c].state = "not_sent"
          PROVE  c \notin created \cup inflight
      BY <2>1, <2>3 DEF EffectOf, Sent!RequestFits, Sent!Open
    <2>4. ASSUME NEW c \in created \cup inflight PROVE row[c[1]].status # "voided"
      <3>1. c \in Requests
        BY <2>2
      <3> QED BY <2>1, <3>1 DEF EffectOf, Alive, RowShape
    <2> QED BY <2>3, <2>4 DEF NotSentIsTrue
  <1> QED BY <1>1, DeliveryInvariant, PTL

\* Whatever OKKI does and however late, an unresolved request is never behind a row that
\* anybody takes for unsent, and a conflict of returned identities waits for a person.
THEOREM WhatIsUnresolvedIsParked == Spec => []UnresolvedIsParked
  <1>1. ASSUME IInv, NEW r \in Receipts, authority[Invoice].state = "active", OwnClaims(r) # {}
        PROVE  Active(r) /\ row[r].sync \in {"syncing", "uncertain"}
    <2>1. PICK c \in Requests : c[1] = r /\ Sent!Open(c)
      BY <1>1, OpenMeans DEF IInv
    <2>2. ~Sent!Frozen
      BY <1>1, OpenMeans DEF IInv
    <2>3. row[r] \in Rows /\ RowShape(row[r]) /\ UnresolvedFits(r)
      BY <1>1 DEF IInv, RowFits
    <2>4. row[r].sync \in {"syncing", "uncertain"}
      BY <2>1, <2>2, <2>3 DEF UnresolvedFits
    <2> QED BY <2>3, <2>4 DEF RowShape, Active, Rows
  <1>2. ASSUME IInv, NEW r \in Receipts, Cardinality(Returned(r)) > 1, Late(r) = {}
        PROVE  row[r].sync = "uncertain" /\ row[r].kind = "blocked"
    <2>1. Returned(r) # {}
      BY <1>2, FS_EmptySet
    <2>2. PICK x \in Returned(r) : TRUE
      BY <2>1
    <2>3. Returned(r) # {x}
      BY <1>2, FS_Singleton
    <2>4. \E y \in Returned(r) : x # y
      BY <2>2, <2>3
    <2> QED BY <1>2, <2>2, <2>4 DEF IInv, RowFits, ConflictFits
  <1>3. IInv => UnresolvedIsParked
    BY <1>1, <1>2 DEF UnresolvedIsParked
  <1> QED BY <1>3, DeliveryInvariant, PTL

\* A row leaves `uncertain' only bound to a document, or by a decision after a readback
\* without one that left no request of its own open (reconciliation_service._resolve).
THEOREM UnknownOutcomesAreDecided == Spec => UnknownIsDecided
  <1> DEFINE Decided == \A r \in Receipts : row[r].sync = "uncertain" /\ row'[r].sync # "uncertain"
               => \/ row'[r].id \in created
                  \/ row[r].reviewed /\ Returned(r) = {} /\ OwnClaims(r)' = {}
  <1>1. IInv /\ [Next]_vars => Decided
    BY RowGoesOn
  <1>2. IInv /\ [Next]_vars => [Decided]_vars
    BY <1>1
  <1> QED BY <1>2, DeliveryInvariant, PTL DEF Spec, UnknownIsDecided

\* A document is bound to one receipt, exists and stays bound, and a bound receipt is never
\* sendable again, whoever accepts, recovers or chooses (bind_remote, recover_late).
THEOREM IdentitiesAreStable == Spec => IdentityIsStable
  <1> DEFINE Stable == \A r \in Receipts :
          /\ row[r].id # None => row'[r].id = row[r].id /\ row'[r].sync \in {"synced", "uncertain"}
          /\ row'[r].id # None => row'[r].id \in created' /\ \A s \in Receipts \ {r} : row'[s].id # row'[r].id
  <1>1. IInv /\ [Next]_vars => Stable
    <2> SUFFICES ASSUME IInv, [Next]_vars, NEW r \in Receipts
                 PROVE /\ row[r].id # None => row'[r].id = row[r].id /\ row'[r].sync \in {"synced", "uncertain"}
                       /\ row'[r].id # None => row'[r].id \in created'
                                               /\ \A s \in Receipts \ {r} : row'[s].id # row'[r].id
      OBVIOUS
    <2>1. RowShape(row[r])' /\ IdentityFits(r)'
      BY NextKeeps DEF IInv, RowFits
    <2>2. row[r].id # None => row'[r].id = row[r].id
      BY RowGoesOn
    <2> QED BY <2>1, <2>2 DEF RowShape, IdentityFits
  <1>2. IInv /\ [Next]_vars => [Stable]_vars
    BY <1>1
  <1> QED BY <1>2, DeliveryInvariant, PTL DEF Spec, IdentityIsStable
=============================================================================

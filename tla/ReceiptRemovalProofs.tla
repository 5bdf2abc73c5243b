--------------------------- MODULE ReceiptRemovalProofs ---------------------------
(***************************************************************************)
(* What holds of removals for any number of callers and any amendments by  *)
(* hand: the row, the intent, the claim, the POST and OKKI's document fit  *)
(* each other, whoever ends the deletion and whenever the answer comes.    *)
(***************************************************************************)
EXTENDS ReceiptRemoval, TLAPS

Sent == INSTANCE SendingProofs
    WITH Requests <- Calls, Removals <- Calls, Identities <- {Document}

\* Whoever has captured the row has captured what it still says: a write of the row
\* ends every other call.  A sender is at the step of its ticket.
StepFits(r) ==
    /\ step[r] \in {"remove", "remove read"} => row.sync = "synced"
    /\ step[r] \in {"remove", "remove read", "verify", "verify read", "change", "change read"}
          => Active /\ flow = None
    /\ step[r] \in {"finish", "finish read", "abandon", "abandon read"} => Pending
    /\ step[r] \in {"sending", "sent", "remove", "remove read", "finish", "finish read",
                    "abandon", "abandon read"} => r \in Calls

\* The claim of a caller is of the recorded intent as long as it can still matter.
ClaimFits(c) ==
    /\ step[c] = "sending" <=> post[c] \in {"ticket", "wire", "answered"}
    /\ step[c] = "sending" /\ Sent!Open(c) => flow = c
    /\ claims[c].state = "succeeded" => flow = c
    /\ Sent!Open(c) /\ (claims[c].leased \/ ~Sent!Frozen) => Pending /\ flow = c

\* What is known to be away is away.
DocumentFits == document.state = "active" =>
    /\ created = {} /\ row.status # "remote_deleted"
    /\ \A r \in Readers : step[r] # "finish read" /\ proof[r].state # "deleted"

\* Until the lease ends an abandonment may trust its readback; after it nothing new
\* has happened, and a readback from before it is known as early.
ReleaseFits == prompt =>
    /\ \A c \in Calls : claims[c].state = "not_sent" => c \notin created \/ c \in misread
    /\ ~Sent!Frozen /\ (\E r \in Calls : step[r] = "abandon read" /\ proof[r].state # "early")
          => \A c \in Calls : Sent!Open(c) /\ ~claims[c].leased => c \notin created

Rest == /\ row \in Rows
        /\ flow \in Calls \cup {None}
        /\ document \in [state: DocumentStates, terms: Terms]
        /\ step \in [Readers -> Steps]
        /\ proof \in [Readers -> Proofs]
        /\ misread \subseteq Calls

\* The inductive strengthening of the two invariants.
IInv ==
    /\ Rest /\ Sent!SendInv
    /\ Pending => row.sync = "uncertain" /\ row.kind = "blocked"
    /\ \A r \in Readers : StepFits(r)
    /\ \A c \in Calls : ClaimFits(c)
    /\ DocumentFits
    /\ ReleaseFits

-----------------------------------------------------------------------------
(* The steps of sending are those that SendingProofs is about *)

\* What a sender does without its claim, what a crash does, and what OKKI does.
LEMMA SameSender ==
  ASSUME NEW c \in Calls
  PROVE  /\ Sending!Consume(c) => Sent!Consume(c)
         /\ \A r : Sending!Answer(c, r) => Sent!Answer(c, r)
         /\ Sending!RefuseTicket(c) => Sent!RefuseTicket(c)
         /\ Sending!Forget(c) => Sent!Forget(c)
         /\ Sending!Die(c) => Sent!Die(c)
         /\ Sending!Create(c) => Sent!Create(c)
  BY DEF Sending!Consume, Sent!Consume, Sending!Answer, Sent!Answer, Sending!RefuseTicket,
         Sent!RefuseTicket, Sending!Forget, Sent!Forget, Sending!Die, Sent!Die,
         Sending!Create, Sent!Create, Sending!Leave, Sent!Leave

\* Granting a send.
LEMMA SameGrant ==
  ASSUME NEW c \in Calls, Sending!Grant(c, 1)
  PROVE  Sent!Grant(c, 1)
  BY DEF Sending!Grant, Sent!Grant, Sending!Gates!Start, Sent!Gates!Start,
         Sending!Gates!RequireRoute, Sent!Gates!RequireRoute, Sending!Gates!PhaseAllows,
         Sent!Gates!PhaseAllows, Sending!Gates!WritersReady, Sent!Gates!WritersReady,
         Sending!Gates!OpenClaims, Sent!Gates!OpenClaims, Sending!Gates!Open, Sent!Gates!Open,
         Sending!Gates!ManuallyReleasable, Sent!Gates!ManuallyReleasable

\* Storing an observation.
LEMMA SameObserve ==
  ASSUME NEW c \in Calls, NEW outcome, NEW id
  PROVE  Sending!Gates!Observe(c, outcome, id) => Sent!Gates!Observe(c, outcome, id)
  BY DEF Sending!Gates!Observe, Sent!Gates!Observe, Sending!Gates!Cardinality,
         Sent!Gates!Cardinality, Sending!Cardinality, Sent!Cardinality,
         Sending!Gates!IsFiniteSet, Sent!Gates!IsFiniteSet, Sending!IsFiniteSet, Sent!IsFiniteSet

\* Finishing a request.
LEMMA SameFinish ==
  ASSUME NEW c \in Calls, NEW outcome, NEW id
  PROVE  Sending!Gates!FinishSend(c, outcome, id) => Sent!Gates!FinishSend(c, outcome, id)
  BY SameObserve DEF Sending!Gates!FinishSend, Sent!Gates!FinishSend,
         Sending!Gates!ResolveClaim, Sent!Gates!ResolveClaim,
         Sending!Gates!RepeatObservation, Sent!Gates!RepeatObservation,
         Sending!Gates!ReopenOnConflict, Sent!Gates!ReopenOnConflict,
         Sending!Gates!Contradicts, Sent!Gates!Contradicts, Sending!Gates!Resolved,
         Sent!Gates!Resolved, Sending!Gates!Open, Sent!Gates!Open,
         Sending!Gates!Terminal, Sent!Gates!Terminal,
         Sending!Gates!ManuallyReleasable, Sent!Gates!ManuallyReleasable

\* Storing the answer.
LEMMA SameRemember ==
  ASSUME NEW c \in Calls, Sending!Remember(c, Document)
  PROVE  Sent!Remember(c, Document)
  BY SameFinish DEF Sending!Remember, Sent!Remember, Sending!Outcome, Sent!Outcome,
                    Sending!Leave, Sent!Leave

\* Releasing a request as not sent.
LEMMA SameRelease ==
  ASSUME NEW c \in Calls, Sending!Gates!ConfirmNotSent(c)
  PROVE  Sent!Gates!ConfirmNotSent(c)
  BY SameObserve DEF Sending!Gates!ConfirmNotSent, Sent!Gates!ConfirmNotSent,
         Sending!Gates!Open, Sent!Gates!Open,
         Sending!Gates!PhaseAllows, Sent!Gates!PhaseAllows,
         Sending!Gates!WritersReady, Sent!Gates!WritersReady,
         Sending!Gates!ManuallyReleasable, Sent!Gates!ManuallyReleasable

\* The end of a claim's lease.
LEMMA SameExpiry ==
  ASSUME NEW c \in Calls, Sending!ClaimLeaseExpires(c)
  PROVE  Sent!ClaimLeaseExpires(c)
  BY DEF Sending!ClaimLeaseExpires, Sent!ClaimLeaseExpires, Sending!Gates!LeaseExpires,
         Sent!Gates!LeaseExpires, Sending!Gates!Open, Sent!Gates!Open,
         Sending!Gates!ManuallyReleasable, Sent!Gates!ManuallyReleasable

\* An unresolved claim.
LEMMA SameOpen == \A c : Sending!Gates!Open(c) <=> Sent!Open(c)
  BY DEF Sending!Gates!Open, Sending!Gates!ManuallyReleasable, Sent!Open

\* The types of the shared rows.
LEMMA SameTypes == Sending!SendingTypeOK <=> Sent!SendingTypeOK
  BY DEF Sending!SendingTypeOK, Sent!SendingTypeOK, Sending!Stages, Sent!Stages,
         Sending!Replies, Sent!Replies, Sending!Gates!Authorities, Sent!Gates!Authorities,
         Sending!Gates!Routes, Sent!Gates!Routes, Sending!Gates!ClaimRows, Sent!Gates!ClaimRows,
         Sending!Gates!ClaimStates, Sent!Gates!ClaimStates, Sending!Gates!Terminal,
         Sent!Gates!Terminal, Sending!Gates!ManuallyReleasable, Sent!Gates!ManuallyReleasable,
         Sending!Gates!Observations, Sent!Gates!Observations

\* The first state.
LEMMA SameInit == Sending!SendingInit => Sent!SendingInit
  BY DEF Sending!SendingInit, Sent!SendingInit, Sending!Gates!NoClaim, Sent!Gates!NoClaim

-----------------------------------------------------------------------------
(* Steps of readers *)

\* What a step leaves of the row, of the intent and of sending is what it was.
LEMMA ReaderMoves ==
  ASSUME IInv, NEW r \in Readers, NEW s \in Steps, NEW p \in Proofs,
         UNCHANGED <<row, flow, document, sending>>,
         step' = [step EXCEPT ![r] = s], proof' = [proof EXCEPT ![r] = p],
         step[r] # "sending", s # "sending",
         s \in {"remove", "remove read"} => row.sync = "synced",
         s \in {"remove", "remove read", "verify", "verify read", "change", "change read"}
            => Active /\ flow = None,
         s \in {"finish", "finish read", "abandon", "abandon read"} => Pending,
         s \notin {"idle", "selected", "verify", "verify read", "change", "change read"}
            => r \in Calls,
         s = "finish read" \/ p.state = "deleted" => document.state # "active",
         s = "abandon read" => document.state = "active"
  PROVE  IInv'
  <1>1. Rest'
    BY DEF IInv, Rest, sending
  <1>2. Sent!SendInv'
    BY Sent!SendingUntouched DEF IInv, sending
  <1>3. /\ step'[r] = s /\ \A x \in Readers \ {r} : step'[x] = step[x] /\ proof'[x] = proof[x]
        /\ proof'[r] = p
    BY DEF IInv, Rest, sending
  <1>4. \A x \in Readers : StepFits(x)'
    <2> TAKE x \in Readers
    <2>1. CASE x = r
      BY <1>3, <2>1 DEF StepFits, Active, Pending
    <2>2. CASE x # r
      BY <1>3, <2>2 DEF IInv, StepFits, Active, Pending
    <2> QED BY <2>1, <2>2
  <1>5. \A c \in Calls : ClaimFits(c)'
    <2> TAKE c \in Calls
    <2>1. step'[c] = "sending" <=> step[c] = "sending"
      BY <1>3 DEF Readers
    <2> QED BY <2>1 DEF IInv, ClaimFits, sending, Sent!Open, Sent!Frozen, Active, Pending
  <1>6. DocumentFits'
    BY <1>3 DEF IInv, DocumentFits, sending
  <1>7. ReleaseFits'
    <2>1. CASE s = "abandon read"
      BY <2>1 DEF IInv, ReleaseFits, DocumentFits, sending
    <2>2. CASE s # "abandon read"
      <3>1. \A x \in Calls : step'[x] = "abandon read"
                               => step[x] = "abandon read" /\ proof'[x] = proof[x]
        BY <1>3, <2>2 DEF Readers
      <3> QED BY <3>1 DEF IInv, ReleaseFits, sending, Sent!Open, Sent!Frozen
    <2> QED BY <2>1, <2>2
  <1> QED BY <1>1, <1>2, <1>4, <1>5, <1>6, <1>7 DEF IInv, Active, Pending

\* Callers and the two readers are different, and all of them are readers.
LEMMA WhoIsWho ==
  /\ Calls \subseteq Readers /\ Verifier \in Readers /\ Changer \in Readers
  /\ \A c \in Calls : c # Verifier /\ c # Changer
  BY ReaderAssumption DEF Readers

\* Without new evidence a reader keeps the proof it has.
LEMMA SameProof ==
  ASSUME IInv, NEW r \in Readers
  PROVE  /\ proof = [proof EXCEPT ![r] = proof[r]] /\ proof[r] \in Proofs
         /\ proof[r].state = "deleted" => document.state # "active"
  BY DEF IInv, Rest, DocumentFits

\* What the deletion takes for evidence of absence is true when it is read.
LEMMA EvidenceIsTrue ==
  ASSUME Rest
  PROVE  /\ Evidence \in {"none", "active", "deleted"}
         /\ Evidence = "active" => document.state = "active"
         /\ Evidence = "deleted" => document.state # "active"
  BY DEF Rest, Evidence, DocumentStates

\* The same for a reader that only goes on.
LEMMA ReaderGoesOn ==
  ASSUME IInv, NEW r \in Readers, NEW s \in Steps,
         UNCHANGED <<row, flow, document, proof, sending>>,
         step' = [step EXCEPT ![r] = s], step[r] # "sending", s # "sending",
         s \in {"remove", "remove read"} => row.sync = "synced",
         s \in {"remove", "remove read", "verify", "verify read", "change", "change read"}
            => Active /\ flow = None,
         s \in {"finish", "finish read", "abandon", "abandon read"} => Pending,
         s \notin {"idle", "selected", "verify", "verify read", "change", "change read"}
            => r \in Calls,
         s = "finish read" => document.state # "active",
         s = "abandon read" => document.state = "active"
  PROVE  IInv'
  <1>1. /\ proof' = [proof EXCEPT ![r] = proof[r]] /\ proof[r] \in Proofs
        /\ proof[r].state = "deleted" => document.state # "active"
    BY SameProof
  <1> QED BY <1>1, ReaderMoves

\* Nothing read is one of the things a reader may hold.
LEMMA NoProofIsProof == NoProof \in Proofs /\ NoProof.state = "none" /\ 0 \in Terms
  BY TermAssumption DEF NoProof, Proofs, Terms

\* Every capture and every read of OKKI keeps the invariant.
LEMMA ReadersKeep ==
  ASSUME IInv,
         \/ \E c \in Calls : \/ StartRemove(c) \/ ReadRemove(c) \/ StartFinish(c)
                             \/ ReadFinish(c) \/ StartAbandon(c) \/ ReadAbandon(c)
         \/ Select \/ StartVerify \/ ReadVerify \/ StartChange \/ ReadChange
  PROVE  IInv'
  <1> USE WhoIsWho DEF Steps
  <1>1. ASSUME NEW c \in Calls, StartRemove(c) PROVE IInv'
    BY <1>1, ReaderGoesOn DEF StartRemove, Capture, To
  <1>2. ASSUME NEW c \in Calls, ReadRemove(c) PROVE IInv'
    <2> DEFINE p == [state |-> Evidence, terms |-> 0]
    <2>1. p \in Proofs /\ (p.state = "deleted" => document.state # "active")
      BY EvidenceIsTrue, NoProofIsProof DEF IInv, Proofs
    <2>2. StepFits(c)
      BY DEF IInv
    <2> QED BY <1>2, <2>1, <2>2, ReaderMoves DEF ReadRemove, Learn, To, StepFits
  <1>3. ASSUME NEW c \in Calls, StartFinish(c) PROVE IInv'
    BY <1>3, ReaderGoesOn DEF StartFinish, Capture, To
  <1>4. ASSUME NEW c \in Calls, ReadFinish(c) PROVE IInv'
    <2>1. StepFits(c) /\ document.state # "active"
      BY <1>4, EvidenceIsTrue DEF IInv, ReadFinish
    <2> QED BY <1>4, <2>1, ReaderGoesOn DEF ReadFinish, To, StepFits
  <1>5. ASSUME NEW c \in Calls, StartAbandon(c) PROVE IInv'
    BY <1>5, ReaderGoesOn DEF StartAbandon, Capture, To
  <1>6. ASSUME NEW c \in Calls, ReadAbandon(c) PROVE IInv'
    <2> DEFINE p == [state |-> "active", terms |-> 0]
    <2>1. StepFits(c) /\ document.state = "active"
      BY <1>6, EvidenceIsTrue DEF IInv, ReadAbandon
    <2>2. p \in Proofs
      BY NoProofIsProof DEF Proofs
    <2> QED BY <1>6, <2>1, <2>2, ReaderMoves DEF ReadAbandon, Learn, To, StepFits
  <1>7. CASE Select
    BY <1>7, ReaderGoesOn DEF Select, To
  <1>8. CASE StartVerify
    BY <1>8, ReaderGoesOn DEF StartVerify, Capture, To, Pending
  <1>9. CASE ReadVerify
    <2>1. PICK p \in Details : Learn(Verifier, "verify read", p)
      BY <1>9 DEF ReadVerify
    <2>2. p \in Proofs /\ p.state # "deleted"
      <3>1. CASE p = NoProof
        BY <3>1, NoProofIsProof
      <3>2. CASE p = [state |-> "detail", terms |-> document.terms]
        BY <3>2 DEF Proofs, IInv, Rest
      <3> QED BY <2>1, <3>1, <3>2 DEF Details
    <2>3. StepFits(Verifier) /\ step[Verifier] = "verify"
      BY <1>9 DEF IInv, ReadVerify
    <2> QED BY <2>1, <2>2, <2>3, ReaderMoves DEF Learn, To, StepFits
  <1>10. CASE StartChange
    BY <1>10, ReaderGoesOn DEF StartChange, Capture, To, Pending
  <1>11. CASE ReadChange
    <2> DEFINE p == IF document.state = "gone" THEN [state |-> "deleted", terms |-> 0]
                    ELSE [state |-> "detail", terms |-> document.terms]
    <2>1. p \in Proofs /\ (p.state = "deleted" => document.state # "active")
      BY NoProofIsProof DEF Proofs, IInv, Rest
    <2>2. StepFits(Changer) /\ step[Changer] = "change"
      BY <1>11 DEF IInv, ReadChange
    <2> QED BY <1>11, <2>1, <2>2, ReaderMoves DEF ReadChange, Learn, To, StepFits
  <1> QED BY <1>1, <1>2, <1>3, <1>4, <1>5, <1>6, <1>7, <1>8, <1>9, <1>10, <1>11

-----------------------------------------------------------------------------
(* Steps of the sender, of OKKI and of the clock *)

\* A sender that goes on or leaves, or OKKI that acts: no claim is written.
LEMMA SenderGoesOn ==
  ASSUME IInv, Sent!SendInv', NEW c \in Calls,
         UNCHANGED <<row, flow, authority, claims, prompt, misread>>,
         NEW s \in {step[c], "idle", "sent"}, step' = [step EXCEPT ![c] = s],
         NEW p \in {proof[c], NoProof}, proof' = [proof EXCEPT ![c] = p],
         s = "abandon read" => p = proof[c],
         s = "sending" <=> post'[c] \in {"ticket", "wire", "answered"},
         \A d \in Calls \ {c} : post'[d] = post[d],
         document' \in [state: DocumentStates, terms: Terms],
         document.state # "active" => document'.state # "active",
         created' = created \/ (created' = created \cup {c} /\ c \in inflight
                                /\ document'.state # "active")
  PROVE  IInv'
  <1> USE WhoIsWho
  <1>1. p \in Proofs /\ (p.state = "deleted" => document.state # "active")
    BY NoProofIsProof, SameProof
  <1>2. Rest'
    BY <1>1 DEF IInv, Rest, Steps
  <1>3. /\ step'[c] = s /\ \A x \in Readers \ {c} : step'[x] = step[x] /\ proof'[x] = proof[x]
        /\ proof'[c] = p
    BY DEF IInv, Rest
  <1>4. \A x \in Readers : StepFits(x)'
    <2> TAKE x \in Readers
    <2>1. CASE x = c
      BY <1>3, <2>1 DEF IInv, StepFits, Active, Pending
    <2>2. CASE x # c
      BY <1>3, <2>2 DEF IInv, StepFits, Active, Pending
    <2> QED BY <2>1, <2>2
  <1>5. \A d \in Calls : ClaimFits(d)'
    <2> TAKE d \in Calls
    <2>1. ClaimFits(d) /\ ClaimFits(c)
      BY DEF IInv
    <2>2. CASE d = c
      BY <1>3, <2>1, <2>2 DEF ClaimFits, Sent!Open, Sent!Frozen, Active, Pending
    <2>3. CASE d # c
      BY <1>3, <2>1, <2>3 DEF ClaimFits, Sent!Open, Sent!Frozen, Active, Pending
    <2> QED BY <2>2, <2>3
  <1>6. DocumentFits'
    <2>1. document'.state = "active" => created' = created
      OBVIOUS
    <2>2. \A x \in Readers : step'[x] = "finish read" => step[x] = "finish read"
      BY <1>3
    <2>3. \A x \in Readers : proof'[x].state = "deleted" => document.state # "active"
      BY <1>1, <1>3, SameProof
    <2> QED BY <2>1, <2>2, <2>3 DEF IInv, DocumentFits
  <1>7. ReleaseFits'
    <2>1. \A x \in Calls : step'[x] = "abandon read"
                             => step[x] = "abandon read" /\ proof'[x] = proof[x]
      <3> TAKE x \in Calls
      <3>1. CASE x = c
        BY <1>3, <3>1
      <3>2. CASE x # c
        BY <1>3, <3>2
      <3> QED BY <3>1, <3>2
    <2>2. prompt => \A d \in Calls : d \in created' \ created =>
             claims[d].state # "not_sent" /\ ~(Sent!Open(d) /\ ~claims[d].leased)
      <3>1. Sent!PromptFits(c)
        BY DEF IInv, Sent!SendInv
      <3> QED BY <3>1 DEF Sent!PromptFits, Sent!Open
    <2> QED BY <2>1, <2>2 DEF IInv, ReleaseFits, Sent!Open, Sent!Frozen
  <1> QED BY <1>2, <1>4, <1>5, <1>6, <1>7 DEF IInv, Active, Pending

\* The steps of the sender that write no claim, and OKKI's.
LEMMA SendersKeep ==
  ASSUME IInv, NEW c \in Calls,
         \/ Consume(c) \/ Removed(c)
         \/ \E r \in {"identity", "unknown"} : Answer(c, r)
         \/ EndPost(c) /\ (Sending!RefuseTicket(c) \/ Sending!Forget(c))
         \/ GiveUp(c) /\ step[c] = "sending"
  PROVE  IInv'
  <1> USE WhoIsWho, SameSender
  <1>0. /\ Sent!SendInv /\ Rest /\ ClaimFits(c)
        /\ step = [step EXCEPT ![c] = step[c]] /\ proof = [proof EXCEPT ![c] = proof[c]]
        /\ post \in [Calls -> Sent!Stages]
    BY DEF IInv, Rest, Sent!SendInv, Sent!SendingTypeOK
  <1>1. CASE Consume(c)
    <2>1. /\ Sent!Consume(c) /\ prompt' = prompt
          /\ UNCHANGED <<row, flow, document, step, proof, prompt, misread>> /\ step[c] = "sending"
      BY <1>1 DEF Consume
    <2>2. Sent!SendInv'
      BY <1>0, <2>1, Sent!ConsumeKeeps
    <2>3. /\ post' = [post EXCEPT ![c] = "wire"]
          /\ UNCHANGED <<authority, claims, created>>
      BY <2>1 DEF Sent!Consume
    <2> QED BY <1>0, <2>1, <2>2, <2>3, SenderGoesOn DEF Rest
  <1>2. ASSUME NEW r \in {"identity", "unknown"}, Answer(c, r) PROVE IInv'
    <2>1. /\ Sent!Answer(c, r) /\ prompt' = prompt
          /\ UNCHANGED <<row, flow, document, step, proof, prompt, misread>> /\ step[c] = "sending"
      BY <1>2 DEF Answer
    <2>2. Sent!SendInv'
      BY <1>0, <2>1, Sent!AnswerKeeps
    <2>3. /\ post' = [post EXCEPT ![c] = "answered"]
          /\ UNCHANGED <<authority, claims, created>>
      BY <2>1 DEF Sent!Answer
    <2> QED BY <1>0, <2>1, <2>2, <2>3, SenderGoesOn DEF Rest
  <1>3. CASE EndPost(c) /\ (Sending!RefuseTicket(c) \/ Sending!Forget(c))
    <2>1. /\ Sent!RefuseTicket(c) \/ Sent!Forget(c) \/ Sent!Die(c)
          /\ prompt' = prompt /\ UNCHANGED <<row, flow, document, proof, prompt, misread>>
          /\ step' = [step EXCEPT ![c] = "sent"]
      BY <1>3 DEF EndPost, To
    <2>2. Sent!SendInv'
      BY <1>0, <2>1, Sent!LeaveKeeps
    <2>3. /\ post' = [post EXCEPT ![c] = "over"]
          /\ UNCHANGED <<authority, claims, created>>
      BY <2>1 DEF Sent!RefuseTicket, Sent!Forget, Sent!Die, Sent!Leave
    <2> QED BY <1>0, <2>1, <2>2, <2>3, SenderGoesOn DEF Rest
  <1>4. CASE GiveUp(c) /\ step[c] = "sending"
    <2>1. /\ Sent!RefuseTicket(c) \/ Sent!Forget(c) \/ Sent!Die(c)
          /\ prompt' = prompt /\ UNCHANGED <<row, flow, document, prompt, misread>>
          /\ step' = [step EXCEPT ![c] = "idle"] /\ proof' = [proof EXCEPT ![c] = NoProof]
      BY <1>4 DEF GiveUp, To
    <2>2. Sent!SendInv'
      BY <1>0, <2>1, Sent!LeaveKeeps
    <2>3. /\ post' = [post EXCEPT ![c] = "over"]
          /\ UNCHANGED <<authority, claims, created>>
      BY <2>1 DEF Sent!RefuseTicket, Sent!Forget, Sent!Die, Sent!Leave
    <2> QED BY <1>0, <2>1, <2>2, <2>3, SenderGoesOn DEF Rest
  <1>5. CASE Removed(c)
    <2>1. /\ Sent!Create(c) /\ prompt' = prompt
          /\ UNCHANGED <<row, flow, step, proof, prompt, misread>>
      BY <1>5 DEF Removed
    <2>2. Sent!SendInv'
      BY <1>0, <2>1, Sent!CreateKeeps
    <2>3. /\ c \in inflight /\ created' = created \cup {c}
          /\ UNCHANGED <<authority, claims, post>>
      BY <2>1 DEF Sent!Create
    <2>4. document' \in [state: DocumentStates, terms: Terms] /\ document'.state # "active"
      <3>1. CASE document.state = "active"
        BY <1>0, <1>5, <3>1 DEF Removed, Rest, DocumentStates
      <3>2. CASE document.state # "active"
        BY <1>0, <1>5, <3>2 DEF Removed, Rest
      <3> QED BY <3>1, <3>2
    <2>5. step[c] = "sending" <=> post'[c] \in {"ticket", "wire", "answered"}
      BY <1>0, <2>3 DEF ClaimFits
    <2> QED BY <1>0, <2>1, <2>2, <2>3, <2>4, <2>5, SenderGoesOn
  <1> QED BY <1>1, <1>2, <1>3, <1>4, <1>5

\* A reader that is not sending gives up and leaves nothing behind.
LEMMA GiveUpKeeps ==
  ASSUME IInv, NEW r \in Readers, GiveUp(r)
  PROVE  IInv'
  <1>1. CASE step[r] = "sending"
    <2>1. r \in Calls
      BY <1>1 DEF IInv, StepFits
    <2> QED BY <1>1, <2>1, SendersKeep
  <1>2. CASE step[r] # "sending"
    BY <1>2, NoProofIsProof, ReaderMoves DEF GiveUp, To, Steps, sending
  <1> QED BY <1>1, <1>2

\* What people do in OKKI brings nothing back.
LEMMA ByHandKeeps ==
  ASSUME IInv, ByHand
  PROVE  IInv'
  <1>1. /\ document' \in [state: DocumentStates, terms: Terms]
        /\ document.state # "active" => document'.state # "active"
    <2>1. CASE document' = [document EXCEPT !.terms = @ + 1] /\ document.terms < MaxTerms
      BY <2>1, TermAssumption DEF IInv, Rest, Terms
    <2>2. CASE document' = [document EXCEPT !.state =
                               IF document.state = "active" THEN "removed" ELSE "gone"]
      BY <2>2 DEF IInv, Rest, DocumentStates
    <2> QED BY <2>1, <2>2 DEF ByHand
  <1>2. Sent!SendInv' /\ UNCHANGED <<row, flow, step, proof, sending>>
    BY Sent!SendingUntouched DEF IInv, ByHand, sending
  <1>3. Rest'
    BY <1>1, <1>2 DEF IInv, Rest, sending
  <1>4. (\A r \in Readers : StepFits(r)') /\ (\A c \in Calls : ClaimFits(c)')
    BY <1>2 DEF IInv, StepFits, ClaimFits, sending, Sent!Open, Sent!Frozen, Active, Pending
  <1>5. DocumentFits' /\ ReleaseFits'
    BY <1>1, <1>2 DEF IInv, DocumentFits, ReleaseFits, sending, Sent!Open, Sent!Frozen
  <1> QED BY <1>2, <1>3, <1>4, <1>5 DEF IInv, Active, Pending

\* The sender commits what it was answered: its request was open and is the intent's,
\* or the answer contests what was decided meanwhile.
LEMMA RememberKeeps ==
  ASSUME IInv, NEW c \in Calls, EndPost(c), Sending!Remember(c, Document)
  PROVE  IInv'
  <1> USE WhoIsWho
  <1> DEFINE outcome == Sent!Outcome(reply[c])
  <1>1. /\ Sent!Remember(c, Document) /\ prompt' = prompt /\ step[c] = "sending"
        /\ UNCHANGED <<row, flow, document, proof, prompt, misread>>
        /\ step' = [step EXCEPT ![c] = "sent"]
    BY SameRemember DEF EndPost, To
  <1>2. /\ Sent!SendInv /\ Rest /\ ClaimFits(c) /\ Sent!RequestFits(c)
        /\ claims \in [Calls -> Sent!Gates!ClaimRows] /\ post \in [Calls -> Sent!Stages]
        /\ authority \in [{Invoice} -> Sent!Gates!Authorities]
    BY DEF IInv, Sent!SendInv, Sent!SendingTypeOK
  <1>3. Sent!SendInv'
    BY <1>1, <1>2, Sent!RememberKeeps
  <1>4. /\ Sent!Gates!FinishSend(c, outcome, Document) /\ post' = [post EXCEPT ![c] = "over"]
        /\ created' = created /\ outcome \in {"succeeded", "failed", "unknown"}
    BY <1>1 DEF Sent!Remember, Sent!Leave, Sent!Outcome
  <1>5. \/ /\ Sent!Open(c) /\ UNCHANGED authority
           /\ claims' = [claims EXCEPT ![c] = Sent!Gates!Resolved(c, outcome, Document)]
        \/ UNCHANGED <<authority, claims>>
        \/ /\ claims[c].state \in {"succeeded", "failed", "not_sent"}
           /\ authority' = [authority EXCEPT ![Invoice].state = "frozen"]
           /\ claims' = [claims EXCEPT ![c].state = "unknown"]
    BY <1>2, <1>4, Sent!FinishEffect
  <1> HIDE DEF outcome
  <1>6. /\ \A d \in Calls \ {c} : claims'[d] = claims[d] /\ post'[d] = post[d]
        /\ post'[c] = "over" /\ step'[c] = "sent"
        /\ \A x \in Readers \ {c} : step'[x] = step[x]
    BY <1>1, <1>2, <1>4, <1>5 DEF Rest
  <1>7. Sent!Frozen => Sent!Frozen'
    BY <1>2, <1>5 DEF Sent!Frozen, Sent!Gates!Authorities
  <1>8. \/ /\ Sent!Open(c) /\ (Sent!Frozen' <=> Sent!Frozen)
           /\ claims'[c].state = outcome
           /\ outcome = "unknown" => claims'[c].leased = claims[c].leased
        \/ claims' = claims /\ (Sent!Frozen' <=> Sent!Frozen)
        \/ Sent!Frozen' /\ claims'[c].state = "unknown" /\ ~claims'[c].leased
    <2>1. CASE Sent!Open(c) /\ UNCHANGED authority
               /\ claims' = [claims EXCEPT ![c] = Sent!Gates!Resolved(c, outcome, Document)]
      <3>1. claims'[c] = Sent!Gates!Resolved(c, outcome, Document)
        BY <1>2, <2>1
      <3>2. /\ claims'[c].state = outcome
            /\ outcome = "unknown" => claims'[c].leased = claims[c].leased
        <4>1. claims[c] \in Sent!Gates!ClaimRows
          BY <1>2
        <4> QED BY <3>1, <4>1 DEF Sent!Gates!Resolved, Sent!Gates!ClaimRows, Sent!Gates!Terminal
      <3> QED BY <2>1, <3>2 DEF Sent!Frozen
    <2>2. CASE UNCHANGED <<authority, claims>>
      BY <2>2 DEF Sent!Frozen
    <2>3. CASE /\ claims[c].state \in {"succeeded", "failed", "not_sent"}
               /\ authority' = [authority EXCEPT ![Invoice].state = "frozen"]
               /\ claims' = [claims EXCEPT ![c].state = "unknown"]
      <3>1. ~claims[c].leased
        BY <1>2, <2>3 DEF Sent!RequestFits, Sent!Open
      <3>2. claims'[c].state = "unknown" /\ claims'[c].leased = claims[c].leased
        BY <1>2, <2>3 DEF Sent!Gates!ClaimRows
      <3>3. Sent!Frozen'
        BY <1>2, <2>3 DEF Sent!Frozen, Sent!Gates!Authorities
      <3> QED BY <3>1, <3>2, <3>3
    <2> QED BY <1>5, <2>1, <2>2, <2>3
  <1>9. \A d \in Calls : ClaimFits(d)'
    <2> TAKE d \in Calls
    <2>1. ClaimFits(d)
      BY DEF IInv
    <2>2. CASE d = c
      BY <1>1, <1>2, <1>4, <1>6, <1>8, <2>2 DEF ClaimFits, Sent!Open, Active, Pending
    <2>3. CASE d # c
      BY <1>1, <1>6, <1>7, <2>1, <2>3 DEF ClaimFits, Sent!Open, Active, Pending
    <2> QED BY <2>2, <2>3
  <1>10. \A x \in Readers : StepFits(x)'
    <2> TAKE x \in Readers
    <2>1. CASE x = c
      BY <1>6, <2>1 DEF StepFits
    <2>2. CASE x # c
      BY <1>1, <1>6, <2>2 DEF IInv, StepFits, Active, Pending
    <2> QED BY <2>1, <2>2
  <1>11. ReleaseFits'
    <2>1. \A x \in Calls : step'[x] = "abandon read"
                             => step[x] = "abandon read" /\ proof'[x] = proof[x]
      BY <1>1, <1>6
    <2>2. \A d \in Calls : claims'[d].state = "not_sent" => claims[d].state = "not_sent"
      BY <1>4, <1>6, <1>8
    <2>3. ~Sent!Frozen' => \A d \in Calls :
             Sent!Open(d)' /\ ~claims'[d].leased => Sent!Open(d) /\ ~claims[d].leased
      BY <1>4, <1>6, <1>8 DEF Sent!Open
    <2>4. ReleaseFits
      BY DEF IInv
    <2>5. (prompt' <=> prompt) /\ created' = created /\ misread' = misread
      BY <1>1, <1>4
    <2> SUFFICES ASSUME prompt
                 PROVE  /\ \A d \in Calls : claims'[d].state = "not_sent"
                                             => d \notin created \/ d \in misread
                        /\ ~Sent!Frozen' /\ (\E r \in Calls : step'[r] = "abandon read"
                                                        /\ proof'[r].state # "early")
                              => \A d \in Calls : Sent!Open(d)' /\ ~claims'[d].leased
                                                   => d \notin created
      BY <2>5 DEF ReleaseFits
    <2> QED BY <1>7, <2>1, <2>2, <2>3, <2>4 DEF ReleaseFits
  <1>12. DocumentFits'
    BY <1>1, <1>4, <1>6 DEF IInv, DocumentFits
  <1>13. Rest'
    BY <1>1, <1>2 DEF Rest, Steps
  <1> QED BY <1>1, <1>3, <1>9, <1>10, <1>11, <1>12, <1>13 DEF IInv, Active, Pending

\* The lease of an unresolved claim ends: with OKKI prompt every readback at hand is
\* an early one from now on.
LEMMA LeaseKeeps ==
  ASSUME IInv, NEW c \in Calls, ClaimLeaseExpires(c)
  PROVE  IInv'
  <1> DEFINE early(r) == IF prompt /\ step[r] = "abandon read"
                         THEN [proof[r] EXCEPT !.state = "early"] ELSE proof[r]
  <1>1. /\ Sent!ClaimLeaseExpires(c) /\ prompt' = prompt
        /\ UNCHANGED <<row, flow, document, step, prompt, misread>>
        /\ proof' = [r \in Readers |-> early(r)]
    BY SameExpiry DEF ClaimLeaseExpires
  <1>2. Sent!SendInv' /\ claims \in [Calls -> Sent!Gates!ClaimRows]
    BY <1>1, Sent!ExpiryKeeps DEF IInv, Sent!SendInv, Sent!SendingTypeOK
  <1>3. /\ claims' = [claims EXCEPT ![c].leased = FALSE]
        /\ UNCHANGED <<authority, evidence, post, reply, created>>
    BY <1>1, Sent!ExpiryEffect
  <1>4. \A d \in Calls : claims'[d].state = claims[d].state
                         /\ (claims'[d].leased => claims[d].leased)
    BY <1>2, <1>3 DEF Sent!Gates!ClaimRows
  <1>5. ASSUME NEW r \in Readers
        PROVE  /\ early(r) \in Proofs
               /\ early(r).state = "deleted" => proof[r].state = "deleted"
               /\ prompt /\ step[r] = "abandon read" => early(r).state = "early"
    <2>1. proof[r] \in Proofs
      BY DEF IInv, Rest
    <2> QED BY <2>1 DEF Proofs
  <1> HIDE DEF early
  <1>6. Rest' /\ \A r \in Readers : StepFits(r)'
    <2>1. proof' \in [Readers -> Proofs]
      BY <1>1, <1>5
    <2> QED BY <1>1, <2>1 DEF IInv, Rest, StepFits, Active, Pending
  <1>7. ASSUME NEW d \in Calls PROVE ClaimFits(d)'
    <2>1. ClaimFits(d)
      BY DEF IInv
    <2> QED BY <1>1, <1>3, <1>4, <2>1 DEF ClaimFits, Sent!Open, Sent!Frozen, Active, Pending
  <1>8. DocumentFits'
    <2>1. \A r \in Readers : proof'[r].state = "deleted" => proof[r].state = "deleted"
      BY <1>1, <1>5
    <2> QED BY <1>1, <1>3, <2>1 DEF IInv, DocumentFits
  <1>9. ReleaseFits'
    <2>1. prompt => \A r \in Calls : step'[r] = "abandon read" => proof'[r].state = "early"
      BY <1>1, <1>5, WhoIsWho
    <2>2. prompt => \A d \in Calls : claims'[d].state = "not_sent"
                                     => d \notin created' \/ d \in misread'
      BY <1>1, <1>3, <1>4 DEF IInv, ReleaseFits
    <2>3. prompt' <=> prompt
      <3>1. prompt' = prompt
        BY <1>1
      <3> QED BY ONLY <3>1
    <2> QED BY <2>1, <2>2, <2>3 DEF ReleaseFits
  <1> QED BY <1>1, <1>2, <1>6, <1>7, <1>8, <1>9 DEF IInv, Active, Pending

-----------------------------------------------------------------------------
(* Writes of the row *)

\* A write leaves no other call with a captured row, and takes nobody's ticket.
LEMMA Written ==
  ASSUME IInv, NEW r \in Readers, NEW s \in {"idle", "sending", "sent"}, NEW new \in Rows,
         Write(r, s, new), s # "idle" => r \in Calls
  PROVE  /\ row' = new /\ row' \in Rows
         /\ step' \in [Readers -> Steps] /\ proof' \in [Readers -> Proofs]
         /\ step'[r] = s
         /\ \A x \in Readers :
               /\ step'[x] \in {"idle", "selected", "sending", "sent"}
               /\ proof'[x].state = "none" /\ StepFits(x)'
               /\ x # r => (step'[x] = "sending" <=> step[x] = "sending")
  <1>1. /\ row' = new /\ proof' = [x \in Readers |-> NoProof]
        /\ step' = [x \in Readers |-> IF x = r THEN s
                                      ELSE IF x \in Stamped THEN "idle" ELSE step[x]]
    BY DEF Write
  <1>2. \A x \in Readers : x \notin Stamped => step[x] \in {"idle", "selected", "sending", "sent"}
    BY DEF Stamped
  <1>3. \A x \in Readers : /\ step'[x] \in {"idle", "selected", "sending", "sent"}
                           /\ x # r => (step'[x] = "sending" <=> step[x] = "sending")
    BY <1>1, <1>2 DEF Stamped
  <1>4. \A x \in Readers : StepFits(x)'
    <2> TAKE x \in Readers
    <2>1. step'[x] \in {"sending", "sent"} => x \in Calls
      BY <1>1, <1>2 DEF IInv, StepFits
    <2> QED BY <1>3, <2>1 DEF StepFits
  <1> QED BY <1>1, <1>3, <1>4, NoProofIsProof DEF Steps

\* So nothing but the claims is left to ask of a write.
LEMMA WriteKeeps ==
  ASSUME IInv, NEW r \in Readers, NEW s \in {"idle", "sending", "sent"}, NEW new \in Rows,
         Write(r, s, new), s # "idle" => r \in Calls,
         Sent!SendInv', UNCHANGED <<document, created, prompt>>, flow' \in Calls \cup {None},
         new.status = "remote_deleted" => document.state # "active",
         new.status = "active" /\ flow' # None => new.sync = "uncertain" /\ new.kind = "blocked",
         \A c \in Calls : ClaimFits(c)',
         misread' \subseteq Calls,
         prompt => \A c \in Calls : claims'[c].state = "not_sent"
                                    => c \notin created \/ c \in misread'
  PROVE  IInv'
  <1>1. /\ row' = new /\ row' \in Rows
        /\ step' \in [Readers -> Steps] /\ proof' \in [Readers -> Proofs]
        /\ \A x \in Readers :
               /\ step'[x] \in {"idle", "selected", "sending", "sent"}
               /\ proof'[x].state = "none" /\ StepFits(x)'
    BY Written
  <1>2. Rest'
    BY <1>1 DEF IInv, Rest
  <1>3. DocumentFits'
    BY <1>1 DEF IInv, DocumentFits
  <1>4. ReleaseFits'
    BY <1>1, WhoIsWho DEF ReleaseFits
  <1> QED BY <1>1, <1>2, <1>3, <1>4 DEF IInv, Active, Pending

\* Nobody who could remove a receipt has a claim before its intent is recorded.
LEMMA NothingOpen ==
  ASSUME IInv, flow = None, NEW c \in Calls
  PROVE  /\ claims[c].state # "succeeded" /\ ~(step[c] = "sending" /\ Sent!Open(c))
         /\ Sent!Open(c) => ~claims[c].leased /\ Sent!Frozen
  BY NoneAssumption DEF IInv, ClaimFits

\* The intent, the freeze of the row and the claim are one transaction.
LEMMA IntendKeeps ==
  ASSUME IInv, NEW c \in Calls, Intend(c)
  PROVE  IInv'
  <1> USE WhoIsWho
  <1> DEFINE send == proof[c].state = "active"
             s == IF send THEN "sending" ELSE "sent"
             new == [row EXCEPT !.sync = "uncertain", !.kind = "blocked"]
  <1>1. /\ step[c] = "remove read" /\ flow = None /\ flow' = c /\ Write(c, s, new)
        /\ UNCHANGED <<document, prompt, misread>> /\ misread' \subseteq Calls
        /\ row.status = "active"
    BY DEF IInv, Rest, StepFits, Intend, Active, sending
  <1>2. new \in Rows /\ new.status = "active" /\ new.sync = "uncertain" /\ new.kind = "blocked"
    BY <1>1 DEF IInv, Rest, Rows
  <1>3. /\ \A d \in Calls \ {c} : step'[d] = "sending" <=> step[d] = "sending"
        /\ step'[c] = s /\ row' = new
    <2> HIDE DEF new, send
    <2> QED BY <1>1, <1>2, Written
  <1>4. /\ post \in [Calls -> Sent!Stages] /\ claims \in [Calls -> Sent!Gates!ClaimRows]
        /\ Sent!SendInv /\ prompt' = prompt
    BY <1>1 DEF IInv, Sent!SendInv, Sent!SendingTypeOK
  <1>5. ASSUME NEW d \in Calls PROVE ClaimFits(d)
    BY DEF IInv
  <1>6. CASE send
    <2>1. Sent!Grant(c, 1)
      BY <1>6, SameGrant DEF Intend
    <2>2. /\ \A d \in Calls : ~Sent!Open(d)
          /\ claims' = [claims EXCEPT ![c] =
                [state |-> "sending", invoice |-> Invoice, route |-> "legacy", epoch |-> 1,
                 holdsKey |-> TRUE, externalId |-> None, leased |-> TRUE]]
          /\ post' = [post EXCEPT ![c] = "ticket"]
          /\ created' = created
      BY <1>4, <2>1, Sent!GrantEffect
    <2>3. Sent!SendInv'
      BY <1>4, <2>1, Sent!GrantKeeps
    <2>4. /\ claims'[c].state = "sending" /\ post'[c] = "ticket"
          /\ \A d \in Calls \ {c} : claims'[d] = claims[d] /\ post'[d] = post[d]
      BY <1>4, <2>2
    <2>5. ASSUME NEW d \in Calls PROVE ClaimFits(d)'
      <3>1. CASE d = c
        BY <1>1, <1>2, <1>3, <1>6, <2>4, <3>1, NoneAssumption
           DEF ClaimFits, Sent!Open, Active, Pending
      <3>2. CASE d # c
        <4>1. claims[d].state # "succeeded" /\ ClaimFits(d)
          BY <1>1, <1>5, NothingOpen
        <4>2. ~Sent!Open(d)'
          BY <2>2, <2>4, <3>2 DEF Sent!Open
        <4> QED BY <1>3, <2>4, <3>2, <4>1, <4>2 DEF ClaimFits
      <3> QED BY <3>1, <3>2
    <2>6. prompt => \A d \in Calls : claims'[d].state = "not_sent"
                                     => d \notin created \/ d \in misread'
      BY <1>1, <2>2, <2>4 DEF IInv, ReleaseFits
    <2> HIDE DEF new
    <2> QED BY <1>1, <1>2, <1>6, <2>2, <2>3, <2>5, <2>6, WriteKeeps
  <1>7. CASE ~send
    <2>1. UNCHANGED <<authority, claims, evidence, post, reply, inflight, created, prompt>>
      BY <1>7 DEF Intend, sending
    <2>2. Sent!SendInv'
      BY <1>4, <2>1, Sent!SendingUntouched
    <2>3. ASSUME NEW d \in Calls PROVE ClaimFits(d)'
      <3>1. (step'[d] = "sending" <=> step[d] = "sending")
        BY <1>1, <1>3, <1>7
      <3> QED BY <1>1, <1>5, <2>1, <3>1, NothingOpen DEF ClaimFits, Sent!Open, Sent!Frozen
    <2>4. prompt => \A d \in Calls : claims'[d].state = "not_sent"
                                     => d \notin created \/ d \in misread'
      BY <1>1, <2>1 DEF IInv, ReleaseFits
    <2> HIDE DEF new
    <2> QED BY <1>1, <1>2, <1>7, <2>1, <2>2, <2>3, <2>4, WriteKeeps
  <1> QED BY <1>6, <1>7

\* A readback ends the deletion and closes the claim of the intent, if it has one.
LEMMA FinishKeeps ==
  ASSUME IInv, NEW c \in Calls, Finish(c)
  PROVE  IInv'
  <1> USE WhoIsWho
  <1>1. /\ step[c] = "finish read" /\ Write(c, "idle", Archived) /\ Pending /\ flow \in Calls
        /\ UNCHANGED <<flow, document, post, reply, inflight, created, prompt, misread>>
        /\ misread' \subseteq Calls /\ document.state # "active"
    BY DEF IInv, Rest, StepFits, DocumentFits, Finish, CloseRemoval, Pending
  <1>0. PICK f \in Calls : f = flow
    BY <1>1
  <1>2. Archived \in Rows /\ Archived.status = "remote_deleted"
    BY DEF IInv, Rest, Rows, Archived
  <1>3. \A d \in Calls : step'[d] = "sending" <=> step[d] = "sending"
    BY <1>1, <1>0, <1>2, Written
  <1>4. /\ Sent!SendInv /\ prompt' = prompt /\ claims \in [Calls -> Sent!Gates!ClaimRows]
        /\ Sent!RequestFits(f) /\ authority \in [{Invoice} -> Sent!Gates!Authorities]
    BY <1>1, <1>0 DEF IInv, Sent!SendInv, Sent!SendingTypeOK
  <1>5. ASSUME NEW d \in Calls PROVE ClaimFits(d)
    BY DEF IInv
  <1>6. /\ Sent!SendInv' /\ (Sent!Frozen => Sent!Frozen')
        /\ \A d \in Calls \ {f} : claims'[d] = claims[d]
        /\ claims'[f].state = "not_sent" => claims[f].state = "not_sent"
        /\ Sent!Open(f)' => Sent!Frozen' /\ ~claims'[f].leased
    <2>1. CASE claims[f].state = "absent"
      <3>1. UNCHANGED <<authority, claims, evidence>>
        BY <1>0, <2>1 DEF Finish, CloseRemoval
      <3>2. Sent!SendInv'
        BY <1>1, <1>0, <1>4, <3>1, Sent!SendingUntouched
      <3> QED BY <2>1, <3>1, <3>2 DEF Sent!Open, Sent!Frozen
    <2>2. CASE claims[f].state # "absent"
      <3>1. Sent!Gates!FinishSend(f, "succeeded", Document)
        BY <1>1, <1>0, <2>2, SameFinish DEF Finish, CloseRemoval
      <3>2. Sent!SendInv'
        BY <1>1, <1>0, <1>4, <3>1, Sent!FinishKeeps DEF Sent!RequestFits
      <3>3. \/ /\ Sent!Open(f) /\ UNCHANGED authority
               /\ claims' = [claims EXCEPT ![f] =
                               Sent!Gates!Resolved(f, "succeeded", Document)]
            \/ /\ claims[f].state \in {"succeeded", "failed", "not_sent"}
               /\ UNCHANGED <<authority, claims>>
            \/ /\ claims[f].state \in {"succeeded", "failed", "not_sent"}
               /\ authority' = [authority EXCEPT ![Invoice].state = "frozen"]
               /\ claims' = [claims EXCEPT ![f].state = "unknown"]
        BY <1>1, <1>0, <1>4, <3>1, Sent!FinishEffect
      <3>4. claims[f] \in Sent!Gates!ClaimRows
        BY <1>1, <1>0, <1>4
      <3>5. CASE /\ UNCHANGED authority
                 /\ claims' = [claims EXCEPT ![f] =
                                 Sent!Gates!Resolved(f, "succeeded", Document)]
        <4>1. claims'[f] = Sent!Gates!Resolved(f, "succeeded", Document)
          BY <1>1, <1>0, <1>4, <3>5
        <4>2. claims'[f].state = "succeeded"
          BY <3>4, <4>1 DEF Sent!Gates!Resolved, Sent!Gates!ClaimRows, Sent!Gates!Terminal
        <4> QED BY <1>4, <3>2, <3>5, <4>2 DEF Sent!Open, Sent!Frozen
      <3>6. CASE /\ claims[f].state \in {"succeeded", "failed", "not_sent"}
                 /\ UNCHANGED <<authority, claims>>
        BY <3>2, <3>6 DEF Sent!Open, Sent!Frozen
      <3>7. CASE /\ claims[f].state \in {"succeeded", "failed", "not_sent"}
                 /\ authority' = [authority EXCEPT ![Invoice].state = "frozen"]
                 /\ claims' = [claims EXCEPT ![f].state = "unknown"]
        <4>1. /\ claims'[f].state = "unknown"
              /\ claims'[f].leased = claims[f].leased
          BY <1>1, <1>0, <1>4, <3>4, <3>7 DEF Sent!Gates!ClaimRows
        <4>2. ~claims[f].leased
          BY <1>4, <3>7 DEF Sent!RequestFits, Sent!Open
        <4>3. Sent!Frozen'
          BY <1>4, <3>7 DEF Sent!Frozen, Sent!Gates!Authorities
        <4>4. \A d \in Calls \ {f} : claims'[d] = claims[d]
          BY <1>4, <3>7
        <4> QED BY <3>2, <4>1, <4>2, <4>3, <4>4
      <3> QED BY <3>3, <3>5, <3>6, <3>7
    <2> QED BY <2>1, <2>2
  <1>7. ASSUME NEW d \in Calls PROVE ClaimFits(d)'
    <2>1. CASE d = f
      BY <1>1, <1>0, <1>3, <1>5, <1>6, <2>1 DEF ClaimFits
    <2>2. CASE d # f
      BY <1>1, <1>0, <1>3, <1>5, <1>6, <2>2 DEF ClaimFits, Sent!Open
    <2> QED BY <2>1, <2>2
  <1>8. prompt => \A d \in Calls : claims'[d].state = "not_sent"
                                     => d \notin created \/ d \in misread'
    BY <1>1, <1>0, <1>6 DEF IInv, ReleaseFits
  <1> QED BY <1>1, <1>2, <1>6, <1>7, <1>8, WriteKeeps DEF Archived

\* Nothing is left open when the intent is given up, and a request that is released
\* has removed nothing.
LEMMA AbandonKeeps ==
  ASSUME IInv, NEW c \in Calls, Abandon(c)
  PROVE  IInv'
  <1> USE WhoIsWho
  <1>1. /\ step[c] = "abandon read" /\ Write(c, "idle", Restored) /\ Pending /\ flow \in Calls
        /\ flow' = None /\ claims[flow].state # "succeeded" /\ row.status = "active"
        /\ UNCHANGED <<document, post, reply, inflight, created, prompt>>
        /\ misread' = IF proof[c].state = "early" THEN misread \cup {flow} ELSE misread
        /\ misread' \subseteq Calls /\ misread \subseteq misread'
    BY DEF IInv, Rest, StepFits, Abandon, Pending, Active
  <1>0. PICK f \in Calls : f = flow
    BY <1>1
  <1>2. Restored \in Rows /\ Restored.status = "active"
    BY <1>1, <1>0 DEF IInv, Rest, Rows, Restored
  <1>3. \A d \in Calls : step'[d] = "sending" <=> step[d] = "sending"
    BY <1>1, <1>0, <1>2, Written
  <1>4. Sent!SendInv /\ prompt' = prompt /\ claims \in [Calls -> Sent!Gates!ClaimRows]
    BY <1>1, <1>0 DEF IInv, Sent!SendInv, Sent!SendingTypeOK
  <1>5. ASSUME NEW d \in Calls PROVE ClaimFits(d)
    BY DEF IInv
  <1>6. /\ Sent!SendInv' /\ (Sent!Frozen' <=> Sent!Frozen)
        /\ \A d \in Calls \ {f} : claims'[d] = claims[d]
        /\ ~Sent!Open(f)' /\ claims'[f].state # "succeeded"
        /\ claims'[f].state = "not_sent" =>
              \/ claims[f].state = "not_sent"
              \/ Sent!Open(f) /\ ~claims[f].leased /\ ~Sent!Frozen
    <2>1. CASE Sent!Open(f)
      <3>1. Sent!Gates!ConfirmNotSent(f)
        BY <1>1, <1>0, <2>1, SameOpen, SameRelease DEF Abandon
      <3>2. Sent!SendInv'
        BY <1>1, <1>0, <1>4, <3>1, Sent!ReleaseKeeps DEF Sent!sendVars
      <3>3. /\ ~claims[f].leased /\ ~Sent!Frozen /\ UNCHANGED authority
            /\ claims' = [claims EXCEPT ![f] =
                  [claims[f] EXCEPT !.state = "not_sent", !.holdsKey = FALSE]]
        BY <1>1, <1>0, <1>4, <3>1, Sent!ReleaseEffect
      <3>4. claims'[f].state = "not_sent"
        BY <1>1, <1>0, <1>4, <3>3 DEF Sent!Gates!ClaimRows
      <3> QED BY <1>4, <2>1, <3>2, <3>3, <3>4 DEF Sent!Open, Sent!Frozen
    <2>2. CASE ~Sent!Open(f)
      <3>1. UNCHANGED <<authority, claims, evidence>>
        BY <1>0, <2>2, SameOpen DEF Abandon
      <3>2. Sent!SendInv'
        BY <1>1, <1>0, <1>4, <3>1, Sent!SendingUntouched
      <3> QED BY <1>1, <1>0, <2>2, <3>1, <3>2 DEF Sent!Open, Sent!Frozen
    <2> QED BY <2>1, <2>2
  <1>7. ASSUME NEW d \in Calls PROVE ClaimFits(d)'
    <2>1. CASE d = f
      BY <1>1, <1>0, <1>3, <1>5, <1>6, <2>1 DEF ClaimFits
    <2>2. CASE d # f
      BY <1>1, <1>0, <1>3, <1>5, <1>6, <2>2 DEF ClaimFits, Sent!Open
    <2> QED BY <2>1, <2>2
  <1>8. prompt => \A d \in Calls : claims'[d].state = "not_sent"
                                     => d \notin created \/ d \in misread'
    <2>1. ASSUME prompt, NEW d \in Calls, claims'[d].state = "not_sent"
          PROVE  d \notin created \/ d \in misread'
      <3>1. CASE claims[d].state = "not_sent"
        BY <1>1, <2>1, <3>1 DEF IInv, ReleaseFits
      <3>2. CASE claims[d].state # "not_sent"
        <4>1. d = f /\ Sent!Open(f) /\ ~claims[f].leased /\ ~Sent!Frozen
          BY <1>6, <2>1, <3>2
        <4>2. CASE proof[c].state = "early"
          BY <1>0, <1>1, <4>1, <4>2
        <4>3. CASE proof[c].state # "early"
          BY <1>0, <1>1, <2>1, <4>1, <4>3 DEF IInv, ReleaseFits
        <4> QED BY <4>2, <4>3
      <3> QED BY <3>1, <3>2
    <2> QED BY <2>1
  <1>9. Restored.status # "remote_deleted"
    BY <1>2
  <1> QED BY <1>1, <1>2, <1>4, <1>6, <1>7, <1>8, <1>9, WriteKeeps

\* The scheduler's readback and an accepted change leave a pending deletion alone.
LEMMA OthersKeep ==
  ASSUME IInv, Verify \/ Change
  PROVE  IInv'
  <1> USE WhoIsWho
  <1>1. PICK r \in {Verifier, Changer}, new \in Rows :
           /\ Write(r, "idle", new) /\ UNCHANGED <<flow, document, sending>>
           /\ Active /\ flow = None
           /\ new.status = "remote_deleted" => document.state # "active"
    <2>1. \A terms \in Terms, e \in BOOLEAN : Bound(terms, e) \in Rows
                                              /\ Bound(terms, e).status = row.status
      BY DEF IInv, Rest, Rows, Bound
    <2>2. CASE Verify
      <3>1. Active /\ flow = None /\ UNCHANGED <<flow, document, sending>> /\ row.terms \in Terms
        BY <2>2 DEF Verify, Active, Pending, IInv, Rest, Rows
      <3>2. ASSUME NEW e \in BOOLEAN, Write(Verifier, "idle", Bound(row.terms, e))
            PROVE  \E r \in {Verifier, Changer}, new \in Rows :
                      Write(r, "idle", new) /\ new.status # "remote_deleted"
        BY <2>1, <3>1, <3>2 DEF Active
      <3>3. [row EXCEPT !.sync = "uncertain", !.kind = "blocked"] \in Rows
            /\ [row EXCEPT !.sync = "uncertain", !.kind = "blocked"].status # "remote_deleted"
        BY <3>1 DEF IInv, Rest, Rows, Active
      <3>4. ASSUME NEW kind \in {"verify", "exhausted"}
            PROVE  [row EXCEPT !.kind = kind] \in Rows
                   /\ [row EXCEPT !.kind = kind].status # "remote_deleted"
        BY <3>1 DEF IInv, Rest, Rows, Active
      <3>5. \E r \in {Verifier, Changer}, new \in Rows :
               Write(r, "idle", new) /\ new.status # "remote_deleted"
        BY <2>2, <3>2, <3>3, <3>4 DEF Verify
      <3> QED BY <3>1, <3>5
    <2>3. CASE Change
      <3>1. /\ step[Changer] = "change read" /\ UNCHANGED <<flow, document, sending>>
            /\ proof[Changer].terms \in Terms
        BY <2>3 DEF Change, IInv, Rest, Proofs
      <3>2. /\ Active /\ flow = None
            /\ proof[Changer].state = "deleted" => document.state # "active"
        BY <3>1 DEF IInv, StepFits, DocumentFits
      <3>3. CASE proof[Changer].state = "deleted"
        <4>1. [row EXCEPT !.status = "remote_deleted", !.effective = FALSE] \in Rows
          BY DEF IInv, Rest, Rows
        <4>2. Write(Changer, "idle", [row EXCEPT !.status = "remote_deleted", !.effective = FALSE])
          BY <2>3, <3>3 DEF Change
        <4> QED BY <3>1, <3>2, <3>3, <4>1, <4>2
      <3>4. CASE proof[Changer].state # "deleted"
        <4>1. PICK e \in BOOLEAN : Write(Changer, "idle", Bound(proof[Changer].terms, e))
          BY <2>3, <3>4 DEF Change
        <4>2. /\ Bound(proof[Changer].terms, e) \in Rows
              /\ Bound(proof[Changer].terms, e).status # "remote_deleted"
          BY <2>1, <3>1, <3>2 DEF Active
        <4> QED BY <3>1, <3>2, <4>1, <4>2
      <3> QED BY <3>3, <3>4
    <2> QED BY <2>2, <2>3
  <1>2. /\ row' = new
        /\ \A d \in Calls : step'[d] = "sending" <=> step[d] = "sending"
    BY <1>1, Written
  <1>3. Sent!SendInv' /\ UNCHANGED <<claims, created, prompt, post, authority, misread>>
        /\ misread' \subseteq Calls
    BY <1>1, Sent!SendingUntouched DEF IInv, Rest, sending
  <1>4. ASSUME NEW d \in Calls PROVE ClaimFits(d)'
    <2>1. ClaimFits(d)
      BY DEF IInv
    <2> QED BY <1>1, <1>2, <1>3, <2>1, NothingOpen DEF ClaimFits, Sent!Open, Sent!Frozen
  <1>5. prompt => \A d \in Calls : claims'[d].state = "not_sent"
                                     => d \notin created \/ d \in misread'
    BY <1>3 DEF IInv, ReleaseFits
  <1>6. flow' = None
    BY <1>1
  <1> QED BY <1>1, <1>3, <1>4, <1>5, <1>6, WriteKeeps

-----------------------------------------------------------------------------
(* The theorems *)

\* A delivered receipt that nobody has touched.
LEMMA InitInv == Init => IInv
  <1> SUFFICES ASSUME Init PROVE IInv
    OBVIOUS
  <1> USE WhoIsWho
  <1>1. Sent!SendInv
    BY SameInit, Sent!SendingStarts DEF Init
  <1>2. Rest
    BY TermAssumption DEF Init, Rest, Rows, Terms, DocumentStates, Steps, Proofs, NoProof
  <1>3. (\A r \in Readers : StepFits(r)) /\ ~Pending
    BY DEF Init, StepFits, Pending
  <1>4. \A c \in Calls : ClaimFits(c)
    BY DEF Init, Sending!SendingInit, Sending!Gates!NoClaim, ClaimFits, Sent!Open
  <1>5. DocumentFits /\ ReleaseFits
    BY DEF Init, Sending!SendingInit, Sending!Gates!NoClaim, DocumentFits, ReleaseFits, NoProof
  <1> QED BY <1>1, <1>2, <1>3, <1>4, <1>5 DEF IInv

\* Every step of every actor.
LEMMA StepInv == IInv /\ [Next]_vars => IInv'
  <1> SUFFICES ASSUME IInv, [Next]_vars PROVE IInv'
    OBVIOUS
  <1>1. CASE UNCHANGED vars
    <2>1. Sent!SendInv'
      BY <1>1, Sent!SendingUntouched DEF IInv, vars, sending
    <2>2. (\A r \in Readers : StepFits(r)') /\ (\A c \in Calls : ClaimFits(c)')
      BY <1>1 DEF IInv, vars, sending, StepFits, ClaimFits, Active, Pending, Sent!Open, Sent!Frozen
    <2>3. DocumentFits' /\ ReleaseFits' /\ Rest'
      BY <1>1 DEF IInv, vars, sending, DocumentFits, ReleaseFits, Rest, Sent!Open, Sent!Frozen
    <2> QED BY <1>1, <2>1, <2>2, <2>3 DEF IInv, vars, Active, Pending
  <1>2. ASSUME NEW c \in Calls, Remove(c) PROVE IInv'
    BY <1>2, ReadersKeep, IntendKeeps DEF Remove
  <1>3. ASSUME NEW c \in Calls, Post(c) PROVE IInv'
    <2>1. CASE EndPost(c)
      BY <2>1, SendersKeep, RememberKeeps DEF EndPost
    <2> QED BY <1>3, <2>1, SendersKeep DEF Post
  <1>4. ASSUME NEW c \in Calls, Settle(c) PROVE IInv'
    BY <1>4, ReadersKeep, FinishKeeps DEF Settle
  <1>5. ASSUME NEW c \in Calls, GiveBack(c) PROVE IInv'
    BY <1>5, ReadersKeep, AbandonKeeps DEF GiveBack
  <1>6. ASSUME NEW c \in Calls, Removed(c) \/ ClaimLeaseExpires(c) PROVE IInv'
    BY <1>6, SendersKeep, LeaseKeeps
  <1>7. ASSUME NEW r \in Readers, GiveUp(r) PROVE IInv'
    BY <1>7, GiveUpKeeps
  <1>8. CASE Select \/ StartVerify \/ ReadVerify \/ StartChange \/ ReadChange
    BY <1>8, ReadersKeep
  <1>9. CASE Verify \/ Change
    BY <1>9, OthersKeep
  <1>10. CASE ByHand
    BY <1>10, ByHandKeeps
  <1> QED BY <1>1, <1>2, <1>3, <1>4, <1>5, <1>6, <1>7, <1>8, <1>9, <1>10 DEF Next

\* The inductive invariant: row, intent, claim, POST and document fit each other in
\* every reachable state, for any callers and any number of amendments.
THEOREM RemovalInvariant == Spec => []IInv
  BY InitInv, StepInv, PTL DEF Spec

\* Every reachable state of a removal is well typed.
THEOREM TypeCorrect == Spec => []TypeOK
  <1>1. IInv => TypeOK
    BY SameTypes DEF IInv, Rest, Sent!SendInv, TypeOK
  <1> QED BY <1>1, RemovalInvariant, PTL

\* The order is locked for a removal exactly as long as its deletion is pending, and
\* a POST under way is of the recorded intent (deletion_service.remove).
THEOREM RemovalsAreIntended == Spec => []RemovalIsIntended
  <1>1. ASSUME IInv PROVE RemovalIsIntended
    <2>1. ASSUME authority[Invoice].state = "active", NEW c \in Calls, Sending!Gates!Open(c)
          PROVE  Pending /\ flow = c
      BY <1>1, <2>1, SameOpen DEF IInv, ClaimFits, Sent!Frozen
    <2>2. ASSUME prompt, NEW c \in inflight
          PROVE  flow = c /\ (Active => row.sync = "uncertain" /\ row.kind = "blocked")
      <3>1. c \in Calls /\ Sent!PromptFits(c) /\ Sent!RequestFits(c) /\ ClaimFits(c)
        BY <1>1, <2>2 DEF IInv, Sent!SendInv, Sent!SendingTypeOK
      <3>2. flow = c
        BY <2>2, <3>1 DEF Sent!PromptFits, Sent!RequestFits, ClaimFits
      <3> QED BY <1>1, <3>1, <3>2, NoneAssumption DEF IInv, Active, Pending
    <2> QED BY <2>1, <2>2 DEF RemovalIsIntended
  <1> QED BY <1>1, RemovalInvariant, PTL

\* Both ends of a removal are true of OKKI's document, but for an intent given up on a
\* readback made under the sender's lease (deletion_service._finish, abandon).
THEOREM OutcomesAreTrue == Spec => []OutcomeIsTrue
  <1>1. ASSUME IInv PROVE OutcomeIsTrue
    <2>1. \A c \in Calls : claims[c].state = "succeeded" => flow = c
      BY <1>1 DEF IInv, ClaimFits
    <2>2. row.status = "remote_deleted" => document.state # "active"
      BY <1>1 DEF IInv, DocumentFits
    <2>3. ASSUME prompt, NEW c \in Calls, claims[c].state = "not_sent"
          PROVE  c \notin inflight /\ (c \in created => c \in misread)
      BY <1>1, <2>3 DEF IInv, ReleaseFits, Sent!SendInv, Sent!PromptFits
    <2> QED BY <2>1, <2>2, <2>3 DEF OutcomeIsTrue
  <1> QED BY <1>1, RemovalInvariant, PTL

\* A pending deletion leaves the row archived or abandoned, never else.
THEOREM PendingStaysFrozen == Spec => PendingIsFrozen
  <1> DEFINE Kept == Active /\ flow # None /\ row' # row
                        => row'.status = "remote_deleted" \/ flow' = None
  <1>1. ASSUME IInv, [Next]_vars PROVE Kept
    <2> SUFFICES ASSUME Active, flow # None, row' # row
                 PROVE  row'.status = "remote_deleted" \/ flow' = None
      OBVIOUS
    <2>1. ASSUME NEW c \in Calls PROVE ~Intend(c)
      BY <1>1, WhoIsWho DEF IInv, StepFits, Intend
    <2>2. ASSUME NEW c \in Calls, Finish(c) PROVE row'.status = "remote_deleted"
      BY <1>1, <2>2 DEF Finish, Write, Archived, IInv, Rest, Rows
    <2>3. ASSUME NEW c \in Calls, Abandon(c) PROVE flow' = None
      BY <2>3 DEF Abandon
    <2>4. ~Verify /\ ~Change
      BY DEF Verify, Change, Pending
    <2>5. ASSUME NEW c \in Calls, Remove(c) \/ Post(c) \/ Settle(c) \/ GiveBack(c)
                                  \/ Removed(c) \/ ClaimLeaseExpires(c)
          PROVE  row'.status = "remote_deleted" \/ flow' = None
      BY <2>1, <2>2, <2>3, <2>5
         DEF Remove, StartRemove, Capture, ReadRemove, Learn, Post, Consume, Answer, EndPost,
             Settle, StartFinish, ReadFinish, GiveBack, StartAbandon, ReadAbandon, Removed,
             ClaimLeaseExpires
    <2>6. ~(\E r \in Readers : GiveUp(r)) /\ ~ByHand
      BY DEF GiveUp, ByHand
    <2>7. ~Select /\ ~StartVerify /\ ~ReadVerify /\ ~StartChange /\ ~ReadChange
      BY DEF Select, StartVerify, ReadVerify, StartChange, ReadChange, Capture, Learn
    <2>8. ~UNCHANGED vars
      BY DEF vars
    <2> QED BY <1>1, <2>4, <2>5, <2>6, <2>7, <2>8 DEF Next
  <1>2. IInv /\ [Next]_vars => [Kept]_vars
    BY <1>1
  <1> QED BY <1>2, RemovalInvariant, PTL DEF Spec, PendingIsFrozen
=============================================================================

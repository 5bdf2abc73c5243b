------------------------------- MODULE SendingProofs -------------------------------
(***************************************************************************)
(* What holds of every original POST, for any set of requests and whoever  *)
(* composes the steps of LegacySending with rows of his own: a ticket, its *)
(* claim and what OKKI did fit each other.  The proofs about receipts,     *)
(* removals, orders and outbounds start from here.                         *)
(***************************************************************************)
EXTENDS LegacySending

Open(c) == claims[c].state \in {"sending", "unknown"}
Frozen == authority[Invoice].state = "frozen"

\* A claim exists as soon as a ticket does and is of the one legacy invoice; nothing
\* is on the wire that was not a ticket; and an answer that rules an effect out is right.
RequestFits(c) ==
    /\ post[c] = "none" <=> claims[c].state = "absent"
    /\ claims[c].state # "absent" =>
          claims[c].invoice = Invoice /\ claims[c].route = "legacy" /\ claims[c].epoch = 1
    /\ c \in inflight \cup created => post[c] \notin {"none", "ticket"}
    /\ c \in inflight => c \notin created
    /\ reply[c] # "none" <=> post[c] = "answered"
    /\ reply[c] = "identity" => c \in created
    /\ reply[c] \in {"unauthorized", "rejected"} => c \notin inflight \cup created
    /\ claims[c].state = "failed" => c \notin inflight \cup created
    /\ claims[c].state = "succeeded" => claims[c].externalId \in Identities
    /\ claims[c].leased => Open(c)

\* With a prompt OKKI nothing is under way once an answer is there or the lease of an
\* unresolved claim is over: a request released as `not sent' is not under way.
PromptFits(c) == prompt =>
    /\ post[c] = "answered" => c \notin inflight
    /\ claims[c].state = "sending" /\ post[c] \in {"ticket", "wire"} => claims[c].leased
    /\ c \in inflight => claims[c].leased \/ claims[c].state = "succeeded"
    /\ claims[c].state = "not_sent" => c \notin inflight

SendInv ==
    /\ SendingTypeOK
    /\ authority[Invoice].route = "legacy" /\ authority[Invoice].epoch = 1
    /\ ~Frozen => \A c, d \in Requests : Open(c) /\ Open(d) => c = d
    /\ \A c \in Requests : RequestFits(c) /\ PromptFits(c)

-----------------------------------------------------------------------------
(* What the steps do *)

\* A granted send takes a fresh request key on an active invoice with nothing open.
LEMMA GrantEffect ==
  ASSUME SendInv, NEW c \in Requests, Grant(c, 1)
  PROVE  /\ claims[c].state = "absent" /\ post[c] = "none" /\ ~Frozen
         /\ \A d \in Requests : ~Open(d)
         /\ authority' = [authority EXCEPT ![Invoice].confirmed = TRUE]
         /\ claims' = [claims EXCEPT ![c] =
               [state |-> "sending", invoice |-> Invoice, route |-> "legacy", epoch |-> 1,
                holdsKey |-> TRUE, externalId |-> None, leased |-> TRUE]]
         /\ post' = [post EXCEPT ![c] = "ticket"]
         /\ UNCHANGED <<evidence, reply, inflight, created>>
  <1>1. /\ claims[c].state = "absent" /\ authority[Invoice].state = "active"
        /\ \A d \in Requests : ~(claims[d].invoice = Invoice /\ Open(d))
    BY DEF Grant, Gates!Start, Gates!RequireRoute, Gates!OpenClaims, Gates!Open,
           Gates!ManuallyReleasable, Open
  <1>2. post[c] = "none"
    BY <1>1 DEF SendInv, RequestFits
  <1>3. \A d \in Requests : ~Open(d)
    BY <1>1 DEF SendInv, RequestFits, Open
  <1>4. authority[Invoice].epoch = 1
    BY DEF SendInv
  <1> QED BY <1>1, <1>2, <1>3, <1>4 DEF Grant, Gates!Start, Frozen

\* finish resolves an unresolved claim, repeats what a closed one says, or reopens
\* one that says something else and freezes the invoice.
LEMMA FinishEffect ==
  ASSUME SendInv, NEW c \in Requests, NEW outcome \in {"succeeded", "failed", "unknown"},
         NEW id, Gates!FinishSend(c, outcome, id)
  PROVE  /\ \/ /\ Open(c) /\ UNCHANGED authority
               /\ claims' = [claims EXCEPT ![c] = Gates!Resolved(c, outcome, id)]
            \/ /\ claims[c].state \in {"succeeded", "failed", "not_sent"}
               /\ outcome \in {claims[c].state, "unknown"}
               /\ UNCHANGED <<authority, claims>>
            \/ /\ claims[c].state \in {"succeeded", "failed", "not_sent"}
               /\ claims[c].state # outcome \/ claims[c].externalId # id
               /\ authority' = [authority EXCEPT ![Invoice].state = "frozen"]
               /\ claims' = [claims EXCEPT ![c].state = "unknown"]
         /\ evidence' = [evidence EXCEPT ![c] =
               evidence[c] \cup {[outcome |-> outcome, externalId |-> id]}]
  <1>1. evidence' = [evidence EXCEPT ![c] =
               evidence[c] \cup {[outcome |-> outcome, externalId |-> id]}]
    BY DEF Gates!FinishSend, Gates!Observe
  <1>2. CASE Gates!ResolveClaim(c, outcome, id)
    BY <1>1, <1>2 DEF Gates!ResolveClaim, Gates!Open, Gates!ManuallyReleasable, Open
  <1>3. CASE Gates!RepeatObservation(c, outcome, id)
    BY <1>1, <1>3 DEF Gates!RepeatObservation, Gates!Contradicts, Gates!Terminal
  <1>4. CASE Gates!ReopenOnConflict(c, outcome, id)
    <2>1. /\ claims[c].state \in {"succeeded", "failed", "not_sent"}
          /\ claims[c].state # outcome \/ claims[c].externalId # id
      BY <1>4 DEF Gates!ReopenOnConflict, Gates!Contradicts, Gates!Terminal
    <2>2. claims[c].invoice = Invoice
      BY <2>1 DEF SendInv, RequestFits
    <2> QED BY <1>1, <1>4, <2>1, <2>2 DEF Gates!ReopenOnConflict
  <1> QED BY <1>2, <1>3, <1>4 DEF Gates!FinishSend

\* An attested release closes an unresolved claim without a lease on an active invoice.
LEMMA ReleaseEffect ==
  ASSUME SendInv, NEW c \in Requests, Gates!ConfirmNotSent(c)
  PROVE  /\ Open(c) /\ ~claims[c].leased /\ ~Frozen
         /\ claims' = [claims EXCEPT ![c] =
               [claims[c] EXCEPT !.state = "not_sent", !.holdsKey = FALSE]]
         /\ evidence' = [evidence EXCEPT ![c] =
               evidence[c] \cup {[outcome |-> "not_sent", externalId |-> None]}]
         /\ UNCHANGED authority
  <1>1. Open(c)
    BY DEF Gates!ConfirmNotSent, Gates!Open, Gates!ManuallyReleasable, Open
  <1>2. claims[c].invoice = Invoice
    BY <1>1 DEF SendInv, RequestFits, Open
  <1> QED BY <1>1, <1>2 DEF Gates!ConfirmNotSent, Gates!Observe, Frozen

\* The clock passes the lease of an unresolved claim and touches nothing else of it.
LEMMA ExpiryEffect ==
  ASSUME NEW c \in Requests, ClaimLeaseExpires(c)
  PROVE  /\ Open(c) /\ claims[c].leased
         /\ claims' = [claims EXCEPT ![c].leased = FALSE]
         /\ prompt => post[c] \notin {"ticket", "wire"}
         /\ inflight' = IF prompt THEN inflight \ {c} ELSE inflight
         /\ UNCHANGED <<authority, evidence, post, reply, created>>
  BY DEF ClaimLeaseExpires, Gates!LeaseExpires, Gates!Open, Gates!ManuallyReleasable, Open

-----------------------------------------------------------------------------
(* Every step keeps the invariant *)

\* A step that concerns one request answers for that request alone, if the invoice
\* keeps its route and stays frozen once it is, and nothing is opened beside another.
LEMMA OneRequest ==
  ASSUME SendInv, NEW c \in Requests, SendingTypeOK', prompt' = prompt,
         authority'[Invoice].route = "legacy", authority'[Invoice].epoch = 1,
         Frozen => Frozen',
         \A d \in Requests \ {c} :
            /\ claims'[d] = claims[d] /\ post'[d] = post[d] /\ reply'[d] = reply[d]
            /\ d \in inflight' <=> d \in inflight
            /\ d \in created' <=> d \in created,
         Frozen' \/ (Open(c)' => Open(c) \/ \A d \in Requests : ~Open(d)),
         RequestFits(c)', PromptFits(c)'
  PROVE  SendInv'
  <1>1. ASSUME NEW d \in Requests \ {c} PROVE RequestFits(d)' /\ PromptFits(d)'
    <2>1. RequestFits(d) /\ PromptFits(d)
      BY DEF SendInv
    <2> QED BY <2>1 DEF RequestFits, PromptFits, Open
  <1>2. ~Frozen' => \A d, e \in Requests : Open(d)' /\ Open(e)' => d = e
    <2>1. \A d \in Requests \ {c} : Open(d)' <=> Open(d)
      BY DEF Open
    <2> QED BY <2>1 DEF SendInv
  <1> QED BY <1>1, <1>2 DEF SendInv

\* The sender's own fields are those of the claims, of its stage and of its answer.
LEMMA TypesOfRequest ==
  ASSUME SendingTypeOK, NEW c \in Requests, prompt' = prompt,
         authority' \in [{Invoice} -> Gates!Authorities],
         NEW row \in Gates!ClaimRows, claims' = [claims EXCEPT ![c] = row],
         evidence' \in [Requests -> SUBSET Gates!Observations],
         post' \in [Requests -> Stages], reply' \in [Requests -> Replies],
         inflight' \subseteq Requests, created' \subseteq Requests
  PROVE  SendingTypeOK'
  BY DEF SendingTypeOK

\* The first state of a legacy order.
LEMMA SendingStarts ==
  ASSUME SendingInit, prompt \in BOOLEAN
  PROVE  SendInv
  <1>1. SendingTypeOK
    BY DEF SendingInit, SendingTypeOK, Stages, Replies, Gates!Authorities, Gates!ClaimRows,
           Gates!NoClaim, Gates!ClaimStates, Gates!Routes
  <1> QED BY <1>1 DEF SendingInit, SendInv, RequestFits, PromptFits, Open, Frozen, Gates!NoClaim

\* Whoever neither sends nor closes a request keeps all of this.
LEMMA SendingUntouched ==
  ASSUME SendInv, UNCHANGED <<authority, claims, evidence, post, reply, inflight, created, prompt>>
  PROVE  SendInv'
  BY DEF SendInv, SendingTypeOK, RequestFits, PromptFits, Open, Frozen

\* A granted send is the only unresolved request.
LEMMA GrantKeeps ==
  ASSUME SendInv, NEW c \in Requests, Grant(c, 1), prompt' = prompt
  PROVE  SendInv'
  <1>1. /\ claims[c].state = "absent" /\ post[c] = "none" /\ ~Frozen
        /\ \A d \in Requests : ~Open(d)
        /\ authority' = [authority EXCEPT ![Invoice].confirmed = TRUE]
        /\ claims' = [claims EXCEPT ![c] =
              [state |-> "sending", invoice |-> Invoice, route |-> "legacy", epoch |-> 1,
               holdsKey |-> TRUE, externalId |-> None, leased |-> TRUE]]
        /\ post' = [post EXCEPT ![c] = "ticket"]
        /\ UNCHANGED <<evidence, reply, inflight, created>>
    BY GrantEffect
  <1>2. SendingTypeOK
    BY DEF SendInv
  <1>3. authority' \in [{Invoice} -> Gates!Authorities]
    BY <1>1, <1>2 DEF SendingTypeOK, Gates!Authorities
  <1>4. post' \in [Requests -> Stages]
    BY <1>1, <1>2 DEF SendingTypeOK, Stages
  <1>5. [state |-> "sending", invoice |-> Invoice, route |-> "legacy", epoch |-> 1,
         holdsKey |-> TRUE, externalId |-> None, leased |-> TRUE] \in Gates!ClaimRows
    BY DEF Gates!ClaimRows, Gates!ClaimStates, Gates!Routes, Gates!ManuallyReleasable
  <1>6. SendingTypeOK'
    BY <1>1, <1>2, <1>3, <1>4, <1>5 DEF SendingTypeOK
  <1>7. /\ claims'[c].state = "sending" /\ claims'[c].invoice = Invoice
        /\ claims'[c].route = "legacy" /\ claims'[c].epoch = 1 /\ claims'[c].leased
        /\ post'[c] = "ticket"
        /\ \A d \in Requests \ {c} : claims'[d] = claims[d] /\ post'[d] = post[d]
    BY <1>1, <1>2 DEF SendingTypeOK
  <1>8. RequestFits(c) /\ PromptFits(c)
    BY DEF SendInv
  <1>9. RequestFits(c)' /\ PromptFits(c)'
    BY <1>1, <1>7, <1>8 DEF RequestFits, PromptFits, Open
  <1>10. /\ authority'[Invoice].route = "legacy" /\ authority'[Invoice].epoch = 1
         /\ ~Frozen'
    BY <1>1, <1>2 DEF SendInv, SendingTypeOK, Frozen
  <1> QED BY <1>1, <1>6, <1>7, <1>9, <1>10, OneRequest

\* A step of the sender that leaves the claims alone.
LEMMA StageKeeps ==
  ASSUME SendInv, NEW c \in Requests, prompt' = prompt,
         UNCHANGED <<authority, claims, evidence>>,
         NEW stage \in Stages, NEW r \in Replies,
         post' = [post EXCEPT ![c] = stage], reply' = [reply EXCEPT ![c] = r],
         inflight' \subseteq inflight \cup {c}, created' \subseteq created \cup {c},
         inflight \ {c} \subseteq inflight', created \ {c} \subseteq created',
         RequestFits(c)', PromptFits(c)'
  PROVE  SendInv'
  <1>1. SendingTypeOK'
    BY DEF SendInv, SendingTypeOK
  <1>2. \A d \in Requests \ {c} :
            /\ claims'[d] = claims[d] /\ post'[d] = post[d] /\ reply'[d] = reply[d]
            /\ d \in inflight' <=> d \in inflight
            /\ d \in created' <=> d \in created
    BY DEF SendInv, SendingTypeOK
  <1>3. /\ authority'[Invoice].route = "legacy" /\ authority'[Invoice].epoch = 1
        /\ Frozen' <=> Frozen
        /\ Open(c)' <=> Open(c)
    BY DEF SendInv, Frozen, Open
  <1> QED BY <1>1, <1>2, <1>3, OneRequest

\* A ticket goes on the wire while its claim says `sending', so under its lease.
LEMMA ConsumeKeeps ==
  ASSUME SendInv, NEW c \in Requests, Consume(c), prompt' = prompt
  PROVE  SendInv'
  <1>1. RequestFits(c) /\ PromptFits(c) /\ SendingTypeOK
    BY DEF SendInv
  <1>2. /\ post[c] = "ticket" /\ claims[c].state = "sending" /\ post'[c] = "wire"
        /\ inflight' = inflight \cup {c}
        /\ UNCHANGED <<authority, claims, evidence, reply, created>>
        /\ post' = [post EXCEPT ![c] = "wire"]
    BY <1>1 DEF Consume, SendingTypeOK
  <1>3. RequestFits(c)' /\ PromptFits(c)'
    BY <1>1, <1>2 DEF RequestFits, PromptFits, Open, Frozen
  <1>4. reply' = [reply EXCEPT ![c] = reply[c]] /\ reply[c] \in Replies
    BY <1>1, <1>2 DEF SendingTypeOK
  <1> QED BY <1>2, <1>3, <1>4, StageKeeps DEF Stages

\* An answer ends the POST, and a prompt one ends its effect.
LEMMA AnswerKeeps ==
  ASSUME SendInv, NEW c \in Requests, NEW r, Answer(c, r), prompt' = prompt
  PROVE  SendInv' /\ r \in Replies \ {"none"}
  <1>1. RequestFits(c) /\ PromptFits(c) /\ SendingTypeOK
    BY DEF SendInv
  <1>2. /\ post[c] = "wire" /\ post'[c] = "answered" /\ reply'[c] = r
        /\ post' = [post EXCEPT ![c] = "answered"] /\ reply' = [reply EXCEPT ![c] = r]
        /\ UNCHANGED <<authority, claims, evidence, created>>
    BY <1>1 DEF Answer, SendingTypeOK
  <1>3. /\ r \in Replies \ {"none"}
        /\ inflight' \in {inflight, inflight \ {c}}
        /\ r = "identity" => c \in created
        /\ r \in {"unauthorized", "rejected"} => c \in inflight /\ c \notin inflight'
        /\ prompt /\ r = "unknown" => c \notin inflight'
    BY DEF Answer, Replies
  <1>4. RequestFits(c)'
    BY <1>1, <1>2, <1>3 DEF RequestFits, Open
  <1>5. PromptFits(c)'
    BY <1>1, <1>2, <1>3 DEF RequestFits, PromptFits, Open, Frozen, Replies
  <1> QED BY <1>2, <1>3, <1>4, <1>5, StageKeeps DEF Stages

\* A sender that leaves takes its answer with it.
LEMMA LeaveKeeps ==
  ASSUME SendInv, NEW c \in Requests, RefuseTicket(c) \/ Forget(c) \/ Die(c), prompt' = prompt
  PROVE  SendInv'
  <1>1. RequestFits(c) /\ PromptFits(c) /\ SendingTypeOK
    BY DEF SendInv
  <1>2. /\ post[c] \in {"ticket", "wire", "answered"}
        /\ post' = [post EXCEPT ![c] = "over"] /\ reply' = [reply EXCEPT ![c] = "none"]
        /\ UNCHANGED <<authority, claims, evidence, inflight, created>>
    BY DEF RefuseTicket, Forget, Die, Leave
  <1>3. post'[c] = "over" /\ reply'[c] = "none"
    BY <1>1, <1>2 DEF SendingTypeOK
  <1>4. RequestFits(c)'
    BY <1>1, <1>2, <1>3 DEF RequestFits, Open
  <1>5. PromptFits(c)'
    BY <1>1, <1>2, <1>3 DEF PromptFits, Open, Frozen
  <1> QED BY <1>2, <1>4, <1>5, StageKeeps DEF Stages, Replies

\* OKKI acts on what is under way.
LEMMA CreateKeeps ==
  ASSUME SendInv, NEW c \in Requests, Create(c), prompt' = prompt
  PROVE  SendInv'
  <1>1. RequestFits(c) /\ PromptFits(c) /\ SendingTypeOK
    BY DEF SendInv
  <1>2. RequestFits(c)' /\ PromptFits(c)'
    BY <1>1 DEF Create, RequestFits, PromptFits, Open, Frozen
  <1>3. /\ post' = [post EXCEPT ![c] = post[c]] /\ post[c] \in Stages
        /\ reply' = [reply EXCEPT ![c] = reply[c]] /\ reply[c] \in Replies
    BY <1>1 DEF Create, SendingTypeOK
  <1> QED BY <1>2, <1>3, StageKeeps DEF Create

\* Whoever finishes a request, its sender or a readback, keeps what is known of it.
LEMMA FinishKeeps ==
  ASSUME SendInv, NEW c \in Requests, prompt' = prompt,
         NEW outcome \in {"succeeded", "failed", "unknown"}, NEW id \in Identities \cup {None},
         Gates!FinishSend(c, outcome, id), UNCHANGED <<inflight, created>>,
         outcome = "failed" => c \notin inflight \cup created,
         prompt /\ c \in inflight => outcome = "succeeded"
                                     /\ (claims[c].state = outcome => claims[c].externalId = id),
         UNCHANGED <<post, reply>> \/ (post[c] = "answered" /\ Leave(c))
  PROVE  SendInv'
  <1> DEFINE fits == claims'[c].state # "absent" =>
                        /\ claims'[c].invoice = Invoice /\ claims'[c].route = "legacy"
                        /\ claims'[c].epoch = 1
  <1>1. RequestFits(c) /\ PromptFits(c) /\ SendingTypeOK /\ claims[c] \in Gates!ClaimRows
    BY DEF SendInv, SendingTypeOK
  <1>2. /\ \/ /\ Open(c) /\ UNCHANGED authority
              /\ claims' = [claims EXCEPT ![c] = Gates!Resolved(c, outcome, id)]
           \/ /\ claims[c].state \in {"succeeded", "failed", "not_sent"}
              /\ UNCHANGED <<authority, claims>>
           \/ /\ claims[c].state \in {"succeeded", "failed", "not_sent"}
              /\ claims[c].state # outcome \/ claims[c].externalId # id
              /\ authority' = [authority EXCEPT ![Invoice].state = "frozen"]
              /\ claims' = [claims EXCEPT ![c].state = "unknown"]
        /\ evidence' = [evidence EXCEPT ![c] =
              evidence[c] \cup {[outcome |-> outcome, externalId |-> id]}]
    BY FinishEffect
  <1>3. [outcome |-> outcome, externalId |-> id] \in Gates!Observations
    BY DEF Gates!Observations, Gates!Terminal
  <1>4. evidence' \in [Requests -> SUBSET Gates!Observations]
    BY <1>1, <1>2, <1>3 DEF SendingTypeOK
  <1>5. /\ post' \in [Requests -> Stages] /\ reply' \in [Requests -> Replies]
        /\ \A d \in Requests \ {c} : post'[d] = post[d] /\ reply'[d] = reply[d]
        /\ \/ post'[c] = post[c] /\ reply'[c] = reply[c]
           \/ post[c] = "answered" /\ post'[c] = "over" /\ reply'[c] = "none"
    BY <1>1 DEF SendingTypeOK, Leave, Stages, Replies
  <1>6. /\ authority' \in [{Invoice} -> Gates!Authorities]
        /\ authority'[Invoice].route = "legacy" /\ authority'[Invoice].epoch = 1
        /\ Frozen => Frozen'
    BY <1>1, <1>2 DEF SendInv, SendingTypeOK, Gates!Authorities, Frozen
  <1>7. CASE Open(c) /\ UNCHANGED authority
             /\ claims' = [claims EXCEPT ![c] = Gates!Resolved(c, outcome, id)]
    <2>1. Gates!Resolved(c, outcome, id) \in Gates!ClaimRows
      BY <1>1 DEF Gates!Resolved, Gates!ClaimRows, Gates!Terminal, Gates!ClaimStates,
                  Gates!ManuallyReleasable
    <2>2. /\ claims'[c].state = outcome /\ claims'[c].invoice = claims[c].invoice
          /\ claims'[c].route = claims[c].route /\ claims'[c].epoch = claims[c].epoch
          /\ outcome = "unknown" => claims'[c].leased = claims[c].leased
          /\ outcome # "unknown" => ~claims'[c].leased
          /\ outcome = "succeeded" => claims'[c].externalId = id /\ id \in Identities
          /\ \A d \in Requests \ {c} : claims'[d] = claims[d]
      BY <1>1, <1>7 DEF Gates!Resolved, Gates!ClaimRows, Gates!Terminal, SendingTypeOK,
                        Gates!FinishSend
    <2>3. SendingTypeOK'
      BY <1>1, <1>4, <1>5, <1>6, <1>7, <2>1 DEF SendingTypeOK
    <2>4. RequestFits(c)'
      BY <1>1, <1>5, <1>7, <2>2 DEF RequestFits, Open
    <2>5. PromptFits(c)'
      BY <1>1, <1>5, <1>7, <2>2 DEF PromptFits, Open, Frozen
    <2> QED BY <1>5, <1>6, <1>7, <2>2, <2>3, <2>4, <2>5, OneRequest
  <1>8. CASE claims[c].state \in {"succeeded", "failed", "not_sent"}
             /\ UNCHANGED <<authority, claims>>
    <2>1. SendingTypeOK'
      BY <1>1, <1>4, <1>5, <1>8 DEF SendingTypeOK
    <2>2. RequestFits(c)'
      BY <1>1, <1>5, <1>8 DEF RequestFits, Open
    <2>3. PromptFits(c)'
      BY <1>1, <1>5, <1>8 DEF PromptFits, Open, Frozen
    <2>4. Open(c)' <=> Open(c)
      BY <1>8 DEF Open
    <2> QED BY <1>5, <1>6, <1>8, <2>1, <2>2, <2>3, <2>4, OneRequest
  <1>9. CASE claims[c].state \in {"succeeded", "failed", "not_sent"}
             /\ (claims[c].state # outcome \/ claims[c].externalId # id)
             /\ authority' = [authority EXCEPT ![Invoice].state = "frozen"]
             /\ claims' = [claims EXCEPT ![c].state = "unknown"]
    <2>1. /\ claims'[c].state = "unknown" /\ claims'[c].invoice = claims[c].invoice
          /\ claims'[c].route = claims[c].route /\ claims'[c].epoch = claims[c].epoch
          /\ \A d \in Requests \ {c} : claims'[d] = claims[d]
      BY <1>1, <1>9 DEF Gates!ClaimRows, SendingTypeOK
    <2>2. [claims[c] EXCEPT !.state = "unknown"] \in Gates!ClaimRows
      BY <1>1 DEF Gates!ClaimRows, Gates!ClaimStates, Gates!ManuallyReleasable
    <2>3. claims' \in [Requests -> Gates!ClaimRows]
      BY <1>1, <1>9, <2>2 DEF SendingTypeOK
    <2>4. SendingTypeOK'
      BY <1>1, <1>4, <1>5, <1>6, <2>3 DEF SendingTypeOK
    <2>5. Frozen'
      BY <1>1, <1>9 DEF Frozen, SendingTypeOK, Gates!Authorities
    <2>6. RequestFits(c)'
      BY <1>1, <1>5, <1>9, <2>1 DEF RequestFits, Open
    <2>7. PromptFits(c)'
      BY <1>1, <1>5, <1>9, <2>1, <2>5 DEF PromptFits
    <2> QED BY <1>5, <1>6, <2>1, <2>4, <2>5, <2>6, <2>7, OneRequest
  <1> QED BY <1>2, <1>7, <1>8, <1>9

\* The sender commits what it was answered.
LEMMA RememberKeeps ==
  ASSUME SendInv, NEW c \in Requests, NEW id \in Identities \cup {None}, Remember(c, id),
         prompt' = prompt
  PROVE  SendInv'
  <1>1. RequestFits(c) /\ SendingTypeOK
    BY DEF SendInv
  <1>2. /\ Outcome(reply[c]) \in {"succeeded", "failed", "unknown"}
        /\ Outcome(reply[c]) = "failed" => reply[c] \in {"unauthorized", "rejected"}
    BY DEF Outcome
  <1>3. prompt => c \notin inflight
    BY <1>1 DEF SendInv, PromptFits, Remember
  <1> QED BY <1>1, <1>2, <1>3, FinishKeeps DEF Remember, RequestFits

\* A release under no lease: a prompt POST is over, so nothing is under way.
LEMMA ReleaseKeeps ==
  ASSUME SendInv, NEW c \in Requests, Gates!ConfirmNotSent(c), UNCHANGED sendVars,
         prompt' = prompt
  PROVE  SendInv' /\ (prompt => c \notin inflight)
  <1>1. RequestFits(c) /\ PromptFits(c) /\ SendingTypeOK /\ claims[c] \in Gates!ClaimRows
    BY DEF SendInv, SendingTypeOK
  <1>2. /\ Open(c) /\ ~claims[c].leased /\ ~Frozen
        /\ claims' = [claims EXCEPT ![c] =
              [claims[c] EXCEPT !.state = "not_sent", !.holdsKey = FALSE]]
        /\ evidence' = [evidence EXCEPT ![c] =
              evidence[c] \cup {[outcome |-> "not_sent", externalId |-> None]}]
        /\ UNCHANGED authority
    BY ReleaseEffect
  <1>3. /\ claims'[c].state = "not_sent" /\ claims'[c].invoice = claims[c].invoice
        /\ claims'[c].route = claims[c].route /\ claims'[c].epoch = claims[c].epoch
        /\ ~claims'[c].leased
        /\ \A d \in Requests \ {c} : claims'[d] = claims[d]
    BY <1>1, <1>2 DEF Gates!ClaimRows, SendingTypeOK
  <1>4. prompt => c \notin inflight
    BY <1>1, <1>2 DEF PromptFits, Open
  <1>5. SendingTypeOK'
    <2>1. [claims[c] EXCEPT !.state = "not_sent", !.holdsKey = FALSE] \in Gates!ClaimRows
      BY <1>1 DEF Gates!ClaimRows, Gates!ClaimStates, Gates!Terminal
    <2>2. [outcome |-> "not_sent", externalId |-> None] \in Gates!Observations
      BY DEF Gates!Observations, Gates!Terminal
    <2> QED BY <1>1, <1>2, <2>1, <2>2 DEF SendingTypeOK, sendVars
  <1>6. RequestFits(c)'
    BY <1>1, <1>2, <1>3 DEF RequestFits, Open, sendVars
  <1>7. PromptFits(c)'
    BY <1>2, <1>3, <1>4 DEF PromptFits, Open, sendVars
  <1>8. ~Open(c)' /\ authority'[Invoice] = authority[Invoice] /\ (Frozen => Frozen')
    BY <1>2, <1>3 DEF Open, Frozen
  <1>9. authority'[Invoice].route = "legacy" /\ authority'[Invoice].epoch = 1
    BY <1>8 DEF SendInv
  <1> QED BY <1>3, <1>4, <1>5, <1>6, <1>7, <1>8, <1>9, OneRequest DEF sendVars

\* With a prompt OKKI a lease that ends takes with it whatever was under way.
LEMMA ExpiryKeeps ==
  ASSUME SendInv, NEW c \in Requests, ClaimLeaseExpires(c), prompt' = prompt
  PROVE  SendInv'
  <1>1. RequestFits(c) /\ PromptFits(c) /\ SendingTypeOK /\ claims[c] \in Gates!ClaimRows
    BY DEF SendInv, SendingTypeOK
  <1>2. /\ Open(c) /\ claims[c].leased
        /\ claims' = [claims EXCEPT ![c].leased = FALSE]
        /\ prompt => post[c] \notin {"ticket", "wire"}
        /\ inflight' = IF prompt THEN inflight \ {c} ELSE inflight
        /\ UNCHANGED <<authority, evidence, post, reply, created>>
    BY ExpiryEffect
  <1>3. /\ claims'[c].state = claims[c].state /\ claims'[c].invoice = claims[c].invoice
        /\ claims'[c].route = claims[c].route /\ claims'[c].epoch = claims[c].epoch
        /\ ~claims'[c].leased
        /\ \A d \in Requests \ {c} : claims'[d] = claims[d]
    BY <1>1, <1>2 DEF Gates!ClaimRows, SendingTypeOK
  <1>4. SendingTypeOK'
    <2>1. [claims[c] EXCEPT !.leased = FALSE] \in Gates!ClaimRows
      BY <1>1 DEF Gates!ClaimRows
    <2>2. claims' \in [Requests -> Gates!ClaimRows]
      BY <1>1, <1>2, <2>1 DEF SendingTypeOK
    <2>3. inflight' \subseteq Requests
      BY <1>1, <1>2 DEF SendingTypeOK
    <2> QED BY <1>1, <1>2, <2>2, <2>3 DEF SendingTypeOK
  <1>5. RequestFits(c)'
    BY <1>1, <1>2, <1>3 DEF RequestFits, Open
  <1>6. PromptFits(c)'
    BY <1>1, <1>2, <1>3 DEF PromptFits
  <1>7. Open(c)' <=> Open(c)
    BY <1>3 DEF Open
  <1>8. /\ authority'[Invoice].route = "legacy" /\ authority'[Invoice].epoch = 1
        /\ Frozen => Frozen'
    BY <1>2 DEF SendInv, Frozen
  <1>9. \A d \in Requests \ {c} : d \in inflight' <=> d \in inflight
    BY <1>2
  <1> QED BY <1>2, <1>3, <1>4, <1>5, <1>6, <1>7, <1>8, <1>9, OneRequest

\* A readback that finds the document closes every unresolved request it stands for.
LEMMA SettleKeeps ==
  ASSUME SendInv, None \notin Identities, NEW id \in Identities,
         NEW S, S \subseteq {c \in Requests : Open(c)},
         SettleOpen(S, id), prompt' = prompt
  PROVE  /\ SendInv'
         /\ \A c \in Requests : claims'[c].state = IF c \in S THEN "succeeded" ELSE claims[c].state
  <1>1. SendingTypeOK
    BY DEF SendInv
  <1>2. ASSUME NEW c \in Requests
        PROVE  /\ claims'[c] = IF c \in S THEN Gates!Resolved(c, "succeeded", id) ELSE claims[c]
               /\ evidence'[c] = IF c \in S
                     THEN evidence[c] \cup {[outcome |-> "succeeded", externalId |-> id]}
                     ELSE evidence[c]
    BY DEF SettleOpen
  <1>3. ASSUME NEW c \in Requests
        PROVE  /\ claims'[c] \in Gates!ClaimRows
               /\ claims'[c].state = IF c \in S THEN "succeeded" ELSE claims[c].state
               /\ claims'[c].invoice = claims[c].invoice /\ claims'[c].route = claims[c].route
               /\ claims'[c].epoch = claims[c].epoch
               /\ c \in S => claims'[c].externalId = id /\ ~claims'[c].leased
               /\ c \notin S => claims'[c] = claims[c]
    <2>1. claims[c] \in Gates!ClaimRows
      BY <1>1 DEF SendingTypeOK
    <2>2. CASE c \in S
      <3>1. claims'[c] = [claims[c] EXCEPT !.state = "succeeded", !.holdsKey = FALSE,
                             !.externalId = IF id # None THEN id ELSE claims[c].externalId,
                             !.leased = FALSE]
        BY <1>2, <2>1, <2>2 DEF Gates!Resolved, Gates!Terminal
      <3> QED BY <2>1, <2>2, <3>1 DEF Gates!ClaimRows, Gates!ClaimStates, Gates!Terminal
    <2>3. CASE c \notin S
      BY <1>2, <2>1, <2>3
    <2> QED BY <2>2, <2>3
  <1>4. \A c \in Requests : evidence'[c] \in SUBSET Gates!Observations
    <2>1. [outcome |-> "succeeded", externalId |-> id] \in Gates!Observations
      BY DEF Gates!Observations, Gates!Terminal
    <2> QED BY <1>1, <1>2, <2>1 DEF SendingTypeOK
  <1>5. SendingTypeOK'
    <2>1. claims' \in [Requests -> Gates!ClaimRows]
      BY <1>3 DEF SettleOpen
    <2>2. evidence' \in [Requests -> SUBSET Gates!Observations]
      BY <1>4 DEF SettleOpen
    <2> QED BY <1>1, <2>1, <2>2 DEF SettleOpen, SendingTypeOK
  <1>6. \A c \in Requests : RequestFits(c)'
    BY <1>3 DEF SettleOpen, SendInv, RequestFits, Open
  <1>7. \A c \in Requests : PromptFits(c)'
    BY <1>3 DEF SettleOpen, SendInv, PromptFits, Open, Frozen
  <1>8. \A c \in Requests : Open(c)' => Open(c)
    BY <1>3 DEF Open
  <1> QED BY <1>3, <1>5, <1>6, <1>7, <1>8 DEF SendInv, SettleOpen, Frozen

\* The sender stores its answer: only a contradiction reopens a claim, and freezes.
LEMMA RememberEffect ==
  ASSUME SendInv, NEW c \in Requests, NEW id, Remember(c, id)
  PROVE  /\ UNCHANGED <<inflight, created>> /\ post'[c] = "over"
         /\ \A d \in Requests \ {c} :
               claims'[d] = claims[d] /\ post'[d] = post[d] /\ reply'[d] = reply[d]
         /\ Frozen => Frozen'
         /\ ~Frozen' => (Open(c)' => Open(c))
         /\ reply[c] \in {"identity", "unauthorized", "rejected"} => (Open(c)' => Frozen')
         /\ claims'[c].state = "not_sent" => claims[c].state = "not_sent"
  <1>1. /\ claims \in [Requests -> Gates!ClaimRows] /\ post \in [Requests -> Stages]
        /\ reply \in [Requests -> Replies] /\ authority \in [{Invoice} -> Gates!Authorities]
    BY DEF SendInv, SendingTypeOK
  <1>2. /\ UNCHANGED <<inflight, created>> /\ post'[c] = "over"
        /\ \A d \in Requests \ {c} : post'[d] = post[d] /\ reply'[d] = reply[d]
    BY <1>1 DEF Remember, Leave
  <1>3. PICK outcome \in {"succeeded", "failed", "unknown"} :
           /\ Gates!FinishSend(c, outcome, id)
           /\ reply[c] \in {"identity", "unauthorized", "rejected"} => outcome # "unknown"
    BY DEF Remember, Outcome
  <1>4. \/ /\ Open(c) /\ UNCHANGED authority
           /\ claims' = [claims EXCEPT ![c] = Gates!Resolved(c, outcome, id)]
        \/ /\ claims[c].state \in {"succeeded", "failed", "not_sent"}
           /\ UNCHANGED <<authority, claims>>
        \/ /\ authority' = [authority EXCEPT ![Invoice].state = "frozen"]
           /\ claims' = [claims EXCEPT ![c].state = "unknown"]
    BY <1>3, FinishEffect
  <1>5. CASE /\ Open(c) /\ UNCHANGED authority
             /\ claims' = [claims EXCEPT ![c] = Gates!Resolved(c, outcome, id)]
    <2>1. claims'[c] = Gates!Resolved(c, outcome, id)
          /\ \A d \in Requests \ {c} : claims'[d] = claims[d]
      BY <1>1, <1>5
    <2>2. claims'[c].state = outcome
      BY <1>1, <2>1 DEF Gates!Resolved, Gates!ClaimRows
    <2> QED BY <1>2, <1>3, <1>5, <2>1, <2>2 DEF Open, Frozen
  <1>6. CASE /\ claims[c].state \in {"succeeded", "failed", "not_sent"}
             /\ UNCHANGED <<authority, claims>>
    BY <1>2, <1>6 DEF Open, Frozen
  <1>7. CASE /\ authority' = [authority EXCEPT ![Invoice].state = "frozen"]
             /\ claims' = [claims EXCEPT ![c].state = "unknown"]
    <2>1. Frozen'
      BY <1>1, <1>7 DEF Frozen, Gates!Authorities
    <2>2. claims'[c].state = "unknown" /\ \A d \in Requests \ {c} : claims'[d] = claims[d]
      BY <1>1, <1>7 DEF Gates!ClaimRows
    <2> QED BY <1>2, <2>1, <2>2
  <1> QED BY <1>4, <1>5, <1>6, <1>7

\* An attested release of what is open among some requests, if anything is.
LEMMA ReleaseUnsentKeeps ==
  ASSUME SendInv, ~Frozen, NEW S, S \subseteq {c \in Requests : Open(c)}, ReleaseUnsent(S),
         prompt' = prompt
  PROVE  /\ SendInv' /\ UNCHANGED <<authority, post, reply, inflight, created>>
         /\ \A c \in Requests : /\ c \in S => claims'[c].state = "not_sent"
                                /\ c \notin S => claims'[c] = claims[c]
  <1>1. UNCHANGED <<post, reply, inflight, created>>
    BY DEF ReleaseUnsent, sendVars
  <1>2. CASE S = {} /\ UNCHANGED <<authority, claims, evidence>>
    BY <1>1, <1>2, SendingUntouched
  <1>3. ASSUME NEW c \in S, Gates!ConfirmNotSent(c)
        PROVE  /\ SendInv' /\ UNCHANGED authority
               /\ \A d \in Requests : /\ d \in S => claims'[d].state = "not_sent"
                                      /\ d \notin S => claims'[d] = claims[d]
    <2>1. c \in Requests /\ Open(c)
      BY <1>3
    <2>2. /\ claims' = [claims EXCEPT ![c] =
               [claims[c] EXCEPT !.state = "not_sent", !.holdsKey = FALSE]]
          /\ UNCHANGED authority
      BY <1>3, <2>1, ReleaseEffect
    <2>3. SendInv'
      BY <1>1, <1>3, <2>1, ReleaseKeeps DEF sendVars
    <2>4. claims'[c].state = "not_sent" /\ \A d \in Requests \ {c} : claims'[d] = claims[d]
      <3>1. claims \in [Requests -> Gates!ClaimRows]
        BY DEF SendInv, SendingTypeOK
      <3> QED BY <2>1, <2>2, <3>1 DEF Gates!ClaimRows
    <2>5. \A d \in S : d = c
      BY <1>3, <2>1 DEF SendInv
    <2> QED BY <2>1, <2>2, <2>3, <2>4, <2>5
  <1> QED BY <1>1, <1>2, <1>3 DEF ReleaseUnsent
=============================================================================

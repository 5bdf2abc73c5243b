---------------------------- MODULE TransitionAuthority ----------------------------
(***************************************************************************)
(* Ownership gates of the money path: who may send an invoice to OKKI, and *)
(* which original request is still unresolved.                             *)
(*   backend/app/commerce_transition/service.py, transfer_service.py       *)
(*                                                                         *)
(* Every function of service.py starts by locking the policy singleton and *)
(* the caller commits, so one call is one atomic action here; lock_version *)
(* and policy.version, which only refuse a caller that lost a race, are    *)
(* therefore not variables.  Time is one bit per claim: `leased' is        *)
(* `lease_until > now' of an unresolved claim, and LeaseExpires lets the   *)
(* clock pass it; a resolved claim has none, because nothing reads its     *)
(* lease again: should it reopen, its invoice is frozen.                   *)
(***************************************************************************)
EXTENDS Integers, FiniteSets

CONSTANTS Invoices,     \* ark_invoices.id
          Claims,       \* request keys: one row of SendingClaim each
          Removals,     \* those whose operation ends in _remove
          Writers,      \* writer_key of WriterReceipt
          ExternalIds,  \* identities OKKI hands out
          MaxEpoch,     \* bound on the epochs a run explores
          MaxEvidence,  \* bound on the distinct observations of all claims
          None          \* SQL NULL / no row

ASSUME NoneAssumption == None \notin Invoices \cup ExternalIds \cup {"legacy", "local"}
ASSUME RemovalAssumption == Removals \subseteq Claims
ASSUME IdentityAssumption == ExternalIds # {}
ASSUME BoundAssumption == MaxEpoch \in Nat /\ MaxEvidence \in Nat

VARIABLES
    policy,        \* the PlatformPolicy singleton
    writers,       \* WriterReceipt.state, None before the row exists
    authority,     \* InvoiceAuthority by invoice; route None: no row
    claims,        \* SendingClaim by request key; state "absent": no row
    evidence,      \* ClaimEvidence rows, append only, as a set per claim
    preparations   \* TransferPreparation rows

vars == <<policy, writers, authority, claims, evidence, preparations>>

Routes   == {"legacy", "local"}
Phases   == {"legacy_only", "transition", "local_only"}
Terminal == {"succeeded", "failed", "not_sent"}
ManuallyReleasable == {"sending", "unknown"}
ClaimStates == {"absent"} \cup ManuallyReleasable \cup Terminal

\* A revoked writer and a compatible one of a recent protocol are both ready.
WriterStates == {"ready", "unknown"}
Policies == [phase: Phases, inventoried: BOOLEAN, localEver: BOOLEAN]
Authorities == [route: Routes \cup {None}, epoch: Nat,
                state: {"active", "frozen"}, confirmed: BOOLEAN]
ClaimRows == [state: ClaimStates, invoice: Invoices \cup {None},
              route: Routes \cup {None},
              epoch: Nat, holdsKey: BOOLEAN, externalId: ExternalIds \cup {None},
              leased: BOOLEAN]
Observations == [outcome: Terminal \cup {"unknown"}, externalId: ExternalIds \cup {None}]

TypeOK ==
    /\ policy \in Policies
    /\ writers \in [Writers -> WriterStates \cup {None}]
    /\ authority \in [Invoices -> Authorities]
    /\ claims \in [Claims -> ClaimRows]
    /\ evidence \in [Claims -> SUBSET Observations]
    /\ preparations \subseteq [invoices: SUBSET Invoices, epochs: [Invoices -> Nat],
                               state: {"waiting", "ready", "completed"}]

NoAuthority == [route |-> None, epoch |-> 0, state |-> "active", confirmed |-> FALSE]
NoClaim == [state |-> "absent", invoice |-> None, route |-> None, epoch |-> 0,
            holdsKey |-> FALSE, externalId |-> None, leased |-> FALSE]

\* The migration seed: legacy_only, nothing registered yet.
Init ==
    /\ policy = [phase |-> "legacy_only", inventoried |-> FALSE, localEver |-> FALSE]
    /\ writers = [w \in Writers |-> None]
    /\ authority = [i \in Invoices |-> NoAuthority]
    /\ claims = [c \in Claims |-> NoClaim]
    /\ evidence = [c \in Claims |-> {}]
    /\ preparations = {}

-----------------------------------------------------------------------------
(* Gates *)

Open(c) == claims[c].state \in ManuallyReleasable
OpenClaims(i) == {c \in Claims : claims[c].invoice = i /\ Open(c)}

WritersReady(attested, states) ==
    /\ attested
    /\ \E w \in Writers : states[w] # None
    /\ \A w \in Writers : states[w] # "unknown"

PhaseAllows(route) ==
    /\ policy.phase \in {"transition", IF route = "legacy" THEN "legacy_only" ELSE "local_only"}
    /\ policy.phase # "legacy_only" => WritersReady(policy.inventoried, writers)

RequireRoute(i, route, expectedEpoch) ==
    /\ PhaseAllows(route)
    /\ authority[i].route = route
    /\ authority[i].state = "active"
    /\ authority[i].epoch = expectedEpoch

-----------------------------------------------------------------------------
(* Platform policy *)

\* A first receipt of a writer withdraws the attestation that all are known.
SetWriterReceipt(w, state) ==
    /\ writers' = [writers EXCEPT ![w] = state]
    /\ policy' = [policy EXCEPT !.inventoried = @ /\ writers[w] # None]
    /\ UNCHANGED <<authority, claims, evidence, preparations>>

\* Bank identities, resource scopes and settled legacy invoices, which the code
\* also consults, are not modelled: no legacy authority is ever settled here.
SetPolicy(phase, attest) ==
    /\ phase = "legacy_only" =>
          ~policy.localEver /\ \A i \in Invoices : authority[i].route # "local"
    /\ phase = "local_only" =>
          /\ \A i \in Invoices : authority[i].route # "legacy"
          /\ \A c \in Claims : ~Open(c)
    /\ phase # "legacy_only" => WritersReady(attest \/ policy.inventoried, writers)
    /\ policy' = [policy EXCEPT !.phase = phase, !.inventoried = @ \/ attest]
    /\ UNCHANGED <<writers, authority, claims, evidence, preparations>>

-----------------------------------------------------------------------------
(* Invoice authority *)

\* Faulty variant: the phase is not asked.
EnsureAnyPhase(i, route, confirmed) ==
    /\ authority[i].route = None
    /\ authority' = [authority EXCEPT ![i] =
          [route |-> route, epoch |-> 1, state |-> "active", confirmed |-> confirmed]]
    /\ policy' = [policy EXCEPT !.localEver = @ \/ (route = "local" /\ confirmed)]
    /\ UNCHANGED <<writers, claims, evidence, preparations>>

\* An invoice gets its row on first contact, confirmed unless it is a draft.
EnsureAuthority(i, route, confirmed) ==
    /\ authority[i].route = None
    /\ PhaseAllows(route)
    /\ authority' = [authority EXCEPT ![i] =
          [route |-> route, epoch |-> 1, state |-> "active", confirmed |-> confirmed]]
    /\ policy' = [policy EXCEPT !.localEver = @ \/ (route = "local" /\ confirmed)]
    /\ UNCHANGED <<writers, claims, evidence, preparations>>

\* A draft may change route only while nothing formal has happened to it.
SetDraftRoute(i, route) ==
    /\ PhaseAllows(route)
    /\ authority[i].route \in Routes \ {route}
    /\ authority[i].state = "active" /\ ~authority[i].confirmed
    /\ \A c \in Claims : claims[c].invoice # i
    /\ authority[i].epoch < MaxEpoch
    /\ authority' = [authority EXCEPT ![i].route = route, ![i].epoch = @ + 1]
    /\ UNCHANGED <<policy, writers, claims, evidence, preparations>>

ConfirmAuthority(i, route, expectedEpoch) ==
    /\ RequireRoute(i, route, expectedEpoch)
    /\ ~authority[i].confirmed
    /\ authority' = [authority EXCEPT ![i].confirmed = TRUE]
    /\ policy' = [policy EXCEPT !.localEver = @ \/ route = "local"]
    /\ UNCHANGED <<writers, claims, evidence, preparations>>

-----------------------------------------------------------------------------
(* Sending claims *)

\* Faulty variant: a closed request key may be used again.
StartAgain(i, c, expectedEpoch) ==
    /\ RequireRoute(i, "legacy", expectedEpoch)
    /\ OpenClaims(i) = {} /\ ~Open(c)
    /\ authority' = [authority EXCEPT ![i].confirmed = TRUE]
    /\ claims' = [claims EXCEPT ![c] =
          [state |-> "sending", invoice |-> i, route |-> "legacy",
           epoch |-> authority[i].epoch, holdsKey |-> TRUE, externalId |-> None,
           leased |-> TRUE]]
    /\ UNCHANGED <<policy, writers, evidence, preparations>>

\* legacy_sending.start, the only caller of begin_send: authorize and confirm
\* the legacy route, then open the claim, in the caller's transaction.  A
\* request key that already has a row never grants a second send.
Start(i, c, expectedEpoch) ==
    /\ RequireRoute(i, "legacy", expectedEpoch)
    /\ claims[c].state = "absent"
    /\ OpenClaims(i) = {}
    /\ authority' = [authority EXCEPT ![i].confirmed = TRUE]
    /\ claims' = [claims EXCEPT ![c] =
          [state |-> "sending", invoice |-> i, route |-> "legacy",
           epoch |-> authority[i].epoch, holdsKey |-> TRUE, externalId |-> None,
           leased |-> TRUE]]
    /\ UNCHANGED <<policy, writers, evidence, preparations>>

\* The clock passes lease_until; nothing else happens to the claim.
LeaseExpires(c) ==
    /\ Open(c) /\ claims[c].leased
    /\ claims' = [claims EXCEPT ![c].leased = FALSE]
    /\ UNCHANGED <<policy, writers, authority, evidence, preparations>>

Observe(c, outcome, id) ==
    /\ evidence' = [evidence EXCEPT ![c] = @ \cup {[outcome |-> outcome, externalId |-> id]}]
    /\ Cardinality(UNION {{d} \X evidence'[d] : d \in Claims}) <= MaxEvidence

\* Faulty variant: two documents for one request do not contradict each other.
ContradictsByOutcome(c, outcome, id) ==
    claims[c].state \in Terminal /\ outcome # "unknown" /\ claims[c].state # outcome

\* Terminal evidence that disagrees with the outcome already on the claim.
Contradicts(c, outcome, id) ==
    /\ claims[c].state \in Terminal
    /\ outcome # "unknown"
    /\ claims[c].state # outcome \/ (id # None /\ claims[c].externalId # id)

\* Faulty variant: the unique key outlives the responsibility.
ResolvedKeepingKey(c, outcome, id) ==
    [claims[c] EXCEPT !.state = outcome, !.externalId = IF id # None THEN id ELSE @]

Resolved(c, outcome, id) == [claims[c] EXCEPT
    !.state = outcome,
    !.externalId = IF id # None THEN id ELSE @,
    !.holdsKey = IF outcome \in Terminal THEN FALSE ELSE @,
    !.leased = IF outcome \in Terminal THEN FALSE ELSE @]

\* finish_send on an unresolved claim: the observation becomes its state.
ResolveClaim(c, outcome, id) ==
    /\ Open(c)
    /\ claims' = [claims EXCEPT ![c] = Resolved(c, outcome, id)]
    /\ UNCHANGED authority

\* finish_send on a terminal claim with agreeing (or no conclusive) evidence.
RepeatObservation(c, outcome, id) ==
    /\ claims[c].state \in Terminal
    /\ ~Contradicts(c, outcome, id)
    /\ UNCHANGED <<claims, authority>>

\* Faulty variant: the invoice stays active.
ReopenWithoutFreeze(c, outcome, id) ==
    /\ Contradicts(c, outcome, id)
    /\ claims' = [claims EXCEPT ![c].state = "unknown"]
    /\ UNCHANGED authority

\* finish_send on a terminal claim with contradicting evidence: the invoice
\* freezes and the claim is unresolved again, without its unique key.
ReopenOnConflict(c, outcome, id) ==
    /\ Contradicts(c, outcome, id)
    /\ authority' = [authority EXCEPT ![claims[c].invoice].state = "frozen"]
    /\ claims' = [claims EXCEPT ![c].state = "unknown"]

FinishSend(c, outcome, id) ==
    /\ outcome = "succeeded" => id # None
    /\ \/ ResolveClaim(c, outcome, id)
       \/ RepeatObservation(c, outcome, id)
       \/ ReopenOnConflict(c, outcome, id)
    /\ Observe(c, outcome, id)
    /\ UNCHANGED <<policy, writers, preparations>>

\* Faulty variant: the sender's lease is not waited for.
ConfirmUnderLease(c) ==
    LET held == authority[claims[c].invoice] IN
    /\ Open(c) /\ held.state = "active"
    /\ claims[c].externalId = None \/ c \in Removals
    /\ claims' = [claims EXCEPT ![c] = [claims[c] EXCEPT !.state = "not_sent", !.holdsKey = FALSE]]
    /\ Observe(c, "not_sent", None)
    /\ UNCHANGED <<policy, writers, authority, preparations>>

\* Faulty variant: a state the table does not know.
ConfirmAsReleased(c) ==
    /\ Open(c) /\ ~claims[c].leased
    /\ claims' = [claims EXCEPT ![c].state = "released"]
    /\ UNCHANGED <<policy, writers, authority, evidence, preparations>>

\* An administrator attests that the original request created nothing.
ConfirmNotSent(c) ==
    LET held == authority[claims[c].invoice] IN
    /\ Open(c)
    /\ claims[c].externalId = None \/ c \in Removals
    /\ held.state = "active"
    /\ claims[c].route = held.route /\ claims[c].epoch = held.epoch
    /\ PhaseAllows(claims[c].route)
    /\ ~claims[c].leased
    /\ claims' = [claims EXCEPT ![c] = [claims[c] EXCEPT !.state = "not_sent", !.holdsKey = FALSE]]
    /\ Observe(c, "not_sent", None)
    /\ UNCHANGED <<policy, writers, authority, preparations>>

\* docs/runbook.md, the only way out of a conflict freeze: one transaction that
\* closes the one unresolved claim and reactivates the invoice.
ManualUnfreeze(c, outcome, id) ==
    LET i == claims[c].invoice IN
    /\ Open(c) /\ ~claims[c].holdsKey
    /\ OpenClaims(i) = {c}
    /\ authority[i].state = "frozen"
    /\ \/ outcome = "succeeded" /\ id # None
       \/ outcome = "not_sent" /\ id = None
    /\ claims' = [claims EXCEPT ![c] = [claims[c] EXCEPT !.state = outcome, !.externalId = id]]
    /\ authority' = [authority EXCEPT ![i].state = "active"]
    /\ Observe(c, outcome, id)
    /\ UNCHANGED <<policy, writers, preparations>>

-----------------------------------------------------------------------------
(* Transfer of a responsibility closure from the legacy to the local route. *)
(* Which sets of invoices are closures is decided in AuthorityTransfer.     *)

PrepareTransfer(S) ==
    /\ S # {}
    /\ PhaseAllows("local")
    /\ \A i \in S : /\ authority[i].route = "legacy" /\ authority[i].state = "active"
                    /\ authority[i].confirmed
    /\ authority' = [i \in Invoices |->
          IF i \in S THEN [authority[i] EXCEPT !.state = "frozen"] ELSE authority[i]]
    /\ preparations' = preparations \cup
          {[invoices |-> S,
            epochs |-> [i \in Invoices |-> IF i \in S THEN authority[i].epoch ELSE 0],
            state |-> IF \E i \in S : OpenClaims(i) # {} THEN "waiting" ELSE "ready"]}
    /\ UNCHANGED <<policy, writers, claims, evidence>>

\* Faulty variant: a waiting preparation completes over an unresolved request.
CompleteWithoutWaiting(p) ==
    /\ p \in preparations /\ p.state # "completed"
    /\ PhaseAllows("local")
    /\ \A i \in p.invoices :
          /\ authority[i].state = "frozen" /\ authority[i].route = "legacy"
          /\ authority[i].epoch = p.epochs[i] /\ authority[i].epoch < MaxEpoch
    /\ authority' = [i \in Invoices |->
          IF i \in p.invoices
          THEN [authority[i] EXCEPT !.route = "local", !.epoch = @ + 1, !.state = "active"]
          ELSE authority[i]]
    /\ preparations' = (preparations \ {p}) \cup {[p EXCEPT !.state = "completed"]}
    /\ policy' = [policy EXCEPT !.localEver = TRUE]
    /\ UNCHANGED <<writers, claims, evidence>>

CompleteTransfer(p) ==
    /\ p \in preparations /\ p.state # "completed"
    /\ PhaseAllows("local")
    /\ \A i \in p.invoices :
          /\ authority[i].state = "frozen" /\ authority[i].route = "legacy"
          /\ authority[i].epoch = p.epochs[i] /\ authority[i].epoch < MaxEpoch
          /\ OpenClaims(i) = {}
    /\ authority' = [i \in Invoices |->
          IF i \in p.invoices
          THEN [authority[i] EXCEPT !.route = "local", !.epoch = @ + 1, !.state = "active"]
          ELSE authority[i]]
    /\ preparations' = (preparations \ {p}) \cup {[p EXCEPT !.state = "completed"]}
    /\ policy' = [policy EXCEPT !.localEver = TRUE]
    /\ UNCHANGED <<writers, claims, evidence>>

-----------------------------------------------------------------------------

\* The document a removal names; it is in the payload, so fixed per request.
Target == CHOOSE id \in ExternalIds : TRUE

\* What the callers of finish report: a removal always names its target.
Reported(c) ==
    IF c \in Removals
    THEN {"succeeded", "failed", "unknown"} \X {Target}
    ELSE ({"succeeded"} \X ExternalIds) \cup ({"failed", "unknown"} \X {None})

PolicyNext ==
    \/ \E w \in Writers, s \in WriterStates : SetWriterReceipt(w, s)
    \/ \E phase \in Phases, attest \in BOOLEAN : SetPolicy(phase, attest)

AuthorityNext == \E i \in Invoices, route \in Routes :
    \/ \E confirmed \in BOOLEAN : EnsureAuthority(i, route, confirmed)
    \/ SetDraftRoute(i, route)
    \/ \E epoch \in 1 .. MaxEpoch : ConfirmAuthority(i, route, epoch)

ClaimNext == \E c \in Claims :
    \/ \E i \in Invoices, epoch \in 1 .. MaxEpoch : Start(i, c, epoch)
    \/ LeaseExpires(c)
    \/ claims[c].state # "absent" /\ \E r \in Reported(c) : FinishSend(c, r[1], r[2])
    \/ ConfirmNotSent(c)
    \/ \E outcome \in {"succeeded", "not_sent"}, id \in ExternalIds \cup {None} :
          ManualUnfreeze(c, outcome, id)

TransferNext ==
    \/ \E S \in SUBSET Invoices : PrepareTransfer(S)
    \/ \E p \in preparations : CompleteTransfer(p)

Next == PolicyNext \/ AuthorityNext \/ ClaimNext \/ TransferNext

Spec == Init /\ [][Next]_vars
-----------------------------------------------------------------------------
(* Properties *)

\* While an invoice is active at most one original request of it is unresolved;
\* that request holds the unique key and belongs to the present route and epoch.
\* (active_invoice_key: "One unresolved external responsibility per invoice".)
ExclusiveSender ==
    \A c \in Claims : Open(c) /\ authority[claims[c].invoice].state = "active" =>
        /\ OpenClaims(claims[c].invoice) = {c}
        /\ claims[c].holdsKey
        /\ claims[c].route = authority[claims[c].invoice].route
        /\ claims[c].epoch = authority[claims[c].invoice].epoch

\* The UNIQUE constraint on active_invoice_key is never what refuses a send: no
\* two claims of an invoice hold it, and a closed claim never keeps it.
KeyIsExclusive ==
    \A c, d \in Claims :
        /\ claims[c].holdsKey => Open(c)
        /\ claims[c].holdsKey /\ claims[d].holdsKey /\ c # d
              => claims[c].invoice # claims[d].invoice

\* The platform never falls back to a phase that disowns existing duties: no
\* local invoice under legacy_only, no legacy invoice under local_only.
PhaseMatchesDuties ==
    /\ policy.phase = "legacy_only" =>
          ~policy.localEver /\ \A i \in Invoices : authority[i].route # "local"
    /\ policy.phase = "local_only" => \A i \in Invoices : authority[i].route # "legacy"

Conclusive(c) == {o \in evidence[c] : o.outcome # "unknown"}
Contradictory(c) == \E o, p \in Conclusive(c) :
    o.outcome # p.outcome \/ (o.outcome = "succeeded" /\ o.externalId # p.externalId)

\* The observation that first contradicts what is known of a request freezes
\* its invoice in the same transaction, whatever was sent or moved since.
ContradictionFreezes ==
    [][\A c \in Claims : ~Contradictory(c) /\ Contradictory(c)'
          => authority'[claims[c].invoice].state = "frozen"]_vars

\* An invoice changes route only with nothing unresolved, and under a new epoch,
\* so no request authorized on the old route can still be acting for it.
RouteChangesAreFenced ==
    [][\A i \in Invoices : authority[i].route # None /\ authority'[i].route # authority[i].route
          => OpenClaims(i) = {} /\ authority'[i].epoch = authority[i].epoch + 1]_vars

\* The abstract promise: an exclusive, contestable responsibility per invoice.
Responsibility == INSTANCE ExclusiveResponsibility WITH
    holders <- [i \in Invoices |-> OpenClaims(i)],
    spent   <- {c \in Claims : claims[c].state # "absent"},
    blocked <- {i \in Invoices : authority[i].state = "frozen"}
ResponsibilitySpec == Responsibility!Spec
=============================================================================

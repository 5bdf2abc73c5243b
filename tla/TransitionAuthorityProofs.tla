------------------------ MODULE TransitionAuthorityProofs ------------------------
(***************************************************************************)
(* What holds of the transition gates for every set of invoices, request   *)
(* keys, writers and identities, and for every bound.                      *)
(***************************************************************************)
EXTENDS TransitionAuthority, TLAPS

\* A claim that exists belongs to an invoice whose authority row exists.
Linked ==
    \A c \in Claims : claims[c].state # "absent" =>
        claims[c].invoice \in Invoices /\ authority[claims[c].invoice].route # None

\* A missing authority row is told from every route an invoice can have.
LEMMA NoneIsNoRoute == \A r \in Routes : r # None
  BY NoneAssumption DEF Routes

\* The inductive strengthening of both exclusivities.
IInv == TypeOK /\ Linked /\ ExclusiveSender /\ KeyIsExclusive

\* The identity a removal aims at is one OKKI could have assigned.
LEMMA TargetIsIdentity == Target \in ExternalIds
  BY IdentityAssumption DEF Target

-----------------------------------------------------------------------------
(* Types *)

\* An empty database is well typed.
LEMMA InitType == Init => TypeOK
  BY NoneAssumption DEF Init, TypeOK, NoAuthority, NoClaim, Policies, Authorities, ClaimRows,
     ClaimStates, Routes, Phases, ManuallyReleasable, Terminal, Observations

\* What a sender or a readback reports is an observation of the table.
LEMMA ObserveType ==
  ASSUME TypeOK, NEW c \in Claims, NEW outcome \in Terminal \cup {"unknown"},
         NEW id \in ExternalIds \cup {None}, Observe(c, outcome, id)
  PROVE  evidence' \in [Claims -> SUBSET Observations]
  <1>1. [outcome |-> outcome, externalId |-> id] \in Observations
    BY DEF Observations
  <1> QED BY <1>1 DEF TypeOK, Observe

\* The row a resolution writes, whatever it is told, is a row of the table.
LEMMA ResolvedRow ==
  ASSUME NEW r \in ClaimRows, NEW s \in ClaimStates, NEW x \in ExternalIds \cup {None},
         NEW k \in BOOLEAN, NEW l \in BOOLEAN
  PROVE  /\ [r EXCEPT !.state = s, !.externalId = x, !.holdsKey = k, !.leased = l] \in ClaimRows
         /\ [r EXCEPT !.state = s, !.externalId = x] \in ClaimRows
         /\ [r EXCEPT !.state = s, !.holdsKey = k] \in ClaimRows
  BY DEF ClaimRows

\* Setting the policy or a writer's receipt keeps the types.
LEMMA PolicyType == ASSUME TypeOK, PolicyNext PROVE TypeOK'
  <1>1. ASSUME NEW w \in Writers, NEW s \in WriterStates, SetWriterReceipt(w, s) PROVE TypeOK'
    BY <1>1 DEF SetWriterReceipt, TypeOK, Policies
  <1>2. ASSUME NEW phase \in Phases, NEW attest \in BOOLEAN, SetPolicy(phase, attest) PROVE TypeOK'
    BY <1>2 DEF SetPolicy, TypeOK, Policies
  <1> QED BY <1>1, <1>2 DEF PolicyNext

\* Creating, routing and confirming an authority row keep the types.
LEMMA AuthorityType == ASSUME TypeOK, AuthorityNext PROVE TypeOK'
  <1> USE DEF TypeOK, Policies, Authorities
  <1>1. ASSUME NEW i \in Invoices, NEW r \in Routes, NEW k \in BOOLEAN, EnsureAuthority(i, r, k)
        PROVE  TypeOK'
    BY <1>1 DEF EnsureAuthority
  <1>2. ASSUME NEW i \in Invoices, NEW r \in Routes, SetDraftRoute(i, r) PROVE TypeOK'
    BY <1>2 DEF SetDraftRoute
  <1>3. ASSUME NEW i \in Invoices, NEW r \in Routes, NEW e \in 1 .. MaxEpoch,
               ConfirmAuthority(i, r, e)
        PROVE  TypeOK'
    BY <1>3 DEF ConfirmAuthority
  <1> QED BY <1>1, <1>2, <1>3 DEF AuthorityNext

\* What a sender or a readback may report are outcomes and identities of the tables.
LEMMA ReportedType ==
  ASSUME NEW c \in Claims, NEW r \in Reported(c)
  PROVE  r[1] \in Terminal \cup {"unknown"} /\ r[2] \in ExternalIds \cup {None}
  BY TargetIsIdentity DEF Reported, Terminal

\* Each way finish_send can end keeps the types.
LEMMA FinishType ==
  ASSUME TypeOK, NEW c \in Claims, NEW outcome \in Terminal \cup {"unknown"},
         NEW id \in ExternalIds \cup {None}, FinishSend(c, outcome, id)
  PROVE  TypeOK'
  <1>1. evidence' \in [Claims -> SUBSET Observations]
    BY ObserveType DEF FinishSend
  <1>2. CASE ResolveClaim(c, outcome, id)
    <2> DEFINE x == IF id # None THEN id ELSE claims[c].externalId
               k == IF outcome \in Terminal THEN FALSE ELSE claims[c].holdsKey
               l == IF outcome \in Terminal THEN FALSE ELSE claims[c].leased
               row == [claims[c] EXCEPT !.state = outcome, !.externalId = x, !.holdsKey = k,
                                        !.leased = l]
    <2>1. claims[c] \in ClaimRows
      BY DEF TypeOK
    <2>2a. x \in ExternalIds \cup {None}
      BY <2>1 DEF ClaimRows
    <2>2b. k \in BOOLEAN /\ l \in BOOLEAN
      BY <2>1 DEF ClaimRows
    <2>2c. outcome \in ClaimStates
      BY DEF ClaimStates, ManuallyReleasable
    <2>3. row \in ClaimRows
      BY <2>1, <2>2a, <2>2b, <2>2c, ResolvedRow
    <2>4. claims' = [claims EXCEPT ![c] = row]
      BY <1>2 DEF ResolveClaim, Resolved
    <2> HIDE DEF row
    <2>5. claims' \in [Claims -> ClaimRows]
      BY <2>3, <2>4 DEF TypeOK
    <2> QED BY <1>1, <1>2, <2>5 DEF FinishSend, ResolveClaim, TypeOK
  <1>3. CASE RepeatObservation(c, outcome, id)
    BY <1>1, <1>3 DEF FinishSend, RepeatObservation, TypeOK
  <1>4. CASE ReopenOnConflict(c, outcome, id)
    <2>1. claims' \in [Claims -> ClaimRows]
      BY <1>4 DEF ReopenOnConflict, TypeOK, ClaimRows, ClaimStates, ManuallyReleasable
    <2>2. authority' \in [Invoices -> Authorities]
      BY <1>4 DEF ReopenOnConflict, TypeOK, Authorities
    <2> QED BY <1>1, <2>1, <2>2 DEF FinishSend, TypeOK
  <1> QED BY <1>2, <1>3, <1>4 DEF FinishSend

\* Every operation on a claim keeps the types.
LEMMA ClaimType == ASSUME TypeOK, ClaimNext PROVE TypeOK'
  <1>1. ASSUME NEW c \in Claims, NEW i \in Invoices, NEW e \in 1 .. MaxEpoch, Start(i, c, e)
        PROVE  TypeOK'
    BY <1>1 DEF Start, TypeOK, ClaimRows, ClaimStates, ManuallyReleasable, Authorities, Routes
  <1>2. ASSUME NEW c \in Claims, LeaseExpires(c) PROVE TypeOK'
    BY <1>2 DEF LeaseExpires, TypeOK, ClaimRows
  <1>3. ASSUME NEW c \in Claims, NEW r \in Reported(c), FinishSend(c, r[1], r[2]) PROVE TypeOK'
    BY <1>3, ReportedType, FinishType
  <1>4. ASSUME NEW c \in Claims, ConfirmNotSent(c) PROVE TypeOK'
    <2>1. evidence' \in [Claims -> SUBSET Observations]
      BY <1>4, ObserveType DEF ConfirmNotSent, Terminal
    <2>2. [claims[c] EXCEPT !.state = "not_sent", !.holdsKey = FALSE] \in ClaimRows
      BY ResolvedRow DEF TypeOK, ClaimStates, Terminal
    <2>3. claims' \in [Claims -> ClaimRows]
      BY <1>4, <2>2 DEF ConfirmNotSent, TypeOK
    <2> QED BY <1>4, <2>1, <2>3 DEF ConfirmNotSent, TypeOK
  <1>5. ASSUME NEW c \in Claims, NEW o \in {"succeeded", "not_sent"},
               NEW id \in ExternalIds \cup {None}, ManualUnfreeze(c, o, id)
        PROVE  TypeOK'
    <2>1. evidence' \in [Claims -> SUBSET Observations]
      BY <1>5, ObserveType DEF ManualUnfreeze, Terminal
    <2>2. claims' \in [Claims -> ClaimRows]
      <3>1. [claims[c] EXCEPT !.state = o, !.externalId = id] \in ClaimRows
        BY ResolvedRow DEF TypeOK, ClaimStates, Terminal
      <3> QED BY <1>5, <3>1 DEF ManualUnfreeze, TypeOK
    <2>3. authority' \in [Invoices -> Authorities]
      BY <1>5 DEF ManualUnfreeze, TypeOK, Authorities
    <2> QED BY <1>5, <2>1, <2>2, <2>3 DEF ManualUnfreeze, TypeOK
  <1> QED BY <1>1, <1>2, <1>3, <1>4, <1>5 DEF ClaimNext

\* A transferred authority row, with its epoch raised, is a row of the table.
LEMMA MovedRow ==
  ASSUME NEW a \in Authorities
  PROVE  [a EXCEPT !.route = "local", !.epoch = @ + 1, !.state = "active"] \in Authorities
  <1>1. a.epoch + 1 \in Nat
    BY DEF Authorities
  <1> QED BY <1>1 DEF Authorities, Routes

\* Preparing and completing a transfer keep the types.
LEMMA TransferType == ASSUME TypeOK, TransferNext PROVE TypeOK'
  <1>1. ASSUME NEW S \in SUBSET Invoices, PrepareTransfer(S) PROVE TypeOK'
    <2>1. authority' \in [Invoices -> Authorities]
      BY <1>1 DEF PrepareTransfer, TypeOK, Authorities
    <2>2. [i \in Invoices |-> IF i \in S THEN authority[i].epoch ELSE 0] \in [Invoices -> Nat]
      BY DEF TypeOK, Authorities
    <2>3. preparations' \subseteq [invoices: SUBSET Invoices, epochs: [Invoices -> Nat],
                                   state: {"waiting", "ready", "completed"}]
      <3> DEFINE e == [i \in Invoices |-> IF i \in S THEN authority[i].epoch ELSE 0]
                 s == IF \E i \in S : OpenClaims(i) # {} THEN "waiting" ELSE "ready"
      <3>1. preparations' = preparations \cup {[invoices |-> S, epochs |-> e, state |-> s]}
        BY <1>1 DEF PrepareTransfer
      <3>2. s \in {"waiting", "ready", "completed"}
        OBVIOUS
      <3> HIDE DEF e, s
      <3> QED BY <2>2, <3>1, <3>2 DEF TypeOK, e
    <2> QED BY <1>1, <2>1, <2>3 DEF PrepareTransfer, TypeOK
  <1>2. ASSUME NEW p \in preparations, CompleteTransfer(p) PROVE TypeOK'
    <2>1. authority' \in [Invoices -> Authorities]
      <3> DEFINE moved(i) == [authority[i] EXCEPT !.route = "local", !.epoch = @ + 1,
                                                  !.state = "active"]
      <3>1. \A i \in Invoices : moved(i) \in Authorities
        BY MovedRow DEF TypeOK
      <3>2. \A i \in Invoices : authority[i] \in Authorities
        BY DEF TypeOK
      <3>3. authority' = [i \in Invoices |-> IF i \in p.invoices THEN moved(i) ELSE authority[i]]
        BY <1>2 DEF CompleteTransfer
      <3> HIDE DEF moved
      <3> QED BY <3>1, <3>2, <3>3
    <2>2. policy' \in Policies
      BY <1>2 DEF CompleteTransfer, TypeOK, Policies
    <2>3. preparations' \subseteq [invoices: SUBSET Invoices, epochs: [Invoices -> Nat],
                                   state: {"waiting", "ready", "completed"}]
      <3> DEFINE Rows == [invoices: SUBSET Invoices, epochs: [Invoices -> Nat],
                          state: {"waiting", "ready", "completed"}]
      <3>0. p \in Rows
        BY DEF TypeOK
      <3>1. [p EXCEPT !.state = "completed"] \in Rows
        BY <3>0
      <3> QED BY <1>2, <3>1 DEF CompleteTransfer, TypeOK
    <2> QED BY <1>2, <2>1, <2>2, <2>3 DEF CompleteTransfer, TypeOK
  <1> QED BY <1>1, <1>2 DEF TransferNext

\* Every reachable state is well typed: no transaction of the gates writes a
\* value the tables do not declare.
THEOREM TypeCorrect == Spec => []TypeOK
  <1>1. TypeOK /\ [Next]_vars => TypeOK'
    <2> SUFFICES ASSUME TypeOK, [Next]_vars PROVE TypeOK'
      OBVIOUS
    <2>1. CASE UNCHANGED vars
      BY <2>1 DEF vars, TypeOK
    <2> QED BY <2>1, PolicyType, AuthorityType, ClaimType, TransferType DEF Next
  <1> QED BY <1>1, InitType, PTL DEF Spec

-----------------------------------------------------------------------------
(* Exclusive responsibility *)

\* What ExclusiveSender and KeyIsExclusive can tell of one claim.
SameDuty(c) ==
    /\ claims'[c].state = "absent" <=> claims[c].state = "absent"
    /\ Open(c)' <=> Open(c)
    /\ claims'[c].invoice = claims[c].invoice
    /\ claims'[c].route = claims[c].route
    /\ claims'[c].epoch = claims[c].epoch
    /\ claims'[c].holdsKey = claims[c].holdsKey

\* A step that opens and closes no claim keeps every fact about them, provided
\* each invoice active after it either was, unmoved, or has nothing unresolved.
LEMMA DutiesUntouched ==
  ASSUME Linked, ExclusiveSender, KeyIsExclusive, \A c \in Claims : SameDuty(c),
         \A i \in Invoices : authority[i].route # None => authority'[i].route # None,
         \A i \in Invoices : authority'[i].state = "active" =>
            \/ OpenClaims(i) = {}
            \/ /\ authority[i].state = "active"
               /\ authority'[i].route = authority[i].route
               /\ authority'[i].epoch = authority[i].epoch
  PROVE  Linked' /\ ExclusiveSender' /\ KeyIsExclusive'
  <1>1. \A c \in Claims : Open(c)' <=> Open(c)
    BY DEF SameDuty
  <1>2. \A i \in Invoices : OpenClaims(i)' = OpenClaims(i)
    BY <1>1 DEF OpenClaims, SameDuty
  <1>3. Linked'
    BY DEF Linked, SameDuty
  <1>4. KeyIsExclusive'
    BY <1>1 DEF KeyIsExclusive, SameDuty
  <1>5. ExclusiveSender'
    <2> SUFFICES ASSUME NEW c \in Claims, Open(c)',
                        authority'[claims'[c].invoice].state = "active"
                 PROVE  /\ OpenClaims(claims[c].invoice)' = {c}
                        /\ claims'[c].holdsKey
                        /\ claims'[c].route = authority'[claims'[c].invoice].route
                        /\ claims'[c].epoch = authority'[claims'[c].invoice].epoch
      BY DEF ExclusiveSender
    <2>0. Open(c) /\ SameDuty(c)
      BY <1>1
    <2>1. claims[c].invoice \in Invoices
      BY <2>0 DEF Linked, Open, ManuallyReleasable
    <2>2. c \in OpenClaims(claims[c].invoice)
      BY <2>0 DEF OpenClaims
    <2>3. claims'[c].invoice = claims[c].invoice
      BY <2>0 DEF SameDuty
    <2>4. /\ authority[claims[c].invoice].state = "active"
          /\ authority'[claims[c].invoice].route = authority[claims[c].invoice].route
          /\ authority'[claims[c].invoice].epoch = authority[claims[c].invoice].epoch
      BY <2>1, <2>2, <2>3
    <2>5. OpenClaims(claims[c].invoice)' = {c}
      BY <1>2, <2>0, <2>1, <2>3, <2>4 DEF ExclusiveSender
    <2> QED BY <2>0, <2>3, <2>4, <2>5 DEF ExclusiveSender, SameDuty
  <1> QED BY <1>3, <1>4, <1>5

\* A step that leaves the claims alone leaves every duty as it was.
LEMMA ClaimsUntouched ==
  ASSUME claims' = claims PROVE \A c \in Claims : SameDuty(c)
  BY DEF SameDuty, Open

\* A step that writes one claim, and closes it or leaves it closed, loses no
\* exclusivity as long as the invoices that open have nothing else unresolved.
LEMMA OneClaimCloses ==
  ASSUME TypeOK, Linked, ExclusiveSender, KeyIsExclusive, NEW c \in Claims,
         claims' = [claims EXCEPT ![c] = claims'[c]],
         claims[c].state # "absent", claims'[c].invoice = claims[c].invoice,
         ~Open(c)', ~claims'[c].holdsKey,
         \A i \in Invoices : authority[i].route # None => authority'[i].route # None,
         \A i \in Invoices : authority'[i].state = "active" =>
            \/ OpenClaims(i) \subseteq {c}
            \/ /\ authority[i].state = "active"
               /\ authority'[i].route = authority[i].route
               /\ authority'[i].epoch = authority[i].epoch
  PROVE  Linked' /\ ExclusiveSender' /\ KeyIsExclusive'
  <1>1. \A d \in Claims \ {c} : claims'[d] = claims[d]
    BY DEF TypeOK
  <1>2. \A d \in Claims : Open(d)' => d # c /\ Open(d)
    BY <1>1 DEF Open
  <1>3. Linked'
    BY <1>1 DEF Linked
  <1>4. KeyIsExclusive'
    <2>1. ASSUME NEW d \in Claims, claims'[d].holdsKey PROVE d # c /\ Open(d)'
      BY <1>1, <2>1 DEF KeyIsExclusive, Open
    <2> QED BY <1>1, <2>1 DEF KeyIsExclusive
  <1>5. ExclusiveSender'
    <2> SUFFICES ASSUME NEW d \in Claims, Open(d)',
                        authority'[claims'[d].invoice].state = "active"
                 PROVE  /\ OpenClaims(claims[d].invoice)' = {d}
                        /\ claims'[d].holdsKey
                        /\ claims'[d].route = authority'[claims'[d].invoice].route
                        /\ claims'[d].epoch = authority'[claims'[d].invoice].epoch
      BY DEF ExclusiveSender
    <2>1. d # c /\ Open(d) /\ claims'[d] = claims[d] /\ claims[d].invoice \in Invoices
      BY <1>1, <1>2 DEF Linked, Open, ManuallyReleasable
    <2>2. d \in OpenClaims(claims[d].invoice)
      BY <2>1 DEF OpenClaims
    <2>3. ~(OpenClaims(claims[d].invoice) \subseteq {c})
      BY <2>1, <2>2
    <2>4. /\ authority[claims[d].invoice].state = "active"
          /\ authority'[claims[d].invoice].route = authority[claims[d].invoice].route
          /\ authority'[claims[d].invoice].epoch = authority[claims[d].invoice].epoch
      BY <2>1, <2>3
    <2>5. OpenClaims(claims[d].invoice) = {d}
      BY <2>1, <2>4 DEF ExclusiveSender
    <2>6. OpenClaims(claims[d].invoice)' = {d}
      BY <1>1, <1>2, <2>1, <2>5 DEF OpenClaims
    <2> QED BY <2>1, <2>4, <2>6 DEF ExclusiveSender
  <1> QED BY <1>3, <1>4, <1>5

\* Policy and writers have no part in who may send.
LEMMA PolicyExclusive ==
  ASSUME IInv, PolicyNext PROVE Linked' /\ ExclusiveSender' /\ KeyIsExclusive'
  <1>1. UNCHANGED <<authority, claims>>
    BY DEF PolicyNext, SetWriterReceipt, SetPolicy
  <1> QED BY <1>1, ClaimsUntouched, DutiesUntouched DEF IInv

\* A new, routed or confirmed authority row opens no second duty.
LEMMA AuthorityExclusive ==
  ASSUME IInv, AuthorityNext PROVE Linked' /\ ExclusiveSender' /\ KeyIsExclusive'
  <1> USE DEF IInv
  <1>1. ASSUME NEW i \in Invoices, NEW r \in Routes, NEW k \in BOOLEAN, EnsureAuthority(i, r, k)
        PROVE  Linked' /\ ExclusiveSender' /\ KeyIsExclusive'
    <2>1. OpenClaims(i) = {}
      BY <1>1 DEF EnsureAuthority, OpenClaims, Open, ManuallyReleasable, Linked
    <2>2. \A j \in Invoices : j # i => authority'[j] = authority[j]
      BY <1>1 DEF EnsureAuthority, TypeOK
    <2>3. authority[i].route = None
      BY <1>1 DEF EnsureAuthority
    <2> QED BY <1>1, <2>1, <2>2, <2>3, ClaimsUntouched, DutiesUntouched DEF EnsureAuthority
  <1>2. ASSUME NEW i \in Invoices, NEW r \in Routes, SetDraftRoute(i, r)
        PROVE  Linked' /\ ExclusiveSender' /\ KeyIsExclusive'
    <2>1. OpenClaims(i) = {}
      BY <1>2 DEF SetDraftRoute, OpenClaims
    <2>2. \A j \in Invoices : j # i => authority'[j] = authority[j]
      BY <1>2 DEF SetDraftRoute, TypeOK
    <2>3. authority'[i].route = r
      BY <1>2 DEF SetDraftRoute, TypeOK, Authorities
    <2> QED BY <1>2, <2>1, <2>2, <2>3, ClaimsUntouched, DutiesUntouched, NoneIsNoRoute
            DEF SetDraftRoute
  <1>3. ASSUME NEW i \in Invoices, NEW r \in Routes, NEW e \in 1 .. MaxEpoch,
               ConfirmAuthority(i, r, e)
        PROVE  Linked' /\ ExclusiveSender' /\ KeyIsExclusive'
    <2>1. \A j \in Invoices : /\ authority'[j].route = authority[j].route
                              /\ authority'[j].state = authority[j].state
                              /\ authority'[j].epoch = authority[j].epoch
      BY <1>3 DEF ConfirmAuthority, TypeOK, Authorities
    <2> QED BY <1>3, <2>1, ClaimsUntouched, DutiesUntouched DEF ConfirmAuthority
  <1> QED BY <1>1, <1>2, <1>3 DEF AuthorityNext

\* A set is transferred only when none of its invoices has a duty left.
LEMMA TransferExclusive ==
  ASSUME IInv, TransferNext PROVE Linked' /\ ExclusiveSender' /\ KeyIsExclusive'
  <1> USE DEF IInv
  <1>1. ASSUME NEW S \in SUBSET Invoices, PrepareTransfer(S)
        PROVE  Linked' /\ ExclusiveSender' /\ KeyIsExclusive'
    <2>1. \A j \in Invoices : /\ authority'[j].route = authority[j].route
                              /\ authority'[j].epoch = authority[j].epoch
                              /\ authority'[j].state = "active" => authority[j].state = "active"
      BY <1>1 DEF PrepareTransfer, TypeOK, Authorities
    <2> QED BY <1>1, <2>1, ClaimsUntouched, DutiesUntouched DEF PrepareTransfer
  <1>2. ASSUME NEW p \in preparations, CompleteTransfer(p)
        PROVE  Linked' /\ ExclusiveSender' /\ KeyIsExclusive'
    <2>1. \A j \in Invoices \ p.invoices : authority'[j] = authority[j]
      BY <1>2 DEF CompleteTransfer
    <2>2. \A j \in Invoices \cap p.invoices :
             OpenClaims(j) = {} /\ authority'[j].route = "local"
      <3> TAKE j \in Invoices \cap p.invoices
      <3>1. OpenClaims(j) = {}
        BY <1>2 DEF CompleteTransfer
      <3>2. authority'[j] = [authority[j] EXCEPT !.route = "local", !.epoch = @ + 1,
                                                 !.state = "active"]
        BY <1>2 DEF CompleteTransfer
      <3>3. authority[j] \in Authorities
        BY DEF TypeOK
      <3> QED BY <3>1, <3>2, <3>3 DEF Authorities
    <2> QED BY <1>2, <2>1, <2>2, ClaimsUntouched, DutiesUntouched, NoneIsNoRoute
            DEF CompleteTransfer, Routes
  <1> QED BY <1>1, <1>2 DEF TransferNext

\* begin_send admits a claim only to an invoice with nothing unresolved.
LEMMA StartExclusive ==
  ASSUME IInv, NEW c \in Claims, NEW i \in Invoices, NEW e \in 1 .. MaxEpoch, Start(i, c, e)
  PROVE  Linked' /\ ExclusiveSender' /\ KeyIsExclusive'
  <1> USE DEF IInv
  <1>1. \A d \in Claims \ {c} : claims'[d] = claims[d]
    BY DEF Start, TypeOK
  <1>2. claims'[c] = [state |-> "sending", invoice |-> i, route |-> "legacy",
                      epoch |-> authority[i].epoch, holdsKey |-> TRUE, externalId |-> None,
                      leased |-> TRUE]
    BY DEF Start, TypeOK
  <1>3. \A j \in Invoices : /\ authority'[j].route = authority[j].route
                            /\ authority'[j].state = authority[j].state
                            /\ authority'[j].epoch = authority[j].epoch
    BY DEF Start, TypeOK, Authorities
  <1>4. authority[i].route = "legacy" /\ "legacy" # None
    BY NoneIsNoRoute DEF Start, RequireRoute, Routes
  <1>5. Linked'
    BY <1>1, <1>2, <1>3, <1>4 DEF Linked
  <1>6. Open(c)' /\ ~Open(c) /\ \A d \in Claims \ {c} : Open(d)' <=> Open(d)
    BY <1>1, <1>2 DEF Open, Start, ManuallyReleasable
  <1>7. \A d \in Claims \ {c} : Open(d) => claims[d].invoice # i
    BY DEF Start, OpenClaims
  <1>8. KeyIsExclusive'
    BY <1>1, <1>2, <1>6, <1>7 DEF KeyIsExclusive
  <1>9. OpenClaims(i)' = {c} /\ \A j \in Invoices \ {i} : OpenClaims(j)' = OpenClaims(j)
    BY <1>1, <1>2, <1>6, <1>7 DEF OpenClaims
  <1>10. ExclusiveSender'
    <2> SUFFICES ASSUME NEW d \in Claims, Open(d)',
                        authority'[claims'[d].invoice].state = "active"
                 PROVE  /\ OpenClaims(claims[d].invoice)' = {d}
                        /\ claims'[d].holdsKey
                        /\ claims'[d].route = authority'[claims'[d].invoice].route
                        /\ claims'[d].epoch = authority'[claims'[d].invoice].epoch
      BY DEF ExclusiveSender
    <2>1. CASE d = c
      BY <1>2, <1>3, <1>4, <1>9, <2>1
    <2>2. CASE d # c
      <3>1. Open(d) /\ claims'[d] = claims[d] /\ claims[d].invoice \in Invoices \ {i}
        BY <1>1, <1>6, <1>7, <2>2 DEF Linked, Open, ManuallyReleasable
      <3> QED BY <1>3, <1>9, <3>1 DEF ExclusiveSender
    <2> QED BY <2>1, <2>2
  <1> QED BY <1>5, <1>8, <1>10

\* finish_send closes its own claim, or reopens it and freezes the invoice.
LEMMA FinishExclusive ==
  ASSUME IInv, NEW c \in Claims, NEW outcome \in Terminal \cup {"unknown"},
         NEW id \in ExternalIds \cup {None},
         claims[c].state # "absent", FinishSend(c, outcome, id)
  PROVE  Linked' /\ ExclusiveSender' /\ KeyIsExclusive'
  <1> USE DEF IInv
  <1>1. CASE RepeatObservation(c, outcome, id)
    <2>1. UNCHANGED <<claims, authority>>
      BY <1>1 DEF RepeatObservation
    <2> QED BY <2>1, ClaimsUntouched, DutiesUntouched
  <1>2. CASE ResolveClaim(c, outcome, id) /\ outcome = "unknown"
    <2>1. \A d \in Claims \ {c} : claims'[d] = claims[d]
      BY <1>2 DEF ResolveClaim, TypeOK
    <2>2. /\ claims'[c].state = "unknown"
          /\ claims'[c].invoice = claims[c].invoice
          /\ claims'[c].route = claims[c].route
          /\ claims'[c].epoch = claims[c].epoch
          /\ claims'[c].holdsKey = claims[c].holdsKey
      BY <1>2 DEF ResolveClaim, Resolved, TypeOK, ClaimRows, Terminal
    <2>3. \A d \in Claims : SameDuty(d)
      BY <1>2, <2>1, <2>2 DEF SameDuty, Open, ResolveClaim, ManuallyReleasable
    <2> QED BY <1>2, <2>3, DutiesUntouched DEF ResolveClaim
  <1>3. CASE ResolveClaim(c, outcome, id) /\ outcome # "unknown"
    <2>1. /\ claims' = [claims EXCEPT ![c] = claims'[c]]
          /\ claims'[c].invoice = claims[c].invoice
          /\ claims'[c].state = outcome
          /\ ~claims'[c].holdsKey
      BY <1>3 DEF ResolveClaim, Resolved, TypeOK, ClaimRows
    <2>2. ~Open(c)'
      BY <1>3, <2>1 DEF Open, Terminal, ManuallyReleasable
    <2> QED BY <1>3, <2>1, <2>2, OneClaimCloses DEF ResolveClaim
  <1>4. CASE ReopenOnConflict(c, outcome, id)
    <2> DEFINE i == claims[c].invoice
    <2>1. i \in Invoices /\ ~Open(c) /\ ~claims[c].holdsKey
      BY <1>4 DEF ReopenOnConflict, Contradicts, Open, ManuallyReleasable, Terminal,
         Linked, KeyIsExclusive
    <2>2. \A d \in Claims \ {c} : claims'[d] = claims[d]
      BY <1>4 DEF ReopenOnConflict, TypeOK
    <2>3. /\ claims'[c].state = "unknown"
          /\ claims'[c].invoice = i
          /\ claims'[c].holdsKey = claims[c].holdsKey
      BY <1>4 DEF ReopenOnConflict, TypeOK, ClaimRows
    <2>4. /\ \A j \in Invoices \ {i} : authority'[j] = authority[j]
          /\ authority'[i].state = "frozen"
          /\ authority'[i].route = authority[i].route
      BY <1>4, <2>1 DEF ReopenOnConflict, TypeOK, Authorities
    <2>5. Linked'
      BY <2>1, <2>2, <2>3, <2>4 DEF Linked
    <2>6. \A d \in Claims \ {c} : Open(d)' <=> Open(d)
      BY <2>2 DEF Open
    <2>7. KeyIsExclusive'
      BY <2>1, <2>2, <2>3, <2>6 DEF KeyIsExclusive
    <2>8. \A j \in Invoices \ {i} : OpenClaims(j)' = OpenClaims(j)
      BY <2>2, <2>3, <2>6, <2>1 DEF OpenClaims
    <2>9. ExclusiveSender'
      <3> SUFFICES ASSUME NEW d \in Claims, Open(d)',
                          authority'[claims'[d].invoice].state = "active"
                   PROVE  /\ OpenClaims(claims[d].invoice)' = {d}
                          /\ claims'[d].holdsKey
                          /\ claims'[d].route = authority'[claims'[d].invoice].route
                          /\ claims'[d].epoch = authority'[claims'[d].invoice].epoch
        BY DEF ExclusiveSender
      <3>1. d # c /\ claims'[d] = claims[d] /\ Open(d)
        BY <2>2, <2>3, <2>4, <2>6
      <3>2. claims[d].invoice \in Invoices \ {i}
        BY <2>4, <3>1 DEF Linked, Open, ManuallyReleasable
      <3> QED BY <2>4, <2>8, <3>1, <3>2 DEF ExclusiveSender
    <2> QED BY <2>5, <2>7, <2>9
  <1> QED BY <1>1, <1>2, <1>3, <1>4 DEF FinishSend

\* Every operation on a claim keeps links and exclusivities.
LEMMA ClaimExclusive ==
  ASSUME IInv, ClaimNext PROVE Linked' /\ ExclusiveSender' /\ KeyIsExclusive'
  <1> USE DEF IInv
  <1>1. ASSUME NEW c \in Claims, NEW i \in Invoices, NEW e \in 1 .. MaxEpoch, Start(i, c, e)
        PROVE  Linked' /\ ExclusiveSender' /\ KeyIsExclusive'
    BY <1>1, StartExclusive
  <1>2. ASSUME NEW c \in Claims, LeaseExpires(c)
        PROVE  Linked' /\ ExclusiveSender' /\ KeyIsExclusive'
    <2>1. \A d \in Claims : SameDuty(d)
      BY <1>2 DEF LeaseExpires, TypeOK, ClaimRows, SameDuty, Open
    <2> QED BY <1>2, <2>1, DutiesUntouched DEF LeaseExpires
  <1>3. ASSUME NEW c \in Claims, claims[c].state # "absent",
               NEW r \in Reported(c), FinishSend(c, r[1], r[2])
        PROVE  Linked' /\ ExclusiveSender' /\ KeyIsExclusive'
    BY <1>3, ReportedType, FinishExclusive
  <1>4. ASSUME NEW c \in Claims, ConfirmNotSent(c)
        PROVE  Linked' /\ ExclusiveSender' /\ KeyIsExclusive'
    <2>1. /\ claims' = [claims EXCEPT ![c] = claims'[c]]
          /\ claims'[c].invoice = claims[c].invoice
          /\ claims'[c].state = "not_sent"
          /\ ~claims'[c].holdsKey
      BY <1>4 DEF ConfirmNotSent, TypeOK, ClaimRows
    <2>2. ~Open(c)' /\ claims[c].state # "absent"
      BY <1>4, <2>1 DEF Open, ManuallyReleasable, ConfirmNotSent
    <2> QED BY <1>4, <2>1, <2>2, OneClaimCloses DEF ConfirmNotSent
  <1>5. ASSUME NEW c \in Claims, NEW o \in {"succeeded", "not_sent"},
               NEW id \in ExternalIds \cup {None}, ManualUnfreeze(c, o, id)
        PROVE  Linked' /\ ExclusiveSender' /\ KeyIsExclusive'
    <2> DEFINE i == claims[c].invoice
    <2>1. /\ claims' = [claims EXCEPT ![c] = claims'[c]]
          /\ claims'[c].invoice = claims[c].invoice
          /\ claims'[c].state = o
          /\ claims'[c].holdsKey = claims[c].holdsKey
      BY <1>5 DEF ManualUnfreeze, TypeOK, ClaimRows
    <2>2. ~Open(c)' /\ claims[c].state # "absent" /\ ~claims'[c].holdsKey
      BY <1>5, <2>1 DEF Open, ManuallyReleasable, ManualUnfreeze
    <2>3. i \in Invoices /\ OpenClaims(i) = {c}
      BY <1>5, <2>2 DEF ManualUnfreeze, Linked
    <2>4. /\ \A j \in Invoices \ {i} : authority'[j] = authority[j]
          /\ authority'[i].route = authority[i].route
      BY <1>5, <2>3 DEF ManualUnfreeze, TypeOK, Authorities
    <2> QED BY <2>1, <2>2, <2>3, <2>4, OneClaimCloses
  <1> QED BY <1>1, <1>2, <1>3, <1>4, <1>5 DEF ClaimNext

\* The strengthening is inductive: types, links and both exclusivities together.
LEMMA Inductive == IInv /\ [Next]_vars => IInv'
  <1> SUFFICES ASSUME IInv, [Next]_vars PROVE IInv'
    OBVIOUS
  <1>1. CASE UNCHANGED vars
    <2>1. UNCHANGED <<claims, authority>> /\ TypeOK'
      BY <1>1 DEF vars, IInv, TypeOK
    <2> QED BY <2>1, ClaimsUntouched, DutiesUntouched DEF IInv
  <1>2. CASE Next
    BY <1>2, PolicyType, AuthorityType, ClaimType, TransferType,
       PolicyExclusive, AuthorityExclusive, ClaimExclusive, TransferExclusive DEF Next, IInv
  <1> QED BY <1>1, <1>2

\* An empty database satisfies the strengthening.
LEMMA InitInv == Init => IInv
  BY InitType DEF Init, IInv, Linked, ExclusiveSender, KeyIsExclusive, Open, OpenClaims,
     ManuallyReleasable, NoClaim

\* The gates never leave the strengthening, whatever the constants.
THEOREM Invariant == Spec => []IInv
  BY InitInv, Inductive, PTL DEF Spec

\* An active invoice has at most one unresolved original request, which holds
\* its unique key under the invoice's present route and epoch.
THEOREM SenderIsExclusive == Spec => []ExclusiveSender
  BY Invariant, PTL DEF IInv

\* No two claims of an invoice ever hold active_invoice_key, so the UNIQUE
\* constraint is a second line of defence and never the one that refuses.
THEOREM KeyNeverCollides == Spec => []KeyIsExclusive
  BY Invariant, PTL DEF IInv
-----------------------------------------------------------------------------
(* Phases and routes *)

\* What a step may do to one invoice's route: a sender, a freeze or an
\* unfreeze leaves it alone, and every other step asks the phase first.
RouteKept(i) == authority'[i].route = authority[i].route

\* Steps on claims never move a route.
LEMMA ClaimsKeepRoutes ==
  ASSUME TypeOK, ClaimNext
  PROVE  (\A i \in Invoices : RouteKept(i)) /\ UNCHANGED policy
  <1> USE DEF RouteKept, TypeOK, Authorities
  <1>1. ASSUME NEW c \in Claims, NEW i \in Invoices, NEW e \in 1 .. MaxEpoch, Start(i, c, e)
        PROVE  (\A j \in Invoices : RouteKept(j)) /\ UNCHANGED policy
    BY <1>1 DEF Start
  <1>2. ASSUME NEW c \in Claims, LeaseExpires(c)
        PROVE  (\A j \in Invoices : RouteKept(j)) /\ UNCHANGED policy
    BY <1>2 DEF LeaseExpires
  <1>3. ASSUME NEW c \in Claims, NEW r \in Reported(c), FinishSend(c, r[1], r[2])
        PROVE  (\A j \in Invoices : RouteKept(j)) /\ UNCHANGED policy
    <2>1. UNCHANGED policy
      BY <1>3 DEF FinishSend
    <2>2. UNCHANGED authority \/ ReopenOnConflict(c, r[1], r[2])
      BY <1>3 DEF FinishSend, ResolveClaim, RepeatObservation
    <2>3. CASE ReopenOnConflict(c, r[1], r[2])
      BY <2>1, <2>3 DEF ReopenOnConflict
    <2> QED BY <2>1, <2>2, <2>3
  <1>4. ASSUME NEW c \in Claims, ConfirmNotSent(c)
        PROVE  (\A j \in Invoices : RouteKept(j)) /\ UNCHANGED policy
    BY <1>4 DEF ConfirmNotSent
  <1>5. ASSUME NEW c \in Claims, NEW o \in {"succeeded", "not_sent"},
               NEW id \in ExternalIds \cup {None}, ManualUnfreeze(c, o, id)
        PROVE  (\A j \in Invoices : RouteKept(j)) /\ UNCHANGED policy
    BY <1>5 DEF ManualUnfreeze
  <1> QED BY <1>1, <1>2, <1>3, <1>4, <1>5 DEF ClaimNext

\* Each step keeps the phase behind the duties it has taken over.
LEMMA PhaseStep ==
  ASSUME TypeOK, PhaseMatchesDuties, [Next]_vars
  PROVE  PhaseMatchesDuties'
  <1> USE DEF PhaseMatchesDuties, TypeOK, Authorities, Policies, Routes, Phases
  <1>1. ASSUME NEW w \in Writers, NEW s \in WriterStates, SetWriterReceipt(w, s)
        PROVE  PhaseMatchesDuties'
    BY <1>1 DEF SetWriterReceipt
  <1>2. ASSUME NEW phase \in Phases, NEW attest \in BOOLEAN, SetPolicy(phase, attest)
        PROVE  PhaseMatchesDuties'
    BY <1>2 DEF SetPolicy
  <1>3. ASSUME NEW i \in Invoices, NEW r \in Routes, NEW k \in BOOLEAN, EnsureAuthority(i, r, k)
        PROVE  PhaseMatchesDuties'
    BY <1>3 DEF EnsureAuthority, PhaseAllows
  <1>4. ASSUME NEW i \in Invoices, NEW r \in Routes, SetDraftRoute(i, r)
        PROVE  PhaseMatchesDuties'
    BY <1>4 DEF SetDraftRoute, PhaseAllows
  <1>5. ASSUME NEW i \in Invoices, NEW r \in Routes, NEW e \in 1 .. MaxEpoch,
               ConfirmAuthority(i, r, e)
        PROVE  PhaseMatchesDuties'
    BY <1>5 DEF ConfirmAuthority, RequireRoute, PhaseAllows
  <1>6. CASE ClaimNext
    BY <1>6, ClaimsKeepRoutes DEF RouteKept
  <1>7. ASSUME NEW S \in SUBSET Invoices, PrepareTransfer(S)
        PROVE  PhaseMatchesDuties'
    BY <1>7 DEF PrepareTransfer
  <1>8. ASSUME NEW p \in preparations, CompleteTransfer(p)
        PROVE  PhaseMatchesDuties'
    BY <1>8 DEF CompleteTransfer, PhaseAllows
  <1>9. CASE UNCHANGED vars
    BY <1>9 DEF vars
  <1> QED BY <1>1, <1>2, <1>3, <1>4, <1>5, <1>6, <1>7, <1>8, <1>9
          DEF Next, PolicyNext, AuthorityNext, TransferNext

\* The platform never reaches a phase that disowns a local or a legacy invoice.
THEOREM PhaseFollowsDuties == Spec => []PhaseMatchesDuties
  <1>1. Init => PhaseMatchesDuties
    BY NoneAssumption DEF Init, PhaseMatchesDuties, NoAuthority
  <1> QED BY <1>1, PhaseStep, TypeCorrect, PTL DEF Spec

\* One step of the gates moves a route only when nothing is unresolved, and
\* then raises the epoch by one.
RouteFenced ==
    \A i \in Invoices : authority[i].route # None /\ authority'[i].route # authority[i].route
        => OpenClaims(i) = {} /\ authority'[i].epoch = authority[i].epoch + 1

\* Transfer, confirmation and the choice for a draft all carry the fence.
LEMMA RouteStep ==
  ASSUME TypeOK, Next
  PROVE  RouteFenced
  <1> USE DEF RouteFenced, TypeOK, Authorities
  <1>1. CASE PolicyNext
    BY <1>1 DEF PolicyNext, SetPolicy, SetWriterReceipt
  <1>2. ASSUME NEW i \in Invoices, NEW r \in Routes, NEW k \in BOOLEAN, EnsureAuthority(i, r, k)
        PROVE  RouteFenced
    BY <1>2 DEF EnsureAuthority
  <1>3. ASSUME NEW i \in Invoices, NEW r \in Routes, SetDraftRoute(i, r)
        PROVE  RouteFenced
    BY <1>3 DEF SetDraftRoute, OpenClaims
  <1>4. ASSUME NEW i \in Invoices, NEW r \in Routes, NEW e \in 1 .. MaxEpoch,
               ConfirmAuthority(i, r, e)
        PROVE  RouteFenced
    BY <1>4 DEF ConfirmAuthority
  <1>5. CASE ClaimNext
    BY <1>5, ClaimsKeepRoutes DEF RouteKept
  <1>6. ASSUME NEW S \in SUBSET Invoices, PrepareTransfer(S)
        PROVE  RouteFenced
    BY <1>6 DEF PrepareTransfer
  <1>7. ASSUME NEW p \in preparations, CompleteTransfer(p)
        PROVE  RouteFenced
    <2> TAKE i \in Invoices
    <2> HAVE authority[i].route # None /\ authority'[i].route # authority[i].route
    <2>1. authority' = [j \in Invoices |->
            IF j \in p.invoices
            THEN [authority[j] EXCEPT !.route = "local", !.epoch = @ + 1, !.state = "active"]
            ELSE authority[j]]
      BY <1>7 DEF CompleteTransfer
    <2>2. i \in p.invoices
      BY <2>1
    <2>3. OpenClaims(i) = {}
      BY <1>7, <2>2 DEF CompleteTransfer
    <2>4. authority'[i] = [authority[i] EXCEPT !.route = "local", !.epoch = @ + 1,
                                               !.state = "active"]
      BY <2>1, <2>2
    <2>5. authority[i] \in Authorities
      OBVIOUS
    <2>6. authority'[i].epoch = authority[i].epoch + 1
      BY <2>4, <2>5
    <2> QED BY <2>3, <2>6
  <1> QED BY <1>1, <1>2, <1>3, <1>4, <1>5, <1>6, <1>7 DEF Next, AuthorityNext, TransferNext

\* A route never moves under an unresolved request, and never without a new
\* epoch that fences whoever was authorized before.
THEOREM RoutesAreFenced == Spec => RouteChangesAreFenced
  <1>1. TypeOK /\ [Next]_vars => [RouteFenced]_vars
    BY RouteStep
  <1>2. Spec => [][RouteFenced]_vars
    BY <1>1, TypeCorrect, PTL DEF Spec
  <1> QED BY <1>2 DEF RouteFenced, RouteChangesAreFenced

-----------------------------------------------------------------------------
(* What the gates promise their callers: evidence that contradicts itself  *)
(* freezes the invoice, and responsibility is the lock of                  *)
(* ExclusiveResponsibility.                                                *)

\* The row of a terminal claim says what this observation said.
Agrees(c, o) ==
    /\ o.outcome = claims[c].state
    /\ o.outcome = "succeeded" => o.externalId = claims[c].externalId

\* An unresolved claim has no conclusive evidence, unless it is contested; a
\* terminal one has evidence of what it says, and all of it, unless contested.
\* A removal that failed names its target, so another failure repeats it.
Fits(c) ==
    /\ claims[c].state = "absent" => evidence[c] = {}
    /\ Open(c) => Conclusive(c) = {} \/ Contradictory(c)
    /\ claims[c].state \in Terminal =>
          /\ \E o \in Conclusive(c) : Agrees(c, o)
          /\ Contradictory(c) \/ \A o \in Conclusive(c) : Agrees(c, o)
    /\ c \in Removals /\ claims[c].state = "failed" => claims[c].externalId = Target

\* The inductive strengthening: the gates' invariant, and evidence that fits.
EvidenceFits == \A c \in Claims : Fits(c)
FitInv == IInv /\ EvidenceFits

-----------------------------------------------------------------------------

\* Evidence that all says what the row says cannot contradict itself.
LEMMA AgreementIsConsistent ==
  ASSUME NEW c \in Claims, \A o \in Conclusive(c) : Agrees(c, o)
  PROVE  ~Contradictory(c)
  BY DEF Contradictory, Agrees

\* A claim whose row and evidence a step leaves alone fits as before.
LEMMA FitsUntouched ==
  ASSUME NEW c \in Claims, Fits(c), evidence'[c] = evidence[c],
         claims'[c].externalId = claims[c].externalId,
         \/ claims'[c].state = claims[c].state
         \/ claims[c].state = "absent" /\ claims'[c].state = "sending"
  PROVE  Fits(c)' /\ (Contradictory(c)' <=> Contradictory(c))
  BY DEF Fits, Open, Conclusive, Contradictory, Agrees, ManuallyReleasable, Terminal

\* An observation is added to the evidence of its claim, and to no other.
LEMMA ObserveAdds ==
  ASSUME TypeOK, NEW c \in Claims, NEW outcome, NEW id, Observe(c, outcome, id)
  PROVE  /\ evidence'[c] = evidence[c] \cup {[outcome |-> outcome, externalId |-> id]}
         /\ \A d \in Claims \ {c} : evidence'[d] = evidence[d]
  BY DEF TypeOK, Observe

\* What was contradictory stays so, and an inconclusive observation adds nothing.
LEMMA EvidenceIsKept ==
  ASSUME TypeOK, NEW c \in Claims, NEW outcome, NEW id, Observe(c, outcome, id)
  PROVE  /\ Contradictory(c) => Contradictory(c)'
         /\ outcome = "unknown" => Conclusive(c)' = Conclusive(c)
         /\ outcome # "unknown" =>
               Conclusive(c)' = Conclusive(c) \cup {[outcome |-> outcome, externalId |-> id]}
  <1>1. evidence'[c] = evidence[c] \cup {[outcome |-> outcome, externalId |-> id]}
    BY ObserveAdds
  <1>2. Conclusive(c) \subseteq Conclusive(c)'
    BY <1>1 DEF Conclusive
  <1>3. Contradictory(c) => Contradictory(c)'
    BY <1>2 DEF Contradictory
  <1> QED BY <1>1, <1>3 DEF Conclusive

\* A step that resolves an unresolved claim as it reports contests nothing new.
LEMMA FirstConclusion ==
  ASSUME TypeOK, NEW c \in Claims, Fits(c), Open(c),
         NEW outcome \in Terminal, NEW id \in ExternalIds \cup {None},
         Observe(c, outcome, id), claims'[c].state = outcome,
         outcome = "succeeded" => claims'[c].externalId = id,
         c \in Removals /\ outcome = "failed" => claims'[c].externalId = Target
  PROVE  Fits(c)' /\ (Contradictory(c)' => Contradictory(c))
  <1> DEFINE o == [outcome |-> outcome, externalId |-> id]
  <1>1. Agrees(c, o)'
    BY DEF Agrees
  <1>2. Conclusive(c)' = Conclusive(c) \cup {o}
    BY EvidenceIsKept DEF Terminal
  <1>3. \E p \in Conclusive(c)' : Agrees(c, p)'
    BY <1>1, <1>2
  <1>4. CASE Contradictory(c)
    <2>1. Contradictory(c)'
      BY <1>4, EvidenceIsKept
    <2> QED BY <1>3, <1>4, <2>1 DEF Fits, Open, ManuallyReleasable, Terminal
  <1>5. CASE Conclusive(c) = {}
    <2>1. \A p \in Conclusive(c)' : Agrees(c, p)'
      BY <1>1, <1>2, <1>5
    <2>2. ~Contradictory(c)'
      BY <2>1 DEF Contradictory, Agrees
    <2> QED BY <1>3, <2>1, <2>2 DEF Fits, Open, ManuallyReleasable, Terminal
  <1> QED BY <1>4, <1>5 DEF Fits

\* What finish_send does to its claim: the evidence still fits, and if it has come
\* to contradict itself the invoice is frozen.
LEMMA FinishFits ==
  ASSUME FitInv, NEW c \in Claims, claims[c].state # "absent", NEW r \in Reported(c),
         FinishSend(c, r[1], r[2])
  PROVE  /\ Fits(c)'
         /\ ~Contradictory(c) /\ Contradictory(c)' =>
               authority'[claims[c].invoice].state = "frozen"
  <1> DEFINE outcome == r[1]
             id == r[2]
             o == [outcome |-> outcome, externalId |-> id]
  <1>0. /\ outcome \in {"succeeded", "failed", "unknown"} /\ id \in ExternalIds \cup {None}
        /\ outcome = "succeeded" => id # None
        /\ c \in Removals => id = Target
        /\ c \notin Removals /\ outcome = "failed" => id = None
    BY TargetIsIdentity, NoneAssumption DEF Reported, FinishSend
  <1>1. TypeOK /\ Fits(c) /\ Linked /\ Observe(c, outcome, id)
    BY DEF FitInv, IInv, EvidenceFits, FinishSend
  <1>2. Target # None
    BY TargetIsIdentity, NoneAssumption
  <1> HIDE DEF outcome, id
  <1>3. CASE ResolveClaim(c, outcome, id)
    <2>1. /\ Open(c) /\ claims'[c].state = outcome
          /\ claims'[c].externalId = IF id # None THEN id ELSE claims[c].externalId
      BY <1>1, <1>3 DEF ResolveClaim, Resolved, TypeOK, ClaimRows
    <2>2. CASE outcome = "unknown"
      <3>1. Conclusive(c)' = Conclusive(c)
        BY <1>1, <2>2, EvidenceIsKept
      <3>2. Contradictory(c)' <=> Contradictory(c)
        BY <3>1 DEF Contradictory
      <3> QED BY <1>1, <2>1, <2>2, <3>1, <3>2 DEF Fits, Open, ManuallyReleasable, Terminal
    <2>3. CASE outcome # "unknown"
      <3>1. outcome \in Terminal
        BY <1>0, <2>3 DEF Terminal
      <3>2. outcome = "succeeded" => claims'[c].externalId = id
        BY <1>0, <2>1
      <3>3. c \in Removals /\ outcome = "failed" => claims'[c].externalId = Target
        BY <1>0, <1>2, <2>1
      <3> QED BY <1>0, <1>1, <2>1, <3>1, <3>2, <3>3, FirstConclusion
    <2> QED BY <2>2, <2>3
  <1>4. CASE RepeatObservation(c, outcome, id)
    <2>1. /\ claims[c].state \in Terminal /\ claims' = claims
          /\ outcome # "unknown" => claims[c].state = outcome
          /\ outcome # "unknown" /\ id # None => claims[c].externalId = id
      BY <1>4 DEF RepeatObservation, Contradicts
    <2>2. CASE outcome = "unknown"
      <3>1. Conclusive(c)' = Conclusive(c)
        BY <1>1, <2>2, EvidenceIsKept
      <3>2. Contradictory(c)' <=> Contradictory(c)
        BY <3>1 DEF Contradictory
      <3> QED BY <1>1, <2>1, <3>1, <3>2 DEF Fits, Open, ManuallyReleasable, Terminal, Agrees
    <2>3. CASE outcome # "unknown"
      <3>1. Conclusive(c)' = Conclusive(c) \cup {o}
        BY <1>1, <2>3, EvidenceIsKept
      <3>2. Agrees(c, o)'
        BY <1>0, <2>1, <2>3 DEF Agrees
      <3>3. \E p \in Conclusive(c)' : Agrees(c, p)'
        BY <3>1, <3>2
      <3>4. CASE Contradictory(c)
        <4>1. Contradictory(c)'
          BY <1>1, <3>4, EvidenceIsKept
        <4> QED BY <1>1, <2>1, <3>3, <3>4, <4>1 DEF Fits, Open, ManuallyReleasable, Terminal
      <3>5. CASE \A p \in Conclusive(c) : Agrees(c, p)
        <4>1. \A p \in Conclusive(c)' : Agrees(c, p)'
          BY <2>1, <3>1, <3>2, <3>5 DEF Agrees
        <4>2. ~Contradictory(c)'
          BY <4>1 DEF Contradictory, Agrees
        <4> QED BY <1>1, <2>1, <3>3, <4>1, <4>2 DEF Fits, Open, ManuallyReleasable, Terminal
      <3> QED BY <1>1, <2>1, <3>4, <3>5 DEF Fits
    <2> QED BY <2>2, <2>3
  <1>5. CASE ReopenOnConflict(c, outcome, id)
    <2>1. /\ claims[c].state \in Terminal /\ outcome # "unknown"
          /\ claims[c].state # outcome \/ (id # None /\ claims[c].externalId # id)
          /\ claims'[c].state = "unknown"
      BY <1>1, <1>5 DEF ReopenOnConflict, Contradicts, TypeOK
    <2>2. authority'[claims[c].invoice].state = "frozen"
      BY <1>1, <1>5 DEF ReopenOnConflict, Linked, TypeOK, Authorities
    <2>3. Conclusive(c)' = Conclusive(c) \cup {o}
      BY <1>1, <2>1, EvidenceIsKept
    <2>4. PICK p \in Conclusive(c) : Agrees(c, p)
      BY <1>1, <2>1 DEF Fits
    <2>5. o.outcome # p.outcome \/ (p.outcome = "succeeded" /\ o.externalId # p.externalId)
      <3>1. CASE claims[c].state # outcome
        BY <2>4, <3>1 DEF Agrees
      <3>2. CASE claims[c].state = outcome /\ id # None /\ claims[c].externalId # id
        <4>1. outcome = "succeeded"
          BY <1>0, <1>1, <2>1, <3>2 DEF Fits
        <4> QED BY <2>4, <3>2, <4>1 DEF Agrees
      <3> QED BY <2>1, <3>1, <3>2
    <2>6. Contradictory(c)'
      BY <2>3, <2>4, <2>5 DEF Contradictory
    <2> QED BY <2>1, <2>2, <2>6 DEF Fits, Open, ManuallyReleasable, Terminal
  <1> QED BY <1>3, <1>4, <1>5 DEF FinishSend, outcome, id

-----------------------------------------------------------------------------

\* One step of the gates contests a claim only by freezing its invoice.
Freezes(c) == ~Contradictory(c) /\ Contradictory(c)' =>
    authority'[claims[c].invoice].state = "frozen"

\* Steps that write no evidence, and change no state of a claim but that of one
\* that begins, leave the evidence fitting.
LEMMA QuietStep ==
  ASSUME EvidenceFits, UNCHANGED evidence,
         \A c \in Claims :
            /\ claims'[c].externalId = claims[c].externalId
            /\ \/ claims'[c].state = claims[c].state
               \/ claims[c].state = "absent" /\ claims'[c].state = "sending"
  PROVE  \A c \in Claims : Fits(c)' /\ Freezes(c)
  BY FitsUntouched DEF EvidenceFits, Freezes


\* A step that observes one claim leaves the evidence of the others fitting.
LEMMA OthersFit ==
  ASSUME TypeOK, EvidenceFits, NEW c \in Claims, NEW outcome, NEW id,
         Observe(c, outcome, id), \A d \in Claims \ {c} : claims'[d] = claims[d]
  PROVE  \A d \in Claims \ {c} : Fits(d)' /\ Freezes(d)
  <1> TAKE d \in Claims \ {c}
  <1>1. Fits(d) /\ evidence'[d] = evidence[d] /\ claims'[d] = claims[d]
    BY ObserveAdds DEF EvidenceFits
  <1> QED BY <1>1, FitsUntouched DEF Freezes

\* Setting a policy, a route or a transfer says nothing of any request.
LEMMA GatesFit ==
  ASSUME FitInv, PolicyNext \/ AuthorityNext \/ TransferNext
  PROVE  \A c \in Claims : Fits(c)' /\ Freezes(c)
  <1>1. UNCHANGED <<claims, evidence>>
    BY DEF PolicyNext, SetWriterReceipt, SetPolicy, AuthorityNext, EnsureAuthority, SetDraftRoute,
       ConfirmAuthority, TransferNext, PrepareTransfer, CompleteTransfer
  <1> QED BY <1>1, QuietStep DEF FitInv

\* Whatever is done to a request, its evidence fits and a contradiction freezes.
LEMMA ClaimsFit ==
  ASSUME FitInv, ClaimNext
  PROVE  \A c \in Claims : Fits(c)' /\ Freezes(c)
  <1> USE DEF FitInv, IInv
  <1>1. ASSUME NEW c \in Claims, NEW i \in Invoices, NEW e \in 1 .. MaxEpoch, Start(i, c, e)
        PROVE  \A d \in Claims : Fits(d)' /\ Freezes(d)
    <2>1. claims[c].state = "absent" /\ UNCHANGED evidence
      BY <1>1 DEF Start
    <2>2. \A d \in Claims \ {c} : claims'[d] = claims[d]
      BY <1>1 DEF Start, TypeOK
    <2>3. claims'[c].state = "sending" /\ evidence[c] = {}
      BY <1>1, <2>1 DEF Start, TypeOK, EvidenceFits, Fits
    <2>4. Fits(c)' /\ Freezes(c)
      BY <2>1, <2>3 DEF Fits, Freezes, Open, Conclusive, Contradictory, ManuallyReleasable, Terminal
    <2>5. ASSUME NEW d \in Claims \ {c} PROVE Fits(d)' /\ Freezes(d)
      <3>1. Fits(d) /\ evidence'[d] = evidence[d] /\ claims'[d] = claims[d]
        BY <2>1, <2>2 DEF EvidenceFits
      <3> QED BY <3>1, FitsUntouched DEF Freezes
    <2> QED BY <2>4, <2>5
  <1>2. ASSUME NEW c \in Claims, LeaseExpires(c) PROVE \A d \in Claims : Fits(d)' /\ Freezes(d)
    <2>1. UNCHANGED evidence
      BY <1>2 DEF LeaseExpires
    <2>2. \A d \in Claims : claims'[d].state = claims[d].state
                            /\ claims'[d].externalId = claims[d].externalId
      BY <1>2 DEF LeaseExpires, TypeOK, ClaimRows
    <2> QED BY <2>1, <2>2, QuietStep
  <1>3. ASSUME NEW c \in Claims, claims[c].state # "absent",
               NEW r \in Reported(c), FinishSend(c, r[1], r[2])
        PROVE  \A d \in Claims : Fits(d)' /\ Freezes(d)
    <2>1. Observe(c, r[1], r[2])
      BY <1>3 DEF FinishSend
    <2>2. \A d \in Claims \ {c} : claims'[d] = claims[d]
      BY <1>3 DEF FinishSend, ResolveClaim, RepeatObservation, ReopenOnConflict, TypeOK
    <2>3. Fits(c)' /\ Freezes(c)
      BY <1>3, FinishFits DEF Freezes
    <2>4. \A d \in Claims \ {c} : Fits(d)' /\ Freezes(d)
      BY <2>1, <2>2, OthersFit
    <2> QED BY <2>3, <2>4
  <1>4. ASSUME NEW c \in Claims, ConfirmNotSent(c) PROVE \A d \in Claims : Fits(d)' /\ Freezes(d)
    <2>1. Open(c) /\ Observe(c, "not_sent", None) /\ Fits(c)
      BY <1>4 DEF ConfirmNotSent, EvidenceFits
    <2>2. claims'[c].state = "not_sent" /\ \A d \in Claims \ {c} : claims'[d] = claims[d]
      BY <1>4 DEF ConfirmNotSent, TypeOK, ClaimRows
    <2>3. Fits(c)' /\ Freezes(c)
      BY <2>1, <2>2, FirstConclusion DEF Freezes, Terminal
    <2>4. \A d \in Claims \ {c} : Fits(d)' /\ Freezes(d)
      BY <2>1, <2>2, OthersFit
    <2> QED BY <2>3, <2>4
  <1>5. ASSUME NEW c \in Claims, NEW o \in {"succeeded", "not_sent"},
               NEW id \in ExternalIds \cup {None}, ManualUnfreeze(c, o, id)
        PROVE  \A d \in Claims : Fits(d)' /\ Freezes(d)
    <2>1. Open(c) /\ Observe(c, o, id) /\ Fits(c)
      BY <1>5 DEF ManualUnfreeze, EvidenceFits
    <2>2. /\ claims'[c].state = o /\ claims'[c].externalId = id
          /\ \A d \in Claims \ {c} : claims'[d] = claims[d]
      BY <1>5 DEF ManualUnfreeze, TypeOK, ClaimRows
    <2>3. Fits(c)' /\ Freezes(c)
      BY <2>1, <2>2, FirstConclusion DEF Freezes, Terminal
    <2>4. \A d \in Claims \ {c} : Fits(d)' /\ Freezes(d)
      BY <2>1, <2>2, OthersFit
    <2> QED BY <2>3, <2>4
  <1> QED BY <1>1, <1>2, <1>3, <1>4, <1>5 DEF ClaimNext

\* The strengthening is inductive, and each step keeps the promise.
LEMMA FitStep ==
  ASSUME FitInv, [Next]_vars
  PROVE  FitInv' /\ \A c \in Claims : Freezes(c)
  <1>1. IInv'
    BY Inductive DEF FitInv
  <1>2. CASE UNCHANGED vars
    <2>1. \A c \in Claims : Fits(c)' /\ Freezes(c)
      BY <1>2, QuietStep DEF FitInv, vars
    <2> QED BY <1>1, <2>1 DEF FitInv, EvidenceFits
  <1>3. CASE Next
    <2>1. \A c \in Claims : Fits(c)' /\ Freezes(c)
      BY <1>3, GatesFit, ClaimsFit DEF Next
    <2> QED BY <1>1, <2>1 DEF FitInv, EvidenceFits
  <1> QED BY <1>2, <1>3

\* In every reachable state the row of a claim says what its evidence says, or
\* the evidence contradicts itself: finish_send loses no conclusive observation.
THEOREM EvidenceInvariant == Spec => []FitInv
  <1>1. Init => FitInv
    <2> SUFFICES ASSUME Init PROVE FitInv
      OBVIOUS
    <2>1. \A c \in Claims : claims[c].state = "absent" /\ evidence[c] = {}
      BY DEF Init, NoClaim
    <2> QED BY <2>1, InitInv DEF FitInv, EvidenceFits, Fits, Open, ManuallyReleasable, Terminal
  <1>2. FitInv /\ [Next]_vars => FitInv'
    BY FitStep
  <1> QED BY <1>1, <1>2, PTL DEF Spec

\* Evidence that comes to contradict itself freezes the invoice in the same
\* transaction: no step of the gates, whoever takes it, lets it pass.
THEOREM ContradictionsFreeze == Spec => ContradictionFreezes
  <1> DEFINE Promise == \A c \in Claims : ~Contradictory(c) /\ Contradictory(c)'
                           => authority'[claims[c].invoice].state = "frozen"
  <1>1. FitInv /\ [Next]_vars => [Promise]_vars
    BY FitStep DEF Freezes
  <1>2. Spec => [][Promise]_vars
    BY <1>1, EvidenceInvariant, PTL DEF Spec
  <1> QED BY <1>2 DEF ContradictionFreezes

-----------------------------------------------------------------------------
(* The refinement: each transaction of the gates is one step of the lock, or none *)

\* What the abstract lock sees of the tables.
Holders == [i \in Invoices |-> OpenClaims(i)]
Spent   == {c \in Claims : claims[c].state # "absent"}
Blocked == {i \in Invoices : authority[i].state = "frozen"}

LockStep == [Responsibility!Next]_<<Holders, Spent, Blocked>>

\* Steps that begin, close, reopen, freeze and unfreeze nothing are invisible.
LEMMA Invisible ==
  ASSUME \A c \in Claims : SameDuty(c), \A i \in Invoices : authority'[i].state = authority[i].state
  PROVE  LockStep
  <1>1. \A i \in Invoices : OpenClaims(i)' = OpenClaims(i)
    BY DEF OpenClaims, SameDuty
  <1>2. Holders' = Holders
    BY <1>1 DEF Holders
  <1>3. Spent' = Spent
    BY DEF Spent, SameDuty
  <1>4. Blocked' = Blocked
    BY DEF Blocked
  <1> QED BY <1>2, <1>3, <1>4 DEF LockStep

\* A step that changes what is unresolved on one invoice, seen by the lock.
LEMMA OneInvoiceChanges ==
  ASSUME NEW i \in Invoices, NEW S, OpenClaims(i)' = S,
         \A j \in Invoices \ {i} : OpenClaims(j)' = OpenClaims(j)
  PROVE  Holders' = [Holders EXCEPT ![i] = S]
  BY DEF Holders

\* A step that closes the one claim it writes releases its invoice of it.
LEMMA ClosingReleases ==
  ASSUME IInv, NEW c \in Claims, Open(c), ~Open(c)',
         \A d \in Claims \ {c} : claims'[d] = claims[d],
         claims'[c].state # "absent", claims'[c].invoice = claims[c].invoice
  PROVE  /\ claims[c].invoice \in Invoices /\ c \in OpenClaims(claims[c].invoice)
         /\ Holders' = [Holders EXCEPT ![claims[c].invoice] = @ \ {c}]
         /\ Spent' = Spent
  <1> DEFINE i == claims[c].invoice
  <1>1. i \in Invoices /\ claims[c].state # "absent"
    BY DEF IInv, Linked, Open, ManuallyReleasable
  <1>2. \A d \in Claims \ {c} : Open(d)' <=> Open(d)
    BY DEF Open
  <1>3. OpenClaims(i)' = OpenClaims(i) \ {c}
    BY <1>1, <1>2 DEF OpenClaims
  <1>4. \A j \in Invoices \ {i} : OpenClaims(j)' = OpenClaims(j)
    BY <1>1, <1>2 DEF OpenClaims
  <1>5. Holders' = [Holders EXCEPT ![i] = @ \ {c}]
    BY <1>1, <1>3, <1>4 DEF Holders
  <1>6. Spent' = Spent
    BY <1>1 DEF Spent
  <1> QED BY <1>1, <1>5, <1>6 DEF OpenClaims

\* Policies, drafts and confirmations are invisible; a first row opens an invoice
\* on which nothing was ever sent.
LEMMA GatesAreInvisible ==
  ASSUME IInv, PolicyNext \/ AuthorityNext
  PROVE  LockStep
  <1> USE DEF IInv
  <1>1. CASE PolicyNext
    BY <1>1, ClaimsUntouched, Invisible DEF PolicyNext, SetWriterReceipt, SetPolicy
  <1>2. ASSUME NEW i \in Invoices, NEW r \in Routes, NEW k \in BOOLEAN, EnsureAuthority(i, r, k)
        PROVE  LockStep
    <2>1. OpenClaims(i) = {}
      BY <1>2 DEF EnsureAuthority, OpenClaims, Open, ManuallyReleasable, Linked
    <2>2. claims' = claims /\ Blocked' = Blocked \ {i}
      BY <1>2 DEF EnsureAuthority, Blocked, TypeOK, Authorities
    <2>3. \A j \in Invoices : OpenClaims(j)' = OpenClaims(j)
      BY <2>2 DEF OpenClaims, Open
    <2>4. Holders' = Holders /\ Spent' = Spent
      BY <2>2, <2>3 DEF Holders, Spent
    <2>5. Responsibility!Unblock({i})
      BY <2>1, <2>2, <2>4 DEF Responsibility!Unblock, Holders, Spent, Blocked
    <2> QED BY <2>5 DEF LockStep, Responsibility!Next
  <1>3. ASSUME NEW i \in Invoices, NEW r \in Routes, SetDraftRoute(i, r) PROVE LockStep
    <2>1. claims' = claims /\ \A j \in Invoices : authority'[j].state = authority[j].state
      BY <1>3 DEF SetDraftRoute, TypeOK, Authorities
    <2> QED BY <2>1, ClaimsUntouched, Invisible
  <1>4. ASSUME NEW i \in Invoices, NEW r \in Routes, NEW e \in 1 .. MaxEpoch,
               ConfirmAuthority(i, r, e)
        PROVE  LockStep
    <2>1. claims' = claims /\ \A j \in Invoices : authority'[j].state = authority[j].state
      BY <1>4 DEF ConfirmAuthority, TypeOK, Authorities
    <2> QED BY <2>1, ClaimsUntouched, Invisible
  <1> QED BY <1>1, <1>2, <1>3, <1>4 DEF AuthorityNext

\* Starting a request takes the lock of its invoice, which nobody held.
LEMMA StartTakes ==
  ASSUME IInv, NEW c \in Claims, NEW i \in Invoices, NEW e \in 1 .. MaxEpoch, Start(i, c, e)
  PROVE  LockStep
  <1>1. /\ authority[i].state = "active" /\ claims[c].state = "absent" /\ OpenClaims(i) = {}
        /\ \A d \in Claims \ {c} : claims'[d] = claims[d]
        /\ claims'[c].state = "sending" /\ claims'[c].invoice = i
        /\ \A j \in Invoices : authority'[j].state = authority[j].state
    BY DEF Start, RequireRoute, IInv, TypeOK, Authorities
  <1>2. ~Open(c) /\ Open(c)' /\ \A d \in Claims \ {c} : Open(d)' <=> Open(d)
    BY <1>1 DEF Open, ManuallyReleasable
  <1>3. OpenClaims(i)' = {c}
    BY <1>1, <1>2 DEF OpenClaims
  <1>4. \A j \in Invoices \ {i} : OpenClaims(j)' = OpenClaims(j)
    BY <1>1, <1>2 DEF OpenClaims
  <1>5. Holders' = [Holders EXCEPT ![i] = {c}]
    BY <1>3, <1>4, OneInvoiceChanges
  <1>6. Spent' = Spent \cup {c} /\ c \notin Spent
    BY <1>1 DEF Spent
  <1>7. Blocked' = Blocked /\ i \notin Blocked
    BY <1>1 DEF Blocked
  <1>8. Responsibility!Take(i, c)
    BY <1>1, <1>5, <1>6, <1>7 DEF Responsibility!Take, Holders, Spent, Blocked
  <1> QED BY <1>8 DEF LockStep, Responsibility!Next

\* finish_send releases the lock, takes it back by freezing, or changes nothing of it.
LEMMA FinishReleasesOrContests ==
  ASSUME IInv, NEW c \in Claims, NEW outcome \in Terminal \cup {"unknown"},
         NEW id \in ExternalIds \cup {None},
         claims[c].state # "absent", FinishSend(c, outcome, id)
  PROVE  LockStep
  <1> USE DEF IInv
  <1> DEFINE i == claims[c].invoice
  <1>1. CASE RepeatObservation(c, outcome, id)
    BY <1>1, ClaimsUntouched, Invisible DEF RepeatObservation
  <1>2. CASE ResolveClaim(c, outcome, id) /\ outcome = "unknown"
    <2>1. \A d \in Claims \ {c} : claims'[d] = claims[d]
      BY <1>2 DEF ResolveClaim, TypeOK
    <2>2. /\ claims'[c].state = "unknown" /\ Open(c)
          /\ claims'[c].invoice = i /\ claims'[c].route = claims[c].route
          /\ claims'[c].epoch = claims[c].epoch /\ claims'[c].holdsKey = claims[c].holdsKey
      BY <1>2 DEF ResolveClaim, Resolved, TypeOK, ClaimRows, Terminal
    <2>3. \A d \in Claims : SameDuty(d)
      BY <2>1, <2>2 DEF SameDuty, Open, ManuallyReleasable
    <2> QED BY <1>2, <2>3, Invisible DEF ResolveClaim
  <1>3. CASE ResolveClaim(c, outcome, id) /\ outcome # "unknown"
    <2>1. /\ Open(c) /\ authority' = authority
          /\ \A d \in Claims \ {c} : claims'[d] = claims[d]
          /\ claims'[c].state = outcome /\ claims'[c].invoice = i
      BY <1>3 DEF ResolveClaim, Resolved, TypeOK, ClaimRows
    <2>2. ~Open(c)' /\ claims'[c].state # "absent"
      BY <1>3, <2>1 DEF Open, ManuallyReleasable, Terminal
    <2>3. /\ i \in Invoices /\ c \in OpenClaims(i)
          /\ Holders' = [Holders EXCEPT ![i] = @ \ {c}] /\ Spent' = Spent
      BY <2>1, <2>2, ClosingReleases
    <2>4. Blocked' = Blocked
      BY <2>1 DEF Blocked
    <2>5. Responsibility!Release(i, c)
      BY <2>3, <2>4 DEF Responsibility!Release, Holders, Spent, Blocked
    <2> QED BY <2>3, <2>5 DEF LockStep, Responsibility!Next
  <1>4. CASE ReopenOnConflict(c, outcome, id)
    <2>1. i \in Invoices /\ ~Open(c)
      BY <1>4 DEF ReopenOnConflict, Contradicts, Open, ManuallyReleasable, Terminal, Linked
    <2>2. /\ \A d \in Claims \ {c} : claims'[d] = claims[d]
          /\ claims'[c].state = "unknown" /\ claims'[c].invoice = i
      BY <1>4 DEF ReopenOnConflict, TypeOK, ClaimRows
    <2>3. Open(c)' /\ \A d \in Claims \ {c} : Open(d)' <=> Open(d)
      BY <2>2 DEF Open, ManuallyReleasable
    <2>4. OpenClaims(i)' = OpenClaims(i) \cup {c}
      BY <2>1, <2>2, <2>3 DEF OpenClaims
    <2>5. \A j \in Invoices \ {i} : OpenClaims(j)' = OpenClaims(j)
      BY <2>1, <2>2, <2>3 DEF OpenClaims
    <2>6. Holders' = [Holders EXCEPT ![i] = OpenClaims(i) \cup {c}]
      <3>1. PICK j \in Invoices : j = i
        BY <2>1
      <3>2. OpenClaims(j)' = OpenClaims(j) \cup {c}
        BY <2>2, <2>4, <3>1
      <3> QED BY <2>5, <3>1, <3>2, OneInvoiceChanges
    <2>7. Spent' = Spent /\ c \in Spent
      BY <2>2 DEF Spent
    <2>8. Blocked' = Blocked \cup {i}
      BY <1>4, <2>1 DEF ReopenOnConflict, Blocked, TypeOK, Authorities
    <2>9. \A j \in Invoices : c \notin OpenClaims(j)
      BY <2>1 DEF OpenClaims
    <2>10. Responsibility!Contest(i, c)
      BY <2>1, <2>6, <2>7, <2>8, <2>9 DEF Responsibility!Contest, Holders, Spent, Blocked
    <2> QED BY <2>1, <2>10 DEF LockStep, Responsibility!Next
  <1> QED BY <1>1, <1>2, <1>3, <1>4 DEF FinishSend

\* The operations of an administrator release the lock, the second with its block.
LEMMA ManualReleases ==
  ASSUME IInv, NEW c \in Claims,
         \/ ConfirmNotSent(c)
         \/ \E o \in {"succeeded", "not_sent"}, id \in ExternalIds \cup {None} :
               ManualUnfreeze(c, o, id)
  PROVE  LockStep
  <1> USE DEF IInv
  <1> DEFINE i == claims[c].invoice
  <1>1. /\ Open(c) /\ claims'[c].state \in Terminal /\ claims'[c].invoice = i
        /\ \A d \in Claims \ {c} : claims'[d] = claims[d]
    <2>1. CASE ConfirmNotSent(c)
      <3>1. /\ claims'[c].state = "not_sent" /\ claims'[c].invoice = i
            /\ \A d \in Claims \ {c} : claims'[d] = claims[d]
        BY <2>1 DEF ConfirmNotSent, TypeOK, ClaimRows
      <3> QED BY <2>1, <3>1 DEF ConfirmNotSent, Terminal
    <2>2. ASSUME NEW o \in {"succeeded", "not_sent"}, NEW id \in ExternalIds \cup {None},
                 ManualUnfreeze(c, o, id)
          PROVE  /\ Open(c) /\ claims'[c].state \in Terminal /\ claims'[c].invoice = i
                 /\ \A d \in Claims \ {c} : claims'[d] = claims[d]
      <3>1. claims' = [claims EXCEPT ![c] = [claims[c] EXCEPT !.state = o, !.externalId = id]]
        BY <2>2 DEF ManualUnfreeze
      <3>2. /\ claims'[c].state = o /\ claims'[c].invoice = i
            /\ \A d \in Claims \ {c} : claims'[d] = claims[d]
        BY <3>1 DEF TypeOK, ClaimRows
      <3> QED BY <2>2, <3>2 DEF ManualUnfreeze, Terminal
    <2> QED BY <2>1, <2>2
  <1>2. ~Open(c)' /\ claims'[c].state # "absent"
    BY <1>1 DEF Open, ManuallyReleasable, Terminal
  <1>3. /\ i \in Invoices /\ c \in OpenClaims(i)
        /\ Holders' = [Holders EXCEPT ![i] = @ \ {c}] /\ Spent' = Spent
    BY <1>1, <1>2, ClosingReleases
  <1>4. CASE ConfirmNotSent(c)
    <2>1. Blocked' = Blocked
      BY <1>4 DEF ConfirmNotSent, Blocked
    <2>2. Responsibility!Release(i, c)
      BY <1>3, <2>1 DEF Responsibility!Release, Holders, Spent, Blocked
    <2> QED BY <1>3, <2>2 DEF LockStep, Responsibility!Next
  <1>5. CASE \E o \in {"succeeded", "not_sent"}, id \in ExternalIds \cup {None} :
               ManualUnfreeze(c, o, id)
    <2>1. OpenClaims(i) = {c}
      BY <1>5 DEF ManualUnfreeze
    <2>2. Blocked' = Blocked \ {i}
      BY <1>3, <1>5 DEF ManualUnfreeze, Blocked, TypeOK, Authorities
    <2>3. Holders' = [Holders EXCEPT ![i] = {}]
      BY <1>3, <2>1 DEF Holders
    <2>4. Responsibility!ReleaseAndUnblock(i, c)
      BY <1>3, <2>1, <2>2, <2>3 DEF Responsibility!ReleaseAndUnblock, Holders, Spent, Blocked
    <2> QED BY <1>3, <2>4 DEF LockStep, Responsibility!Next
  <1> QED BY <1>4, <1>5

\* A transfer blocks its closure, and opens it when nothing is unresolved.
LEMMA TransfersBlock ==
  ASSUME IInv, TransferNext PROVE LockStep
  <1> USE DEF IInv
  <1>0. claims' = claims
    BY DEF TransferNext, PrepareTransfer, CompleteTransfer
  <1>1. \A j \in Invoices : OpenClaims(j)' = OpenClaims(j)
    BY <1>0 DEF OpenClaims, Open
  <1>2. Holders' = Holders /\ Spent' = Spent
    BY <1>0, <1>1 DEF Holders, Spent
  <1>3. ASSUME NEW S \in SUBSET Invoices, PrepareTransfer(S) PROVE LockStep
    <2>1. Blocked' = Blocked \cup S
      BY <1>3 DEF PrepareTransfer, Blocked, TypeOK, Authorities
    <2>2. Responsibility!Block(S)
      BY <1>2, <2>1 DEF Responsibility!Block, Holders, Spent, Blocked
    <2> QED BY <2>2 DEF LockStep, Responsibility!Next
  <1>4. ASSUME NEW p \in preparations, CompleteTransfer(p) PROVE LockStep
    <2>1. p.invoices \subseteq Invoices
      BY DEF TypeOK
    <2>2. Blocked' = Blocked \ p.invoices
      <3>1. \A j \in p.invoices : authority'[j].state = "active"
        BY <1>4, <2>1 DEF CompleteTransfer, TypeOK, Authorities
      <3>2. \A j \in Invoices \ p.invoices : authority'[j] = authority[j]
        BY <1>4 DEF CompleteTransfer
      <3> QED BY <2>1, <3>1, <3>2 DEF Blocked
    <2>3. \A j \in p.invoices : OpenClaims(j) = {}
      BY <1>4 DEF CompleteTransfer
    <2>4. Responsibility!Unblock(p.invoices)
      BY <1>2, <2>1, <2>2, <2>3 DEF Responsibility!Unblock, Holders, Spent, Blocked
    <2> QED BY <2>1, <2>4 DEF LockStep, Responsibility!Next
  <1> QED BY <1>3, <1>4 DEF TransferNext

\* Every transaction of the gates is a step of the lock, or invisible to it.
LEMMA StepsAreLockSteps ==
  ASSUME IInv, [Next]_vars PROVE LockStep
  <1>1. CASE UNCHANGED vars
    BY <1>1, ClaimsUntouched, Invisible DEF vars
  <1>2. CASE ClaimNext
    <2>1. ASSUME NEW c \in Claims, LeaseExpires(c) PROVE LockStep
      <3>1. \A d \in Claims : SameDuty(d)
        BY <2>1 DEF LeaseExpires, IInv, TypeOK, ClaimRows, SameDuty, Open
      <3> QED BY <2>1, <3>1, Invisible DEF LeaseExpires
    <2>2. ASSUME NEW c \in Claims, claims[c].state # "absent",
                 NEW r \in Reported(c), FinishSend(c, r[1], r[2])
          PROVE  LockStep
      BY <2>2, ReportedType, FinishReleasesOrContests
    <2> QED BY <1>2, <2>1, <2>2, StartTakes, ManualReleases DEF ClaimNext
  <1> QED BY <1>1, <1>2, GatesAreInvisible, TransfersBlock DEF Next

\* The gates implement the exclusive, contestable responsibility they promise:
\* a lock per invoice that one request takes, keeps until its outcome is known,
\* and gets back after that only by blocking the invoice.
THEOREM GatesImplementResponsibility == Spec => ResponsibilitySpec
  <1>1. Init => Responsibility!Init
    BY DEF Init, Responsibility!Init, OpenClaims, Open, ManuallyReleasable, NoClaim, NoAuthority
  <1>2. IInv /\ [Next]_vars => [Responsibility!Next]_Responsibility!vars
    BY StepsAreLockSteps DEF LockStep, Responsibility!vars, Holders, Spent, Blocked
  <1>3. Spec => Responsibility!Spec
    BY <1>1, <1>2, Invariant, PTL DEF Spec, Responsibility!Spec
  <1> QED BY <1>3 DEF ResponsibilitySpec
=============================================================================

--------------------------- MODULE DelegatedRunsProofs ---------------------------
(***************************************************************************)
(* What holds of delegated preparation for any number of delegations,      *)
(* generations, attempts and source revisions.  A handler maps the rows it *)
(* has locked to the rows it leaves, so the invariant is one of worlds:    *)
(* each helper keeps it, or keeps it but for what the next one repairs.    *)
(***************************************************************************)
EXTENDS DelegatedRuns, TLAPS

\* A delegation as a handler may leave it before the bound on generations is asked.
Drafts == [status: {"none", "active", "waiting", "needs_decision",
                    "paused", "blocked", "cancelled"},
           generation: Nat \ {0}, last: 0 .. MaxGeneration, byItem: BOOLEAN,
           input: 1 .. MaxRevision, due: BOOLEAN]

Worlds == [item: Items, drift: {"none", "update", "invalid"},
           delegation: [Delegations -> Drafts], run: [Runs -> RunRows]]

\* A change of the sources that nobody has noticed has a revision left for it.
Room(w) == w.drift # "none" => w.item.revision < MaxRevision

Pristine(row) == ~row.cancel /\ row.attempt = 0 /\ row.lease = "none" /\ ~row.overdue
                 /\ ~row.outdated /\ row.artifact = "none"

\* A run that has not stopped is the last of its delegation, later ones do not
\* exist, and one that may go on belongs to the present generation of an active one.
RunFits(w, r) == LET row == w.run[r]
                     d == w.delegation[r[1]] IN
    /\ LeaseFits(row)
    /\ row.status = "absent" => Pristine(row)
    /\ row.status \notin Stopped \cup {"absent"} => d.last = r[2]
    /\ r[2] > d.last => row.status = "absent"
    /\ row.status \in Live /\ ~row.cancel => d.status = "active"
    /\ row.artifact # "none" => row.status = "completed"

\* An active delegation is on its last run, which goes on or was withdrawn by its
\* owner; one that waits was handed over by it.
DelegationFits(w, d) == LET row == w.delegation[d]
                            last == w.run[<<d, row.last>>] IN
    /\ row.last <= row.generation
    /\ row.status = "none" => row.last = 0
    /\ row.status = "active" =>
          /\ row.last = row.generation
          /\ last.status \in Live \/ (last.status = "cancelled" /\ last.cancel)
    /\ row.status \in {"needs_decision", "waiting"} =>
          /\ row.last = row.generation
          /\ last.status = "completed" /\ ~last.cancel /\ last.input = row.input
          /\ last.artifact # "none" <=> row.status = "needs_decision"

Sound(w) ==
    /\ w \in Worlds /\ Room(w)
    /\ \A r \in Runs : RunFits(w, r)
    /\ \A d \in Delegations : DelegationFits(w, d)

\* Sound but for what the status of delegations D says of their last runs.
Loose(w, D) ==
    /\ w \in Worlds /\ Room(w)
    /\ \A r \in Runs : RunFits(w, r)
    /\ \A d \in Delegations : /\ w.delegation[d].last <= w.delegation[d].generation
                              /\ w.delegation[d].status = "none" => w.delegation[d].last = 0
    /\ \A d \in Delegations \ D : DelegationFits(w, d)

\* The inductive strengthening of the four invariants.
IInv ==
    /\ Sound(world)
    /\ authorised \in BOOLEAN
    /\ \A d \in Delegations : delegation[d].generation <= MaxGeneration

-----------------------------------------------------------------------------
(* Rows and worlds *)

\* A generation is followed by a later one.
LEMMA Successor == \A g \in Nat \ {0} : g + 1 \in Nat \ {0} /\ g + 1 >= g
  OBVIOUS

\* A run is named by its delegation and generation.
LEMMA RunsArePairs ==
  \A r \in Runs : r[1] \in Delegations /\ r[2] \in 1 .. MaxGeneration /\ r = <<r[1], r[2]>>
  BY DEF Runs

\* The last run of a delegation that has one.
LEMMA LastIsRun ==
  ASSUME NEW d \in Delegations, NEW g \in 1 .. MaxGeneration
  PROVE  <<d, g>> \in Runs /\ <<d, g>>[1] = d /\ <<d, g>>[2] = g
  BY DEF Runs

\* The tables are a world.
LEMMA TablesAreWorld ==
  ASSUME TypeOK PROVE world \in Worlds
  <1>1. \A d \in Delegations : delegation[d] \in Drafts
    BY DEF TypeOK, DelegationRows, Drafts
  <1> QED BY <1>1 DEF TypeOK, world, Worlds

\* What a handler leaves is what the tables become.
LEMMA Lands ==
  ASSUME NEW w, Sound(w), Becomes(w), authorised \in BOOLEAN
  PROVE  IInv'
  <1>1. world' = w
    BY DEF Becomes, world, Sound, Worlds
  <1>2. \A d \in Delegations : delegation'[d].generation <= MaxGeneration
    <2> TAKE d \in Delegations
    <2>1. w.delegation[d].generation + Reserve(w) <= MaxGeneration
      BY DEF Becomes
    <2>2. Reserve(w) \in {0, 1} /\ w.delegation[d].generation \in Nat
      BY DEF Reserve, Sound, Worlds, Drafts
    <2> QED BY <2>1, <2>2, BoundAssumption DEF Becomes
  <1> QED BY <1>1, <1>2 DEF IInv, Becomes, Sound, RunFits, DelegationFits, Room, Pristine

\* The strengthening says that the tables hold rows of their types.
LEMMA SoundIsTyped == ASSUME IInv PROVE TypeOK /\ world \in Worlds
  <1>1. world \in Worlds
    BY DEF IInv, Sound
  <1>2. delegation \in [Delegations -> DelegationRows]
    <2>1. \A d \in Delegations : delegation[d] \in Drafts
      BY <1>1 DEF Worlds, world
    <2>2. \A d \in Delegations : delegation[d].generation \in 1 .. MaxGeneration
      BY <2>1, BoundAssumption DEF Drafts, IInv
    <2>3. \A d \in Delegations : delegation[d] \in DelegationRows
      BY <2>1, <2>2 DEF Drafts, DelegationRows
    <2> QED BY <1>1, <2>3 DEF Worlds, world
  <1>3. \A r \in Runs : LeaseFits(run[r])
    BY DEF IInv, Sound, RunFits, world
  <1> QED BY <1>1, <1>2, <1>3 DEF TypeOK, Worlds, world, IInv

\* A handler that writes one run, and nothing else, answers for it alone.
LEMMA OneRunWritten ==
  ASSUME NEW w, Sound(w), NEW r \in Runs, NEW row \in RunRows,
         NEW v, v = [w EXCEPT !.run[r] = row],
         RunFits(v, r), DelegationFits(v, r[1])
  PROVE  Sound(v)
  <1>1. /\ v \in Worlds /\ v.item = w.item /\ v.drift = w.drift /\ v.delegation = w.delegation
        /\ v.run[r] = row /\ \A q \in Runs \ {r} : v.run[q] = w.run[q]
    BY DEF Sound, Worlds
  <1>2. \A q \in Runs : RunFits(v, q)
    BY <1>1 DEF Sound, RunFits
  <1>3. ASSUME NEW d \in Delegations \ {r[1]} PROVE DelegationFits(v, d)
    <2>1. \A g : <<d, g>> # r
      BY RunsArePairs
    <2>2. DelegationFits(w, d) /\ v.delegation[d] = w.delegation[d]
      BY <1>1 DEF Sound
    <2>3. v.delegation[d].status \in {"active", "needs_decision", "waiting"} =>
            <<d, v.delegation[d].last>> \in Runs
      <3>1. w.delegation[d] \in Drafts
        BY DEF Sound, Worlds
      <3> QED BY <2>2, <3>1, LastIsRun DEF DelegationFits, Drafts
    <2> QED BY <1>1, <2>1, <2>2, <2>3 DEF DelegationFits
  <1> QED BY <1>1, <1>2, <1>3 DEF Sound, Room

-----------------------------------------------------------------------------
(* The helpers *)

\* Delegations D, none of which has a run that goes on, may be blocked.
LEMMA BlockedSound ==
  ASSUME NEW w, NEW D, Loose(w, D),
         NEW hit \in SUBSET Delegations, D \subseteq hit,
         \A r \in Runs : r[1] \in hit /\ w.run[r].status \in Live => w.run[r].cancel,
         NEW v, v = [w EXCEPT !.delegation = [d \in Delegations |->
             IF d \in hit THEN [w.delegation[d] EXCEPT !.status = "blocked"] ELSE w.delegation[d]]]
  PROVE  Sound(v)
  <1>1. \A d \in Delegations : w.delegation[d] \in Drafts
    BY DEF Loose, Worlds
  <1>2. /\ v.item = w.item /\ v.drift = w.drift /\ v.run = w.run
        /\ v.delegation = [d \in Delegations |->
             IF d \in hit THEN [w.delegation[d] EXCEPT !.status = "blocked"] ELSE w.delegation[d]]
    BY DEF Loose, Worlds
  <1>3. ASSUME NEW d \in hit
        PROVE  /\ v.delegation[d] \in Drafts /\ v.delegation[d].status = "blocked"
               /\ v.delegation[d].last = w.delegation[d].last
               /\ v.delegation[d].generation = w.delegation[d].generation
    BY <1>1, <1>2 DEF Drafts
  <1>4. \A d \in Delegations \ hit : v.delegation[d] = w.delegation[d]
    BY <1>2
  <1>5. v \in Worlds /\ Room(v)
    <2>1. v.delegation \in [Delegations -> Drafts]
      BY <1>1, <1>2, <1>3, <1>4
    <2> QED BY <1>2, <2>1 DEF Loose, Worlds, Room
  <1>6. ASSUME NEW r \in Runs PROVE RunFits(v, r)
    <2>1. RunFits(w, r) /\ r[1] \in Delegations
      BY RunsArePairs DEF Loose
    <2>2. CASE r[1] \in hit
      BY <1>2, <1>3, <2>1, <2>2 DEF RunFits
    <2>3. CASE r[1] \notin hit
      BY <1>2, <1>4, <2>1, <2>3 DEF RunFits
    <2> QED BY <2>2, <2>3
  <1>7. ASSUME NEW d \in Delegations PROVE DelegationFits(v, d)
    <2>1. CASE d \in hit
      BY <1>2, <1>3, <2>1 DEF DelegationFits, Loose
    <2>2. CASE d \notin hit
      <3>1. DelegationFits(w, d)
        BY <2>2 DEF Loose
      <3> QED BY <1>2, <1>4, <2>2, <3>1 DEF DelegationFits
    <2> QED BY <2>1, <2>2
  <1> QED BY <1>5, <1>6, <1>7 DEF Sound

\* Delegations may be stopped, whatever their runs do, when their last runs are asked to stop.
LEMMA HaltedSound ==
  ASSUME NEW w, NEW D, Loose(w, D),
         NEW hit \in SUBSET Delegations, D \subseteq hit,
         NEW rows \in [Delegations -> Drafts],
         \A d \in Delegations \ hit : rows[d] = w.delegation[d],
         \A d \in hit : /\ rows[d].status \in {"paused", "blocked", "cancelled"}
                        /\ rows[d].last = w.delegation[d].last
                        /\ rows[d].generation >= w.delegation[d].generation,
         NEW v, v = [w EXCEPT !.delegation = rows, !.run = AskLast(w, hit)]
  PROVE  Sound(v)
  <1>1. \A d \in Delegations : w.delegation[d] \in Drafts
    BY DEF Loose, Worlds
  <1>2. /\ v.item = w.item /\ v.drift = w.drift /\ v.delegation = rows
        /\ v.run = AskLast(w, hit)
    BY DEF Loose, Worlds
  <1>3. ASSUME NEW r \in Runs
        PROVE  /\ v.run[r] \in RunRows
               /\ \/ v.run[r] = w.run[r] /\ ~(r[1] \in hit /\ w.delegation[r[1]].last = r[2])
                  \/ /\ r[1] \in hit /\ w.delegation[r[1]].last = r[2]
                     /\ v.run[r] = Asked(w.run[r])
    <2>1. w.run[r] \in RunRows
      BY DEF Loose, Worlds
    <2>2. Asked(w.run[r]) \in RunRows
      BY <2>1 DEF Asked, RunRows
    <2> QED BY <1>2, <2>1, <2>2 DEF AskLast
  <1>4. v \in Worlds /\ Room(v)
    BY <1>2, <1>3 DEF Loose, Worlds, Room, AskLast
  <1>5. ASSUME NEW r \in Runs PROVE RunFits(v, r)
    <2>1. RunFits(w, r) /\ r[1] \in Delegations /\ w.run[r] \in RunRows
      BY RunsArePairs DEF Loose, Worlds
    <2>2. CASE r[1] \in hit /\ w.delegation[r[1]].last = r[2]
      <3>1. v.run[r] = Asked(w.run[r])
        BY <1>3, <2>2
      <3> QED BY <1>2, <2>1, <2>2, <3>1 DEF RunFits, LeaseFits, Asked, RunRows, Live, Pristine
    <2>3. CASE r[1] \in hit /\ w.delegation[r[1]].last # r[2]
      <3>1. v.run[r] = w.run[r]
        BY <1>3, <2>3
      <3> QED BY <1>2, <2>1, <2>3, <3>1 DEF RunFits, Live, Stopped
    <2>4. CASE r[1] \notin hit
      <3>1. v.run[r] = w.run[r] /\ v.delegation[r[1]] = w.delegation[r[1]]
        BY <1>2, <1>3, <2>1, <2>4
      <3> QED BY <2>1, <3>1 DEF RunFits
    <2> QED BY <2>2, <2>3, <2>4
  <1>6. ASSUME NEW d \in Delegations PROVE DelegationFits(v, d)
    <2>1. CASE d \in hit
      <3>1. w.delegation[d].last <= w.delegation[d].generation
        BY DEF Loose
      <3>2. rows[d] \in Drafts /\ w.delegation[d] \in Drafts
        BY <1>1
      <3> QED BY <1>2, <2>1, <3>1, <3>2 DEF DelegationFits, Drafts
    <2>2. CASE d \notin hit
      <3>1. DelegationFits(w, d) /\ v.delegation[d] = w.delegation[d] /\ w.delegation[d] \in Drafts
        BY <1>1, <1>2, <2>2 DEF Loose
      <3>2. w.delegation[d].status \in {"active", "needs_decision", "waiting"} =>
              v.run[<<d, w.delegation[d].last>>] = w.run[<<d, w.delegation[d].last>>]
        <4>1. SUFFICES ASSUME w.delegation[d].status \in {"active", "needs_decision", "waiting"}
                       PROVE  v.run[<<d, w.delegation[d].last>>] = w.run[<<d, w.delegation[d].last>>]
          OBVIOUS
        <4>2. w.delegation[d].last \in 1 .. MaxGeneration
          BY <3>1, <4>1 DEF DelegationFits, Drafts
        <4> QED BY <1>3, <2>2, <4>2, LastIsRun
      <3> QED BY <3>1, <3>2 DEF DelegationFits
    <2> QED BY <2>1, <2>2
  <1> QED BY <1>4, <1>5, <1>6 DEF Sound

\* What is sound is so for any exception.
LEMMA SoundIsLoose == ASSUME NEW w, Sound(w), NEW D PROVE Loose(w, D)
  BY DEF Sound, Loose, DelegationFits

\* The item may change alone, while the revisions last.
LEMMA ItemWritten ==
  ASSUME NEW w, NEW D, Loose(w, D), NEW v \in Worlds, Room(v),
         v.delegation = w.delegation, v.run = w.run
  PROVE  Loose(v, D)
  BY DEF Loose, RunFits, DelegationFits

\* Without exceptions there is nothing loose.
LEMMA LooseIsSound == ASSUME NEW w, Loose(w, {}) PROVE Sound(w)
  BY DEF Sound, Loose

\* No delegation runs or was handed over.
Idle(w) == \A d \in Delegations : w.delegation[d].status \in {"none", "cancelled", "paused", "blocked"}

\* freeze_delegations
LEMMA FrozenSound ==
  ASSUME NEW w, NEW D, Loose(w, D), NEW terminal \in BOOLEAN
  PROVE  Sound(Frozen(w, terminal)) /\ Idle(Frozen(w, terminal))
  <1> DEFINE hit == {d \in Delegations :
                       /\ w.delegation[d].status \notin {"none", "cancelled"}
                       /\ terminal \/ w.delegation[d].status # "paused"}
             rows == [d \in Delegations |->
                       IF d \in hit
                       THEN [w.delegation[d] EXCEPT !.status = IF terminal THEN "cancelled" ELSE "paused",
                                                    !.byItem = TRUE, !.generation = @ + 1]
                       ELSE w.delegation[d]]
             v == [w EXCEPT !.delegation = rows, !.run = AskLast(w, hit)]
  <1>1. Frozen(w, terminal) = v
    BY DEF Frozen
  <1>2. \A d \in Delegations : w.delegation[d] \in Drafts
    BY DEF Loose, Worlds
  <1>3. Loose(w, D \cap hit)
    <2>1. ASSUME NEW d \in Delegations \ (D \cap hit) PROVE DelegationFits(w, d)
      <3>1. CASE d \in hit
        BY <3>1 DEF Loose
      <3>2. CASE d \notin hit
        <4>1. w.delegation[d].status \in {"none", "cancelled", "paused"}
          BY <3>2
        <4> QED BY <4>1 DEF Loose, DelegationFits
      <3> QED BY <3>1, <3>2
    <2> HIDE DEF hit
    <2> QED BY <2>1 DEF Loose
  <1>4. \A d \in hit : /\ rows[d] \in Drafts
                       /\ rows[d].status \in {"paused", "blocked", "cancelled"}
                       /\ rows[d].last = w.delegation[d].last
                       /\ rows[d].generation >= w.delegation[d].generation
    <2> TAKE d \in hit
    <2>1. w.delegation[d] \in Drafts /\ w.delegation[d].generation \in Nat \ {0}
      BY <1>2 DEF Drafts
    <2>2. rows[d] = [w.delegation[d] EXCEPT !.status = IF terminal THEN "cancelled" ELSE "paused",
                                            !.byItem = TRUE, !.generation = @ + 1]
      OBVIOUS
    <2>3. w.delegation[d].generation + 1 \in Nat \ {0}
      BY <2>1
    <2>4. (IF terminal THEN "cancelled" ELSE "paused") \in {"paused", "cancelled"}
      OBVIOUS
    <2> HIDE DEF rows, hit
    <2>5. rows[d] \in Drafts
      BY <2>1, <2>2, <2>3, <2>4 DEF Drafts
    <2>6. rows[d].status \in {"paused", "blocked", "cancelled"}
      BY <2>1, <2>2, <2>4 DEF Drafts
    <2>7. rows[d].last = w.delegation[d].last /\ rows[d].generation = w.delegation[d].generation + 1
      BY <2>1, <2>2 DEF Drafts
    <2> QED BY <2>1, <2>5, <2>6, <2>7
  <1>5. \A d \in Delegations \ hit : rows[d] = w.delegation[d]
    OBVIOUS
  <1>6. rows \in [Delegations -> Drafts] /\ hit \in SUBSET Delegations
    <2>1. \A d \in Delegations : rows[d] \in Drafts
      BY <1>2, <1>4, <1>5
    <2> QED BY <2>1
  <1>7. Sound(v)
    <2>1. v = [w EXCEPT !.delegation = rows, !.run = AskLast(w, hit)]
      OBVIOUS
    <2>2. D \cap hit \subseteq hit
      OBVIOUS
    <2> HIDE DEF rows, hit, v
    <2> QED BY <1>3, <1>4, <1>5, <1>6, <2>1, <2>2, HaltedSound
  <1>8. Idle(v)
    <2> HIDE DEF rows
    <2>1. \A d \in Delegations : v.delegation[d] = rows[d]
      BY DEF Loose, Worlds
    <2> USE DEF rows
    <2>2. \A d \in Delegations \ hit : rows[d].status \in {"none", "cancelled", "paused"}
      OBVIOUS
    <2> HIDE DEF rows, hit, v
    <2> QED BY <1>4, <2>1, <2>2 DEF Idle
  <1> QED BY <1>1, <1>7, <1>8

\* Delegations whose runs do not go on may be left for a fresh decision.
LEMMA ThawedSound ==
  ASSUME NEW w, Sound(w), NEW hit \in SUBSET Delegations,
         \A d \in hit : w.delegation[d].status # "active"
  PROVE  Sound(Thawed(w, hit)) /\ (Idle(w) => Idle(Thawed(w, hit)))
  <1> DEFINE v == Thawed(w, hit)
  <1>1. v = [w EXCEPT !.delegation = [d \in Delegations |->
               IF d \in hit THEN [w.delegation[d] EXCEPT !.status = "blocked"] ELSE w.delegation[d]]]
    BY DEF Thawed
  <1> HIDE DEF v
  <1>2. Loose(w, {})
    BY SoundIsLoose
  <1>3. \A r \in Runs : r[1] \in hit /\ w.run[r].status \in Live => w.run[r].cancel
    BY DEF Sound, RunFits
  <1>4. Sound(v)
    <2>1. Loose(w, {}) /\ {} \subseteq hit
      BY <1>2
    <2> PICK none : none = {}
      OBVIOUS
    <2>2. Loose(w, none) /\ none \subseteq hit
      BY <2>1
    <2> QED BY <1>1, <1>3, <2>2, BlockedSound
  <1>5. Idle(w) => Idle(v)
    <2>1. \A d \in Delegations : w.delegation[d] \in Drafts
      BY DEF Sound, Worlds
    <2>2. \A d \in Delegations : \/ v.delegation[d].status = "blocked"
                                \/ v.delegation[d] = w.delegation[d]
      <3> TAKE d \in Delegations
      <3>1. v.delegation[d] = IF d \in hit THEN [w.delegation[d] EXCEPT !.status = "blocked"]
                                           ELSE w.delegation[d]
        BY <1>1 DEF Sound, Worlds
      <3> QED BY <2>1, <3>1 DEF Drafts
    <2> QED BY <2>2 DEF Idle
  <1> QED BY <1>4, <1>5 DEF v

\* reconcile_item_inputs: it freezes, whatever it finds, when the sources withdrew;
\* otherwise the delegations and their runs stay.
LEMMA ReconciledLoose ==
  ASSUME NEW w, NEW D, Loose(w, D)
  PROVE  /\ Loose(Reconciled(w), D)
         /\ Reconciled(w).drift = "none"
         /\ \/ Sound(Reconciled(w)) /\ Idle(Reconciled(w)) /\ ~Reconciled(w).item.valid
            \/ Reconciled(w).delegation = w.delegation /\ Reconciled(w).run = w.run
  <1> DEFINE seen == [w EXCEPT !.drift = "none", !.item.revision = @ + 1]
             lost == [seen EXCEPT !.item.valid = FALSE,
                                  !.item.state = IF @ = "open" THEN "blocked" ELSE @]
  <1>1. w \in Worlds /\ Room(w)
    BY DEF Loose
  <1>2. CASE w.drift = "none"
    BY <1>2 DEF Reconciled
  <1>3. ASSUME w.drift # "none"
        PROVE  /\ seen \in Worlds /\ seen.drift = "none"
               /\ seen.delegation = w.delegation /\ seen.run = w.run
    <2>1. w.item \in Items /\ w.item.revision \in 1 .. MaxRevision /\ w.item.revision < MaxRevision
      BY <1>1, <1>3 DEF Worlds, Items, Room
    <2>2. w.item.revision + 1 \in 1 .. MaxRevision
      BY <2>1, BoundAssumption
    <2>3. [w.item EXCEPT !.revision = @ + 1] \in Items
      BY <2>1, <2>2 DEF Items
    <2>4. seen = [w EXCEPT !.drift = "none", !.item = [w.item EXCEPT !.revision = @ + 1]]
      BY <1>1 DEF Worlds
    <2> HIDE DEF seen
    <2> QED BY <1>1, <2>3, <2>4 DEF Worlds
  <1>4. CASE w.drift = "update"
    <2>1. Reconciled(w) = seen
      BY <1>4 DEF Reconciled
    <2>2. Loose(seen, D)
      <3> HIDE DEF seen
      <3> QED BY <1>3, <1>4, ItemWritten DEF Room
    <2> QED BY <1>3, <1>4, <2>1, <2>2
  <1>5. CASE w.drift = "invalid"
    <2>1. Reconciled(w) = Thawed(Frozen(lost, FALSE), PausedByItem(w))
      BY <1>5 DEF Reconciled
    <2>2. /\ lost \in Worlds /\ lost.drift = "none" /\ ~lost.item.valid
          /\ lost.delegation = w.delegation /\ lost.run = w.run
      <3>1. [seen.item EXCEPT !.valid = FALSE, !.state = IF @ = "open" THEN "blocked" ELSE @] \in Items
        BY <1>3, <1>5 DEF Worlds, Items
      <3>2. lost = [seen EXCEPT !.item = [seen.item EXCEPT !.valid = FALSE,
                                             !.state = IF @ = "open" THEN "blocked" ELSE @]]
        <4> HIDE DEF seen
        <4> QED BY <1>3, <1>5 DEF Worlds, Items
      <3>3. ~[seen.item EXCEPT !.valid = FALSE, !.state = IF @ = "open" THEN "blocked" ELSE @].valid
        BY <1>3, <1>5 DEF Worlds, Items
      <3> HIDE DEF seen
      <3> QED BY <1>3, <1>5, <3>1, <3>2, <3>3 DEF Worlds
    <2> HIDE DEF lost, seen
    <2>3. Loose(lost, D)
      BY <2>2, ItemWritten DEF Room
    <2> DEFINE hit == PausedByItem(w)
               frozen == Frozen(lost, FALSE)
    <2>4. Sound(Thawed(frozen, hit)) /\ Idle(Thawed(frozen, hit))
      <3>1. Sound(frozen) /\ Idle(frozen)
        BY <2>3, FrozenSound
      <3>2. hit \in SUBSET Delegations
        BY DEF PausedByItem
      <3> HIDE DEF hit, frozen
      <3>3. \A d \in hit : frozen.delegation[d].status # "active"
        BY <3>1, <3>2 DEF Idle
      <3> QED BY <3>1, <3>2, <3>3, ThawedSound
    <2>5. Thawed(frozen, hit).item = lost.item /\ Thawed(frozen, hit).drift = lost.drift
      BY <2>2 DEF Thawed, Frozen, Worlds
    <2> QED BY <2>1, <2>2, <2>4, <2>5, SoundIsLoose
  <1>6. w.drift \in {"none", "update", "invalid"}
    BY <1>1 DEF Worlds
  <1> QED BY <1>2, <1>4, <1>5, <1>6

\* A handler that finds the rows sound reconciles them to sound ones.
LEMMA ReconciledSound ==
  ASSUME NEW w, Sound(w)
  PROVE  /\ Sound(Reconciled(w)) /\ Reconciled(w).drift = "none"
         /\ Reconciled(w).item.valid =>
               Reconciled(w).delegation = w.delegation /\ Reconciled(w).run = w.run
  BY SoundIsLoose, LooseIsSound, ReconciledLoose

\* The active delegations whose run is among S and has stopped.
StoppedActive(v, S) ==
  {d \in Delegations :
     /\ v.delegation[d].status = "active"
     /\ \E r \in S : /\ r = <<d, v.delegation[d].last>>
                     /\ r[2] = v.delegation[d].generation
                     /\ v.run[r].status \in {"failed", "cancelled", "ambiguous"}}

\* record_run_stop repairs exactly them.
LEMMA StopRecordedSound ==
  ASSUME NEW v, NEW S \in SUBSET Runs, Loose(v, StoppedActive(v, S))
  PROVE  Sound(StopRecorded(v, S))
  <1> DEFINE D == StoppedActive(v, S)
             u == [v EXCEPT !.delegation = [d \in Delegations |->
                     IF d \in D THEN [v.delegation[d] EXCEPT !.status = "blocked"] ELSE v.delegation[d]]]
  <1>1. \A r \in Runs : r[1] \in D /\ v.run[r].status \in Live => v.run[r].cancel
    <2> SUFFICES ASSUME NEW r \in Runs, r[1] \in D, v.run[r].status \in Live
                 PROVE  FALSE
      OBVIOUS
    <2>1. RunFits(v, r)
      BY DEF Loose
    <2>2. v.delegation[r[1]].last = r[2]
      BY <2>1 DEF RunFits, Live, Stopped
    <2> QED BY <2>2, RunsArePairs DEF StoppedActive, Live
  <1>2. StopRecorded(v, S) = u
    <2>1. [d \in Delegations |->
            IF d \in D THEN [v.delegation[d] EXCEPT !.status = "blocked"] ELSE v.delegation[d]]
          = [d \in Delegations |->
            IF /\ v.delegation[d].status = "active"
               /\ \E r \in S : /\ r = <<d, v.delegation[d].last>>
                               /\ r[2] = v.delegation[d].generation
                               /\ v.run[r].status \in {"failed", "cancelled", "ambiguous"}
            THEN [v.delegation[d] EXCEPT !.status = "blocked"] ELSE v.delegation[d]]
      BY DEF StoppedActive
    <2> HIDE DEF D
    <2> QED BY <2>1 DEF StopRecorded
  <1>3. D \in SUBSET Delegations /\ D \subseteq D
    BY DEF StoppedActive
  <1>4. u = [v EXCEPT !.delegation = [d \in Delegations |->
               IF d \in D THEN [v.delegation[d] EXCEPT !.status = "blocked"] ELSE v.delegation[d]]]
    OBVIOUS
  <1>5. Loose(v, D)
    OBVIOUS
  <1> HIDE DEF D, u
  <1>6. Sound(u)
    BY <1>1, <1>3, <1>4, <1>5, BlockedSound
  <1> QED BY <1>2, <1>6

\* Runs S, all of them live, end or are queued again; the outcome is recorded.
LEMMA EndedSound ==
  ASSUME NEW w, Sound(w), NEW S \in SUBSET Runs, NEW rows \in [Runs -> RunRows],
         \A r \in Runs \ S : rows[r] = w.run[r],
         \A r \in S : /\ w.run[r].status \in Live
                      /\ rows[r].status \in {"queued", "failed", "cancelled", "ambiguous"}
                      /\ rows[r].status = "queued" => rows[r].cancel = w.run[r].cancel
                      /\ LeaseFits(rows[r]) /\ rows[r].artifact = w.run[r].artifact,
         NEW v, v = [w EXCEPT !.run = rows]
  PROVE  Sound(StopRecorded(v, S))
  <1> DEFINE D == {d \in Delegations :
                     /\ v.delegation[d].status = "active"
                     /\ \E r \in S : /\ r = <<d, v.delegation[d].last>>
                                     /\ r[2] = v.delegation[d].generation
                                     /\ v.run[r].status \in {"failed", "cancelled", "ambiguous"}}
  <1>1. /\ v \in Worlds /\ v.item = w.item /\ v.drift = w.drift
        /\ v.delegation = w.delegation /\ v.run = rows
    BY DEF Sound, Worlds
  <1>2. ASSUME NEW r \in Runs PROVE RunFits(v, r)
    <2>1. RunFits(w, r)
      BY DEF Sound
    <2>2. CASE r \in S
      BY <1>1, <2>1, <2>2 DEF RunFits, Live, Stopped
    <2>3. CASE r \notin S
      BY <1>1, <2>1, <2>3 DEF RunFits
    <2> QED BY <2>2, <2>3
  <1>3. ASSUME NEW d \in Delegations \ D PROVE DelegationFits(v, d)
    <2>1. DelegationFits(w, d) /\ w.delegation[d] \in Drafts
      BY DEF Sound, Worlds
    <2>2. CASE <<d, w.delegation[d].last>> \in S
      <3>1. w.run[<<d, w.delegation[d].last>>].status \in Live
        BY <2>2
      <3>2. w.delegation[d].status \notin {"needs_decision", "waiting"}
        BY <2>1, <3>1 DEF DelegationFits, Live
      <3>3. w.delegation[d].status = "active" =>
              rows[<<d, w.delegation[d].last>>].status = "queued"
        BY <1>1, <2>1, <2>2 DEF DelegationFits
      <3> QED BY <1>1, <2>1, <2>2, <3>2, <3>3 DEF DelegationFits, Live
    <2>3. CASE <<d, w.delegation[d].last>> \notin S
      <3>1. w.delegation[d].status \in {"active", "needs_decision", "waiting"} =>
              <<d, w.delegation[d].last>> \in Runs
        BY <2>1, LastIsRun DEF DelegationFits, Drafts
      <3> QED BY <1>1, <2>1, <2>3, <3>1 DEF DelegationFits
    <2> QED BY <2>2, <2>3
  <1>4. Loose(v, D)
    <2>1. \A d \in Delegations : DelegationFits(w, d)
      BY DEF Sound
    <2>2. \A d \in Delegations : /\ v.delegation[d].last <= v.delegation[d].generation
                                 /\ v.delegation[d].status = "none" => v.delegation[d].last = 0
      <3> TAKE d \in Delegations
      <3>1. DelegationFits(w, d) /\ v.delegation[d] = w.delegation[d]
        BY <1>1, <2>1
      <3> QED BY <3>1 DEF DelegationFits
    <2>3. Room(v)
      BY <1>1 DEF Sound, Room
    <2> HIDE DEF D
    <2> QED BY <1>1, <1>2, <1>3, <2>2, <2>3 DEF Loose
  <1>5. StoppedActive(v, S) = D
    BY DEF StoppedActive
  <1> HIDE DEF D
  <1> QED BY <1>4, <1>5, StopRecordedSound

\* cancel_requested and the end of one run.
LEMMA EndSound ==
  ASSUME NEW w, Sound(w), NEW r \in Runs, w.run[r].status \in Live, NEW stop \in BOOLEAN,
         NEW status \in {"failed", "cancelled", "ambiguous"}
  PROVE  Sound(End([w EXCEPT !.run[r].cancel = stop], r, status))
  <1> DEFINE row == [Ended(w.run[r], status) EXCEPT !.cancel = stop]
             rows == [w.run EXCEPT ![r] = row]
             v == [w EXCEPT !.run = rows]
  <1>1. w.run \in [Runs -> RunRows] /\ w.run[r] \in RunRows
    BY DEF Sound, Worlds
  <1>2. row \in RunRows /\ row.status = status /\ LeaseFits(row) /\ row.artifact = w.run[r].artifact
    BY <1>1 DEF Ended, RunRows, Stopped, LeaseFits
  <1>3. [[w EXCEPT !.run[r].cancel = stop] EXCEPT !.run[r] = Ended(@, status)] = v
    <2>1. Ended([w.run[r] EXCEPT !.cancel = stop], status) = row
      BY <1>1 DEF Ended, RunRows
    <2> HIDE DEF row
    <2> QED BY <1>1, <2>1 DEF Sound, Worlds
  <1>4. rows \in [Runs -> RunRows] /\ rows[r] = row /\ \A q \in Runs \ {r} : rows[q] = w.run[q]
    BY <1>1, <1>2
  <1>5. Sound(StopRecorded(v, {r}))
    <2> HIDE DEF rows, row
    <2>1. v = [w EXCEPT !.run = rows]
      OBVIOUS
    <2> HIDE DEF v
    <2> QED BY <1>2, <1>4, <2>1, EndedSound
  <1> QED BY <1>3, <1>5 DEF End

\* reconcile_expired_runs
LEMMA ExpirySound ==
  ASSUME IInv, NEW S \in SUBSET Expired
  PROVE  Sound(ExpiryReconciled(S))
  <1> DEFINE rows == [r \in Runs |-> IF r \in S THEN AfterExpiry(run[r]) ELSE run[r]]
             v == [world EXCEPT !.run = rows]
  <1>1. run \in [Runs -> RunRows] /\ world.run = run
    BY SoundIsTyped DEF TypeOK, world
  <1>2. ASSUME NEW r \in S
        PROVE  /\ r \in Runs /\ rows[r] \in RunRows /\ run[r].status \in Live
               /\ rows[r].status \in {"queued", "failed", "cancelled", "ambiguous"}
               /\ rows[r].cancel = run[r].cancel
               /\ LeaseFits(rows[r]) /\ rows[r].artifact = run[r].artifact
    <2>1. r \in Runs /\ run[r] \in RunRows /\ run[r].status \in {"leased", "running"}
      BY <1>1 DEF Expired
    <2>2. PICK status \in {"queued", "failed", "cancelled", "ambiguous"} :
             AfterExpiry(run[r]) = Ended(run[r], status)
      BY <2>1 DEF AfterExpiry
    <2>3. rows[r] = Ended(run[r], status)
      BY <2>1, <2>2
    <2> HIDE DEF rows
    <2> QED BY <2>1, <2>3 DEF Ended, RunRows, Live, Stopped, LeaseFits
  <1>3. rows \in [Runs -> RunRows] /\ \A r \in Runs \ S : rows[r] = run[r]
    <2>1. \A r \in Runs : rows[r] \in RunRows
      BY <1>1, <1>2
    <2> QED BY <2>1
  <1>4. S \in SUBSET Runs
    BY DEF Expired
  <1>5. Sound(StopRecorded(v, S))
    <2>1. v = [world EXCEPT !.run = rows]
      OBVIOUS
    <2>2. Sound(world)
      BY DEF IInv
    <2> HIDE DEF rows, v
    <2> QED BY <1>1, <1>2, <1>3, <1>4, <2>1, <2>2, EndedSound
  <1> QED BY <1>5 DEF ExpiryReconciled

\* One delegation that is not active is blocked.
LEMMA BlockOneSound ==
  ASSUME NEW w, NEW d \in Delegations, Loose(w, {d}), w.delegation[d].status # "active"
  PROVE  Sound([w EXCEPT !.delegation[d].status = "blocked"])
  <1> DEFINE u == [w EXCEPT !.delegation = [e \in Delegations |->
                     IF e \in {d} THEN [w.delegation[e] EXCEPT !.status = "blocked"] ELSE w.delegation[e]]]
  <1>1. w.delegation \in [Delegations -> Drafts]
    BY DEF Loose, Worlds
  <1>2. [w.delegation EXCEPT ![d].status = "blocked"] = [e \in Delegations |->
          IF e \in {d} THEN [w.delegation[e] EXCEPT !.status = "blocked"] ELSE w.delegation[e]]
    BY <1>1
  <1>3. [w EXCEPT !.delegation[d].status = "blocked"] = u
    BY <1>2
  <1>4. \A r \in Runs : r[1] \in {d} /\ w.run[r].status \in Live => w.run[r].cancel
    BY DEF Loose, RunFits
  <1>5. u = [w EXCEPT !.delegation = [e \in Delegations |->
                     IF e \in {d} THEN [w.delegation[e] EXCEPT !.status = "blocked"] ELSE w.delegation[e]]]
    OBVIOUS
  <1> HIDE DEF u
  <1>6. Sound(u)
    BY <1>4, <1>5, BlockedSound
  <1> QED BY <1>3, <1>6

\* A new generation is the only exception until its run is launched.
LEMMA BumpedLoose ==
  ASSUME NEW w, Sound(w), NEW d \in Delegations, w.delegation[d].status \notin {"none", "active"}
  PROVE  /\ Loose(Bumped(w, d), {d})
         /\ Bumped(w, d).run = w.run
         /\ Bumped(w, d).delegation[d].status = w.delegation[d].status
         /\ Bumped(w, d).delegation[d].last = w.delegation[d].last
         /\ Bumped(w, d).delegation[d].generation = w.delegation[d].generation + 1
         /\ Bumped(w, d).delegation[d].generation > w.delegation[d].last
  <1> DEFINE v == Bumped(w, d)
             row == [w.delegation[d] EXCEPT !.generation = @ + 1]
  <1>1. w.delegation \in [Delegations -> Drafts] /\ w.delegation[d] \in Drafts
    BY DEF Sound, Worlds
  <1>2. /\ row \in Drafts /\ row.status = w.delegation[d].status /\ row.last = w.delegation[d].last
        /\ row.generation = w.delegation[d].generation + 1
    BY <1>1 DEF Drafts
  <1>3. /\ v.item = w.item /\ v.drift = w.drift /\ v.run = w.run /\ v \in Worlds
        /\ v.delegation[d] = row /\ \A e \in Delegations \ {d} : v.delegation[e] = w.delegation[e]
    BY <1>1, <1>2 DEF Bumped, Sound, Worlds
  <1>4. w.delegation[d].last <= w.delegation[d].generation
    BY DEF Sound, DelegationFits
  <1>5. ASSUME NEW r \in Runs PROVE RunFits(v, r)
    <2>1. RunFits(w, r) /\ r[1] \in Delegations
      BY RunsArePairs DEF Sound
    <2>2. /\ v.delegation[r[1]].status = w.delegation[r[1]].status
          /\ v.delegation[r[1]].last = w.delegation[r[1]].last
      BY <1>2, <1>3, <2>1
    <2> QED BY <1>3, <2>1, <2>2 DEF RunFits
  <1>6. ASSUME NEW e \in Delegations \ {d} PROVE DelegationFits(v, e)
    <2>1. DelegationFits(w, e)
      BY DEF Sound
    <2> QED BY <1>3, <2>1 DEF DelegationFits
  <1>7. v.delegation[d].last <= v.delegation[d].generation /\ v.delegation[d].generation > w.delegation[d].last
    BY <1>1, <1>2, <1>3, <1>4 DEF Drafts
  <1>8. \A e \in Delegations : /\ v.delegation[e].last <= v.delegation[e].generation
                               /\ v.delegation[e].status = "none" => v.delegation[e].last = 0
    <2> HIDE DEF v, row
    <2> TAKE e \in Delegations
    <2>1. CASE e = d
      BY <1>2, <1>3, <1>7, <2>1
    <2>2. CASE e # d
      BY <1>6, <2>2 DEF DelegationFits
    <2> QED BY <2>1, <2>2
  <1>9. Room(v)
    BY <1>3 DEF Sound, Room
  <1>10. Loose(v, {d})
    <2> HIDE DEF v
    <2> QED BY <1>3, <1>5, <1>6, <1>8, <1>9 DEF Loose
  <1> QED BY <1>2, <1>3, <1>7, <1>10

\* create_run, when every earlier run of the delegation has stopped.
LEMMA LaunchedSound ==
  ASSUME NEW w, NEW d \in Delegations, Loose(w, {d}),
         w.delegation[d].status # "active",
         w.delegation[d].generation > w.delegation[d].last,
         w.delegation[d].generation <= MaxGeneration,
         PreviousStopped(w, d)
  PROVE  Sound(Launched(w, d))
  <1> DEFINE g == w.delegation[d].generation
             r == <<d, g>>
             v == Launched(w, d)
             row == [w.run[r] EXCEPT !.status = "queued", !.input = w.item.revision]
             new == [w.delegation[d] EXCEPT !.last = g, !.input = w.item.revision, !.status = "active",
                                            !.byItem = FALSE, !.due = FALSE]
  <1>1. /\ w.delegation \in [Delegations -> Drafts] /\ w.delegation[d] \in Drafts
        /\ w.run \in [Runs -> RunRows] /\ w.item.revision \in 1 .. MaxRevision
    BY DEF Loose, Worlds, Items
  <1>2. g \in 1 .. MaxGeneration /\ g \in 0 .. MaxGeneration
    BY <1>1, BoundAssumption DEF Drafts
  <1>3. r \in Runs /\ r[1] = d /\ r[2] = g
    BY <1>2, LastIsRun
  <1>4. w.run[r].status = "absent" /\ Pristine(w.run[r]) /\ w.run[r] \in RunRows
    BY <1>1, <1>3 DEF Loose, RunFits
  <1>5. /\ new \in Drafts /\ new.status = "active" /\ new.last = g /\ new.generation = g
    BY <1>1, <1>2 DEF Drafts
  <1>6. /\ row \in RunRows /\ row.status = "queued" /\ ~row.cancel /\ row.lease = "none"
        /\ row.artifact = "none"
    BY <1>1, <1>4 DEF RunRows, Pristine, Live
  <1>7. v = [w EXCEPT !.run = [w.run EXCEPT ![r] = row], !.delegation = [w.delegation EXCEPT ![d] = new]]
    BY DEF Launched
  <1>8. /\ v \in Worlds /\ v.item = w.item /\ v.drift = w.drift
        /\ v.delegation[d] = new /\ \A e \in Delegations \ {d} : v.delegation[e] = w.delegation[e]
        /\ v.run[r] = row /\ \A q \in Runs \ {r} : v.run[q] = w.run[q]
    <2> HIDE DEF v, row, new, r
    <2> QED BY <1>1, <1>3, <1>5, <1>6, <1>7 DEF Loose, Worlds
  <1> HIDE DEF v, row, new
  <1>9. ASSUME NEW q \in Runs PROVE RunFits(v, q)
    <2>1. RunFits(w, q) /\ q[1] \in Delegations /\ q[2] \in 1 .. MaxGeneration /\ q = <<q[1], q[2]>>
      BY RunsArePairs DEF Loose
    <2>2. CASE q = r
      <3>1. v.run[q] = row /\ v.delegation[q[1]] = new /\ q[2] = g
        BY <1>3, <1>8, <2>2
      <3> HIDE DEF g
      <3> QED BY <1>2, <1>5, <1>6, <3>1 DEF RunFits, LeaseFits, Live, Stopped
    <2>3. CASE q # r /\ q[1] = d
      <3>1. w.run[q].status \in Stopped \cup {"absent"}
        <4>1. CASE w.delegation[d].last = q[2]
          <5>1. w.delegation[d].last # 0 /\ <<d, w.delegation[d].last>> = q
            BY <2>1, <2>3, <4>1
          <5> QED BY <5>1 DEF PreviousStopped
        <4>2. CASE w.delegation[d].last # q[2]
          BY <2>1, <2>3, <4>2 DEF RunFits
        <4> QED BY <4>1, <4>2
      <3>2. q[2] # g
        BY <2>1, <2>3
      <3>3. q[2] > g => w.run[q].status = "absent"
        BY <1>1, <2>1, <2>3 DEF RunFits, Drafts
      <3>4. v.run[q] = w.run[q] /\ v.delegation[q[1]] = new
        BY <1>8, <2>3
      <3> QED BY <1>5, <2>1, <3>1, <3>3, <3>4 DEF RunFits, Live, Stopped
    <2>4. CASE q[1] # d
      <3>1. v.run[q] = w.run[q] /\ v.delegation[q[1]] = w.delegation[q[1]]
        BY <1>3, <1>8, <2>1, <2>4
      <3> QED BY <2>1, <3>1 DEF RunFits
    <2> QED BY <2>2, <2>3, <2>4
  <1>10. ASSUME NEW e \in Delegations PROVE DelegationFits(v, e)
    <2>1. CASE e = d
      <3>1. v.delegation[e] = new /\ v.run[<<e, new.last>>] = row
        BY <1>5, <1>8, <2>1
      <3> QED BY <1>1, <1>5, <1>6, <3>1 DEF DelegationFits, Live, Drafts
    <2>2. CASE e # d
      <3>1. DelegationFits(w, e) /\ v.delegation[e] = w.delegation[e] /\ w.delegation[e] \in Drafts
        BY <1>1, <1>8, <2>2 DEF Loose
      <3>2. w.delegation[e].status \in {"active", "needs_decision", "waiting"} =>
              /\ <<e, w.delegation[e].last>> \in Runs
              /\ <<e, w.delegation[e].last>> # r
        BY <2>2, <3>1, LastIsRun DEF DelegationFits, Drafts
      <3> QED BY <1>8, <3>1, <3>2 DEF DelegationFits
    <2> QED BY <2>1, <2>2
  <1>11. Room(v)
    BY <1>8 DEF Loose, Room
  <1>12. Sound(v)
    BY <1>8, <1>9, <1>10, <1>11 DEF Sound
  <1> QED BY <1>12 DEF v

\* What a launch may end in, for a delegation whose rows await it.
LEMMA LaunchEndsSound ==
  ASSUME NEW w, NEW d \in Delegations, Loose(w, {d}),
         w.delegation[d].status # "active",
         w.delegation[d].generation > w.delegation[d].last,
         PreviousStopped(w, d),
         NEW v \in LaunchEnds(w, d), Becomes(v)
  PROVE  Sound(v)
  <1>1. CASE v = [w EXCEPT !.delegation[d].status = "blocked"]
    BY <1>1, BlockOneSound
  <1>2. CASE Executable(Reconciled(w)) /\ v = Launched(Reconciled(w), d)
    <2> DEFINE u == Reconciled(w)
    <2>1. Loose(u, {d}) /\ u.delegation = w.delegation /\ u.run = w.run
      BY <1>2, ReconciledLoose DEF Executable
    <2>2. u.delegation[d].generation <= MaxGeneration
      <3>1. v.delegation[d].generation = u.delegation[d].generation
        BY <1>2, <2>1 DEF Launched, Loose, Worlds, Drafts
      <3>2. v.delegation[d].generation + Reserve(v) <= MaxGeneration /\ Reserve(v) \in {0, 1}
        BY DEF Becomes, Reserve
      <3>3. u.delegation[d].generation \in Nat
        BY <2>1 DEF Loose, Worlds, Drafts
      <3> HIDE DEF u
      <3> QED BY <3>1, <3>2, <3>3, BoundAssumption
    <2>3. PreviousStopped(u, d)
      BY <2>1 DEF PreviousStopped
    <2>4. v = Launched(u, d)
      BY <1>2
    <2> HIDE DEF u
    <2> QED BY <2>1, <2>2, <2>3, <2>4, LaunchedSound
  <1> QED BY <1>1, <1>2 DEF LaunchEnds

-----------------------------------------------------------------------------
(* Steps of delegations *)

\* A delegation that never existed has no run, so its first may be launched.
LEMMA CreateStep == ASSUME IInv, NEW d \in Delegations, CreateDelegation(d) PROVE IInv'
  <1>1. PICK w \in LaunchEnds(world, d) : Becomes(w)
    BY DEF CreateDelegation
  <1>2. Sound(world) /\ world.delegation[d].status = "none" /\ world.delegation[d] \in Drafts
    BY DEF IInv, CreateDelegation, world, Sound, Worlds
  <1>3. world.delegation[d].last = 0 /\ world.delegation[d].generation > world.delegation[d].last
    <2>1. DelegationFits(world, d)
      BY <1>2 DEF Sound
    <2> QED BY <1>2, <2>1 DEF DelegationFits, Drafts
  <1>4. Sound(w)
    BY <1>1, <1>2, <1>3, SoundIsLoose, LaunchEndsSound DEF PreviousStopped
  <1> QED BY <1>1, <1>4, Lands DEF IInv

\* Resuming and waking bump the generation before they launch.
LEMMA RelaunchStep ==
  ASSUME IInv, NEW d \in Delegations, delegation[d].status \notin {"none", "active"},
         PreviousStopped(world, d), NEW w \in LaunchEnds(Bumped(world, d), d), Becomes(w)
  PROVE  IInv'
  <1> DEFINE v == Bumped(world, d)
  <1>1. Sound(world) /\ world.delegation[d].status = delegation[d].status
    BY DEF IInv, world
  <1>2. /\ Loose(v, {d}) /\ v.run = world.run
        /\ v.delegation[d].status # "active"
        /\ v.delegation[d].last = world.delegation[d].last
        /\ v.delegation[d].generation > v.delegation[d].last
    BY <1>1, BumpedLoose
  <1>3. PreviousStopped(v, d)
    BY <1>2 DEF PreviousStopped
  <1>4. w \in LaunchEnds(v, d)
    OBVIOUS
  <1> HIDE DEF v
  <1>5. Sound(w)
    BY <1>2, <1>3, <1>4, LaunchEndsSound
  <1> QED BY <1>5, Lands DEF IInv

\* transition_delegation, resume.
LEMMA ResumeStep == ASSUME IInv, NEW d \in Delegations, Resume(d) PROVE IInv'
  BY RelaunchStep DEF Resume

\* Pausing or cancelling asks the last run to stop, whatever became of it.
LEMMA StopStep ==
  ASSUME IInv, NEW d \in Delegations, NEW status \in {"paused", "cancelled"}, Stop(d, status)
  PROVE  IInv'
  <1> DEFINE row == [Bumped(world, d).delegation[d] EXCEPT !.status = status, !.byItem = FALSE]
             rows == [delegation EXCEPT ![d] = row]
             v == [world EXCEPT !.delegation = rows, !.run = AskLast(world, {d})]
  <1>1. Sound(world) /\ world.delegation = delegation /\ delegation[d] \in Drafts
        /\ delegation \in [Delegations -> Drafts]
    BY DEF IInv, world, Sound, Worlds
  <1>2. row \in Drafts /\ row.status = status /\ row.last = delegation[d].last
        /\ row.generation = delegation[d].generation + 1
    <2>1. Bumped(world, d).delegation[d] = [delegation[d] EXCEPT !.generation = @ + 1]
      BY <1>1 DEF Bumped, world
    <2>2. row = [delegation[d] EXCEPT !.generation = @ + 1, !.status = status, !.byItem = FALSE]
      BY <1>1, <2>1 DEF Drafts
    <2>3. delegation[d].generation + 1 \in Nat \ {0}
      BY <1>1 DEF Drafts
    <2> HIDE DEF row
    <2> QED BY <1>1, <2>2, <2>3 DEF Drafts
  <1>3. Becomes(v)
    <2>1. [Bumped(world, d) EXCEPT !.delegation[d] = [@ EXCEPT !.status = status, !.byItem = FALSE],
                                   !.run = AskLast(world, {d})] = v
      BY <1>1 DEF Bumped, world
    <2> QED BY <2>1 DEF Stop
  <1>4. /\ rows \in [Delegations -> Drafts]
        /\ \A e \in Delegations \ {d} : rows[e] = world.delegation[e]
        /\ \A e \in {d} : /\ rows[e].status \in {"paused", "blocked", "cancelled"}
                          /\ rows[e].last = world.delegation[e].last
                          /\ rows[e].generation >= world.delegation[e].generation
    <2>1. row.generation >= delegation[d].generation
      BY <1>1, <1>2 DEF Drafts
    <2> HIDE DEF row
    <2> QED BY <1>1, <1>2, <2>1
  <1>5. v = [world EXCEPT !.delegation = rows, !.run = AskLast(world, {d})] /\ Loose(world, {})
    BY <1>1, SoundIsLoose
  <1> HIDE DEF v, rows, row
  <1>6. Sound(v)
    <2> PICK w, table, u, hit, none : w = world /\ table = rows /\ u = v /\ hit = {d} /\ none = {}
      OBVIOUS
    <2>1. hit \in SUBSET Delegations /\ none \subseteq hit
      OBVIOUS
    <2>2. u = [w EXCEPT !.delegation = table, !.run = AskLast(w, hit)] /\ Loose(w, none)
      BY <1>5
    <2>3. \A e \in hit : /\ table[e].status \in {"paused", "blocked", "cancelled"}
                         /\ table[e].last = w.delegation[e].last
                         /\ table[e].generation >= w.delegation[e].generation
      BY <1>4
    <2>4. \A e \in Delegations \ hit : table[e] = w.delegation[e]
      BY <1>4
    <2>5. table \in [Delegations -> Drafts]
      BY <1>4
    <2>6. Sound(u)
      BY ONLY <2>1, <2>2, <2>3, <2>4, <2>5, HaltedSound
    <2> QED BY <2>6
  <1> QED BY <1>3, <1>6, Lands DEF IInv

\* Waking a delegation launches its next run or brings it to a person.
LEMMA EnqueueStep == ASSUME IInv, NEW d \in Delegations, EnqueueWaiting(d) PROVE IInv'
  <1>1. Sound(world) /\ world.delegation[d].status = "waiting"
    BY DEF IInv, EnqueueWaiting, world
  <1>2. CASE Becomes([world EXCEPT !.delegation[d].status = "blocked"])
    <2>1. Sound([world EXCEPT !.delegation[d].status = "blocked"])
      BY <1>1, SoundIsLoose, BlockOneSound
    <2> QED BY <1>2, <2>1, Lands DEF IInv
  <1>3. CASE PreviousStopped(world, d) /\ \E w \in LaunchEnds(Bumped(world, d), d) : Becomes(w)
    BY <1>1, <1>3, RelaunchStep DEF EnqueueWaiting
  <1>4. CASE Becomes([Reconciled(Bumped(world, d)) EXCEPT !.delegation[d].status = "blocked"])
    <2> DEFINE u == Bumped(world, d)
               v == Reconciled(u)
    <2>1. Loose(u, {d}) /\ u.delegation[d].status = "waiting"
      BY <1>1, BumpedLoose
    <2>2. Loose(v, {d}) /\ (Idle(v) \/ v.delegation = u.delegation)
      BY <2>1, ReconciledLoose
    <2>3. v.delegation[d].status # "active"
      <3> HIDE DEF u, v
      <3> QED BY <2>1, <2>2 DEF Idle
    <2>4. Becomes([v EXCEPT !.delegation[d].status = "blocked"])
      BY <1>4
    <2> HIDE DEF v
    <2>5. Sound([v EXCEPT !.delegation[d].status = "blocked"])
      BY <2>2, <2>3, BlockOneSound
    <2> QED BY <2>4, <2>5, Lands DEF IInv
  <1> QED BY <1>2, <1>3, <1>4 DEF EnqueueWaiting

-----------------------------------------------------------------------------
(* Steps of one run *)

\* A live run that stays live is written.
LEMMA LiveWritten ==
  ASSUME NEW w, Sound(w), NEW r \in Runs, NEW row \in RunRows,
         w.run[r].status \in Live, row.status \in Live,
         row.cancel = w.run[r].cancel, row.artifact = w.run[r].artifact,
         LeaseFits(row),
         NEW v, v = [w EXCEPT !.run[r] = row]
  PROVE  Sound(v)
  <1>1. /\ v.delegation = w.delegation /\ v.run[r] = row
    BY DEF Sound, Worlds
  <1>2. RunFits(v, r)
    <2>1. RunFits(w, r)
      BY DEF Sound
    <2> QED BY <1>1, <2>1 DEF RunFits, Live, Stopped
  <1>3. DelegationFits(v, r[1])
    <2>1. DelegationFits(w, r[1]) /\ RunFits(w, r) /\ r = <<r[1], r[2]>>
      BY RunsArePairs DEF Sound
    <2>2. w.delegation[r[1]].last = r[2]
      BY <2>1 DEF RunFits, Live, Stopped
    <2> QED BY <1>1, <2>1, <2>2 DEF DelegationFits, Live
  <1> QED BY <1>2, <1>3, OneRunWritten

\* The row of a run as its handler finds it.
LEMMA RunRow ==
  ASSUME NEW w, Sound(w), NEW r \in Runs
  PROVE  w.run[r] \in RunRows /\ RunFits(w, r) /\ DelegationFits(w, r[1])
         /\ w.run \in [Runs -> RunRows] /\ w = [w EXCEPT !.run = w.run]
  BY RunsArePairs DEF Sound, Worlds

\* Reconciliation asks runs to stop and leaves them otherwise alone.
LEMMA ReconciledRun ==
  ASSUME NEW w, Sound(w), NEW r \in Runs
  PROVE  Reconciled(w).run[r].status = w.run[r].status
  <1>1. CASE Reconciled(w).run = w.run
    BY <1>1
  <1>2. CASE w.drift = "invalid"
    <2> DEFINE lost == [[w EXCEPT !.drift = "none", !.item.revision = @ + 1]
                          EXCEPT !.item.valid = FALSE,
                                 !.item.state = IF @ = "open" THEN "blocked" ELSE @]
    <2>1. Reconciled(w) = Thawed(Frozen(lost, FALSE), PausedByItem(w))
      BY <1>2 DEF Reconciled
    <2>2. lost.run = w.run /\ w.run[r] \in RunRows
      BY DEF Sound, Worlds
    <2> HIDE DEF lost
    <2>3. \/ Frozen(lost, FALSE).run[r] = lost.run[r]
          \/ Frozen(lost, FALSE).run[r] = Asked(lost.run[r])
      <3>1. PICK hit : Frozen(lost, FALSE).run = AskLast(lost, hit)
        BY <2>2 DEF Frozen
      <3> QED BY <3>1 DEF AskLast
    <2>4. Thawed(Frozen(lost, FALSE), PausedByItem(w)).run = Frozen(lost, FALSE).run
      BY DEF Thawed
    <2> QED BY <2>1, <2>2, <2>3, <2>4 DEF Asked, RunRows
  <1>3. CASE w.drift = "none" \/ w.drift = "update"
    BY <1>3 DEF Reconciled, Sound, Worlds
  <1> QED BY <1>2, <1>3 DEF Sound, Worlds

\* reconcile_expired_runs_job.
LEMMA ExpiryStep == ASSUME IInv, ReconcileExpired PROVE IInv'
  BY ExpirySound, Lands DEF ReconcileExpired, IInv

\* claim_run leases a run that passed the guard and cancels any other.
LEMMA ClaimStep == ASSUME IInv, NEW r \in Runs, Claim(r) PROVE IInv'
  <1>1. PICK S \in SUBSET Expired :
          LET before == ExpiryReconciled(S)
              w == IF authorised THEN Reconciled(before) ELSE before
          IN /\ before.run[r].status = "queued" /\ before.run[r].attempt < MaxAttempts
             /\ IF Guarded(w, r, {"active"})
                THEN Becomes([w EXCEPT !.run[r] =
                         [@ EXCEPT !.status = "leased", !.attempt = w.run[r].attempt + 1, !.lease = "fresh"]])
                ELSE Becomes(End([w EXCEPT !.run[r].cancel = TRUE], r, "cancelled"))
    BY DEF Claim
  <1> DEFINE before == ExpiryReconciled(S)
             w == IF authorised THEN Reconciled(before) ELSE before
  <1>2. Sound(before) /\ before.run[r].status = "queued" /\ before.run[r].attempt < MaxAttempts
    BY <1>1, ExpirySound
  <1>3. IF Guarded(w, r, {"active"})
        THEN Becomes([w EXCEPT !.run[r] =
                 [@ EXCEPT !.status = "leased", !.attempt = w.run[r].attempt + 1, !.lease = "fresh"]])
        ELSE Becomes(End([w EXCEPT !.run[r].cancel = TRUE], r, "cancelled"))
    BY <1>1
  <1> HIDE DEF before
  <1>4. Sound(w) /\ w.run[r].status = "queued"
    BY <1>2, ReconciledSound, ReconciledRun
  <1>5. CASE Guarded(w, r, {"active"})
    <2>1. w.run = before.run
      BY <1>2, <1>5, ReconciledSound DEF Guarded
    <2> HIDE DEF w
    <2> DEFINE row == [w.run[r] EXCEPT !.status = "leased", !.attempt = w.run[r].attempt + 1, !.lease = "fresh"]
               v == [w EXCEPT !.run[r] = row]
    <2>2. w.run[r] \in RunRows /\ w.run[r].attempt < MaxAttempts
      BY <1>2, <1>4, <2>1, RunRow
    <2>3. w.run[r].attempt + 1 \in 0 .. MaxAttempts
      BY <2>2, BoundAssumption DEF RunRows
    <2>4. /\ row \in RunRows /\ row.status = "leased" /\ row.lease = "fresh"
          /\ row.cancel = w.run[r].cancel /\ row.artifact = w.run[r].artifact
      BY <2>2, <2>3 DEF RunRows, Live
    <2>5. Becomes(v)
      <3>1. Becomes([w EXCEPT !.run[r] =
                       [@ EXCEPT !.status = "leased", !.attempt = w.run[r].attempt + 1, !.lease = "fresh"]])
        BY <1>3, <1>5
      <3>2. [w EXCEPT !.run[r] =
               [@ EXCEPT !.status = "leased", !.attempt = w.run[r].attempt + 1, !.lease = "fresh"]] = v
        OBVIOUS
      <3> HIDE DEF v
      <3> QED BY <3>1, <3>2
    <2>6. v = [w EXCEPT !.run[r] = row]
      OBVIOUS
    <2> HIDE DEF v, row
    <2>7. Sound(v)
      BY <1>4, <2>4, <2>6, LiveWritten DEF Live, LeaseFits
    <2> QED BY <2>5, <2>7, Lands DEF IInv
  <1>6. CASE ~Guarded(w, r, {"active"})
    <2> HIDE DEF w
    <2>1. Sound(End([w EXCEPT !.run[r].cancel = TRUE], r, "cancelled"))
      BY <1>4, EndSound DEF Live
    <2> QED BY <1>3, <1>6, <2>1, Lands DEF IInv
  <1> QED BY <1>5, <1>6

\* The clock and the worker write the lease, the limit and the status of a live run.
LEMMA TouchStep ==
  ASSUME IInv, NEW r \in Runs, NEW row \in RunRows,
         run[r].status \in Live, row.status \in Live,
         row.cancel = run[r].cancel, row.artifact = run[r].artifact,
         LeaseFits(row),
         Becomes([world EXCEPT !.run[r] = row])
  PROVE  IInv'
  <1>1. Sound(world) /\ world.run[r] = run[r]
    BY DEF IInv, world
  <1>2. PICK w, v : w = world /\ v = [world EXCEPT !.run[r] = row]
    OBVIOUS
  <1>3. Sound(w) /\ v = [w EXCEPT !.run[r] = row] /\ w.run[r] = run[r] /\ Becomes(v)
    BY <1>1, <1>2
  <1>4. Sound(v)
    BY <1>3, LiveWritten
  <1> QED BY <1>3, <1>4, Lands DEF IInv

\* A run is written but for what its delegation looks at.
LEMMA QuietWritten ==
  ASSUME NEW w, Sound(w), NEW r \in Runs, NEW row \in RunRows,
         w.run[r].status # "absent", row.status = w.run[r].status, row.cancel = w.run[r].cancel,
         row.input = w.run[r].input, row.artifact # "none" <=> w.run[r].artifact # "none",
         LeaseFits(row),
         NEW v, v = [w EXCEPT !.run[r] = row]
  PROVE  Sound(v)
  <1>1. v.run[r] = row /\ v.delegation = w.delegation
    BY DEF Sound, Worlds
  <1>2. RunFits(w, r) /\ DelegationFits(w, r[1]) /\ r = <<r[1], r[2]>>
    BY RunRow, RunsArePairs
  <1>3. RunFits(v, r)
    BY <1>1, <1>2 DEF RunFits, Live, Stopped
  <1>4. DelegationFits(v, r[1])
    <2>1. CASE w.delegation[r[1]].last = r[2]
      BY <1>1, <1>2, <2>1 DEF DelegationFits
    <2>2. CASE w.delegation[r[1]].last # r[2]
      <3>1. w.delegation[r[1]] \in Drafts
        BY RunsArePairs DEF Sound, Worlds
      <3>2. /\ <<r[1], w.delegation[r[1]].last>> # r
            /\ w.delegation[r[1]].status \in {"active", "needs_decision", "waiting"} =>
                 v.run[<<r[1], w.delegation[r[1]].last>>] = w.run[<<r[1], w.delegation[r[1]].last>>]
        <4>1. <<r[1], w.delegation[r[1]].last>> # r
          BY <1>2, <2>2
        <4>2. w.delegation[r[1]].status \in {"active", "needs_decision", "waiting"} =>
                 <<r[1], w.delegation[r[1]].last>> \in Runs
          BY <1>2, <3>1, RunsArePairs, LastIsRun DEF DelegationFits, Drafts
        <4> QED BY <4>1, <4>2 DEF Sound, Worlds
      <3> QED BY <1>1, <1>2, <3>2 DEF DelegationFits
    <2> QED BY <2>1, <2>2
  <1> QED BY <1>3, <1>4, OneRunWritten

\* The clock runs down any lease, also one that an acknowledged stop has left.
LEMMA LeaseStep == ASSUME IInv, NEW r \in Runs, LeaseAges(r) PROVE IInv'
  <1> DEFINE row == [run[r] EXCEPT !.lease = IF @ = "fresh" THEN "old" ELSE "over"]
  <1> PICK w, v : w = world /\ v = [world EXCEPT !.run[r] = row]
    OBVIOUS
  <1>1. Sound(w) /\ w.run[r] = run[r] /\ run[r] \in RunRows /\ run[r].lease # "none"
    BY SoundIsTyped DEF IInv, world, TypeOK, LeaseAges
  <1>2. LeaseFits(run[r]) /\ (run[r].status = "absent" => run[r].lease = "none")
    BY <1>1, RunRow DEF RunFits, Pristine
  <1>3. /\ row \in RunRows /\ row.status = run[r].status /\ row.cancel = run[r].cancel
        /\ row.input = run[r].input /\ row.artifact = run[r].artifact /\ row.lease # "none"
    BY <1>1 DEF RunRows
  <1>4. v = [w EXCEPT !.run[r] = row] /\ Becomes(v)
    BY DEF LeaseAges, world
  <1> HIDE DEF row
  <1>5. LeaseFits(row)
    BY <1>1, <1>2, <1>3 DEF LeaseFits
  <1>6. Sound(v)
    BY <1>1, <1>2, <1>3, <1>4, <1>5, QuietWritten
  <1> QED BY <1>4, <1>6, Lands DEF IInv

\* The time limit is reached.
LEMMA LimitStep == ASSUME IInv, NEW r \in Runs, TimeLimit(r) PROVE IInv'
  <1> DEFINE row == [run[r] EXCEPT !.overdue = TRUE]
  <1>1. /\ run[r] \in RunRows /\ run \in [Runs -> RunRows] /\ run[r].status = "running"
        /\ run[r].lease # "none"
    BY SoundIsTyped DEF TypeOK, LeaseFits, TimeLimit
  <1>2. /\ row \in RunRows /\ row.status = run[r].status /\ row.cancel = run[r].cancel
        /\ row.artifact = run[r].artifact /\ row.lease # "none"
    BY <1>1 DEF RunRows
  <1>3. Becomes([world EXCEPT !.run[r] = row])
    BY <1>1 DEF TimeLimit, world
  <1> HIDE DEF row
  <1> QED BY <1>1, <1>2, <1>3, TouchStep DEF Live, LeaseFits

\* heartbeat renews the lease.
LEMMA RenewStep == ASSUME IInv, NEW r \in Runs, NEW k, Renew(r, k) PROVE IInv'
  <1> DEFINE row == [run[r] EXCEPT !.lease = "fresh"]
  <1>1. run[r] \in RunRows /\ run \in [Runs -> RunRows] /\ run[r].status \in {"leased", "running"}
    BY SoundIsTyped DEF TypeOK, Renew, Admitted, Holds
  <1>2. /\ row \in RunRows /\ row.status = run[r].status /\ row.cancel = run[r].cancel
        /\ row.artifact = run[r].artifact /\ row.lease # "none"
    BY <1>1 DEF RunRows
  <1>3. Becomes([world EXCEPT !.run[r] = row])
    BY <1>1 DEF Renew, world
  <1> HIDE DEF row
  <1> QED BY <1>1, <1>2, <1>3, TouchStep DEF Live, LeaseFits

\* The first event of a worker.
LEMMA StartStep == ASSUME IInv, NEW r \in Runs, NEW k, StartRun(r, k) PROVE IInv'
  <1> DEFINE row == [run[r] EXCEPT !.status = "running"]
  <1>1. run[r] \in RunRows /\ run \in [Runs -> RunRows] /\ run[r].status = "leased" /\ run[r].lease # "none"
    BY SoundIsTyped DEF TypeOK, LeaseFits, StartRun
  <1>2. /\ row \in RunRows /\ row.status = "running" /\ row.cancel = run[r].cancel
        /\ row.artifact = run[r].artifact /\ row.lease # "none"
    BY <1>1 DEF RunRows, Live
  <1>3. Becomes([world EXCEPT !.run[r] = row])
    BY <1>1 DEF StartRun, world
  <1> HIDE DEF row
  <1> QED BY <1>1, <1>2, <1>3, TouchStep DEF Live, LeaseFits

\* One run ends, asked to stop or not.
LEMMA EndStep ==
  ASSUME IInv, NEW r \in Runs, run[r].status \in Live,
         NEW status \in {"failed", "cancelled", "ambiguous"}, Becomes(End(world, r, status))
  PROVE  IInv'
  <1> PICK w : w = world
    OBVIOUS
  <1>1. Sound(w) /\ w.run[r] = run[r]
    BY DEF IInv, world
  <1>2. [w EXCEPT !.run[r].cancel = w.run[r].cancel] = w /\ w.run[r].cancel \in BOOLEAN
    <2>1. w.run[r] \in RunRows /\ w.run \in [Runs -> RunRows] /\ w \in Worlds
      BY <1>1, RunRow DEF Sound
    <2>2. [w.run[r] EXCEPT !.cancel = w.run[r].cancel] = w.run[r]
      BY <2>1 DEF RunRows
    <2>3. [w.run EXCEPT ![r].cancel = w.run[r].cancel] = w.run
      BY <2>1, <2>2
    <2> QED BY <2>1, <2>3 DEF Worlds, RunRows
  <1>3. Sound(End([w EXCEPT !.run[r].cancel = w.run[r].cancel], r, status))
    BY <1>1, <1>2, EndSound
  <1>4. Sound(End(world, r, status))
    BY <1>2, <1>3
  <1> QED BY <1>4, Lands DEF IInv

\* heartbeat finds a limit exceeded.
LEMMA LimitExceededStep == ASSUME IInv, NEW r \in Runs, NEW k, LimitExceeded(r, k) PROVE IInv'
  BY EndStep DEF LimitExceeded, Admitted, Holds, Live

\* complete_run acknowledges a stop.
LEMMA AcknowledgeStep == ASSUME IInv, NEW r \in Runs, NEW k, AcknowledgeStop(r, k) PROVE IInv'
  <1> DEFINE row == [run[r] EXCEPT !.status = "cancelled", !.overdue = FALSE]
             rows == [run EXCEPT ![r] = row]
  <1> PICK w, v : w = world /\ v = [world EXCEPT !.run = rows]
    OBVIOUS
  <1>1. Sound(w) /\ w.run = run /\ run \in [Runs -> RunRows] /\ run[r] \in RunRows
        /\ run[r].status \in Live /\ run[r].cancel
    BY SoundIsTyped DEF IInv, world, TypeOK, AcknowledgeStop, Holds, Live
  <1>2. /\ row \in RunRows /\ row.status = "cancelled" /\ LeaseFits(row)
        /\ row.artifact = run[r].artifact
    BY <1>1 DEF RunRows, Stopped, LeaseFits
  <1>3. Becomes(StopRecorded(v, {r}))
    <2>1. v = [world EXCEPT !.run[r] = [@ EXCEPT !.status = "cancelled", !.overdue = FALSE]]
      BY DEF world
    <2> HIDE DEF rows
    <2> QED BY <2>1 DEF AcknowledgeStop
  <1> HIDE DEF row
  <1>4. rows \in [Runs -> RunRows] /\ rows[r] = row /\ \A q \in Runs \ {r} : rows[q] = run[q]
    BY <1>1, <1>2
  <1> HIDE DEF rows
  <1>5. Sound(StopRecorded(v, {r}))
    BY <1>1, <1>2, <1>4, EndedSound
  <1> QED BY <1>3, <1>5, Lands DEF IInv

\* fail_run, whatever its guard makes of the failure.
LEMMA FailStep ==
  ASSUME IInv, NEW r \in Runs, NEW k, NEW ambiguous \in BOOLEAN, FailRun(r, k, ambiguous)
  PROVE  IInv'
  <1> DEFINE w == IF ~run[r].cancel /\ authorised THEN Reconciled(world) ELSE world
             stop == ~Guarded(w, r, {"active"})
             status == IF ambiguous THEN "ambiguous" ELSE IF stop THEN "cancelled" ELSE "failed"
  <1>1. Sound(world) /\ world.run[r] = run[r] /\ run[r].status \in Live
    BY DEF IInv, world, FailRun, Holds, Live
  <1>2. Sound(w) /\ w.run[r].status \in Live
    BY <1>1, ReconciledSound, ReconciledRun
  <1>3. Becomes(End([w EXCEPT !.run[r].cancel = stop], r, status))
    BY DEF FailRun
  <1>4. stop \in BOOLEAN /\ status \in {"failed", "cancelled", "ambiguous"}
    OBVIOUS
  <1> HIDE DEF w, stop, status
  <1> PICK u, asked, outcome : u = w /\ asked = stop /\ outcome = status
    OBVIOUS
  <1>5. Sound(End([u EXCEPT !.run[r].cancel = asked], r, outcome))
    BY <1>2, <1>4, EndSound
  <1> QED BY <1>3, <1>5, Lands DEF IInv

\* A run completes and its delegation waits for a person or for new input.
LEMMA HandedOverSound ==
  ASSUME NEW w, Sound(w), NEW r \in Runs, NEW artifact \in BOOLEAN, NEW row \in RunRows,
         w.run[r].status \in {"leased", "running"},
         w.delegation[r[1]].status = "active",
         w.delegation[r[1]].generation = r[2], w.delegation[r[1]].last = r[2],
         w.delegation[r[1]].input = w.run[r].input,
         row.status = "completed", ~row.cancel, row.lease = "none", row.input = w.run[r].input,
         row.artifact # "none" <=> artifact,
         NEW v, v = [HandedOver(w, r[1], artifact) EXCEPT !.run[r] = row]
  PROVE  Sound(v)
  <1> DEFINE d == r[1]
             new == [w.delegation[d] EXCEPT !.status = IF artifact THEN "needs_decision" ELSE "waiting",
                                            !.due = FALSE]
  <1>1. /\ w.delegation \in [Delegations -> Drafts] /\ w.run \in [Runs -> RunRows]
        /\ d \in Delegations /\ r[2] \in 1 .. MaxGeneration /\ r = <<d, r[2]>>
    BY RunsArePairs DEF Sound, Worlds
  <1>2. w.delegation[d] \in Drafts
    BY <1>1
  <1>3. /\ new \in Drafts
        /\ new.status = IF artifact THEN "needs_decision" ELSE "waiting"
        /\ new.last = r[2] /\ new.generation = r[2] /\ new.input = w.run[r].input
    BY <1>2 DEF Drafts
  <1>4. /\ v \in Worlds /\ v.item = w.item /\ v.drift = w.drift
        /\ v.delegation[d] = new /\ \A e \in Delegations \ {d} : v.delegation[e] = w.delegation[e]
        /\ v.run[r] = row /\ \A q \in Runs \ {r} : v.run[q] = w.run[q]
    <2>1. HandedOver(w, d, artifact) = [w EXCEPT !.delegation = [w.delegation EXCEPT ![d] = new]]
      <3>1. [[w.delegation EXCEPT ![d].status = IF artifact THEN "needs_decision" ELSE "waiting"]
               EXCEPT ![d].due = FALSE] = [w.delegation EXCEPT ![d] = new]
        BY <1>1
      <3> QED BY <3>1 DEF HandedOver, Sound, Worlds
    <2>2. v = [w EXCEPT !.delegation = [w.delegation EXCEPT ![d] = new], !.run = [w.run EXCEPT ![r] = row]]
      <3> HIDE DEF new
      <3> QED BY <2>1 DEF Sound, Worlds
    <2> HIDE DEF new, d
    <2>3. /\ v.delegation = [w.delegation EXCEPT ![d] = new] /\ v.run = [w.run EXCEPT ![r] = row]
          /\ v.item = w.item /\ v.drift = w.drift
      BY <2>2 DEF Sound, Worlds
    <2>4. /\ v.delegation \in [Delegations -> Drafts]
          /\ v.delegation[d] = new /\ \A e \in Delegations \ {d} : v.delegation[e] = w.delegation[e]
      BY ONLY <1>1, <1>3, <2>3
    <2>5. v.run \in [Runs -> RunRows] /\ v.run[r] = row /\ \A q \in Runs \ {r} : v.run[q] = w.run[q]
      <3>1. row \in RunRows /\ r \in Runs
        OBVIOUS
      <3> QED BY ONLY <1>1, <2>3, <3>1
    <2>6. v \in Worlds
      <3>1. w \in Worlds
        BY DEF Sound
      <3> QED BY ONLY <2>2, <2>4, <2>5, <3>1 DEF Worlds
    <2> QED BY <2>3, <2>4, <2>5, <2>6
  <1> HIDE DEF new
  <1>5. ASSUME NEW q \in Runs PROVE RunFits(v, q)
    <2>1. RunFits(w, q) /\ RunFits(w, r) /\ q[1] \in Delegations /\ q = <<q[1], q[2]>>
      BY RunsArePairs DEF Sound
    <2>2. CASE q = r
      <3>1. v.run[q] = row /\ v.delegation[q[1]] = new /\ q[2] = r[2]
        BY <1>4, <2>2
      <3> QED BY <1>1, <1>3, <3>1 DEF RunFits, LeaseFits, Live, Stopped
    <2>3. CASE q # r /\ q[1] = d
      <3>1. v.run[q] = w.run[q] /\ v.delegation[q[1]] = new /\ q[2] # r[2]
        BY <1>1, <1>4, <2>1, <2>3
      <3>2. w.run[q].status \in Stopped \cup {"absent"}
        BY <2>1, <2>3, <3>1 DEF RunFits
      <3> QED BY <1>3, <2>1, <2>3, <3>1, <3>2 DEF RunFits, Live, Stopped
    <2>4. CASE q[1] # d
      <3>1. v.run[q] = w.run[q] /\ v.delegation[q[1]] = w.delegation[q[1]]
        BY <1>4, <2>1, <2>4
      <3> QED BY <2>1, <3>1 DEF RunFits
    <2> QED BY <2>2, <2>3, <2>4
  <1>6. ASSUME NEW e \in Delegations PROVE DelegationFits(v, e)
    <2>1. CASE e = d
      <3>1. v.delegation[e] = new /\ v.run[<<e, new.last>>] = row
        BY <1>1, <1>3, <1>4, <2>1
      <3> QED BY <1>1, <1>3, <3>1 DEF DelegationFits
    <2>2. CASE e # d
      <3>1. DelegationFits(w, e) /\ v.delegation[e] = w.delegation[e] /\ w.delegation[e] \in Drafts
        BY <1>1, <1>4, <2>2 DEF Sound
      <3>2. w.delegation[e].status \in {"active", "needs_decision", "waiting"} =>
              /\ <<e, w.delegation[e].last>> \in Runs
              /\ <<e, w.delegation[e].last>> # r
        BY <1>1, <2>2, <3>1, LastIsRun DEF DelegationFits, Drafts
      <3> QED BY <1>4, <3>1, <3>2 DEF DelegationFits
    <2> QED BY <2>1, <2>2
  <1> QED BY <1>4, <1>5, <1>6 DEF Sound, Room

\* What the guard of a report establishes about the rows themselves.
LEMMA GuardedRows ==
  ASSUME IInv, NEW r \in Runs, Guarded(Reconciled(world), r, {"active"})
  PROVE  /\ delegation[r[1]].status = "active" /\ delegation[r[1]].generation = r[2]
         /\ delegation[r[1]].last = r[2] /\ delegation[r[1]].input = run[r].input
  <1>1. Sound(world) /\ world.delegation = delegation /\ world.run = run
    BY DEF IInv, world
  <1>2. Reconciled(world).delegation = delegation /\ Reconciled(world).run = run
    BY <1>1, ReconciledSound DEF Guarded
  <1> QED BY <1>2 DEF Guarded

\* The guard ties the result to the present generation and inputs.
LEMMA HandoverStep ==
  ASSUME IInv, NEW r \in Runs, NEW k, Admitted(r, k), ~run[r].cancel,
         NEW artifact \in BOOLEAN, NEW row \in RunRows,
         row = [Ended(run[r], "completed") EXCEPT !.artifact = IF artifact THEN "draft" ELSE "none"],
         Becomes([HandedOver(world, r[1], artifact) EXCEPT !.run[r] = row])
  PROVE  IInv'
  <1> PICK w, v : w = world /\ v = [HandedOver(world, r[1], artifact) EXCEPT !.run[r] = row]
    OBVIOUS
  <1>1. Sound(w) /\ w.run = run /\ w.delegation = delegation /\ run[r] \in RunRows
    BY SoundIsTyped DEF IInv, world, TypeOK
  <1>2. run[r].status \in {"leased", "running"} /\ Guarded(Reconciled(world), r, {"active"})
    BY DEF Admitted, Holds
  <1>3. /\ row.status = "completed" /\ ~row.cancel /\ row.lease = "none" /\ row.input = run[r].input
        /\ row.artifact # "none" <=> artifact
    BY <1>1 DEF Ended, RunRows
  <1>4. v = [HandedOver(w, r[1], artifact) EXCEPT !.run[r] = row] /\ Becomes(v)
    OBVIOUS
  <1>5. /\ w.run[r].status \in {"leased", "running"}
        /\ w.delegation[r[1]].status = "active"
        /\ w.delegation[r[1]].generation = r[2] /\ w.delegation[r[1]].last = r[2]
        /\ w.delegation[r[1]].input = w.run[r].input /\ row.input = w.run[r].input
    BY <1>1, <1>2, <1>3, GuardedRows
  <1>6. Sound(v)
    <2>1. artifact \in BOOLEAN /\ row \in RunRows /\ r \in Runs
      OBVIOUS
    <2> QED BY ONLY <1>1, <1>3, <1>4, <1>5, <2>1, HandedOverSound, Zenon
  <1> QED BY <1>4, <1>6, Lands DEF IInv

\* complete_run with or without an artifact.
LEMMA CompleteStep == ASSUME IInv, NEW r \in Runs, NEW k, CompleteRun(r, k) PROVE IInv'
  <1> PICK artifact \in BOOLEAN :
          Becomes([HandedOver(world, r[1], artifact) EXCEPT
              !.run[r] = [Ended(@, "completed") EXCEPT !.artifact = IF artifact THEN "draft" ELSE "none"]])
    BY DEF CompleteRun
  <1> DEFINE row == [Ended(run[r], "completed") EXCEPT !.artifact = IF artifact THEN "draft" ELSE "none"]
  <1>1. run[r] \in RunRows
    BY SoundIsTyped DEF TypeOK
  <1>2. row \in RunRows
    BY <1>1 DEF Ended, RunRows, Stopped
  <1>3. Becomes([HandedOver(world, r[1], artifact) EXCEPT !.run[r] = row])
    BY DEF HandedOver, world
  <1>4. Admitted(r, k) /\ ~run[r].cancel
    BY DEF CompleteRun
  <1> QED BY <1>2, <1>3, <1>4, HandoverStep

\* A run that waits for input leaves no artifact.
LEMMA WaitStep == ASSUME IInv, NEW r \in Runs, NEW k, WaitForInput(r, k) PROVE IInv'
  <1> DEFINE row == [Ended(run[r], "completed") EXCEPT !.artifact = IF FALSE THEN "draft" ELSE "none"]
  <1>1. run[r] \in RunRows /\ run[r].status \in {"leased", "running"} /\ RunFits(world, r)
    BY SoundIsTyped DEF TypeOK, WaitForInput, Admitted, Holds, IInv, Sound
  <1>2. run[r].artifact = "none"
    BY <1>1 DEF RunFits, world
  <1>3. row \in RunRows /\ row = Ended(run[r], "completed")
    BY <1>1, <1>2 DEF Ended, RunRows, Stopped
  <1>4. Becomes([HandedOver(world, r[1], FALSE) EXCEPT !.run[r] = Ended(run[r], "completed")])
    BY DEF WaitForInput, HandedOver, world
  <1>5. Admitted(r, k) /\ ~run[r].cancel
    BY DEF WaitForInput
  <1> QED BY <1>3, <1>4, <1>5, HandoverStep

\* The owner withdraws a run: a queued one ends at once.
LEMMA CancelStep == ASSUME IInv, NEW r \in Runs, CancelRun(r) PROVE IInv'
  <1> DEFINE row == [(IF run[r].status = "queued" THEN Ended(run[r], "cancelled") ELSE run[r])
                       EXCEPT !.cancel = TRUE]
  <1> PICK w, v : w = world /\ v = [world EXCEPT !.run[r] = row]
    OBVIOUS
  <1>1. Sound(w) /\ w.run[r] = run[r] /\ w.delegation = delegation /\ run[r] \in RunRows
        /\ run[r].status \in Live
    BY SoundIsTyped DEF IInv, world, TypeOK, CancelRun
  <1>2. /\ row \in RunRows /\ row.cancel /\ row.artifact = run[r].artifact
        /\ \/ row.status = run[r].status /\ row.lease = run[r].lease
           \/ row.status = "cancelled" /\ row.lease = "none"
    BY <1>1 DEF Ended, RunRows, Stopped
  <1>3. v = [w EXCEPT !.run[r] = row] /\ Becomes(v)
    BY DEF CancelRun, world
  <1> HIDE DEF row
  <1>4. v.run[r] = row /\ v.delegation = w.delegation
    BY <1>1, <1>2, <1>3 DEF Sound, Worlds
  <1>5. RunFits(w, r) /\ DelegationFits(w, r[1]) /\ r = <<r[1], r[2]>>
    BY <1>1, RunRow, RunsArePairs
  <1>6. w.delegation[r[1]].last = r[2]
    BY <1>1, <1>5 DEF RunFits, Live, Stopped
  <1>7. RunFits(v, r)
    BY <1>1, <1>2, <1>4, <1>5 DEF RunFits, LeaseFits, Live, Stopped
  <1>8. DelegationFits(v, r[1])
    BY <1>1, <1>2, <1>4, <1>5, <1>6 DEF DelegationFits, Live
  <1>9. Sound(v)
    BY <1>1, <1>2, <1>3, <1>7, <1>8, OneRunWritten
  <1> QED BY <1>3, <1>9, Lands DEF IInv

\* A person decides on the draft of a completed run.
LEMMA DecideStep == ASSUME IInv, NEW r \in Runs, Decide(r) PROVE IInv'
  <1>1. PICK decision \in {"accepted", "rejected"} : Becomes([world EXCEPT !.run[r].artifact = decision])
    BY DEF Decide
  <1> DEFINE row == [run[r] EXCEPT !.artifact = decision]
  <1> PICK w, v : w = world /\ v = [world EXCEPT !.run[r] = row]
    OBVIOUS
  <1>2. Sound(w) /\ w.run[r] = run[r] /\ w.delegation = delegation /\ run[r] \in RunRows
        /\ run[r].artifact = "draft"
    BY SoundIsTyped DEF IInv, world, TypeOK, Decide
  <1>3. /\ row \in RunRows /\ row.artifact # "none" /\ row.status = run[r].status
        /\ row.cancel = run[r].cancel /\ row.lease = run[r].lease /\ row.input = run[r].input
    BY <1>2 DEF RunRows
  <1>4. v = [w EXCEPT !.run[r] = row] /\ Becomes(v)
    BY <1>1 DEF world
  <1> HIDE DEF row
  <1>5. LeaseFits(row)
    BY <1>2, <1>3, RunRow DEF RunFits, LeaseFits
  <1>6. w.run[r].status # "absent"
    BY <1>2, RunRow DEF RunFits, Pristine
  <1>7. Sound(v)
    BY <1>2, <1>3, <1>4, <1>5, <1>6, QuietWritten
  <1> QED BY <1>4, <1>7, Lands DEF IInv

-----------------------------------------------------------------------------
(* Steps of the item, its sources and its owner *)

\* An item is written on rows that have been reconciled.
LEMMA ReconciledItem ==
  ASSUME IInv, NEW row \in Items, NEW v, v = [Reconciled(world) EXCEPT !.item = row]
  PROVE  Sound(v)
  <1> PICK w : w = Reconciled(world)
    OBVIOUS
  <1>1. Sound(w) /\ w.drift = "none"
    BY ReconciledSound DEF IInv
  <1>2. v \in Worlds /\ v.drift = "none" /\ v.delegation = w.delegation /\ v.run = w.run
    BY <1>1 DEF Sound, Worlds
  <1> QED BY <1>1, <1>2, SoundIsLoose, LooseIsSound, ItemWritten DEF Room

\* Its state is one of its fields.
LEMMA ReconciledState ==
  ASSUME IInv, NEW state \in {"open", "paused", "blocked", "closed"}
  PROVE  Sound([Reconciled(world) EXCEPT !.item.state = state])
  <1> PICK w : w = Reconciled(world)
    OBVIOUS
  <1>1. w \in Worlds
    BY ReconciledSound DEF IInv, Sound
  <1>2. [w.item EXCEPT !.state = state] \in Items
    BY <1>1 DEF Worlds, Items
  <1>3. [w EXCEPT !.item.state = state] = [w EXCEPT !.item = [w.item EXCEPT !.state = state]]
    OBVIOUS
  <1> DEFINE row == [w.item EXCEPT !.state = state]
             v == [w EXCEPT !.item = row]
  <1>4. v = [Reconciled(world) EXCEPT !.item = row] /\ row \in Items
    BY <1>2
  <1> HIDE DEF v, row
  <1>5. Sound(v)
    BY <1>4, ReconciledItem
  <1> QED BY <1>3, <1>5 DEF v, row

\* Pausing an item freezes its delegations.
LEMMA PauseStep == ASSUME IInv, PauseItem PROVE IInv'
  <1>1. Sound(Frozen([Reconciled(world) EXCEPT !.item.state = "paused"], FALSE))
    BY ReconciledState, SoundIsLoose, FrozenSound
  <1> QED BY <1>1, Lands DEF PauseItem, IInv

\* Resuming an item leaves its delegations for a fresh decision.
LEMMA ResumeItemStep == ASSUME IInv, ResumeItem PROVE IInv'
  <1> DEFINE w == [Reconciled(world) EXCEPT !.item.state = "open"]
             hit == PausedByItem(Reconciled(world))
  <1>1. Sound(w)
    BY ReconciledState
  <1>2. hit \in SUBSET Delegations /\ \A d \in hit : w.delegation[d].status # "active"
    <2>1. w.delegation = Reconciled(world).delegation
      BY ReconciledSound DEF IInv, Sound, Worlds
    <2> HIDE DEF w
    <2> QED BY <2>1 DEF PausedByItem
  <1>3. Becomes(Thawed(w, hit))
    BY DEF ResumeItem
  <1> HIDE DEF w, hit
  <1> QED BY <1>1, <1>2, <1>3, ThawedSound, Lands DEF IInv

\* Starting, waiting, deciding and blocking move the item alone.
LEMMA MoveStep == ASSUME IInv, NEW state \in {"open", "blocked"}, MoveItem(state) PROVE IInv'
  <1>1. Sound([Reconciled(world) EXCEPT !.item.state = state])
    BY ReconciledState
  <1> QED BY <1>1, Lands DEF MoveItem, IInv

\* Reopening moves the item alone.
LEMMA ReopenStep == ASSUME IInv, ReopenItem PROVE IInv'
  <1>1. Sound([Reconciled(world) EXCEPT !.item.state = "open"])
    BY ReconciledState
  <1> QED BY <1>1, Lands DEF ReopenItem, IInv

\* Reverifying makes the item valid again.
LEMMA ReverifyStep == ASSUME IInv, ReverifyItem PROVE IInv'
  <1> PICK w : w = Reconciled(world)
    OBVIOUS
  <1> DEFINE row == [w.item EXCEPT !.valid = TRUE, !.state = IF @ = "paused" THEN @ ELSE "open"]
             v == [w EXCEPT !.item = row]
  <1>1. w \in Worlds
    BY ReconciledSound DEF IInv, Sound
  <1>2. row \in Items
    BY <1>1 DEF Worlds, Items
  <1>3. Becomes(v)
    BY DEF ReverifyItem
  <1>4. v = [Reconciled(world) EXCEPT !.item = row]
    OBVIOUS
  <1> HIDE DEF v, row
  <1>5. Sound(v)
    BY <1>2, <1>4, ReconciledItem
  <1> QED BY <1>3, <1>5, Lands DEF IInv

\* Closing cancels every delegation, reconciled or not.
LEMMA CloseStep == ASSUME IInv, CloseItem PROVE IInv'
  <1>1. PICK w \in {world, Reconciled(world)} : Becomes(Frozen([w EXCEPT !.item.state = "closed"], TRUE))
    BY DEF CloseItem
  <1> DEFINE v == [w EXCEPT !.item.state = "closed"]
  <1>2. Sound(w)
    BY ReconciledSound DEF IInv
  <1>3. v \in Worlds /\ Room(v) /\ v.delegation = w.delegation /\ v.run = w.run
    <2>1. w.item \in Items /\ [w.item EXCEPT !.state = "closed"] \in Items
          /\ [w.item EXCEPT !.state = "closed"].revision = w.item.revision
      BY <1>2 DEF Sound, Worlds, Items
    <2>2. v = [w EXCEPT !.item = [w.item EXCEPT !.state = "closed"]]
      OBVIOUS
    <2> HIDE DEF v
    <2> QED BY <1>2, <2>1, <2>2 DEF Sound, Worlds, Room
  <1> HIDE DEF v
  <1>4. Sound(Frozen(v, TRUE))
    BY <1>2, <1>3, SoundIsLoose, ItemWritten, FrozenSound
  <1> QED BY <1>1, <1>4, Lands DEF IInv, v

\* Moving the customer blocks every delegation and stops its run.
LEMMA OwnershipStep == ASSUME IInv, MoveOwnership PROVE IInv'
  <1> DEFINE live == {d \in Delegations : delegation[d].status \notin {"none", "cancelled"}}
             table == [d \in Delegations |->
                  IF d \in live THEN [delegation[d] EXCEPT !.status = "blocked", !.byItem = FALSE,
                                                           !.generation = @ + 1]
                  ELSE delegation[d]]
  <1> PICK w, v, hit, none, rows : /\ w = world /\ hit = live /\ none = {} /\ rows = table
                                   /\ v = [world EXCEPT !.delegation = table, !.run = AskLast(world, live)]
    OBVIOUS
  <1>1. Sound(w) /\ w.delegation = delegation /\ \A d \in Delegations : delegation[d] \in Drafts
    BY DEF IInv, world, Sound, Worlds
  <1>2. \A d \in hit : /\ rows[d] \in Drafts /\ rows[d].status = "blocked"
                       /\ rows[d].last = delegation[d].last
                       /\ rows[d].generation >= delegation[d].generation
    <2> SUFFICES ASSUME NEW d \in Delegations, d \in hit
                 PROVE  /\ rows[d] \in Drafts /\ rows[d].status = "blocked"
                        /\ rows[d].last = delegation[d].last
                        /\ rows[d].generation >= delegation[d].generation
      OBVIOUS
    <2>1. /\ delegation[d] \in Drafts /\ delegation[d].generation + 1 \in Nat \ {0}
          /\ delegation[d].generation + 1 >= delegation[d].generation
      <3>1. delegation[d] \in Drafts
        BY <1>1
      <3>2. delegation[d].generation \in Nat \ {0}
        BY <3>1 DEF Drafts
      <3> QED BY ONLY <3>1, <3>2, Successor
    <2>2. rows[d] = [delegation[d] EXCEPT !.status = "blocked", !.byItem = FALSE, !.generation = @ + 1]
      OBVIOUS
    <2> HIDE DEF live, table
    <2> QED BY ONLY <2>1, <2>2 DEF Drafts
  <1>3. \A d \in Delegations \ hit : rows[d] = w.delegation[d]
    BY <1>1
  <1>4. rows \in [Delegations -> Drafts] /\ hit \in SUBSET Delegations /\ none \subseteq hit
    <2>1. \A d \in Delegations : rows[d] \in Drafts
      BY <1>1, <1>2, <1>3
    <2> QED BY <2>1
  <1>5. v = [w EXCEPT !.delegation = rows, !.run = AskLast(w, hit)] /\ Loose(w, none)
    BY <1>1, SoundIsLoose
  <1>6. \A d \in hit : /\ rows[d].status \in {"paused", "blocked", "cancelled"}
                       /\ rows[d].last = w.delegation[d].last
                       /\ rows[d].generation >= w.delegation[d].generation
    BY ONLY <1>1, <1>2
  <1>7. Becomes(v)
    BY DEF MoveOwnership
  <1> HIDE DEF live, table
  <1>8. Sound(v)
    BY ONLY <1>3, <1>4, <1>5, <1>6, HaltedSound
  <1> QED BY <1>7, <1>8, Lands DEF IInv

\* A source changes while a revision is left for it.
LEMMA SourceStep == ASSUME IInv, NEW kind \in {"update", "invalid"}, SourceChanges(kind) PROVE IInv'
  <1> PICK w, v : w = world /\ v = [world EXCEPT !.drift = kind]
    OBVIOUS
  <1>1. Sound(w) /\ w.item.revision < MaxRevision
    BY DEF IInv, world, SourceChanges
  <1>2. v \in Worlds /\ Room(v) /\ v.delegation = w.delegation /\ v.run = w.run
    BY <1>1 DEF Sound, Worlds, Room
  <1>3. Sound(v)
    BY <1>1, <1>2, SoundIsLoose, LooseIsSound, ItemWritten
  <1> QED BY <1>3, Lands DEF SourceChanges, IInv

\* The sources are reconciled on their own.
LEMMA ReconcileStep == ASSUME IInv, ReconcileSources PROVE IInv'
  BY ReconciledSound, Lands DEF ReconcileSources, IInv

\* The customer's facts move past every run.
LEMMA CustomerStep == ASSUME IInv, CustomerChanges PROVE IInv'
  <1> DEFINE rows == [r \in Runs |->
        [run[r] EXCEPT !.outdated = run[r].outdated \/ run[r].status # "absent"]]
  <1> PICK w, v : w = world /\ v = [world EXCEPT !.run = rows]
    OBVIOUS
  <1>1. Sound(w) /\ w.run = run /\ \A r \in Runs : run[r] \in RunRows
    BY DEF IInv, world, Sound, Worlds
  <1>2. ASSUME NEW r \in Runs
        PROVE  /\ rows[r] \in RunRows /\ rows[r].status = run[r].status /\ rows[r].cancel = run[r].cancel
               /\ rows[r].attempt = run[r].attempt /\ rows[r].lease = run[r].lease
               /\ rows[r].overdue = run[r].overdue /\ rows[r].input = run[r].input
               /\ rows[r].artifact = run[r].artifact
               /\ run[r].status = "absent" => rows[r].outdated = run[r].outdated
    <2>1. run[r] \in RunRows
      BY <1>1
    <2>2. PICK late \in BOOLEAN : /\ rows[r] = [run[r] EXCEPT !.outdated = late]
                                  /\ run[r].status = "absent" => late = run[r].outdated
      <3>1. CASE run[r].status = "absent"
        <4>1. (run[r].outdated \/ run[r].status # "absent") = run[r].outdated
              /\ run[r].outdated \in BOOLEAN
          BY <2>1, <3>1 DEF RunRows
        <4>2. rows[r] = [run[r] EXCEPT !.outdated = run[r].outdated]
          BY <4>1
        <4> HIDE DEF rows
        <4> QED BY <4>1, <4>2
      <3>2. CASE run[r].status # "absent"
        <4>1. rows[r] = [run[r] EXCEPT !.outdated = TRUE]
          BY <3>2
        <4> HIDE DEF rows
        <4> QED BY <3>2, <4>1
      <3> QED BY <3>1, <3>2
    <2> HIDE DEF rows
    <2> QED BY <2>1, <2>2 DEF RunRows
  <1>3. v.delegation = w.delegation /\ v.item = w.item /\ v.drift = w.drift /\ v.run = rows
    BY <1>1 DEF Sound, Worlds
  <1>4. rows \in [Runs -> RunRows]
    BY <1>2
  <1>5. Becomes(v)
    BY DEF CustomerChanges
  <1> HIDE DEF rows
  <1>6. v \in Worlds /\ Room(v)
    BY <1>1, <1>3, <1>4 DEF Sound, Worlds, Room
  <1>7. ASSUME NEW r \in Runs PROVE RunFits(v, r)
    <2>1. RunFits(w, r)
      BY <1>1, RunRow
    <2> QED BY <1>1, <1>2, <1>3, <2>1 DEF RunFits, LeaseFits, Pristine
  <1>8. ASSUME NEW d \in Delegations PROVE DelegationFits(v, d)
    <2>1. DelegationFits(w, d) /\ w.delegation[d] \in Drafts
      BY <1>1 DEF Sound, Worlds
    <2>2. w.delegation[d].status \in {"active", "needs_decision", "waiting"} =>
            <<d, w.delegation[d].last>> \in Runs
      BY <2>1, LastIsRun DEF DelegationFits, Drafts
    <2> QED BY <1>1, <1>2, <1>3, <2>1, <2>2 DEF DelegationFits
  <1>9. Sound(v)
    BY <1>6, <1>7, <1>8 DEF Sound
  <1> QED BY <1>5, <1>9, Lands DEF IInv

\* A review comes due.
LEMMA ReviewStep == ASSUME IInv, NEW d \in Delegations, ReviewDue(d) PROVE IInv'
  <1> DEFINE row == [delegation[d] EXCEPT !.due = TRUE]
  <1> PICK w, v : w = world /\ v = [world EXCEPT !.delegation[d] = row]
    OBVIOUS
  <1>1. Sound(w) /\ w.delegation = delegation /\ delegation \in [Delegations -> Drafts]
        /\ delegation[d] \in Drafts
    BY DEF IInv, world, Sound, Worlds
  <1>2. /\ row \in Drafts /\ row.status = delegation[d].status /\ row.last = delegation[d].last
        /\ row.generation = delegation[d].generation /\ row.input = delegation[d].input
    BY <1>1 DEF Drafts
  <1>3. v = [w EXCEPT !.delegation[d] = row] /\ Becomes(v)
    BY DEF ReviewDue, world
  <1> HIDE DEF row
  <1>4. /\ v \in Worlds /\ v.item = w.item /\ v.drift = w.drift /\ v.run = w.run
        /\ v.delegation[d] = row /\ \A e \in Delegations \ {d} : v.delegation[e] = w.delegation[e]
    BY <1>1, <1>2, <1>3 DEF Sound, Worlds
  <1>5. ASSUME NEW r \in Runs PROVE RunFits(v, r)
    <2>1. RunFits(w, r) /\ r[1] \in Delegations
      BY <1>1, RunsArePairs DEF Sound
    <2>2. /\ v.delegation[r[1]].status = w.delegation[r[1]].status
          /\ v.delegation[r[1]].last = w.delegation[r[1]].last
      BY <1>1, <1>2, <1>4, <2>1
    <2> QED BY <1>4, <2>1, <2>2 DEF RunFits
  <1>6. ASSUME NEW e \in Delegations PROVE DelegationFits(v, e)
    <2>1. DelegationFits(w, e)
      BY <1>1 DEF Sound
    <2> QED BY <1>1, <1>2, <1>4, <2>1 DEF DelegationFits
  <1>7. Sound(v)
    BY <1>1, <1>4, <1>5, <1>6 DEF Sound, Room
  <1> QED BY <1>3, <1>7, Lands DEF IInv

-----------------------------------------------------------------------------
(* The invariant *)

\* No delegation and no run exists at first.
LEMMA InitSound == ASSUME Init PROVE IInv
  <1>1. 1 \in 1 .. MaxGeneration /\ 0 \in 0 .. MaxGeneration /\ 1 \in 1 .. MaxRevision
        /\ 0 \in 0 .. MaxAttempts
    BY BoundAssumption
  <1>2. world.item \in Items /\ world.drift = "none" /\ authorised \in BOOLEAN
    BY <1>1 DEF Init, world, Items
  <1>3. ASSUME NEW d \in Delegations
        PROVE  /\ delegation[d] \in Drafts /\ delegation[d].status = "none"
               /\ delegation[d].last = 0 /\ delegation[d].generation = 1
    BY <1>1 DEF Init, Drafts
  <1>4. ASSUME NEW r \in Runs
        PROVE  run[r] \in RunRows /\ run[r].status = "absent" /\ Pristine(run[r])
    BY <1>1 DEF Init, RunRows, Pristine
  <1>5. world \in Worlds /\ world.delegation = delegation /\ world.run = run
    BY <1>2, <1>3, <1>4 DEF Worlds, world, Init
  <1>6. ASSUME NEW r \in Runs PROVE RunFits(world, r)
    <2>1. delegation[r[1]].last = 0 /\ r[2] \in 1 .. MaxGeneration
      BY <1>3, RunsArePairs
    <2> QED BY <1>4, <1>5, <2>1 DEF RunFits, LeaseFits, Pristine, Live, Stopped
  <1>7. ASSUME NEW d \in Delegations PROVE DelegationFits(world, d)
    BY <1>3, <1>5 DEF DelegationFits
  <1>8. \A d \in Delegations : delegation[d].generation <= MaxGeneration
    BY <1>3, BoundAssumption
  <1> QED BY <1>2, <1>5, <1>6, <1>7, <1>8 DEF IInv, Sound, Room

\* Every step of items, sources, owners and permissions.
LEMMA ItemStep == ASSUME IInv, ItemNext PROVE IInv'
  <1>1. CASE AuthorityChanges
    <2>1. world' = world /\ authorised' \in BOOLEAN
      BY <1>1 DEF AuthorityChanges, world, IInv
    <2> QED BY <1>1, <2>1 DEF AuthorityChanges, IInv, Sound, RunFits, DelegationFits, Room, Pristine
  <1> QED BY <1>1, PauseStep, ResumeItemStep, MoveStep, ReverifyStep, CloseStep, ReopenStep,
             OwnershipStep, ReconcileStep, CustomerStep, SourceStep DEF ItemNext

\* Every report of a worker.
LEMMA ReportStep == ASSUME IInv, NEW r \in Runs, Report(r) PROVE IInv'
  BY RenewStep, LimitExceededStep, StartStep, WaitStep, CompleteStep, AcknowledgeStep, FailStep
     DEF Report

\* The strengthening is inductive.
LEMMA StepSound == ASSUME IInv, [Next]_vars PROVE IInv'
  <1>1. CASE ReconcileExpired
    BY <1>1, ExpiryStep
  <1>2. CASE ItemNext
    BY <1>2, ItemStep
  <1>3. ASSUME NEW d \in Delegations,
               \/ CreateDelegation(d) \/ Resume(d) \/ EnqueueWaiting(d) \/ ReviewDue(d)
               \/ \E status \in {"paused", "cancelled"} : Stop(d, status)
        PROVE  IInv'
    BY <1>3, CreateStep, ResumeStep, EnqueueStep, ReviewStep, StopStep
  <1>4. ASSUME NEW r \in Runs,
               \/ Claim(r) \/ LeaseAges(r) \/ TimeLimit(r) \/ Report(r)
               \/ CancelRun(r) \/ Decide(r)
        PROVE  IInv'
    BY <1>4, ClaimStep, LeaseStep, LimitStep, ReportStep, CancelStep, DecideStep
  <1>5. CASE UNCHANGED vars
    BY <1>5 DEF vars, world, IInv, Sound, RunFits, DelegationFits, Room, Pristine
  <1> QED BY <1>1, <1>2, <1>3, <1>4, <1>5 DEF Next

\* Delegations and runs are sound after every transaction, whatever happens in between.
THEOREM DelegationInvariant == Spec => []IInv
  BY InitSound, StepSound, PTL DEF Spec

\* The tables hold rows of their types; a run that is leased or running has a lease,
\* and any other has none unless it was cancelled at its own request.
THEOREM TypeSafe == Spec => []TypeOK
  <1>1. IInv => TypeOK
    BY SoundIsTyped
  <1> QED BY <1>1, DelegationInvariant, PTL

\* A run that may go on is that of the present generation of an active
\* delegation, and no delegation stays active on a run that ended.
THEOREM RunsMatchDelegations == Spec => []RunMatchesDelegation
  <1>1. ASSUME IInv PROVE RunMatchesDelegation
    <2>1. Sound(world) /\ world.run = run /\ world.delegation = delegation
      BY <1>1 DEF IInv, world
    <2>2. ASSUME NEW r \in Runs, run[r].status \in Live, ~run[r].cancel
          PROVE  LET d == delegation[r[1]] IN
                 d.status = "active" /\ d.last = r[2] /\ d.generation = r[2]
      <3>1. RunFits(world, r) /\ DelegationFits(world, r[1])
        BY <2>1, RunRow
      <3> QED BY <2>1, <2>2, <3>1 DEF RunFits, DelegationFits, Live, Stopped
    <2>3. ASSUME NEW d \in Delegations
          PROVE  LET last == run[<<d, delegation[d].last>>] IN
                 delegation[d].status = "active"
                     => last.status \in Live \/ (last.status = "cancelled" /\ last.cancel)
      <3>1. DelegationFits(world, d)
        BY <2>1 DEF Sound
      <3> QED BY <2>1, <3>1 DEF DelegationFits
    <2> QED BY <2>2, <2>3 DEF RunMatchesDelegation
  <1> QED BY <1>1, DelegationInvariant, PTL

\* A delegation goes on to a new run only when every earlier one has stopped.
THEOREM EarlierRunsHaveStopped == Spec => []EarlierRunsStopped
  <1>1. ASSUME IInv PROVE EarlierRunsStopped
    <2> SUFFICES ASSUME NEW r \in Runs, run[r].status # "absent", delegation[r[1]].last # r[2]
                 PROVE  run[r].status \in Stopped
      BY DEF EarlierRunsStopped
    <2>1. RunFits(world, r)
      BY <1>1, RunRow DEF IInv
    <2> QED BY <2>1 DEF RunFits, world
  <1> QED BY <1>1, DelegationInvariant, PTL

\* What waits for a person or for new input was handed over by the completed run
\* of the present generation, from the inputs the delegation names.
THEOREM HandoversAreCurrent == Spec => []HandoverIsCurrent
  <1>1. ASSUME IInv PROVE HandoverIsCurrent
    <2> SUFFICES ASSUME NEW d \in Delegations, delegation[d].status \in {"needs_decision", "waiting"}
                 PROVE  LET last == run[<<d, delegation[d].last>>]
                        IN /\ delegation[d].last = delegation[d].generation
                           /\ last.status = "completed" /\ ~last.cancel
                           /\ last.input = delegation[d].input
                           /\ (last.artifact # "none") = (delegation[d].status = "needs_decision")
      BY DEF HandoverIsCurrent
    <2>1. DelegationFits(world, d)
      BY <1>1 DEF IInv, Sound
    <2> QED BY <2>1 DEF DelegationFits, world
  <1> QED BY <1>1, DelegationInvariant, PTL
=============================================================================

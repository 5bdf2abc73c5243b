------------------------------ MODULE OrderPushProofs ------------------------------
(***************************************************************************)
(* What holds of an invoice that is pushed to OKKI, for any number of      *)
(* attempts, edits, linked tasks and runs: what an executor has seen and   *)
(* left behind, the row, its claims, what OKKI holds, and what the linked  *)
(* tasks say fit each other.                                               *)
(***************************************************************************)
EXTENDS OrderPush, FiniteSetTheorems, TLAPS

Sent == INSTANCE SendingProofs WITH Removals <- {}, Identities <- Orders

-----------------------------------------------------------------------------
(* The strengthening *)

\* What an answer says of its request is true of OKKI.
Means(c, result) ==
    /\ result = "accepted" => c \in created
    /\ result \in {"rejected", "auth_rejected"} => c \notin created \cup inflight

\* A request that was answered for good closed its claim, or the invoice is frozen.
Closed(c) == ~Sent!Open(c) \/ Sent!Frozen

\* An executor, its requests and its facts: a second POST follows a 401 only, what was
\* seen is true of OKKI, and what a review settled were facts known by then.
ExecutorFits(a) == LET p == push[a] IN
    /\ p.stage = "idle" => /\ p.via = None /\ p.target = None /\ p.settled = {}
                           /\ \A k \in Rounds : post[<<a, k>>] = "none" /\ p.facts[k] = "none"
    /\ p.stage # "idle" => post[<<a, 1>>] # "none"
    /\ p.stage \in {"sending", "observed", "recorded"} => p.round \in Rounds
    /\ p.stage = "sending" => post[OnWire(a)] \in {"ticket", "wire", "answered"}
    /\ p.stage # "sending" => post[<<a, 1>>] \in {"none", "over"} /\ post[<<a, 2>>] \in {"none", "over"}
    /\ post[<<a, 2>>] # "none" =>
          p.facts[1] = "auth_rejected" /\ post[<<a, 1>>] = "over" /\ Closed(<<a, 1>>)
    /\ post[<<a, 2>>] = "none" => p.round \in {0, 1} /\ p.facts[2] = "none"
    /\ p.round = 1 => post[<<a, 2>>] = "none"
    /\ p.stage \in {"sending", "observed"} => p.facts[p.round] = "none"
    /\ p.stage \in {"observed", "recorded"} =>
          /\ p.seen # "none" /\ Means(OnWire(a), p.seen)
          /\ prompt => OnWire(a) \notin inflight
          /\ p.seen # "unknown" => Closed(OnWire(a))
    /\ p.stage = "recorded" => p.facts[p.round] = p.seen
    /\ \A k \in Rounds : Means(<<a, k>>, p.facts[k])
    /\ \A f \in p.settled : \A k \in Rounds : f[k] \in {"none", p.facts[k]}

\* The row belongs to the attempt that made it uncertain, at the version it pushes, and
\* nothing has settled that attempt; an order is bound once and for all.
InvoiceFits ==
    /\ Uncertain <=> invoice.attempt # 0
    /\ invoice.leased => invoice.attempt # 0
    /\ invoice.attempt # 0 =>
          /\ Started(invoice.attempt) /\ push[invoice.attempt].settled = {}
          /\ push[invoice.attempt].version = invoice.version
          /\ push[invoice.attempt].stage # "over" => push[invoice.attempt].target = invoice.order
    /\ \A a \in Attempts : push[a].target # None => push[a].target = invoice.order

\* What was acknowledged and what is open is bound, or still to be settled.
NothingLost ==
    /\ \A a \in Attempts : \A k \in Rounds : push[a].facts[k] = "accepted" =>
          OrderOf(<<a, k>>) = invoice.order \/ a \in Unresolved
    /\ \A c \in Requests : Sent!Open(c) => c[1] \in Unresolved \/ Sent!Frozen

\* OKKI holds what was created and what the row names.
HoldsOrders ==
    /\ \A c \in created : content[OrderOf(c)] # None
    /\ invoice.order # None => content[invoice.order] # None
    /\ invoice.readback # None => content[invoice.readback] # None

\* A request that can still take effect.
Alive(c) == c \in inflight \/ (post[c] = "ticket" /\ claims[c].state = "sending")

\* With a prompt OKKI an order that is not bound is of the attempt that has the row; and
\* a request that is still to create one is of that attempt, when there is none yet.
OneOrder == prompt =>
    /\ \A o \in Orders : content[o] # None =>
          \/ o = invoice.order
          \/ /\ invoice.order = None /\ o \in created /\ o[1] = invoice.attempt
             /\ push[o[1]].target = None
    /\ \A c \in Requests : Alive(c) /\ (~outlived \/ push[c[1]].target = None) =>
          /\ c[1] = invoice.attempt /\ claims[c].leased /\ Sent!Open(c)
          /\ push[c[1]].target = invoice.order
          /\ invoice.order = None => \A o \in Orders : content[o] = None
          /\ ~outlived => invoice.leased /\ invoice.readback = None

\* When attempts are also over within their leases, OKKI holds the version of the row
\* once the row's attempt has taken effect, while it is read, and when it is synced.
Current == prompt /\ ~outlived =>
    /\ \A c \in created : c[1] = invoice.attempt => content[OrderOf(c)] = invoice.version
    /\ invoice.readback # None => content[invoice.readback] = invoice.version
    /\ invoice.sync = "synced" => invoice.order # None /\ content[invoice.order] = invoice.version

\* The executor is over and nothing came of its requests, and nothing will.
Barren(a) ==
    /\ push[a].stage = "over"
    /\ \A k \in Rounds : post[<<a, k>>] \in {"none", "over"} /\ <<a, k>> \notin created \cup inflight

\* The order step of a task is done.
Written(t) == \E c \in created : push[c[1]].version = task[t].after

\* An attempt serves one run of a task, of whose version it is.
ViaFits(a) == push[a].via # None =>
    /\ push[a].version = task[push[a].via[1]].after
    /\ run[push[a].via].stage \notin {"idle", "claimed", "sending"}
    /\ push[a].stage # "over" => run[push[a].via].stage = "pushing"
    /\ <<a, 1>> \notin run[push[a].via].before
    /\ \A b \in Attempts : push[b].via = push[a].via => b = a

\* What a run may conclude: an acknowledged push was written, and a failed one came to
\* nothing, as did those of the runs before it.
RunFits(r) == LET t == r[1] IN
    /\ run[r].stage = "returned" => run[r].result \in {"ok", "plain", "pending"}
    /\ run[r].stage = "returned" /\ run[r].result = "ok" => Written(t)
    /\ run[r].stage \in {"judged", "stepped"} /\ run[r].result = "done" => Written(t)
    /\ \A c \in run[r].before : post[c] # "none"
    /\ run[r].stage \in {"judged", "stepped"} => run[r].result \in {"done", "failed", "uncertain"}
    /\ task[t].status = "running" /\ task[t].token = r[2] =>
          /\ run[r].stage # "idle"
          /\ run[r].stage # "stepped" \/ run[r].result # "done" => \A a \in Attempts :
                push[a].via # None /\ push[a].via[1] = t /\ push[a].via # r => Barren(a) \/ run[r].stage = "over"
          /\ run[r].stage = "returned" /\ run[r].result = "plain" => \A a \in Attempts :
                push[a].via = r => Barren(a) \/ a = invoice.attempt
          /\ run[r].stage \in {"judged", "stepped"} /\ run[r].result = "failed" => \A a \in Attempts :
                push[a].via = r => Barren(a)

\* A task that may be run again, or closed, came to nothing unless its order was written.
TaskFits(t) ==
    /\ task[t].status = "none" =>
          /\ task[t].step # "done"
          /\ \A a \in Attempts : push[a].via = None \/ push[a].via[1] # t
          /\ \A r \in Runs : r[1] = t => run[r].stage = "idle"
    /\ task[t].status \in {"pending", "failed"} /\ task[t].step # "done" =>
          \A a \in Attempts : push[a].via # None /\ push[a].via[1] = t => Barren(a)
    /\ task[t].step = "done" => Written(t)
    /\ task[t].status \in {"pending", "running", "uncertain", "failed"} <=> invoice.task = t
    /\ invoice.task = t => invoice.version = task[t].after

TasksFit ==
    /\ \A a \in Attempts : ViaFits(a)
    /\ \A r \in Runs : RunFits(r)
    /\ \A t \in Tasks : TaskFits(t)

Types ==
    /\ invoice \in Invoices /\ push \in [Attempts -> Pushes]
    /\ task \in [Tasks -> TaskRows] /\ run \in [Runs -> RunRows]
    /\ content \in [Orders -> Versions \cup {None}] /\ outlived \in BOOLEAN

\* The inductive strengthening of all the invariants.
IInv ==
    /\ Types /\ Sent!SendInv
    /\ \A a \in Attempts : ExecutorFits(a)
    /\ InvoiceFits /\ NothingLost /\ HoldsOrders /\ OneOrder /\ Current
    /\ TasksFit

-----------------------------------------------------------------------------
(* The steps of sending are those that SendingProofs is about *)

\* What a sender does without its claim, what a crash does, and what OKKI does.
LEMMA SameSender ==
  ASSUME NEW c \in Requests
  PROVE  /\ Sending!Consume(c) => Sent!Consume(c)
         /\ \A r : Sending!Answer(c, r) => Sent!Answer(c, r)
         /\ Sending!RefuseTicket(c) => Sent!RefuseTicket(c)
         /\ Sending!Forget(c) => Sent!Forget(c)
         /\ Sending!Die(c) => Sent!Die(c)
         /\ Sending!Create(c) => Sent!Create(c)
  BY DEF Sending!Consume, Sent!Consume, Sending!Answer, Sent!Answer, Sending!RefuseTicket,
         Sent!RefuseTicket, Sending!Forget, Sent!Forget, Sending!Die, Sent!Die,
         Sending!Create, Sent!Create, Sending!Leave, Sent!Leave

\* Granting a send.
LEMMA SameGrant ==
  ASSUME NEW c \in Requests, Sending!Grant(c, 1)
  PROVE  Sent!Grant(c, 1)
  BY DEF Sending!Grant, Sent!Grant, Sending!Gates!Start, Sent!Gates!Start,
         Sending!Gates!RequireRoute, Sent!Gates!RequireRoute, Sending!Gates!PhaseAllows,
         Sent!Gates!PhaseAllows, Sending!Gates!WritersReady, Sent!Gates!WritersReady,
         Sending!Gates!OpenClaims, Sent!Gates!OpenClaims, Sending!Gates!Open, Sent!Gates!Open,
         Sending!Gates!ManuallyReleasable, Sent!Gates!ManuallyReleasable

\* Storing an observation.
LEMMA SameObserve ==
  ASSUME NEW c \in Requests, NEW outcome, NEW id
  PROVE  Sending!Gates!Observe(c, outcome, id) => Sent!Gates!Observe(c, outcome, id)
  BY DEF Sending!Gates!Observe, Sent!Gates!Observe, Sending!Gates!Cardinality,
         Sent!Gates!Cardinality, Sending!Cardinality, Sent!Cardinality,
         Sending!Gates!IsFiniteSet, Sent!Gates!IsFiniteSet, Sending!IsFiniteSet, Sent!IsFiniteSet

\* Finishing a request.
LEMMA SameFinish ==
  ASSUME NEW c \in Requests, NEW outcome, NEW id
  PROVE  Sending!Gates!FinishSend(c, outcome, id) => Sent!Gates!FinishSend(c, outcome, id)
  BY SameObserve DEF Sending!Gates!FinishSend, Sent!Gates!FinishSend,
         Sending!Gates!ResolveClaim, Sent!Gates!ResolveClaim,
         Sending!Gates!RepeatObservation, Sent!Gates!RepeatObservation,
         Sending!Gates!ReopenOnConflict, Sent!Gates!ReopenOnConflict,
         Sending!Gates!Contradicts, Sent!Gates!Contradicts, Sending!Gates!Resolved,
         Sent!Gates!Resolved, Sending!Gates!Open, Sent!Gates!Open,
         Sending!Gates!Terminal, Sent!Gates!Terminal,
         Sending!Gates!ManuallyReleasable, Sent!Gates!ManuallyReleasable

\* Storing the answer.
LEMMA SameRemember ==
  ASSUME NEW c \in Requests, NEW id, Sending!Remember(c, id)
  PROVE  Sent!Remember(c, id)
  BY SameFinish DEF Sending!Remember, Sent!Remember, Sending!Outcome, Sent!Outcome,
                    Sending!Leave, Sent!Leave

\* Closing the unresolved requests that a readback found the document of.
LEMMA SameSettle ==
  ASSUME NEW S, NEW id, Sending!SettleOpen(S, id)
  PROVE  Sent!SettleOpen(S, id)
  BY DEF Sending!SettleOpen, Sent!SettleOpen, Sending!Gates!Resolved, Sent!Gates!Resolved,
         Sending!Gates!Terminal, Sent!Gates!Terminal,
         Sending!Gates!ManuallyReleasable, Sent!Gates!ManuallyReleasable

\* Releasing a request as not sent.
LEMMA SameRelease ==
  ASSUME NEW c \in Requests, Sending!Gates!ConfirmNotSent(c)
  PROVE  Sent!Gates!ConfirmNotSent(c)
  BY SameObserve DEF Sending!Gates!ConfirmNotSent, Sent!Gates!ConfirmNotSent,
         Sending!Gates!Open, Sent!Gates!Open,
         Sending!Gates!PhaseAllows, Sent!Gates!PhaseAllows,
         Sending!Gates!WritersReady, Sent!Gates!WritersReady,
         Sending!Gates!ManuallyReleasable, Sent!Gates!ManuallyReleasable

\* The end of a claim's lease.
LEMMA SameExpiry ==
  ASSUME NEW c \in Requests, Sending!ClaimLeaseExpires(c)
  PROVE  Sent!ClaimLeaseExpires(c)
  BY DEF Sending!ClaimLeaseExpires, Sent!ClaimLeaseExpires, Sending!Gates!LeaseExpires,
         Sent!Gates!LeaseExpires, Sending!Gates!Open, Sent!Gates!Open,
         Sending!Gates!ManuallyReleasable, Sent!Gates!ManuallyReleasable

\* The types of the shared rows.
LEMMA SameTypes == Sending!SendingTypeOK <=> Sent!SendingTypeOK
  BY DEF Sending!SendingTypeOK, Sent!SendingTypeOK, Sending!Stages, Sent!Stages,
         Sending!Replies, Sent!Replies, Sending!Gates!Authorities, Sent!Gates!Authorities,
         Sending!Gates!Routes, Sent!Gates!Routes, Sending!Gates!ClaimRows, Sent!Gates!ClaimRows,
         Sending!Gates!ClaimStates, Sent!Gates!ClaimStates, Sending!Gates!Terminal,
         Sent!Gates!Terminal, Sending!Gates!ManuallyReleasable, Sent!Gates!ManuallyReleasable,
         Sending!Gates!Observations, Sent!Gates!Observations

\* The unresolved requests of the order; the gate is open as long as nothing is frozen.
LEMMA OpenMeans ==
  ASSUME Sent!SendInv
  PROVE  /\ OpenClaims = {c \in Requests : Sent!Open(c)}
         /\ GateOpen <=> ~Sent!Frozen
  <1>1. OpenClaims = {c \in Requests : Sent!Open(c)}
    BY DEF OpenClaims, Sending!Gates!OpenClaims, Sending!Gates!Open,
           Sending!Gates!ManuallyReleasable, Sent!Open, Sent!SendInv, Sent!RequestFits
  <1>2. authority[Invoice].state \in {"active", "frozen"}
    BY DEF Sent!SendInv, Sent!SendingTypeOK, Sent!Gates!Authorities
  <1>3. GateOpen <=> ~Sent!Frozen
    BY <1>2 DEF GateOpen, Sending!Gates!RequireRoute, Sending!Gates!PhaseAllows,
                Sending!Gates!WritersReady, Sent!SendInv, Sent!Frozen
  <1> QED BY <1>1, <1>3

\* Attempts, requests, orders and runs.
LEMMA Keys ==
  /\ \A a \in Attempts : /\ a # 0 /\ a \in 0 .. MaxAttempts
                         /\ \A k \in Rounds : <<a, k>> \in Requests /\ <<a, k>>[1] = a
                                              /\ <<a, k>>[2] = k
  /\ \A c \in Requests : c[1] \in Attempts /\ c[2] \in Rounds /\ c = <<c[1], c[2]>>
                          /\ c \in Orders
  /\ Rounds = {1, 2} /\ 0 \in 0 .. MaxAttempts /\ 0 \in 0 .. MaxTasks /\ 0 \in 0 .. MaxRuns
  /\ 0 \in Versions
  /\ None \notin Orders /\ None \notin Versions /\ None \notin Runs
  /\ \A t \in Tasks : t # 0 /\ t \in 0 .. MaxTasks
  /\ \A r \in Runs : r[1] \in Tasks /\ r[2] \in 0 .. MaxRuns /\ r[2] # 0 /\ r = <<r[1], r[2]>>
  BY BoundAssumption, NoneAssumption
  DEF Attempts, Rounds, Requests, Orders, Versions, Tasks, Runs

\* A review that names an order closes everything that is open.
LEMMA SettleEffect ==
  ASSUME Sent!SendInv, NEW id \in Orders, Sending!SettleOpen(OpenClaims, id), prompt' = prompt
  PROVE  /\ Sent!SendInv' /\ UNCHANGED <<authority, post, inflight, created>>
         /\ \A c \in Requests : /\ ~Sent!Open(c)'
                                /\ ~Sent!Open(c) => claims'[c] = claims[c]
                                /\ claims[c].state # "absent" <=> claims'[c].state # "absent"
  <1> DEFINE S == {c \in Requests : Sent!Open(c)}
  <1>2. Sent!SettleOpen(S, id)
    BY OpenMeans, SameSettle
  <1>3. UNCHANGED <<authority, post, inflight, created>>
    BY <1>2 DEF Sent!SettleOpen
  <1>4. \A c \in Requests : c \notin S => claims'[c] = claims[c]
    BY <1>2 DEF Sent!SettleOpen
  <1>5. S \subseteq {c \in Requests : Sent!Open(c)}
    OBVIOUS
  <1>6. \A c \in Requests : c \in S <=> Sent!Open(c)
    OBVIOUS
  <1> HIDE DEF S
  <1>7. /\ Sent!SendInv'
        /\ \A c \in Requests : claims'[c].state = IF c \in S THEN "succeeded" ELSE claims[c].state
    BY <1>2, <1>5, Keys, Sent!SettleKeeps
  <1> QED BY <1>3, <1>4, <1>6, <1>7 DEF Sent!Open

\* An attested absence closes everything that is open as not sent; no lease is left.
LEMMA ReleaseEffect ==
  ASSUME Sent!SendInv, ~Sent!Frozen, Sending!ReleaseUnsent(OpenClaims), prompt' = prompt
  PROVE  /\ Sent!SendInv' /\ UNCHANGED <<authority, post, inflight, created>>
         /\ \A c \in Requests : /\ ~Sent!Open(c)'
                                /\ ~Sent!Open(c) => claims'[c] = claims[c]
                                /\ Sent!Open(c) => ~claims[c].leased
                                /\ claims[c].state # "absent" <=> claims'[c].state # "absent"
  <1>1. OpenClaims = {c \in Requests : Sent!Open(c)}
    BY OpenMeans
  <1>2. Sent!ReleaseUnsent(OpenClaims)
    BY <1>1, SameRelease DEF Sending!ReleaseUnsent, Sending!sendVars, Sent!ReleaseUnsent, Sent!sendVars
  <1>3. /\ Sent!SendInv' /\ UNCHANGED <<authority, post, reply, inflight, created>>
        /\ \A c \in Requests : /\ c \in OpenClaims => claims'[c].state = "not_sent"
                               /\ c \notin OpenClaims => claims'[c] = claims[c]
    BY <1>1, <1>2, Sent!ReleaseUnsentKeeps
  <1>4. \A c \in Requests : Sent!Open(c) => ~claims[c].leased
    <2>1. ASSUME NEW c \in Requests, Sent!Open(c)
          PROVE  ~claims[c].leased
      <3>1. PICK d \in OpenClaims : Sent!Gates!ConfirmNotSent(d)
        BY <1>1, <1>2, <2>1 DEF Sent!ReleaseUnsent
      <3>2. d \in Requests /\ Sent!Open(d) /\ d = c
        BY <1>1, <2>1, <3>1 DEF Sent!SendInv
      <3> QED BY <3>1, <3>2, Sent!ReleaseEffect
    <2> QED BY <2>1
  <1> QED BY <1>1, <1>3, <1>4 DEF Sent!Open

\* The first state.
LEMMA SameInit == Sending!SendingInit => Sent!SendingInit
  BY DEF Sending!SendingInit, Sent!SendingInit, Sending!Gates!NoClaim, Sent!Gates!NoClaim

-----------------------------------------------------------------------------
(* What stays as it is *)

\* An executor that does nothing, while its requests do not come to life again.
LEMMA OtherExecutor ==
  ASSUME NEW a \in Attempts, ExecutorFits(a), push'[a] = push[a], prompt' = prompt,
         Sent!Frozen => Sent!Frozen',
         \A k \in Rounds :
            /\ post'[<<a, k>>] = post[<<a, k>>]
            /\ <<a, k>> \in inflight' => <<a, k>> \in inflight
            /\ <<a, k>> \in created => <<a, k>> \in created'
            /\ <<a, k>> \in created' => <<a, k>> \in created \cup inflight
            /\ Sent!Open(<<a, k>>)' => Sent!Open(<<a, k>>) \/ Sent!Frozen'
  PROVE  ExecutorFits(a)'
  <1>1. Rounds = {1, 2} /\ OnWire(a)' = OnWire(a) /\ OnWire(a) = <<a, push[a].round>>
    BY Keys DEF OnWire
  <1>2. \A k \in Rounds : Closed(<<a, k>>) => Closed(<<a, k>>)'
    BY DEF Closed
  <1>3. \A k \in Rounds : \A result : Means(<<a, k>>, result) => Means(<<a, k>>, result)'
    BY DEF Means
  <1> DEFINE p == push[a]
  <1>4. p.stage \in {"sending", "observed", "recorded"} => p.round \in Rounds
    BY DEF ExecutorFits
  <1> QED BY <1>1, <1>2, <1>3, <1>4 DEF ExecutorFits

\* Attempts that somebody may still settle, and what their facts bind.
LEMMA UnresolvedSays ==
  \A a : a \in Unresolved <=> a \in Attempts /\ push[a].stage # "idle"
                              /\ push[a].facts \notin push[a].settled
  BY DEF Unresolved, Started

\* What the invariant says of types, and of the attempt that has the row.
LEMMA RowSays ==
  ASSUME IInv
  PROVE  /\ invoice \in Invoices /\ push \in [Attempts -> Pushes] /\ task \in [Tasks -> TaskRows]
         /\ run \in [Runs -> RunRows] /\ content \in [Orders -> Versions \cup {None}]
         /\ invoice.order # None => invoice.order \in Orders
         /\ \A a \in Attempts : push[a].target # None => push[a].target \in Orders
         /\ invoice.attempt # 0 => invoice.attempt \in Attempts /\ invoice.attempt \in Unresolved
         /\ Uncertain <=> invoice.attempt # 0
         /\ created \subseteq Requests /\ inflight \subseteq Requests
  <1>1. /\ invoice \in Invoices /\ push \in [Attempts -> Pushes]
        /\ invoice.attempt \in 0 .. MaxAttempts
    BY DEF IInv, Types, Invoices
  <1>2. invoice.attempt # 0 => invoice.attempt \in Attempts
    BY <1>1, BoundAssumption DEF Attempts
  <1>3. invoice.attempt # 0 => invoice.attempt \in Unresolved
    BY <1>2, UnresolvedSays DEF IInv, InvoiceFits, Started
  <1> QED BY <1>1, <1>2, <1>3 DEF IInv, Types, Invoices, Pushes, InvoiceFits, Sent!SendInv, Sent!SendingTypeOK

\* The order a request names, and every order it names, is one.
LEMMA Named ==
  ASSUME IInv, NEW c \in Requests
  PROVE  /\ OrderOf(c) \in Orders
         /\ push[c[1]].target = None => OrderOf(c) = c
         /\ push[c[1]].target # None => OrderOf(c) = push[c[1]].target /\ OrderOf(c) = invoice.order
  BY RowSays, Keys DEF OrderOf, IInv, InvoiceFits

\* With a prompt OKKI, who can still act there.
LEMMA AliveSays ==
  ASSUME IInv, prompt, NEW c \in Requests, Alive(c)
  PROVE  /\ ~outlived \/ push[c[1]].target = None =>
               /\ c[1] = invoice.attempt /\ claims[c].leased /\ Sent!Open(c)
               /\ push[c[1]].target = invoice.order
               /\ invoice.order = None => \A o \in Orders : content[o] = None
               /\ ~outlived => invoice.leased /\ invoice.readback = None
         /\ push[c[1]].stage # "idle" /\ c \notin created
         /\ \A k \in Rounds : Alive(<<c[1], k>>) => <<c[1], k>> = c
  <1>1. ~outlived \/ push[c[1]].target = None =>
               /\ c[1] = invoice.attempt /\ claims[c].leased /\ Sent!Open(c)
               /\ push[c[1]].target = invoice.order
               /\ invoice.order = None => \A o \in Orders : content[o] = None
               /\ ~outlived => invoice.leased /\ invoice.readback = None
    BY DEF IInv, OneOrder
  <1>2. c[1] \in Attempts /\ c[2] \in {1, 2} /\ c = <<c[1], c[2]>> /\ Rounds = {1, 2}
    BY Keys
  <1>3. /\ \A k \in Rounds : <<c[1], k>> \in Requests
        /\ \A d \in Requests : Sent!RequestFits(d)
        /\ ExecutorFits(c[1])
    BY <1>2, Keys DEF IInv, Sent!SendInv
  <1>4. \A k \in Rounds : Alive(<<c[1], k>>) => post[<<c[1], k>>] # "none" /\ <<c[1], k>> \notin created
    BY <1>3 DEF Alive, Sent!RequestFits
  <1>5. Alive(<<c[1], 1>>) => post[<<c[1], 2>>] = "none"
    BY <1>2, <1>3 DEF ExecutorFits, Means, Alive
  <1>6. push[c[1]].stage # "idle"
    BY <1>2, <1>3, <1>4 DEF ExecutorFits
  <1> QED BY <1>1, <1>2, <1>4, <1>5, <1>6

\* An attempt that does not have the row for now has nothing at OKKI any more.
LEMMA NobodyActs ==
  ASSUME IInv, prompt, NEW c \in Requests, Alive(c),
         ~outlived \/ push[c[1]].target = None
  PROVE  /\ invoice.attempt # 0
         /\ ~outlived => invoice.leased /\ invoice.readback = None
         /\ push[c[1]].target = None =>
               /\ invoice.order = None /\ invoice.readback = None
               /\ \A o \in Orders : content[o] = None
  <1>1. c[1] = invoice.attempt /\ c[1] \in Attempts /\ c[1] # 0
    BY AliveSays, Keys
  <1>2. invoice.readback # None => invoice.readback \in Orders
    BY RowSays DEF Invoices
  <1> QED BY <1>1, <1>2, AliveSays DEF IInv, HoldsOrders

\* Writing the row takes what was read of it away.
LEMMA WriteSays ==
  ASSUME NEW new \in Invoices, Write(new)
  PROVE  /\ invoice' \in Invoices /\ invoice'.readback = None
         /\ invoice'.order = new.order /\ invoice'.sync = new.sync
         /\ invoice'.version = new.version /\ invoice'.attempt = new.attempt
         /\ invoice'.task = new.task /\ (invoice'.leased <=> new.leased /\ new.attempt # 0)
  BY DEF Write, Invoices

\* A write that changes nothing else.
LEMMA TouchSays ==
  ASSUME IInv, Touch
  PROVE  /\ invoice' \in Invoices /\ invoice'.readback = None
         /\ invoice'.order = invoice.order /\ invoice'.sync = invoice.sync
         /\ invoice'.version = invoice.version /\ invoice'.attempt = invoice.attempt
         /\ invoice'.task = invoice.task /\ invoice'.leased = invoice.leased
  <1>1. invoice \in Invoices /\ (invoice.leased => invoice.attempt # 0)
    BY RowSays DEF IInv, InvoiceFits
  <1>2. Write(invoice)
    BY DEF Touch
  <1>3. /\ invoice' \in Invoices /\ invoice'.readback = None
        /\ invoice'.order = invoice.order /\ invoice'.sync = invoice.sync
        /\ invoice'.version = invoice.version /\ invoice'.attempt = invoice.attempt
        /\ invoice'.task = invoice.task
        /\ (invoice'.leased <=> invoice.leased /\ invoice.attempt # 0)
    BY <1>1, <1>2, WriteSays
  <1>4. invoice'.leased \in BOOLEAN /\ invoice.leased \in BOOLEAN
    BY <1>1, <1>3 DEF Invoices
  <1> QED BY <1>1, <1>3, <1>4

\* A step of the row that leaves its order and its attempt alone, and no executor, claim
\* or POST.
LEMMA RowMoves ==
  ASSUME IInv, Types', TasksFit',
         UNCHANGED <<push, content, authority, claims, evidence, post, reply, inflight, created>>,
         UNCHANGED prompt, outlived => outlived',
         invoice'.order = invoice.order, invoice'.attempt = invoice.attempt,
         Uncertain' <=> Uncertain, invoice'.leased => invoice.leased,
         invoice.attempt # 0 => invoice'.version = invoice.version,
         invoice'.sync = "synced" => invoice.sync = "synced" /\ invoice'.version = invoice.version,
         \/ invoice'.readback = None
         \/ invoice'.readback = invoice.readback /\ invoice'.version = invoice.version
         \/ /\ invoice'.readback \in Orders /\ content[invoice'.readback] = invoice'.version
            /\ prompt /\ ~outlived' => \A c \in Requests : ~Alive(c),
         prompt /\ ~outlived' => invoice'.leased = invoice.leased \/ \A c \in Requests : ~Alive(c)
  PROVE  IInv'
  <1>1. UNCHANGED <<authority, claims, evidence, post, reply, inflight, created, prompt>>
    OBVIOUS
  <1>2. Sent!SendInv'
    BY <1>1, Sent!SendingUntouched DEF IInv
  <1>3. \A c \in Requests : (Sent!Open(c)' <=> Sent!Open(c)) /\ (Alive(c)' <=> Alive(c))
    BY <1>1 DEF Sent!Open, Alive
  <1>4. Sent!Frozen' <=> Sent!Frozen
    BY <1>1 DEF Sent!Frozen
  <1>5. \A a \in Attempts : ExecutorFits(a)'
    BY <1>1, <1>3, <1>4, OtherExecutor, Keys DEF IInv
  <1>6. \A c : OrderOf(c)' = OrderOf(c)
    BY DEF OrderOf
  <1>7. Unresolved' = Unresolved
    BY DEF Unresolved, Started
  <1>8. InvoiceFits'
    BY DEF IInv, InvoiceFits, Started
  <1>9. NothingLost'
    BY <1>3, <1>4, <1>6, <1>7 DEF IInv, NothingLost
  <1>10. HoldsOrders'
    <2>1. invoice'.version \in Versions /\ None \notin Versions
      BY Keys DEF Types, Invoices
    <2> QED BY <1>1, <1>6, <2>1 DEF IInv, HoldsOrders
  <1>11. OneOrder'
    <2>1. prompt => \A o \in Orders : content[o] # None =>
              \/ o = invoice.order
              \/ /\ invoice.order = None /\ o \in created /\ o[1] = invoice.attempt
                 /\ push[o[1]].target = None
      BY DEF IInv, OneOrder
    <2>2. ASSUME prompt, NEW c \in Requests, Alive(c), ~outlived' \/ push[c[1]].target = None
          PROVE  /\ c[1] = invoice.attempt /\ claims[c].leased /\ Sent!Open(c)
                 /\ push[c[1]].target = invoice.order
                 /\ invoice.order = None => \A o \in Orders : content[o] = None
                 /\ ~outlived' => invoice'.leased /\ invoice'.readback = None
      BY <2>2, AliveSays
    <2> QED BY <1>1, <1>3, <2>1, <2>2 DEF OneOrder
  <1>12. Current'
    <2>1. SUFFICES ASSUME prompt, ~outlived, ~outlived'
                   PROVE  /\ \A c \in created : c[1] = invoice.attempt =>
                                content[OrderOf(c)] = invoice'.version
                          /\ invoice'.readback # None => content[invoice'.readback] = invoice'.version
                          /\ invoice'.sync = "synced" =>
                                invoice.order # None /\ content[invoice.order] = invoice'.version
      BY <1>1, <1>6 DEF Current
    <2>2. /\ \A c \in created : c[1] = invoice.attempt => content[OrderOf(c)] = invoice.version
          /\ invoice.readback # None => content[invoice.readback] = invoice.version
          /\ invoice.sync = "synced" => invoice.order # None /\ content[invoice.order] = invoice.version
      BY <2>1 DEF IInv, Current
    <2>3. \A c \in created : c[1] # 0
      BY RowSays, Keys
    <2> QED BY <2>2, <2>3
  <1> QED BY <1>2, <1>5, <1>8, <1>9, <1>10, <1>11, <1>12 DEF IInv

\* A step of one executor or one POST that leaves the row's order and attempt alone, settles
\* nothing and creates nothing.
LEMMA AttemptMoves ==
  ASSUME IInv, UNCHANGED <<content, created, prompt, outlived>>, Types', TasksFit', Sent!SendInv',
         \A b \in Attempts : ExecutorFits(b)',
         invoice'.order = invoice.order, invoice'.attempt = invoice.attempt,
         invoice'.sync = invoice.sync, invoice'.leased = invoice.leased,
         invoice'.version = invoice.version, invoice'.readback \in {None, invoice.readback},
         NEW a \in Attempts, \A b \in Attempts \ {a} : push'[b] = push[b],
         push'[a].target = push[a].target, push'[a].version = push[a].version,
         push'[a].settled = push[a].settled,
         push'[a].stage = "idle" <=> push[a].stage = "idle",
         push[a].stage = "over" => push'[a].stage = "over",
         push'[a].facts = push[a].facts \/ a \in Unresolved',
         Sent!Frozen => Sent!Frozen',
         \A c \in Requests : Sent!Open(c)' => Sent!Open(c) \/ Sent!Frozen',
         prompt => \A c \in Requests : Alive(c)' => Alive(c) /\ claims'[c] = claims[c]
  PROVE  IInv'
  <1>1. \A b \in Attempts : /\ push'[b].target = push[b].target /\ push'[b].version = push[b].version
                            /\ push'[b].settled = push[b].settled
                            /\ push'[b].stage = "idle" <=> push[b].stage = "idle"
                            /\ push[b].stage = "over" => push'[b].stage = "over"
                            /\ push'[b].facts = push[b].facts \/ b \in Unresolved'
    OBVIOUS
  <1>2. \A b \in Unresolved : b \in Unresolved'
    BY <1>1 DEF Unresolved, Started
  <1>3. \A c \in Requests : OrderOf(c)' = OrderOf(c)
    BY <1>1, Keys DEF OrderOf
  <1>4. InvoiceFits'
    BY <1>1, RowSays DEF IInv, InvoiceFits, Uncertain, Started
  <1>5. NothingLost'
    <2>1. ASSUME NEW b \in Attempts, NEW k \in Rounds, push'[b].facts[k] = "accepted"
          PROVE  OrderOf(<<b, k>>)' = invoice'.order \/ b \in Unresolved'
      <3>1. CASE push'[b].facts = push[b].facts
        <4>1. <<b, k>> \in Requests /\ push[b].facts[k] = "accepted"
          BY <2>1, <3>1, Keys
        <4>2. OrderOf(<<b, k>>)' = OrderOf(<<b, k>>)
          BY <1>3, <4>1
        <4>3. OrderOf(<<b, k>>) = invoice.order \/ b \in Unresolved
          BY <4>1 DEF IInv, NothingLost
        <4> QED BY <1>2, <4>2, <4>3
      <3> QED BY <1>1, <3>1
    <2>2. \A c \in Requests : Sent!Open(c)' => c[1] \in Unresolved' \/ Sent!Frozen'
      BY <1>2 DEF IInv, NothingLost
    <2> QED BY <2>1, <2>2 DEF NothingLost
  <1>6. HoldsOrders'
    BY <1>3, RowSays DEF IInv, HoldsOrders
  <1>7. OneOrder'
    <2>1. prompt => \A o \in Orders : content[o] # None =>
              \/ o = invoice.order
              \/ /\ invoice.order = None /\ o \in created /\ o[1] = invoice.attempt
                 /\ push'[o[1]].target = None
      BY <1>1, RowSays, Keys DEF IInv, OneOrder
    <2>2. ASSUME prompt, NEW c \in Requests, Alive(c)', ~outlived \/ push'[c[1]].target = None
          PROVE  /\ c[1] = invoice.attempt /\ claims'[c].leased /\ Sent!Open(c)'
                 /\ push'[c[1]].target = invoice.order
                 /\ invoice.order = None => \A o \in Orders : content[o] = None
                 /\ ~outlived => invoice.leased /\ invoice'.readback = None
      <3>1. Alive(c) /\ claims'[c] = claims[c] /\ push'[c[1]].target = push[c[1]].target
        BY <1>1, <2>2, Keys
      <3>2. Sent!Open(c)' <=> Sent!Open(c)
        BY <3>1 DEF Sent!Open
      <3> QED BY <2>2, <3>1, <3>2, AliveSays
    <2> QED BY <2>1, <2>2 DEF OneOrder
  <1>8. Current'
    BY <1>1, <1>3, RowSays DEF IInv, Current
  <1> QED BY <1>4, <1>5, <1>6, <1>7, <1>8 DEF IInv

-----------------------------------------------------------------------------
(* What the tasks and their runs say, while attempts go on *)

\* What was created was sent by an executor that has started.
LEMMA HasStarted ==
  ASSUME IInv, NEW c \in created
  PROVE  c \in Requests /\ c[1] \in Attempts /\ push[c[1]].stage # "idle" /\ post[c] # "none"
  <1>1. c \in Requests /\ c[1] \in Attempts /\ c[2] \in Rounds /\ c = <<c[1], c[2]>>
    BY RowSays, Keys
  <1>2. Sent!RequestFits(c) /\ ExecutorFits(c[1])
    BY <1>1 DEF IInv, Sent!SendInv
  <1> QED BY <1>1, <1>2 DEF Sent!RequestFits, ExecutorFits

\* What a task says of its runs and attempts stays true while neither it nor its runs
\* change, nothing comes to life again and the attempt of its run keeps the row.
LEMMA TasksKept ==
  ASSUME IInv, UNCHANGED <<task, run>>, invoice'.task = invoice.task,
         invoice.task # 0 => invoice'.version = invoice.version,
         \A b \in Attempts : /\ push'[b].via = push[b].via
                             /\ push'[b].version = push[b].version \/ push[b].stage = "idle"
                             /\ push[b].stage = "over" => push'[b].stage = "over"
                             /\ Barren(b) => Barren(b)',
         created \subseteq created',
         \A c \in Requests : post[c] # "none" => post'[c] # "none",
         \/ invoice'.attempt = invoice.attempt
         \/ invoice.task = 0 \/ task[invoice.task].status # "running"
  PROVE  TasksFit'
  <1>1. \A t \in Tasks : t # 0 /\ TaskFits(t)
    BY Keys DEF IInv, TasksFit
  <1>2. \A c \in created : push'[c[1]].version = push[c[1]].version
    BY HasStarted
  <1>3. \A t \in Tasks : Written(t) => Written(t)'
    BY <1>2 DEF Written
  <1>4. \A a \in Attempts : ViaFits(a)'
    <2>1. ASSUME NEW a \in Attempts, push[a].via # None
          PROVE  ViaFits(a)'
      <3>1. ViaFits(a) /\ push[a].stage # "idle"
        BY <2>1 DEF IInv, TasksFit, ExecutorFits
      <3> QED BY <2>1, <3>1 DEF ViaFits
    <2> QED BY <2>1 DEF ViaFits
  <1>5. \A t \in Tasks : TaskFits(t)'
    BY <1>1, <1>3 DEF TaskFits
  <1>6. ASSUME NEW r \in Runs
        PROVE  RunFits(r)'
    <2>1. RunFits(r) /\ r[1] \in Tasks
      BY Keys DEF IInv, TasksFit
    <2>2. task[r[1]].status = "running" => invoice'.attempt = invoice.attempt
      BY <1>1, <2>1 DEF TaskFits
    <2>3. \A c \in run[r].before : post'[c] # "none"
      BY <2>1, RowSays DEF RunFits, RunRows
    <2> QED BY <1>3, <2>1, <2>2, <2>3 DEF RunFits
  <1> QED BY <1>4, <1>5, <1>6 DEF TasksFit

\* What an executor that ends leaves behind.
LEMMA OverSays ==
  ASSUME IInv, NEW a \in Attempts, NEW settled, Over(a, settled)
  PROVE  /\ \A b \in Attempts \ {a} : push'[b] = push[b]
         /\ push'[a].stage = "over" /\ push'[a].round = 0 /\ push'[a].seen = "none"
         /\ push'[a].via = push[a].via /\ push'[a].version = push[a].version
         /\ push'[a].target = push[a].target /\ push'[a].facts = push[a].facts
         /\ push'[a].settled = push[a].settled \cup settled
         /\ settled \subseteq Facts => push' \in [Attempts -> Pushes]
  <1>1. push \in [Attempts -> Pushes] /\ push[a] \in Pushes
    BY RowSays
  <1>2. push'[a] = [push[a] EXCEPT !.stage = "over", !.round = 0, !.seen = "none",
                                   !.settled = push[a].settled \cup settled]
    BY <1>1 DEF Over, Pushes
  <1>3. \A b \in Attempts \ {a} : push'[b] = push[b]
    BY <1>1 DEF Over
  <1>4. settled \subseteq Facts => push'[a] \in Pushes
    <2>1. /\ push[a].settled \subseteq Facts /\ "over" \in {"idle", "sending", "observed", "recorded", "over"}
          /\ 0 \in 0 .. 2 /\ "none" \in Results
      BY <1>1 DEF Pushes, Results
    <2>2. settled \subseteq Facts => push[a].settled \cup settled \in SUBSET Facts
      BY <2>1
    <2> DEFINE p == [push[a] EXCEPT !.stage = "over", !.round = 0, !.seen = "none",
                                    !.settled = push[a].settled \cup settled]
    <2>3. push[a].settled \cup settled \in SUBSET Facts => p \in Pushes
      BY <1>1, <2>1 DEF Pushes
    <2> QED BY <1>2, <2>2, <2>3
  <1>5. settled \subseteq Facts => push' \in [Attempts -> Pushes]
    BY <1>1, <1>4 DEF Over
  <1> QED BY <1>1, <1>2, <1>3, <1>5 DEF Pushes

\* A run that changes.
LEMMA RunToSays ==
  ASSUME IInv, NEW r \in Runs, NEW stage, NEW result, RunTo(r, stage, result)
  PROVE  /\ \A q \in Runs \ {r} : run'[q] = run[q]
         /\ run'[r].stage = stage /\ run'[r].result = result
         /\ run'[r].before = IF stage = "over" THEN {} ELSE run[r].before
         /\ stage \in {"claimed", "sending", "pushing", "returned", "judged",
                        "stepped", "error", "over"}
            /\ result \in {"none", "ok", "plain", "pending", "failed", "uncertain", "done"}
               => run' \in [Runs -> RunRows]
  <1>1. run \in [Runs -> RunRows] /\ run[r] \in RunRows
    BY RowSays
  <1>2. run'[r] = [run[r] EXCEPT !.stage = stage, !.result = result,
                      !.before = IF stage = "over" THEN {} ELSE run[r].before]
    BY <1>1 DEF RunTo, RunRows
  <1>3. \A q \in Runs \ {r} : run'[q] = run[q]
    BY <1>1 DEF RunTo
  <1>4. stage \in {"claimed", "sending", "pushing", "returned", "judged",
                        "stepped", "error", "over"}
            /\ result \in {"none", "ok", "plain", "pending", "failed", "uncertain", "done"}
               => run'[r] \in RunRows
    BY <1>1, <1>2 DEF RunRows
  <1>5. run'[r] \in RunRows => run' \in [Runs -> RunRows]
    BY <1>1 DEF RunTo
  <1> QED BY <1>1, <1>2, <1>3, <1>4, <1>5 DEF RunRows

\* An executor returns or raises into the run that called it, or takes it along.
LEMMA TasksReturn ==
  ASSUME IInv, NEW a \in Attempts, push[a].stage \in {"sending", "observed", "recorded"},
         NEW settled, Over(a, settled), NEW stage \in {"returned", "error", "over"}, NEW result,
         result \in {"none", "ok", "plain", "pending"}, Back(a, stage, result),
         stage = "returned" => result # "none",
         UNCHANGED <<task, created>>, invoice'.task = invoice.task,
         invoice'.version = invoice.version,
         invoice'.attempt = invoice.attempt \/ invoice.attempt = a,
         \A b \in Attempts : Barren(b) => Barren(b)',
         \A c \in Requests : post[c] # "none" => post'[c] # "none",
         stage = "returned" /\ result = "ok" => \E k \in Rounds : <<a, k>> \in created,
         stage = "returned" /\ result = "plain" => Barren(a)' \/ invoice'.attempt = a
  PROVE  TasksFit' /\ run' \in [Runs -> RunRows]
  <1>1. /\ \A b \in Attempts : /\ push'[b].via = push[b].via /\ push'[b].version = push[b].version
                               /\ push[b].stage = "over" => push'[b].stage = "over"
        /\ push'[a].stage = "over" /\ \A b \in Attempts \ {a} : push'[b] = push[b]
    BY OverSays
  <1>2. push[a].via \in Runs \cup {None} /\ None \notin Runs /\ run \in [Runs -> RunRows]
    BY RowSays, Keys DEF Pushes
  <1>3. ViaFits(a) /\ \A t \in Tasks : TaskFits(t)
    BY DEF IInv, TasksFit
  <1>4. /\ \A q \in Runs : q # push[a].via => run'[q] = run[q]
        /\ run' \in [Runs -> RunRows]
        /\ push[a].via # None =>
              /\ run'[push[a].via].stage = stage /\ run'[push[a].via].result = result
              /\ run'[push[a].via].before \subseteq run[push[a].via].before
    <2>1. CASE push[a].via = None
      BY <1>2, <2>1 DEF Back
    <2>2. CASE push[a].via # None
      <3>1. RunTo(push[a].via, stage, result)
        BY <2>2 DEF Back
      <3> QED BY <1>2, <2>2, <3>1, RunToSays
    <2> QED BY <2>1, <2>2
  <1>5. \A c \in created : push'[c[1]].version = push[c[1]].version
    BY <1>1, RowSays, Keys
  <1>6. \A t \in Tasks : Written(t) => Written(t)'
    BY <1>5 DEF Written
  <1>7. ASSUME NEW b \in Attempts
        PROVE  ViaFits(b)'
    <2>1. ViaFits(b)
      BY DEF IInv, TasksFit
    <2>2. CASE push[b].via = None
      BY <1>1, <2>2 DEF ViaFits
    <2>3. CASE push[b].via # None /\ push[b].via = push[a].via
      <3>1. b = a
        BY <1>3, <2>3 DEF ViaFits
      <3> QED BY <1>1, <1>4, <2>1, <2>3, <3>1 DEF ViaFits
    <2>4. CASE push[b].via # None /\ push[b].via # push[a].via
      <3>1. push[b].via \in Runs
        BY <2>4, RowSays DEF Pushes
      <3>2. run'[push[b].via] = run[push[b].via]
        BY <1>4, <2>4, <3>1
      <3> QED BY <1>1, <2>1, <2>4, <3>2 DEF ViaFits
    <2> QED BY <2>2, <2>3, <2>4
  <1>8. \A t \in Tasks : TaskFits(t)'
    <2>1. push[a].via # None => run[push[a].via].stage = "pushing"
      BY <1>3 DEF ViaFits
    <2>2. \A r \in Runs : run[r].stage = "idle" => run'[r].stage = "idle"
      BY <1>2, <1>4, <2>1
    <2> QED BY <1>1, <1>3, <1>6, <2>2 DEF TaskFits
  <1>9. ASSUME NEW r \in Runs
        PROVE  RunFits(r)'
    <2>1. RunFits(r) /\ r[1] \in Tasks /\ r # None
      BY <1>2, Keys DEF IInv, TasksFit
    <2>0. \A c \in run[r].before : post'[c] # "none"
      BY <2>1, RowSays DEF RunFits, RunRows
    <2>2. CASE r = push[a].via
      <3>1. run[r].stage = "pushing"
        BY <1>2, <1>3, <2>2 DEF ViaFits
      <3>2. \A b \in Attempts : push[b].via = r => b = a
        BY <1>3, <2>1, <2>2 DEF ViaFits
      <3>3. run'[r].stage = stage /\ run'[r].result = result
            /\ run'[r].before \subseteq run[r].before
        BY <1>4, <2>1, <2>2
      <3>4. stage = "returned" /\ result = "ok" => Written(r[1])'
        <4>1. SUFFICES ASSUME NEW k \in Rounds, <<a, k>> \in created
                       PROVE  Written(r[1])'
          OBVIOUS
        <4>2. push[a].version = task[r[1]].after /\ <<a, k>>[1] = a
          BY <1>3, <2>1, <2>2 DEF ViaFits
        <4> QED BY <1>1, <4>1, <4>2 DEF Written
      <3> QED BY <1>1, <2>0, <2>1, <3>1, <3>2, <3>3, <3>4 DEF RunFits
    <2>3. CASE r # push[a].via
      <3>1. run'[r] = run[r]
        BY <1>4, <2>3
      <3>2. \A b \in Attempts : push[b].via = r /\ b = invoice.attempt => invoice'.attempt = b
        BY <2>3
      <3> QED BY <1>1, <1>6, <2>0, <2>1, <3>1, <3>2 DEF RunFits
    <2> QED BY <2>2, <2>3
  <1> QED BY <1>4, <1>7, <1>8, <1>9 DEF TasksFit

-----------------------------------------------------------------------------
(* One executor at work *)

\* A step of one request concerns the executor it belongs to.
LEMMA OthersStay ==
  ASSUME IInv, NEW c \in Requests, prompt' = prompt, Sent!Frozen => Sent!Frozen',
         \A d \in Requests \ {c} : /\ claims'[d] = claims[d] /\ post'[d] = post[d]
                                   /\ d \in inflight' <=> d \in inflight
                                   /\ d \in created' <=> d \in created,
         NEW b \in Attempts \ {c[1]}, push'[b] = push[b]
  PROVE  ExecutorFits(b)' /\ (Barren(b) => Barren(b)')
  <1>1. ASSUME NEW k \in Rounds
        PROVE  /\ claims'[<<b, k>>] = claims[<<b, k>>] /\ post'[<<b, k>>] = post[<<b, k>>]
               /\ <<b, k>> \in inflight' <=> <<b, k>> \in inflight
               /\ <<b, k>> \in created' <=> <<b, k>> \in created
    <2>1. <<b, k>> \in Requests /\ <<b, k>>[1] = b
      BY Keys
    <2>2. <<b, k>> # c
      BY <2>1
    <2> QED BY <2>1, <2>2
  <1>2. \A k \in Rounds : Sent!Open(<<b, k>>)' <=> Sent!Open(<<b, k>>)
    BY <1>1 DEF Sent!Open
  <1>3. ExecutorFits(b)
    BY DEF IInv
  <1>4. ExecutorFits(b)'
    BY <1>1, <1>2, <1>3, OtherExecutor
  <1>5. Barren(b) => Barren(b)'
    BY <1>1 DEF Barren
  <1> QED BY <1>4, <1>5

\* What an executor inside invoke has on the wire.
LEMMA AtWork ==
  ASSUME IInv, NEW a \in Attempts, push[a].stage \in {"sending", "observed", "recorded"}
  PROVE  /\ push[a].round \in {1, 2} /\ OnWire(a) \in Requests /\ OnWire(a)[1] = a
         /\ OnWire(a) = <<a, push[a].round>> /\ ExecutorFits(a) /\ push[a] \in Pushes
         /\ ~Barren(a) /\ Sent!RequestFits(OnWire(a)) /\ Sent!PromptFits(OnWire(a))
         /\ \A k \in Rounds : <<a, k>> # OnWire(a) <=> k # push[a].round
  BY RowSays, Keys DEF IInv, ExecutorFits, OnWire, Barren, Sent!SendInv

\* The types that a step without tasks keeps.
LEMMA TypesKept ==
  ASSUME IInv, UNCHANGED <<task, run, content>>, invoice' \in Invoices,
         push' \in [Attempts -> Pushes], outlived' = outlived \/ outlived' \in BOOLEAN
  PROVE  Types'
  BY DEF IInv, Types

\* A ticket becomes a POST, and OKKI answers it.
LEMMA WireKeeps ==
  ASSUME IInv, NEW a \in Attempts, Consume(a) \/ \E r : Answer(a, r)
  PROVE  IInv'
  <1> DEFINE c == OnWire(a)
  <1>1. push[a].stage = "sending" /\ UNCHANGED <<invoice, push, task, run, content, prompt, outlived>>
    BY DEF Consume, Answer, Sends
  <1>2. /\ push[a].round \in {1, 2} /\ c \in Requests /\ c[1] = a
        /\ c = <<a, push[a].round>> /\ ExecutorFits(a)
        /\ ~Barren(a) /\ Sent!RequestFits(c) /\ Sent!PromptFits(c)
        /\ \A k \in Rounds : <<a, k>> # c <=> k # push[a].round
    BY <1>1, AtWork
  <1> HIDE DEF c
  <1>3. Sent!Consume(c) \/ \E r : Sent!Answer(c, r)
    BY <1>2, SameSender DEF Consume, Answer, c
  <1>4. Sent!SendInv'
    BY <1>1, <1>2, <1>3, Sent!ConsumeKeeps, Sent!AnswerKeeps DEF IInv
  <1>5. /\ UNCHANGED <<authority, claims, evidence, created>>
        /\ \/ /\ post[c] = "ticket" /\ claims[c].state = "sending"
              /\ post' = [post EXCEPT ![c] = "wire"] /\ inflight' = inflight \cup {c}
           \/ /\ post[c] = "wire" /\ post' = [post EXCEPT ![c] = "answered"]
              /\ inflight' \in {inflight, inflight \ {c}}
              /\ prompt /\ inflight' = inflight => c \notin inflight
    BY <1>2, <1>3 DEF Sent!Consume, Sent!Answer, Sent!RequestFits
  <1>6. /\ \A d \in Requests \ {c} : post'[d] = post[d] /\ (d \in inflight' <=> d \in inflight)
        /\ post'[c] \in {"wire", "answered"} /\ post[c] \in {"ticket", "wire"}
    BY <1>2, <1>5 DEF IInv, Sent!SendInv, Sent!SendingTypeOK
  <1>7. Sent!Frozen' <=> Sent!Frozen
    BY <1>5 DEF Sent!Frozen
  <1>8. \A d \in Requests : Sent!Open(d)' <=> Sent!Open(d)
    BY <1>5 DEF Sent!Open
  <1>9. \A b \in Attempts \ {a} : ExecutorFits(b)' /\ (Barren(b) => Barren(b)')
    BY <1>1, <1>2, <1>5, <1>6, <1>7, OthersStay
  <1>10. ExecutorFits(a)'
    <2>1. /\ \A k \in Rounds : Closed(<<a, k>>)' <=> Closed(<<a, k>>)
          /\ OnWire(a)' = c
      BY <1>1, <1>7, <1>8, Keys DEF Closed, OnWire, c
    <2>2. \A k \in Rounds : Means(<<a, k>>, push[a].facts[k])'
      <3>1. ASSUME NEW k \in Rounds
            PROVE  Means(<<a, k>>, push[a].facts[k])'
        <4>1. Means(<<a, k>>, push[a].facts[k]) /\ push[a].facts[push[a].round] = "none"
          BY <1>1, <1>2 DEF ExecutorFits
        <4>2. <<a, k>> \in Requests
          BY Keys
        <4>3. CASE k = push[a].round
          BY <1>1, <4>1, <4>3 DEF Means
        <4>4. CASE k # push[a].round
          <5>1. <<a, k>> \in Requests \ {c}
            BY <1>2, <4>2, <4>4
          <5> QED BY <1>1, <1>5, <1>6, <4>1, <5>1 DEF Means
        <4> QED BY <4>3, <4>4
      <3> QED BY <3>1
    <2>3. \A k \in Rounds : k # push[a].round => post'[<<a, k>>] = post[<<a, k>>]
      BY <1>2, <1>6, Keys
    <2>4. Rounds = {1, 2}
      BY Keys
    <2> QED BY <1>1, <1>2, <1>6, <2>1, <2>2, <2>3, <2>4 DEF ExecutorFits
  <1>11. prompt => \A d \in Requests : Alive(d)' => Alive(d) /\ claims'[d] = claims[d]
    BY <1>2, <1>5, <1>6 DEF Alive, Sent!RequestFits
  <1>12. Types'
    BY <1>1 DEF IInv, Types
  <1>13. TasksFit'
    <2>1. \A d \in Requests : post[d] # "none" => post'[d] # "none"
      BY <1>6
    <2> QED BY <1>1, <1>2, <1>5, <1>9, <2>1, TasksKept
  <1> QED BY <1>1, <1>4, <1>5, <1>7, <1>8, <1>9, <1>10, <1>11, <1>12, <1>13, AttemptMoves

\* What an executor has seen goes with it out of invoke.
LEMMA ObservedSays ==
  ASSUME IInv, NEW a \in Attempts, NEW result \in Results, Observed(a, result)
  PROVE  /\ \A b \in Attempts \ {a} : push'[b] = push[b]
         /\ push' \in [Attempts -> Pushes]
         /\ push'[a].stage = "observed" /\ push'[a].seen = result
         /\ push'[a].via = push[a].via /\ push'[a].version = push[a].version
         /\ push'[a].target = push[a].target /\ push'[a].facts = push[a].facts
         /\ push'[a].settled = push[a].settled /\ push'[a].round = push[a].round
  <1>1. push \in [Attempts -> Pushes] /\ push[a] \in Pushes
    BY RowSays
  <1>2. push'[a] = [push[a] EXCEPT !.stage = "observed", !.seen = result]
    BY <1>1 DEF Observed, Pushes
  <1>3. \A b \in Attempts \ {a} : push'[b] = push[b]
    BY <1>1 DEF Observed
  <1>4. push'[a] \in Pushes
    BY <1>1, <1>2 DEF Pushes
  <1> QED BY <1>1, <1>2, <1>3, <1>4 DEF Observed, Pushes

\* An executor that leaves invoke knows what is true of OKKI, and its claim is closed if it
\* was answered for good; whatever it does not know leaves the claim open.
LEMMA LeavesInvoke ==
  ASSUME IInv, NEW a \in Attempts, push[a].stage = "sending",
         NEW c \in Requests, c = OnWire(a),
         NEW result \in Results \ {"none"}, Observed(a, result),
         UNCHANGED <<task, run, content, created, inflight, prompt, outlived>>, Sent!SendInv',
         \A d \in Requests \ {c} : claims'[d] = claims[d] /\ post'[d] = post[d],
         post'[c] = "over", Means(c, result), prompt => c \notin inflight,
         result # "unknown" => Closed(c)', Sent!Frozen => Sent!Frozen',
         Sent!Open(c)' => Sent!Open(c) \/ Sent!Frozen',
         UNCHANGED invoice \/ Touch
  PROVE  IInv'
  <1>1. /\ push[a].round \in {1, 2} /\ c \in Requests /\ c[1] = a
        /\ c = <<a, push[a].round>> /\ ExecutorFits(a)
        /\ ~Barren(a) /\ \A k \in Rounds : <<a, k>> # c <=> k # push[a].round
    BY AtWork
  <1>2. /\ \A b \in Attempts \ {a} : push'[b] = push[b]
        /\ push' \in [Attempts -> Pushes]
        /\ push'[a].stage = "observed" /\ push'[a].seen = result
        /\ push'[a].via = push[a].via /\ push'[a].version = push[a].version
        /\ push'[a].target = push[a].target /\ push'[a].facts = push[a].facts
        /\ push'[a].settled = push[a].settled /\ push'[a].round = push[a].round
    BY ObservedSays
  <1>3. OnWire(a)' = c /\ Rounds = {1, 2}
    BY <1>2, Keys DEF OnWire
  <1>4. /\ \A d \in Requests \ {c} : claims'[d] = claims[d] /\ post'[d] = post[d]
        /\ post'[c] = "over" /\ Means(c, result) /\ (prompt => c \notin inflight)
        /\ result # "unknown" => ~Sent!Open(c)' \/ Sent!Frozen'
        /\ Sent!Open(c)' => Sent!Open(c) \/ Sent!Frozen'
    BY DEF Closed
  <1>5. \A d \in Requests : Sent!Open(d)' => Sent!Open(d) \/ Sent!Frozen'
    BY <1>4 DEF Sent!Open
  <1>6. \A b \in Attempts \ {a} : ExecutorFits(b)' /\ (Barren(b) => Barren(b)')
    BY <1>1, <1>2, <1>4, OthersStay
  <1>7. ExecutorFits(a)'
    <2>1. \A k \in Rounds : <<a, k>> \in Requests
      BY Keys
    <2>2. \A k \in Rounds : k # push[a].round => post'[<<a, k>>] = post[<<a, k>>]
      BY <1>1, <1>4, <2>1
    <2>3. \A k \in Rounds : Closed(<<a, k>>) => Closed(<<a, k>>)'
      BY <1>5, <2>1 DEF Closed
    <2>4. \A k \in Rounds : Means(<<a, k>>, push[a].facts[k])'
      BY <1>1, <1>2 DEF Means, ExecutorFits
    <2>5. Means(c, result)' /\ (result # "unknown" => Closed(c)')
      BY <1>4 DEF Means, Closed
    <2> QED BY <1>1, <1>2, <1>3, <1>4, <2>2, <2>3, <2>4, <2>5 DEF ExecutorFits
  <1>8. /\ invoice' \in Invoices /\ invoice'.readback \in {None, invoice.readback}
        /\ invoice'.order = invoice.order /\ invoice'.sync = invoice.sync
        /\ invoice'.version = invoice.version /\ invoice'.attempt = invoice.attempt
        /\ invoice'.task = invoice.task /\ invoice'.leased = invoice.leased
    BY TouchSays, RowSays
  <1>9. Types'
    BY <1>2, <1>8, TypesKept
  <1>10. TasksFit'
    BY <1>1, <1>2, <1>6, <1>8, TasksKept
  <1>11. prompt => \A d \in Requests : Alive(d)' => Alive(d) /\ claims'[d] = claims[d]
    BY <1>4 DEF Alive
  <1> QED BY <1>2, <1>5, <1>6, <1>7, <1>8, <1>9, <1>10, <1>11, AttemptMoves

\* The answer is stored on the claim and classified.
LEMMA RememberKeeps ==
  ASSUME IInv, NEW a \in Attempts, Remember(a)
  PROVE  IInv'
  <1>0. PICK c \in Requests : c = OnWire(a)
    <2>1. push[a].stage = "sending"
      BY DEF Remember, Sends
    <2> QED BY <2>1, AtWork
  <1> DEFINE id == IF reply[c] = "identity" THEN OrderOf(c) ELSE None
             result == CASE reply[c] = "identity" -> "accepted"
                         [] reply[c] = "unauthorized" -> "auth_rejected"
                         [] OTHER -> reply[c]
  <1>1. /\ push[a].stage = "sending" /\ Sending!Remember(c, id) /\ Observed(a, result)
        /\ ClaimTouched /\ UNCHANGED <<task, run, content, prompt, outlived>>
    BY <1>0 DEF Remember, Sends
  <1>2. c \in Requests /\ Sent!RequestFits(c) /\ Sent!PromptFits(c)
    BY <1>0, <1>1, AtWork
  <1>3. id \in Orders \cup {None}
    BY <1>2, Named
  <1>4. Sent!Remember(c, id) /\ post[c] = "answered" /\ Sent!SendInv
    BY <1>1, <1>2, SameRemember DEF Sent!Remember, IInv
  <1>5. Sent!SendInv'
    BY <1>1, <1>2, <1>3, <1>4, Sent!RememberKeeps
  <1>6. /\ UNCHANGED <<inflight, created>> /\ post'[c] = "over"
        /\ \A d \in Requests \ {c} :
              claims'[d] = claims[d] /\ post'[d] = post[d] /\ reply'[d] = reply[d]
        /\ Sent!Frozen => Sent!Frozen'
        /\ ~Sent!Frozen' => (Sent!Open(c)' => Sent!Open(c))
        /\ reply[c] \in {"identity", "unauthorized", "rejected"} => (Sent!Open(c)' => Sent!Frozen')
    BY <1>2, <1>4, Sent!RememberEffect
  <1>7. reply[c] \in {"identity", "unauthorized", "rejected", "unknown"}
    BY <1>2, <1>4 DEF Sent!SendInv, Sent!SendingTypeOK, Sent!Replies, Sent!RequestFits
  <1>8. /\ result \in Results \ {"none"} /\ Means(c, result)
        /\ result # "unknown" => Closed(c)'
        /\ prompt => c \notin inflight
    BY <1>2, <1>4, <1>6, <1>7
    DEF Results, Means, Closed, Sent!RequestFits, Sent!PromptFits
  <1>9. UNCHANGED invoice \/ Touch
    BY <1>1 DEF ClaimTouched
  <1> HIDE DEF result
  <1> QED BY <1>0, <1>1, <1>5, <1>6, <1>8, <1>9, LeavesInvoke

\* An error of invoke itself says nothing of the POST.
LEMMA LostKeeps ==
  ASSUME IInv, NEW a \in Attempts, Lost(a)
  PROVE  IInv'
  <1>1. /\ push[a].stage = "sending" /\ Observed(a, "unknown")
        /\ UNCHANGED <<invoice, task, run, content, prompt, outlived>>
    BY DEF Lost, Sends
  <1>0. PICK c \in Requests : c = OnWire(a)
    BY <1>1, AtWork
  <1>2. c \in Requests /\ Sent!RequestFits(c) /\ Sent!PromptFits(c)
    BY <1>0, <1>1, AtWork
  <1>3. Sent!RefuseTicket(c) \/ Sent!Forget(c)
    BY <1>0, SameSender DEF Lost
  <1>4. Sent!SendInv'
    BY <1>1, <1>2, <1>3, Sent!LeaveKeeps DEF IInv
  <1>5. /\ post[c] \in {"ticket", "answered"} /\ post' = [post EXCEPT ![c] = "over"]
        /\ UNCHANGED <<authority, claims, inflight, created>>
    BY <1>3 DEF Sent!RefuseTicket, Sent!Forget, Sent!Leave
  <1>6. post'[c] = "over" /\ \A d \in Requests \ {c} : post'[d] = post[d]
    BY <1>2, <1>5 DEF IInv, Sent!SendInv, Sent!SendingTypeOK
  <1>7. (Sent!Frozen' <=> Sent!Frozen) /\ (Sent!Open(c)' <=> Sent!Open(c))
    BY <1>5 DEF Sent!Frozen, Sent!Open
  <1>8. Means(c, "unknown") /\ "unknown" \in Results \ {"none"} /\ (prompt => c \notin inflight)
    BY <1>2, <1>5 DEF Means, Results, Sent!RequestFits, Sent!PromptFits
  <1> QED BY <1>0, <1>1, <1>4, <1>5, <1>6, <1>7, <1>8, LeavesInvoke

\* Facts go one way: what a review settled before is not what there is now.
LEMMA RecordKeeps ==
  ASSUME IInv, NEW a \in Attempts, Record(a)
  PROVE  IInv'
  <1>1. /\ push[a].stage = "observed" /\ Touch /\ UNCHANGED <<task, run, content, sending>>
        /\ UNCHANGED <<authority, claims, evidence, post, reply, inflight, created, prompt, outlived>>
    BY DEF Record, sending
  <1>2. /\ push[a].round \in {1, 2} /\ ExecutorFits(a) /\ push[a] \in Pushes
        /\ ~Barren(a) /\ Rounds = {1, 2} /\ push \in [Attempts -> Pushes]
    BY <1>1, AtWork, RowSays, Keys
  <1>3. push'[a] = [push[a] EXCEPT !.stage = "recorded",
                                   !.facts = [push[a].facts EXCEPT ![push[a].round] = push[a].seen]]
    BY <1>2 DEF Record, Pushes
  <1>4. \A b \in Attempts \ {a} : push'[b] = push[b]
    BY <1>2 DEF Record
  <1>5. /\ push'[a].stage = "recorded" /\ push'[a].seen = push[a].seen
        /\ push'[a].via = push[a].via /\ push'[a].version = push[a].version
        /\ push'[a].target = push[a].target /\ push'[a].settled = push[a].settled
        /\ push'[a].round = push[a].round
        /\ push'[a].facts = [push[a].facts EXCEPT ![push[a].round] = push[a].seen]
    BY <1>2, <1>3 DEF Pushes
  <1>6. /\ push[a].facts \in [Rounds -> Results] /\ push[a].seen \in Results
        /\ push'[a].facts[push[a].round] = push[a].seen
        /\ \A k \in Rounds : k # push[a].round => push'[a].facts[k] = push[a].facts[k]
    BY <1>2, <1>5 DEF Pushes, Facts
  <1>7. push' \in [Attempts -> Pushes]
    <2>1. push'[a] \in Pushes
      <3>1. [push[a].facts EXCEPT ![push[a].round] = push[a].seen] \in Facts
        BY <1>6 DEF Facts
      <3> QED BY <1>2, <1>3, <3>1 DEF Pushes
    <2>2. DOMAIN push' = Attempts /\ push' = [b \in Attempts |-> push'[b]]
      BY <1>2 DEF Record
    <2>3. \A b \in Attempts : push'[b] \in Pushes
      BY <1>2, <1>4, <2>1
    <2> QED BY <2>2, <2>3
  <1>8. a \in Unresolved'
    <2>1. \A f \in push[a].settled : f[push[a].round] = "none"
      BY <1>1, <1>2 DEF ExecutorFits
    <2>2. push[a].seen # "none"
      BY <1>1, <1>2 DEF ExecutorFits
    <2>3. push'[a].facts \notin push'[a].settled
      BY <1>5, <1>6, <2>1, <2>2
    <2> QED BY <1>5, <2>3 DEF Unresolved, Started
  <1>9. (Sent!Frozen' <=> Sent!Frozen) /\ \A d \in Requests : Sent!Open(d)' <=> Sent!Open(d)
    BY <1>1 DEF Sent!Frozen, Sent!Open
  <1>10. \A b \in Attempts \ {a} : ExecutorFits(b)' /\ (Barren(b) => Barren(b)')
    <2>1. <<a, 1>> \in Requests /\ <<a, 1>>[1] = a
      BY <1>2, Keys
    <2> QED BY <1>1, <1>4, <1>9, <2>1, OthersStay
  <1>11. ExecutorFits(a)'
    <2>1. /\ \A k \in Rounds : Closed(<<a, k>>)' <=> Closed(<<a, k>>)
          /\ OnWire(a)' = OnWire(a) /\ OnWire(a) = <<a, push[a].round>>
      BY <1>5, <1>9, Keys DEF Closed, OnWire
    <2>0. /\ \A k \in Rounds : Means(<<a, k>>, push[a].facts[k])
          /\ Means(<<a, push[a].round>>, push[a].seen)
          /\ push[a].seen # "unknown" => Closed(<<a, push[a].round>>)
      BY <1>1, <1>2, <2>1 DEF ExecutorFits
    <2>2. \A k \in Rounds : Means(<<a, k>>, push[a].facts[k])'
      <3>1. ASSUME NEW k \in Rounds
            PROVE  Means(<<a, k>>, push'[a].facts[k])
        <4>1. CASE k = push[a].round
          BY <1>6, <2>0, <4>1
        <4>2. CASE k # push[a].round
          BY <1>6, <2>0, <4>2
        <4> QED BY <4>1, <4>2
      <3> QED BY <1>1, <3>1 DEF Means
    <2>3. /\ Means(OnWire(a), push[a].seen)'
          /\ push'[a].seen # "unknown" => Closed(OnWire(a))'
      <3>1. Means(<<a, push[a].round>>, push[a].seen)'
        BY <1>1, <1>5, <2>0 DEF Means
      <3>2. push[a].seen # "unknown" => Closed(<<a, push[a].round>>)'
        BY <1>2, <1>5, <2>0, <2>1
      <3> QED BY <1>5, <2>1, <3>1, <3>2
    <2>4. \A f \in push[a].settled : \A k \in Rounds : f[k] \in {"none", push'[a].facts[k]}
      BY <1>1, <1>2, <1>6 DEF ExecutorFits
    <2>5. post'[<<a, 2>>] # "none" => push'[a].facts[1] = "auth_rejected"
      BY <1>1, <1>2, <1>6 DEF ExecutorFits
    <2>6. post'[<<a, 2>>] = "none" => push'[a].facts[2] = "none"
      BY <1>1, <1>2, <1>6 DEF ExecutorFits
    <2> QED BY <1>1, <1>2, <1>5, <1>6, <2>1, <2>2, <2>3, <2>4, <2>5, <2>6 DEF ExecutorFits
  <1>12. /\ invoice' \in Invoices /\ invoice'.readback \in {None, invoice.readback}
         /\ invoice'.order = invoice.order /\ invoice'.sync = invoice.sync
         /\ invoice'.version = invoice.version /\ invoice'.attempt = invoice.attempt
         /\ invoice'.task = invoice.task /\ invoice'.leased = invoice.leased
    BY <1>1, TouchSays
  <1>13. Types'
    BY <1>1, <1>7, <1>12, TypesKept
  <1>14. TasksFit'
    BY <1>1, <1>2, <1>4, <1>5, <1>10, <1>12, TasksKept
  <1>15. \A d \in Requests : Alive(d)' => Alive(d) /\ claims'[d] = claims[d]
    BY <1>1 DEF Alive
  <1>16. Sent!SendInv'
    BY <1>1, Sent!SendingUntouched DEF IInv
  <1> QED BY <1>1, <1>4, <1>5, <1>8, <1>9, <1>10, <1>11, <1>12, <1>13, <1>14, <1>15, <1>16,
             AttemptMoves

\* An executor that ends, having settled what it recorded or nothing, while its requests
\* come to rest.
LEMMA OverKeeps ==
  ASSUME IInv, NEW a \in Attempts, push[a].stage \in {"sending", "observed", "recorded"},
         NEW settled \in SUBSET {push[a].facts}, Over(a, settled),
         UNCHANGED <<authority, claims, created, inflight, prompt, outlived>>,
         \A d \in Requests \ {OnWire(a)} : post'[d] = post[d],
         post'[OnWire(a)] \in {"over", post[OnWire(a)]},
         push[a].stage = "sending" => post'[OnWire(a)] = "over"
  PROVE  /\ ExecutorFits(a)' /\ \A b \in Attempts \ {a} : ExecutorFits(b)'
         /\ \A b \in Attempts : Barren(b) => Barren(b)'
         /\ \A k \in Rounds : post'[<<a, k>>] \in {"none", "over"}
  <1>1. /\ push[a].round \in {1, 2} /\ OnWire(a) \in Requests /\ OnWire(a)[1] = a
        /\ OnWire(a) = <<a, push[a].round>> /\ ExecutorFits(a) /\ ~Barren(a)
        /\ Rounds = {1, 2} /\ push \in [Attempts -> Pushes]
        /\ \A k \in Rounds : <<a, k>> \in Requests
                             /\ (<<a, k>> # OnWire(a) <=> k # push[a].round)
    BY AtWork, RowSays, Keys
  <1>2. /\ \A b \in Attempts \ {a} : push'[b] = push[b]
        /\ push'[a].stage = "over" /\ push'[a].round = 0
        /\ push'[a].facts = push[a].facts /\ push'[a].settled = push[a].settled \cup settled
    BY OverSays
  <1>3. (Sent!Frozen' <=> Sent!Frozen) /\ \A d \in Requests : Sent!Open(d)' <=> Sent!Open(d)
    BY DEF Sent!Frozen, Sent!Open
  <1>4. PICK c \in Requests : c = OnWire(a)
    BY <1>1
  <1>5. \A b \in Attempts \ {a} : ExecutorFits(b)' /\ (Barren(b) => Barren(b)')
    BY <1>1, <1>2, <1>3, <1>4, OthersStay
  <1>6. \A k \in Rounds : /\ post'[<<a, k>>] \in {"none", "over"}
                          /\ post'[<<a, k>>] = "none" <=> post[<<a, k>>] = "none"
                          /\ post[<<a, k>>] = "over" => post'[<<a, k>>] = "over"
    <2>1. \A k \in Rounds : k # push[a].round => post'[<<a, k>>] = post[<<a, k>>]
      BY <1>1
    <2>2. push[a].stage # "sending" => post[<<a, 1>>] \in {"none", "over"} /\ post[<<a, 2>>] \in {"none", "over"}
      BY <1>1 DEF ExecutorFits
    <2>3. push[a].stage = "sending" => /\ post[<<a, push[a].round>>] \in {"ticket", "wire", "answered"}
                                       /\ post'[<<a, push[a].round>>] = "over"
      BY <1>1 DEF ExecutorFits
    <2>4. push[a].stage = "sending" => \A k \in Rounds : k # push[a].round => post[<<a, k>>] \in {"none", "over"}
      BY <1>1, <2>3 DEF ExecutorFits
    <2>5. CASE push[a].stage = "sending"
      BY <1>1, <2>1, <2>3, <2>4, <2>5
    <2>6. CASE push[a].stage # "sending"
      <3>1. post[<<a, push[a].round>>] # "none"
        BY <1>1, <2>6 DEF ExecutorFits
      <3> QED BY <1>1, <2>1, <2>2, <2>6, <3>1
    <2> QED BY <2>5, <2>6
  <1>7. /\ \A k \in Rounds : Closed(<<a, k>>)' <=> Closed(<<a, k>>)
        /\ \A k \in Rounds : Means(<<a, k>>, push[a].facts[k])'
    <2>1. \A k \in Rounds : Closed(<<a, k>>)' <=> Closed(<<a, k>>)
      BY <1>1, <1>3 DEF Closed
    <2>2. \A k \in Rounds : Means(<<a, k>>, push[a].facts[k])
      BY <1>1 DEF ExecutorFits
    <2> QED BY <1>2, <2>1, <2>2 DEF Means
  <1>8. \A f \in push'[a].settled : \A k \in Rounds : f[k] \in {"none", push[a].facts[k]}
    BY <1>1, <1>2 DEF ExecutorFits
  <1>9. ExecutorFits(a)'
    BY <1>1, <1>2, <1>6, <1>7, <1>8 DEF ExecutorFits
  <1> QED BY <1>1, <1>5, <1>6, <1>9

\* It leaves facts and row to whoever looks next: its lease is over, something cannot be
\* committed, or the process dies.
LEMMA LeavingKeeps ==
  ASSUME IInv, NEW a \in Attempts, ApplyRefused(a) \/ Raise(a) \/ Die(a)
  PROVE  IInv'
  <1>1. /\ push[a].stage \in {"sending", "observed", "recorded"} /\ Over(a, {})
        /\ UNCHANGED <<invoice, task, content, prompt, outlived>>
    BY DEF ApplyRefused, Raise, Die, sending
  <1>2. PICK stage \in {"returned", "error", "over"}, result \in {"none", "pending"} :
           Back(a, stage, result) /\ (stage = "returned" => result # "none")
    BY DEF ApplyRefused, Raise, Die
  <1>3. PICK c \in Requests : c = OnWire(a)
    BY <1>1, AtWork
  <1>4. \/ UNCHANGED <<authority, claims, evidence, post, reply, inflight, created, prompt, outlived>>
           /\ push[a].stage # "sending"
        \/ Sent!Die(c)
    BY <1>3, SameSender DEF ApplyRefused, Raise, Die, Sends, sending
  <1>5. Sent!SendInv'
    BY <1>1, <1>4, Sent!SendingUntouched, Sent!LeaveKeeps DEF IInv
  <1>6. /\ UNCHANGED <<authority, claims, created, inflight>>
        /\ \A d \in Requests \ {c} : post'[d] = post[d]
        /\ post'[c] \in {"over", post[c]}
        /\ push[a].stage = "sending" => post'[c] = "over"
    BY <1>4 DEF Sent!Die, Sent!Leave, IInv, Sent!SendInv, Sent!SendingTypeOK
  <1>7. /\ \A b \in Attempts : ExecutorFits(b)' /\ (Barren(b) => Barren(b)')
    BY <1>1, <1>3, <1>6, OverKeeps
  <1>8. /\ \A b \in Attempts \ {a} : push'[b] = push[b]
        /\ push'[a].stage = "over" /\ push'[a].version = push[a].version
        /\ push'[a].target = push[a].target /\ push'[a].facts = push[a].facts
        /\ push'[a].settled = push[a].settled /\ push' \in [Attempts -> Pushes]
    <2>1. {} \subseteq Facts /\ push[a].settled \cup {} = push[a].settled
      OBVIOUS
    <2> QED BY <1>1, <2>1, OverSays
  <1>9. TasksFit' /\ run' \in [Runs -> RunRows]
    BY <1>1, <1>2, <1>6, <1>7, TasksReturn
  <1>10. Types'
    BY <1>1, <1>8, <1>9 DEF IInv, Types
  <1>11. (Sent!Frozen' <=> Sent!Frozen) /\ \A d \in Requests : Sent!Open(d)' <=> Sent!Open(d)
    BY <1>6 DEF Sent!Frozen, Sent!Open
  <1>12. \A d \in Requests : Alive(d)' => Alive(d) /\ claims'[d] = claims[d]
    BY <1>6 DEF Alive
  <1> QED BY <1>1, <1>5, <1>6, <1>7, <1>8, <1>9, <1>10, <1>11, <1>12, AttemptMoves

-----------------------------------------------------------------------------
(* OKKI and the clock *)

\* The lease of a claim ends; with a prompt OKKI its POST is over.
LEMMA ClaimLeaseKeeps ==
  ASSUME IInv, NEW c \in Requests, ClaimLeaseExpires(c)
  PROVE  IInv'
  <1>1. /\ Sent!ClaimLeaseExpires(c) /\ UNCHANGED <<invoice, push, task, run, content, prompt, outlived>>
    BY SameExpiry DEF ClaimLeaseExpires
  <1>2. /\ Sent!Open(c) /\ claims[c].leased
        /\ claims' = [claims EXCEPT ![c].leased = FALSE]
        /\ prompt => post[c] \notin {"ticket", "wire"}
        /\ inflight' = IF prompt THEN inflight \ {c} ELSE inflight
        /\ UNCHANGED <<authority, evidence, post, reply, created>>
    BY <1>1, Sent!ExpiryEffect
  <1>3. Sent!SendInv'
    BY <1>1, Sent!ExpiryKeeps DEF IInv
  <1>4. /\ \A d \in Requests \ {c} : claims'[d] = claims[d]
        /\ claims'[c].state = claims[c].state
    BY <1>2 DEF IInv, Sent!SendInv, Sent!SendingTypeOK, Sent!Gates!ClaimRows
  <1>5. (Sent!Frozen' <=> Sent!Frozen) /\ \A d \in Requests : Sent!Open(d)' <=> Sent!Open(d)
    BY <1>2, <1>4 DEF Sent!Frozen, Sent!Open
  <1>6. \A b \in Attempts : ExecutorFits(b)' /\ (Barren(b) => Barren(b)')
    <2>1. ASSUME NEW b \in Attempts
          PROVE  ExecutorFits(b)' /\ (Barren(b) => Barren(b)')
      <3>1. \A k \in Rounds : <<b, k>> \in Requests
        BY Keys
      <3>2. ExecutorFits(b)'
        BY <1>1, <1>2, <1>5, <3>1, OtherExecutor DEF IInv
      <3> QED BY <1>1, <1>2, <3>2 DEF Barren
    <2> QED BY <2>1
  <1>7. prompt => \A d \in Requests : Alive(d)' => Alive(d) /\ claims'[d] = claims[d]
    BY <1>2, <1>4 DEF Alive
  <1>8. TasksFit'
    BY <1>1, <1>2, <1>6, TasksKept
  <1>9. Types' /\ c[1] \in Attempts /\ invoice'.readback \in {None, invoice.readback}
    BY <1>1, Keys DEF IInv, Types
  <1> QED BY <1>1, <1>2, <1>3, <1>5, <1>6, <1>7, <1>8, <1>9, AttemptMoves

\* What is under way takes effect: a first order, if there is none and it is of the attempt
\* that has the row, or the version of the attempt on the order of the row.
LEMMA TakeEffectKeeps ==
  ASSUME IInv, NEW c \in Requests, TakeEffect(c)
  PROVE  IInv'
  <1>1. /\ Sent!Create(c) /\ UNCHANGED <<invoice, push, task, run, prompt, outlived>>
        /\ content' = [content EXCEPT ![OrderOf(c)] = push[c[1]].version]
    BY SameSender DEF TakeEffect
  <1>2. /\ c \in inflight /\ inflight' = inflight \ {c} /\ created' = created \cup {c}
        /\ UNCHANGED <<authority, claims, evidence, post, reply>>
    BY <1>1 DEF Sent!Create
  <1>3. Sent!SendInv' /\ Alive(c)
    BY <1>1, <1>2, Sent!CreateKeeps DEF IInv, Alive
  <1>4. /\ OrderOf(c) \in Orders /\ push[c[1]].version \in Versions /\ None \notin Versions
        /\ c[1] \in Attempts /\ content \in [Orders -> Versions \cup {None}]
        /\ c \in Orders /\ None \notin Orders
    BY RowSays, Named, Keys DEF Pushes
  <1>5. /\ content' \in [Orders -> Versions \cup {None}]
        /\ content'[OrderOf(c)] = push[c[1]].version /\ content'[OrderOf(c)] # None
        /\ \A o \in Orders : o # OrderOf(c) => content'[o] = content[o]
    BY <1>1, <1>4
  <1>6. /\ \A d : OrderOf(d)' = OrderOf(d)
        /\ Unresolved' = Unresolved
        /\ \A d \in Requests : (Sent!Open(d)' <=> Sent!Open(d)) /\ (Alive(d)' => Alive(d))
        /\ Sent!Frozen' <=> Sent!Frozen
    BY <1>1, <1>2 DEF OrderOf, Unresolved, Started, Sent!Open, Sent!Frozen, Alive
  <1>7. \A b \in Attempts : ExecutorFits(b)' /\ (Barren(b) => Barren(b)')
    <2>1. ASSUME NEW b \in Attempts
          PROVE  ExecutorFits(b)' /\ (Barren(b) => Barren(b)')
      <3>1. \A k \in Rounds : <<b, k>> \in Requests
        BY Keys
      <3>2. ExecutorFits(b)'
        BY <1>1, <1>2, <1>6, <3>1, OtherExecutor DEF IInv
      <3> QED BY <1>1, <1>2, <3>2 DEF Barren
    <2> QED BY <2>1
  <1>8. TasksFit'
    BY <1>1, <1>2, <1>7, TasksKept
  <1>9. Types'
    BY <1>1, <1>5 DEF IInv, Types
  <1>10. InvoiceFits'
    BY <1>1 DEF IInv, InvoiceFits, Uncertain, Started
  <1>11. NothingLost'
    BY <1>1, <1>6 DEF IInv, NothingLost
  <1>12. HoldsOrders'
    <2>1. \A o \in Orders : content[o] # None => content'[o] # None
      BY <1>5
    <2>2. \A d \in created : OrderOf(d) \in Orders
      BY RowSays, Named
    <2>3. invoice.readback # None => invoice.readback \in Orders
      BY RowSays DEF Invoices
    <2> QED BY <1>1, <1>2, <1>5, <1>6, <2>1, <2>2, <2>3, RowSays DEF IInv, HoldsOrders
  <1>13. OneOrder'
    <2>1. ASSUME prompt, push[c[1]].target = None
          PROVE  /\ c[1] = invoice.attempt /\ invoice.order = None /\ OrderOf(c) = c
                 /\ \A o \in Orders : content[o] = None
      BY <1>3, <2>1, AliveSays, Named
    <2>2. ASSUME prompt, push[c[1]].target # None
          PROVE  OrderOf(c) = invoice.order /\ invoice.order # None
      BY <2>2, <1>4, Named
    <2>3. ASSUME prompt, NEW o \in Orders, content'[o] # None
          PROVE  \/ o = invoice.order
                 \/ /\ invoice.order = None /\ o \in created' /\ o[1] = invoice.attempt
                    /\ push[o[1]].target = None
      <3>1. CASE o = OrderOf(c)
        BY <1>2, <2>1, <2>2, <2>3, <3>1
      <3>2. CASE o # OrderOf(c)
        <4>1. content[o] # None
          BY <1>5, <2>3, <3>2
        <4> QED BY <1>2, <2>3, <4>1 DEF IInv, OneOrder
      <3> QED BY <3>1, <3>2
    <2>4. ASSUME prompt, NEW d \in Requests, Alive(d)', ~outlived \/ push[d[1]].target = None
          PROVE  /\ d[1] = invoice.attempt /\ claims[d].leased /\ Sent!Open(d)
                 /\ push[d[1]].target = invoice.order
                 /\ invoice.order = None => \A o \in Orders : content'[o] = None
                 /\ ~outlived => invoice.leased /\ invoice.readback = None
      <3>1. Alive(d) /\ d # c
        <4>1. Alive(d) /\ (d = c => post[c] = "ticket")
          BY <1>2, <1>6, <2>4 DEF Alive
        <4>2. post[c] # "ticket"
          BY <1>2 DEF IInv, Sent!SendInv, Sent!RequestFits
        <4> QED BY <4>1, <4>2
      <3>2. /\ d[1] = invoice.attempt /\ claims[d].leased /\ Sent!Open(d)
            /\ push[d[1]].target = invoice.order
            /\ ~outlived => invoice.leased /\ invoice.readback = None
        BY <2>4, <3>1, AliveSays
      <3>3. ASSUME invoice.order = None
            PROVE  FALSE
        <4>1. push[c[1]].target = None
          BY <2>2, <2>4, <3>3
        <4>2. c[1] = d[1] /\ d[1] \in Attempts /\ d = <<d[1], d[2]>> /\ d[2] \in Rounds
          BY <2>1, <2>4, <3>2, <4>1, Keys
        <4>3. Alive(<<c[1], d[2]>>)
          BY <3>1, <4>2
        <4>4. \A k \in Rounds : Alive(<<c[1], k>>) => <<c[1], k>> = c
          BY <1>3, <2>4, AliveSays
        <4> QED BY <3>1, <4>2, <4>3, <4>4
      <3> QED BY <3>2, <3>3
    <2> QED BY <1>1, <1>2, <1>6, <2>3, <2>4 DEF OneOrder
  <1>14. Current'
    <2>1. SUFFICES ASSUME prompt, ~outlived
                   PROVE  /\ \A d \in created' : d[1] = invoice.attempt =>
                                content'[OrderOf(d)] = invoice.version
                          /\ invoice.readback # None => content'[invoice.readback] = invoice.version
                          /\ invoice.sync = "synced" =>
                                invoice.order # None /\ content'[invoice.order] = invoice.version
      BY <1>1, <1>6 DEF Current
    <2>2. c[1] = invoice.attempt /\ invoice.readback = None /\ invoice.attempt # 0
      BY <1>3, <1>4, <2>1, AliveSays, Keys
    <2>3. push[c[1]].version = invoice.version /\ invoice.sync # "synced"
      BY <2>2 DEF IInv, InvoiceFits, Uncertain
    <2>4. \A d \in created : d[1] = invoice.attempt => content[OrderOf(d)] = invoice.version
      BY <2>1 DEF IInv, Current
    <2>5. \A d \in created : OrderOf(d) \in Orders
      BY RowSays, Named
    <2> QED BY <1>2, <1>5, <2>2, <2>3, <2>4, <2>5
  <1> QED BY <1>3, <1>7, <1>8, <1>9, <1>10, <1>11, <1>12, <1>13, <1>14 DEF IInv

-----------------------------------------------------------------------------
(* A POST is granted *)

\* A granted POST is the only one that is open, and it is still to be sent.
LEMMA GrantSays ==
  ASSUME IInv, NEW c \in Requests, Sending!Grant(c, 1), prompt' = prompt
  PROVE  /\ Sent!SendInv' /\ ~Sent!Frozen /\ ~Sent!Frozen' /\ UNCHANGED <<inflight, created>>
         /\ \A d \in Requests : ~Sent!Open(d)
         /\ \A d \in Requests \ {c} : claims'[d] = claims[d] /\ post'[d] = post[d]
         /\ post[c] = "none" /\ c \notin inflight \cup created
         /\ post'[c] = "ticket" /\ claims'[c].leased /\ Sent!Open(c)'
         /\ \A d \in Requests \ {c} : ~Sent!Open(d)'
         /\ \A d \in Requests : post[d] # "none" => post'[d] # "none"
  <1>1. /\ Sent!Grant(c, 1) /\ Sent!SendInv /\ Sent!RequestFits(c)
        /\ claims \in [Requests -> Sent!Gates!ClaimRows] /\ post \in [Requests -> Sent!Stages]
        /\ authority \in [{Invoice} -> Sent!Gates!Authorities]
    BY SameGrant DEF IInv, Sent!SendInv, Sent!SendingTypeOK
  <1>2. /\ claims[c].state = "absent" /\ post[c] = "none" /\ ~Sent!Frozen
        /\ \A d \in Requests : ~Sent!Open(d)
        /\ authority' = [authority EXCEPT ![Invoice].confirmed = TRUE]
        /\ claims' = [claims EXCEPT ![c] =
              [state |-> "sending", invoice |-> Invoice, route |-> "legacy", epoch |-> 1,
               holdsKey |-> TRUE, externalId |-> None, leased |-> TRUE]]
        /\ post' = [post EXCEPT ![c] = "ticket"]
        /\ UNCHANGED <<evidence, reply, inflight, created>>
    BY <1>1, Sent!GrantEffect
  <1>3. Sent!SendInv'
    BY <1>1, Sent!GrantKeeps
  <1>4. ~Sent!Frozen'
    BY <1>1, <1>2 DEF Sent!Frozen, Sent!Gates!Authorities
  <1>5. /\ \A d \in Requests \ {c} : claims'[d] = claims[d] /\ post'[d] = post[d]
        /\ post'[c] = "ticket" /\ claims'[c].leased /\ claims'[c].state = "sending"
    BY <1>1, <1>2
  <1>6. c \notin inflight \cup created
    BY <1>1, <1>2 DEF Sent!RequestFits
  <1>7. Sent!Open(c)' /\ \A d \in Requests \ {c} : ~Sent!Open(d)'
    BY <1>2, <1>5 DEF Sent!Open
  <1>8. \A d \in Requests : post[d] # "none" => post'[d] # "none"
    BY <1>5
  <1> QED BY <1>2, <1>3, <1>4, <1>5, <1>6, <1>7, <1>8

\* Of the two requests of an executor, only the one it is at can have come to anything.
LEMMA OnlyOneMatters ==
  ASSUME IInv, NEW a \in Attempts, push[a].stage \in {"sending", "observed", "recorded"},
         NEW k \in Rounds, k # push[a].round
  PROVE  /\ <<a, k>> \notin created \cup inflight /\ ~Alive(<<a, k>>) /\ Closed(<<a, k>>)
         /\ push[a].facts[k] \in {"none", "auth_rejected"} /\ post[<<a, k>>] \in {"none", "over"}
  <1>1. /\ push[a].round \in {1, 2} /\ k \in {1, 2} /\ ExecutorFits(a)
        /\ Sent!RequestFits(<<a, 1>>) /\ Sent!RequestFits(<<a, 2>>)
    BY AtWork, Keys DEF IInv, Sent!SendInv
  <1>2. CASE push[a].round = 1
    <2>1. k = 2 /\ post[<<a, 2>>] = "none" /\ push[a].facts[2] = "none"
      BY <1>1, <1>2 DEF ExecutorFits
    <2> QED BY <1>1, <2>1 DEF Sent!RequestFits, Alive, Closed, Sent!Open
  <1>3. CASE push[a].round = 2
    <2>1. /\ k = 1 /\ post[<<a, 1>>] = "over" /\ push[a].facts[1] = "auth_rejected"
          /\ Closed(<<a, 1>>) /\ Means(<<a, 1>>, push[a].facts[1])
      BY <1>1, <1>3 DEF ExecutorFits
    <2> QED BY <2>1 DEF Means, Alive
  <1> QED BY <1>1, <1>2, <1>3

\* Of the two requests of an attempt, one at most was accepted.
LEMMA OneCreated ==
  ASSUME IInv, NEW c \in created, NEW d \in created, c[1] = d[1]
  PROVE  c = d
  <1>1. /\ c \in Requests /\ d \in Requests /\ c[1] \in Attempts
        /\ c = <<c[1], c[2]>> /\ d = <<c[1], d[2]>> /\ c[2] \in {1, 2} /\ d[2] \in {1, 2}
    BY RowSays, Keys
  <1>2. ExecutorFits(c[1]) /\ Sent!RequestFits(c) /\ Sent!RequestFits(d)
    BY <1>1 DEF IInv, Sent!SendInv
  <1>3. post[c] # "none" /\ post[d] # "none"
    BY <1>2 DEF Sent!RequestFits
  <1>4. post[<<c[1], 2>>] # "none" => <<c[1], 1>> \notin created
    BY <1>2, Keys DEF ExecutorFits, Means
  <1> QED BY <1>1, <1>3, <1>4

\* The second POST of an attempt that still has the row: the first came to nothing.
LEMMA RetryKeeps ==
  ASSUME IInv, NEW a \in Attempts, AuthorizeRetry(a)
  PROVE  IInv'
  <1>1. /\ push[a].stage = "recorded" /\ push[a].seen = "auth_rejected" /\ push[a].round = 1
        /\ Owns(a) /\ Touch /\ UNCHANGED <<task, run, content, prompt, outlived>>
        /\ push' = [push EXCEPT ![a].stage = "sending", ![a].round = 2]
    BY DEF AuthorizeRetry
  <1>2. PICK c \in Requests : c = <<a, 2>>
    BY Keys
  <1>3. Sending!Grant(c, 1)
    BY <1>2 DEF AuthorizeRetry
  <1>4. /\ Sent!SendInv' /\ ~Sent!Frozen /\ ~Sent!Frozen' /\ UNCHANGED <<inflight, created>>
        /\ \A d \in Requests : ~Sent!Open(d)
        /\ \A d \in Requests \ {c} : claims'[d] = claims[d] /\ post'[d] = post[d]
        /\ post[c] = "none" /\ c \notin inflight \cup created
        /\ post'[c] = "ticket" /\ claims'[c].leased /\ Sent!Open(c)'
        /\ \A d \in Requests \ {c} : ~Sent!Open(d)'
        /\ \A d \in Requests : post[d] # "none" => post'[d] # "none"
    BY <1>1, <1>3, GrantSays
  <1>5. /\ ExecutorFits(a) /\ ~Barren(a) /\ push[a] \in Pushes /\ Rounds = {1, 2}
        /\ push \in [Attempts -> Pushes] /\ OnWire(a) = <<a, 1>>
        /\ <<a, 1>> \in Requests \ {c} /\ c[1] = a /\ a # 0
        /\ \A k \in Rounds : <<a, k>> \in Requests
    BY <1>1, <1>2, AtWork, RowSays, Keys
  <1>6. /\ \A b \in Attempts \ {a} : push'[b] = push[b]
        /\ push'[a] = [push[a] EXCEPT !.stage = "sending", !.round = 2]
    BY <1>1, <1>5 DEF Pushes
  <1>7. /\ push'[a].stage = "sending" /\ push'[a].round = 2
        /\ push'[a].via = push[a].via /\ push'[a].version = push[a].version
        /\ push'[a].target = push[a].target /\ push'[a].facts = push[a].facts
        /\ push'[a].settled = push[a].settled /\ push'[a].seen = push[a].seen
    BY <1>5, <1>6 DEF Pushes
  <1>8. push' \in [Attempts -> Pushes]
    <2>1. push'[a] \in Pushes
      <3>1. 2 \in 0 .. 2 /\ "sending" \in {"idle", "sending", "observed", "recorded", "over"}
        OBVIOUS
      <3> QED BY <1>5, <1>6, <3>1 DEF Pushes
    <2> QED BY <1>1, <1>5, <1>6, <2>1
  <1>9. /\ invoice' \in Invoices /\ invoice'.readback = None
        /\ invoice'.order = invoice.order /\ invoice'.sync = invoice.sync
        /\ invoice'.version = invoice.version /\ invoice'.attempt = invoice.attempt
        /\ invoice'.task = invoice.task /\ invoice'.leased = invoice.leased
    BY <1>1, TouchSays
  <1>10. invoice.attempt = a /\ invoice.leased /\ push[a].target = invoice.order
    BY <1>1, <1>5 DEF Owns, IInv, InvoiceFits
  <1>11. \A b \in Attempts \ {a} : ExecutorFits(b)' /\ (Barren(b) => Barren(b)')
    BY <1>1, <1>4, <1>5, <1>6, OthersStay
  <1>12. ExecutorFits(a)'
    <2>1. /\ post[<<a, 1>>] = "over" /\ push[a].facts[1] = "auth_rejected" /\ push[a].facts[2] = "none"
          /\ post'[<<a, 1>>] = post[<<a, 1>>] /\ post'[<<a, 2>>] = "ticket" /\ push[a].stage # "idle"
      BY <1>1, <1>2, <1>4, <1>5 DEF ExecutorFits
    <2>2. \A k \in Rounds : Means(<<a, k>>, push[a].facts[k])'
      BY <1>4, <1>5, <1>7 DEF ExecutorFits, Means
    <2>3. Closed(<<a, 1>>)' /\ OnWire(a)' = <<a, 2>>
      BY <1>4, <1>5, <1>7 DEF Closed, OnWire
    <2>4. \A f \in push'[a].settled : \A k \in Rounds : f[k] \in {"none", push'[a].facts[k]}
      BY <1>5, <1>7 DEF ExecutorFits
    <2> QED BY <1>5, <1>7, <2>1, <2>2, <2>3, <2>4 DEF ExecutorFits
  <1>13. TasksFit'
    BY <1>1, <1>4, <1>5, <1>6, <1>7, <1>9, <1>11, TasksKept
  <1>14. Types'
    BY <1>1, <1>8, <1>9, TypesKept
  <1>15. \A b \in Attempts : /\ push'[b].target = push[b].target /\ push'[b].version = push[b].version
                             /\ push'[b].settled = push[b].settled /\ push'[b].facts = push[b].facts
                             /\ push[b].stage = "idle" <=> push'[b].stage = "idle"
                             /\ push[b].stage = "over" <=> push'[b].stage = "over"
    BY <1>1, <1>6, <1>7
  <1>16. InvoiceFits'
    BY <1>9, <1>15, RowSays DEF IInv, InvoiceFits, Uncertain, Started
  <1>17. Unresolved' = Unresolved /\ \A d \in Requests : OrderOf(d)' = OrderOf(d)
    BY <1>15, Keys DEF Unresolved, Started, OrderOf
  <1>18. NothingLost'
    <2>1. a \in Unresolved
      BY <1>5, <1>10, RowSays
    <2>2. ASSUME NEW b \in Attempts, NEW k \in Rounds, push'[b].facts[k] = "accepted"
          PROVE  OrderOf(<<b, k>>)' = invoice'.order \/ b \in Unresolved'
      <3>1. push[b].facts[k] = "accepted" /\ <<b, k>> \in Requests
        BY <1>15, <2>2, Keys
      <3> QED BY <1>9, <1>17, <3>1 DEF IInv, NothingLost
    <2> QED BY <1>4, <1>5, <1>17, <2>1, <2>2 DEF NothingLost
  <1>19. HoldsOrders'
    BY <1>1, <1>4, <1>9, <1>17, RowSays DEF IInv, HoldsOrders
  <1>20. OneOrder'
    <2>1. ASSUME prompt, invoice.order = None
          PROVE  \A o \in Orders : content[o] = None
      <3>1. SUFFICES ASSUME NEW o \in Orders, content[o] # None
                     PROVE  FALSE
        OBVIOUS
      <3>2. o \in created /\ o[1] = a
        BY <1>10, <2>1, <3>1, Keys DEF IInv, OneOrder
      <3>3. o \in Requests /\ o = <<a, o[2]>> /\ o[2] \in {1, 2}
        BY <3>2, RowSays, Keys
      <3>4. <<a, 1>> \notin created
        BY <1>1, <1>5 DEF ExecutorFits, Means
      <3> QED BY <1>2, <1>4, <3>2, <3>3, <3>4
    <2>2. ASSUME prompt, NEW d \in Requests, Alive(d)', ~outlived \/ push'[d[1]].target = None
          PROVE  d = c
      <3>1. SUFFICES ASSUME d # c PROVE FALSE
        OBVIOUS
      <3>2. Alive(d) /\ (~outlived \/ push[d[1]].target = None)
        BY <1>4, <1>15, <2>2, <3>1, Keys DEF Alive
      <3> QED BY <1>4, <2>2, <3>2, AliveSays
    <2>3. prompt => \A o \in Orders : content[o] # None =>
              \/ o = invoice.order
              \/ /\ invoice.order = None /\ o \in created /\ o[1] = invoice.attempt
                 /\ push'[o[1]].target = None
      BY <1>15, RowSays, Keys DEF IInv, OneOrder
    <2>4. ASSUME prompt, NEW d \in Requests, Alive(d)', ~outlived \/ push'[d[1]].target = None
          PROVE  /\ d[1] = invoice.attempt /\ claims'[d].leased /\ Sent!Open(d)'
                 /\ push'[d[1]].target = invoice.order
                 /\ invoice.order = None => \A o \in Orders : content[o] = None
                 /\ ~outlived => invoice'.leased /\ invoice'.readback = None
      <3>1. d = c
        BY <2>2, <2>4
      <3> QED BY <1>4, <1>5, <1>7, <1>9, <1>10, <2>1, <2>4, <3>1
    <2> QED BY <1>1, <1>4, <1>9, <2>3, <2>4 DEF OneOrder
  <1>21. Current'
    BY <1>1, <1>4, <1>9, <1>17, RowSays DEF IInv, Current
  <1> QED BY <1>4, <1>11, <1>12, <1>13, <1>14, <1>16, <1>18, <1>19, <1>20, <1>21 DEF IInv

\* A run that calls the executor has nothing else at OKKI: its task is in its hands.
LEMMA TasksCalled ==
  ASSUME IInv, NEW a \in Attempts, push[a].stage = "idle", invoice.attempt = 0,
         NEW r \in Runs, run[r].stage = "sending", OwnsRun(r), RunTo(r, "pushing", "none"),
         UNCHANGED <<task, created, inflight>>, invoice'.task = invoice.task,
         invoice'.version = invoice.version,
         \A b \in Attempts \ {a} : push'[b] = push[b] /\ (Barren(b) => Barren(b)'),
         push'[a].via = r, push'[a].version = invoice.version, push'[a].stage = "sending",
         \A c \in Requests : post[c] # "none" => post'[c] # "none"
  PROVE  TasksFit' /\ run' \in [Runs -> RunRows]
  <1>1. /\ r[1] \in Tasks /\ r = <<r[1], r[2]>> /\ None \notin Runs /\ r[1] # 0
        /\ \A q \in Runs : q[1] \in Tasks /\ q = <<q[1], q[2]>>
        /\ \A t \in Tasks : t # 0
    BY Keys
  <1>2. /\ invoice.task = r[1] /\ task[r[1]].status = "running" /\ task[r[1]].token = r[2]
    BY DEF OwnsRun
  <1>3. /\ \A q \in Runs \ {r} : run'[q] = run[q]
        /\ run'[r].stage = "pushing" /\ run'[r].result = "none"
        /\ run'[r].before = run[r].before /\ run' \in [Runs -> RunRows]
    BY RunToSays
  <1>4. /\ \A t \in Tasks : TaskFits(t)
        /\ \A b \in Attempts : ViaFits(b)
        /\ \A q \in Runs : RunFits(q)
    BY DEF IInv, TasksFit
  <1>5. invoice.version = task[r[1]].after
    BY <1>1, <1>2, <1>4 DEF TaskFits
  <1>6. \A b \in Attempts : push[b].via # r
    BY <1>1, <1>4 DEF ViaFits
  <1>7. push[a].via = None /\ post[<<a, 1>>] = "none" /\ <<a, 1>> \in Requests
    BY Keys DEF IInv, ExecutorFits
  <1>8. \A t \in Tasks : Written(t) => Written(t)'
    BY HasStarted DEF Written
  <1>9. \A b \in Attempts : ViaFits(b)'
    <2>1. ViaFits(a)'
      <3>1. <<a, 1>> \notin run'[r].before
        BY <1>3, <1>4, <1>7 DEF RunFits
      <3> QED BY <1>3, <1>5, <1>6, <3>1 DEF ViaFits
    <2>2. ASSUME NEW b \in Attempts \ {a}, push[b].via # None
          PROVE  ViaFits(b)'
      <3>1. push[b].via \in Runs \ {r} /\ ViaFits(b)
        BY <1>4, <1>6, <2>2, RowSays DEF Pushes
      <3>2. run'[push[b].via] = run[push[b].via]
        BY <1>3, <3>1
      <3> QED BY <2>2, <3>1, <3>2 DEF ViaFits
    <2> QED BY <2>1, <2>2 DEF ViaFits
  <1>10. \A t \in Tasks : TaskFits(t)'
    <2>1. ASSUME NEW t \in Tasks
          PROVE  TaskFits(t)'
      <3>1. TaskFits(t)
        BY <1>4
      <3>2. CASE t = r[1]
        BY <1>2, <1>8, <3>1, <3>2 DEF TaskFits
      <3>3. CASE t # r[1]
        <4>1. \A q \in Runs : q[1] = t => run'[q] = run[q]
          BY <1>3, <3>3
        <4>2. /\ \A b \in Attempts : push'[b].via = None \/ push'[b].via[1] # t
                                         <=> push[b].via = None \/ push[b].via[1] # t
              /\ \A b \in Attempts : push'[b].via # None /\ push'[b].via[1] = t =>
                                         push[b].via # None /\ push[b].via[1] = t /\ b # a
          BY <1>1, <1>7, <3>3
        <4> QED BY <1>1, <1>2, <1>8, <3>1, <3>3, <4>1, <4>2 DEF TaskFits
      <3> QED BY <3>2, <3>3
    <2> QED BY <2>1
  <1>11. ASSUME NEW q \in Runs
         PROVE  RunFits(q)'
    <2>1. RunFits(q) /\ run[q].before \subseteq Requests
      BY <1>4, RowSays DEF RunRows
    <2>2. \A c \in run[q].before : post'[c] # "none"
      BY <2>1 DEF RunFits
    <2>3. CASE q = r
      <3>1. ASSUME NEW b \in Attempts, push'[b].via # None, push'[b].via[1] = r[1], push'[b].via # r
            PROVE  Barren(b)'
        <4>1. b # a /\ push[b].via = push'[b].via
          BY <3>1
        <4>2. Barren(b)
          BY <1>2, <1>4, <3>1, <4>1 DEF RunFits
        <4> QED BY <4>1, <4>2
      <3> QED BY <1>3, <2>2, <2>3, <3>1 DEF RunFits
    <2>4. CASE q # r
      <3>1. run'[q] = run[q]
        BY <1>3, <2>4
      <3>2. task[q[1]].status = "running" /\ task[q[1]].token = q[2] => q[1] # r[1]
        BY <1>1, <1>2, <2>4
      <3>3. \A b \in Attempts : b # invoice.attempt
        BY Keys
      <3>4. \A b \in Attempts : push'[b].via # None /\ push'[b].via[1] = q[1] /\ q[1] # r[1] =>
               b # a /\ push[b].via = push'[b].via
        OBVIOUS
      <3>5. \A b \in Attempts : push'[b].via = q => b # a /\ push[b].via = q
        BY <2>4
      <3>6. ASSUME task[q[1]].status = "running" /\ task[q[1]].token = q[2]
            PROVE  /\ run[q].stage # "idle"
                   /\ run[q].stage # "stepped" \/ run[q].result # "done" => \A b \in Attempts :
                         push'[b].via # None /\ push'[b].via[1] = q[1] /\ push'[b].via # q
                            => Barren(b)' \/ run[q].stage = "over"
                   /\ run[q].stage = "returned" /\ run[q].result = "plain" => \A b \in Attempts :
                         push'[b].via = q => Barren(b)'
                   /\ run[q].stage \in {"judged", "stepped"} /\ run[q].result = "failed" =>
                         \A b \in Attempts : push'[b].via = q => Barren(b)'
        BY <2>1, <3>2, <3>3, <3>4, <3>5, <3>6 DEF RunFits
      <3> QED BY <1>1, <1>8, <2>1, <2>2, <3>1, <3>6 DEF RunFits
    <2> QED BY <2>3, <2>4
  <1> QED BY <1>3, <1>9, <1>10, <1>11 DEF TasksFit

\* The first POST of an attempt: nobody else has the row, and nothing is open or unsettled.
LEMMA ClaimKeeps ==
  ASSUME IInv, NEW a \in Attempts, NEW via \in Runs \cup {None}, Claim(a, via)
  PROVE  IInv'
  <1>1. /\ push[a].stage = "idle" /\ ~Uncertain /\ Unresolved = {}
        /\ IF via = None THEN UNCHANGED run
           ELSE run[via].stage = "sending" /\ OwnsRun(via) /\ RunTo(via, "pushing", "none")
        /\ Write([invoice EXCEPT !.sync = "sync_uncertain", !.attempt = a, !.leased = TRUE])
        /\ push' = [push EXCEPT ![a] = [push[a] EXCEPT !.stage = "sending", !.via = via, !.round = 1,
                                           !.version = invoice.version, !.target = invoice.order]]
        /\ UNCHANGED <<task, content, prompt, outlived>>
    BY DEF Claim, Started, Mutable
  <1>2. PICK c \in Requests : c = <<a, 1>>
    BY Keys
  <1>3. Sending!Grant(c, 1)
    BY <1>2 DEF Claim
  <1>4. /\ Sent!SendInv' /\ ~Sent!Frozen /\ ~Sent!Frozen' /\ UNCHANGED <<inflight, created>>
        /\ \A d \in Requests : ~Sent!Open(d)
        /\ \A d \in Requests \ {c} : claims'[d] = claims[d] /\ post'[d] = post[d]
        /\ post[c] = "none" /\ c \notin inflight \cup created
        /\ post'[c] = "ticket" /\ claims'[c].leased /\ Sent!Open(c)'
        /\ \A d \in Requests \ {c} : ~Sent!Open(d)'
        /\ \A d \in Requests : post[d] # "none" => post'[d] # "none"
    BY <1>1, <1>3, GrantSays
  <1>5. /\ ExecutorFits(a) /\ push[a] \in Pushes /\ Rounds = {1, 2} /\ invoice \in Invoices
        /\ push \in [Attempts -> Pushes] /\ ~Barren(a) /\ invoice.attempt = 0
        /\ <<a, 2>> \in Requests \ {c} /\ c[1] = a /\ a # 0 /\ a \in 0 .. MaxAttempts
        /\ \A k \in Rounds : <<a, k>> \in Requests
    BY <1>1, <1>2, RowSays, Keys DEF IInv, Barren
  <1>6. /\ \A b \in Attempts \ {a} : push'[b] = push[b]
        /\ push'[a] = [push[a] EXCEPT !.stage = "sending", !.via = via, !.round = 1,
                                      !.version = invoice.version, !.target = invoice.order]
    BY <1>1, <1>5
  <1>7. /\ push'[a].stage = "sending" /\ push'[a].round = 1 /\ push'[a].via = via
        /\ push'[a].version = invoice.version /\ push'[a].target = invoice.order
        /\ push'[a].facts = push[a].facts /\ push'[a].settled = push[a].settled
        /\ push'[a].seen = push[a].seen
    BY <1>5, <1>6 DEF Pushes
  <1>8. push' \in [Attempts -> Pushes]
    <2>1. push'[a] \in Pushes
      <3>1. 1 \in 0 .. 2 /\ "sending" \in {"idle", "sending", "observed", "recorded", "over"}
        OBVIOUS
      <3>2. invoice.version \in Versions /\ invoice.order \in Orders \cup {None}
        BY <1>5 DEF Invoices
      <3> QED BY <1>5, <1>6, <3>1, <3>2 DEF Pushes
    <2> QED BY <1>1, <1>5, <1>6, <2>1
  <1>9. /\ invoice' \in Invoices /\ invoice'.readback = None
        /\ invoice'.order = invoice.order /\ invoice'.sync = "sync_uncertain"
        /\ invoice'.version = invoice.version /\ invoice'.attempt = a
        /\ invoice'.task = invoice.task /\ invoice'.leased
    <2>1. [invoice EXCEPT !.sync = "sync_uncertain", !.attempt = a, !.leased = TRUE] \in Invoices
      BY <1>5 DEF Invoices
    <2>2. invoice \in Invoices /\ a # 0
      BY <1>5
    <2> QED BY <1>1, <2>1, <2>2, WriteSays DEF Invoices
  <1>10. /\ push[a].settled = {} /\ push[a].via = None /\ push[a].target = None
         /\ \A k \in Rounds : post[<<a, k>>] = "none" /\ push[a].facts[k] = "none"
    BY <1>1, <1>5 DEF ExecutorFits
  <1>11. \A b \in Attempts \ {a} : ExecutorFits(b)' /\ (Barren(b) => Barren(b)')
    BY <1>1, <1>4, <1>5, <1>6, OthersStay
  <1>12. ExecutorFits(a)'
    <2>1. post'[<<a, 1>>] = "ticket" /\ post'[<<a, 2>>] = "none" /\ OnWire(a)' = <<a, 1>>
      BY <1>2, <1>4, <1>5, <1>7, <1>10 DEF OnWire
    <2>2. \A k \in Rounds : Means(<<a, k>>, push[a].facts[k])'
      BY <1>7, <1>10 DEF Means
    <2> QED BY <1>5, <1>7, <1>10, <2>1, <2>2 DEF ExecutorFits
  <1>13. \A d \in created : d[1] # a /\ d[1] \in Attempts
    <2>1. SUFFICES ASSUME NEW d \in created PROVE d[1] # a /\ d[1] \in Attempts
      OBVIOUS
    <2> QED BY <1>1, HasStarted
  <1>14. TasksFit' /\ run' \in [Runs -> RunRows]
    <2>1. CASE via = None
      <3>1. UNCHANGED <<task, run>> /\ run \in [Runs -> RunRows]
        BY <1>1, <2>1, RowSays
      <3>2. invoice.task = 0 \/ task[invoice.task].status # "running" \/ invoice'.attempt = invoice.attempt
        BY <2>1 DEF Claim
      <3> QED BY <1>1, <1>4, <1>5, <1>6, <1>7, <1>9, <1>10, <1>11, <2>1, <3>1, <3>2, TasksKept
    <2>2. CASE via # None
      BY <1>1, <1>4, <1>5, <1>6, <1>7, <1>9, <1>11, <2>2, TasksCalled
    <2> QED BY <2>1, <2>2
  <1>15. Types'
    BY <1>1, <1>8, <1>9, <1>14 DEF IInv, Types
  <1>16. InvoiceFits'
    <2>1. \A b \in Attempts : push[b].target # None => push[b].target = invoice.order
      BY DEF IInv, InvoiceFits
    <2>2. \A b \in Attempts : push'[b].target # None => push'[b].target = invoice'.order
      <3>1. ASSUME NEW b \in Attempts, b # a, push'[b].target # None
            PROVE  push'[b].target = invoice'.order
        <4>1. push'[b] = push[b]
          BY <1>6, <3>1
        <4> QED BY <1>9, <2>1, <3>1, <4>1
      <3> QED BY <1>7, <1>9, <3>1
    <2>3. /\ Uncertain' /\ Started(a)' /\ push'[a].settled = {}
          /\ push'[a].version = invoice'.version /\ push'[a].target = invoice'.order
      BY <1>7, <1>9, <1>10 DEF Uncertain, Started
    <2> QED BY <1>5, <1>9, <2>2, <2>3 DEF InvoiceFits
  <1>17. \A d \in Requests : d[1] # a => OrderOf(d)' = OrderOf(d)
    BY <1>6, Keys DEF OrderOf
  <1>18. NothingLost'
    <2>1. a \in Unresolved'
      BY <1>7, <1>10 DEF Unresolved, Started
    <2>2. ASSUME NEW b \in Attempts, NEW k \in Rounds, push'[b].facts[k] = "accepted"
          PROVE  OrderOf(<<b, k>>)' = invoice'.order
      <3>1. b # a
        BY <1>7, <1>10, <2>2
      <3>2. push[b].facts[k] = "accepted" /\ <<b, k>> \in Requests /\ <<b, k>>[1] = b
        BY <1>6, <2>2, <3>1, Keys
      <3> QED BY <1>1, <1>9, <1>17, <3>1, <3>2 DEF IInv, NothingLost
    <2> QED BY <1>4, <1>5, <2>1, <2>2 DEF NothingLost
  <1>19. HoldsOrders'
    BY <1>1, <1>4, <1>9, <1>13, <1>17, RowSays DEF IInv, HoldsOrders
  <1>20. OneOrder'
    <2>1. ASSUME prompt, NEW o \in Orders, content[o] # None
          PROVE  o = invoice.order
      BY <1>5, <2>1, <1>13, Keys DEF IInv, OneOrder
    <2>2. ASSUME prompt, NEW d \in Requests, Alive(d)', ~outlived \/ push'[d[1]].target = None
          PROVE  d = c
      <3>1. SUFFICES ASSUME d # c PROVE FALSE
        OBVIOUS
      <3>2. Alive(d) /\ d[1] \in Attempts
        BY <1>4, <2>2, <3>1, Keys DEF Alive
      <3>3. d[1] # a
        BY <1>1, <2>2, <3>2, AliveSays
      <3>4. ~outlived \/ push[d[1]].target = None
        BY <1>6, <2>2, <3>2, <3>3
      <3> QED BY <1>4, <2>2, <3>2, <3>4, AliveSays
    <2>3. ASSUME prompt, NEW d \in Requests, Alive(d)', ~outlived \/ push'[d[1]].target = None
          PROVE  /\ d[1] = a /\ claims'[d].leased /\ Sent!Open(d)'
                 /\ push'[d[1]].target = invoice.order
                 /\ invoice.order = None => \A o \in Orders : content[o] = None
                 /\ ~outlived => invoice'.leased /\ invoice'.readback = None
      <3>1. d = c
        BY <2>2, <2>3
      <3>2. invoice.order = None => \A o \in Orders : content[o] = None
        BY <2>1, <2>3, Keys
      <3> QED BY <1>4, <1>5, <1>7, <1>9, <3>1, <3>2
    <2> QED BY <1>1, <1>4, <1>9, <2>1, <2>3 DEF OneOrder
  <1>21. Current'
    BY <1>4, <1>9, <1>13 DEF Current
  <1> QED BY <1>4, <1>11, <1>12, <1>14, <1>15, <1>16, <1>18, <1>19, <1>20, <1>21 DEF IInv

\* The outcome is applied by the executor that still has the row: what was accepted is bound,
\* what was refused is settled, and anything else stays with the attempt.
LEMMA ApplyKeeps ==
  ASSUME IInv, NEW a \in Attempts, NEW verified \in BOOLEAN, Apply(a, verified)
  PROVE  IInv'
  <1> DEFINE ok == push[a].seen = "accepted" /\ verified
             settled == IF ok \/ Rejected(a) THEN {push[a].facts} ELSE {}
             new == CASE ok -> [invoice EXCEPT !.order = OrderOf(OnWire(a)), !.sync = "synced", !.attempt = 0]
                      [] push[a].seen = "accepted" /\ ~verified -> [invoice EXCEPT !.order = OrderOf(OnWire(a))]
                      [] Rejected(a) -> [invoice EXCEPT !.sync = "sync_failed", !.attempt = 0]
                      [] OTHER -> invoice
             result == IF ok THEN "ok" ELSE IF push[a].seen = "accepted" THEN "pending" ELSE "plain"
  <1>1. /\ push[a].stage = "recorded" /\ Owns(a) /\ Write(new) /\ Over(a, settled)
        /\ Back(a, "returned", result) /\ UNCHANGED <<task, content, sending>>
        /\ UNCHANGED <<authority, claims, evidence, post, reply, inflight, created, prompt, outlived>>
    BY DEF Apply, sending
  <1>2. PICK c \in Requests : c = OnWire(a)
    BY <1>1, AtWork
  <1>3. /\ push[a].round \in {1, 2} /\ c[1] = a /\ c = <<a, push[a].round>> /\ ExecutorFits(a)
        /\ push[a] \in Pushes /\ Rounds = {1, 2} /\ Sent!RequestFits(c) /\ a # 0
        /\ invoice \in Invoices /\ OrderOf(c) \in Orders
        /\ \A k \in Rounds : <<a, k>> \in Requests /\ (<<a, k>> # c <=> k # push[a].round)
    BY <1>1, <1>2, AtWork, RowSays, Named, Keys
  <1>4. /\ invoice.attempt = a /\ ~Sent!Frozen /\ Uncertain
        /\ push[a].settled = {} /\ push[a].version = invoice.version
        /\ push[a].target = invoice.order /\ a \in Unresolved
    BY <1>1, <1>3, OpenMeans, RowSays DEF Owns, IInv, InvoiceFits
  <1>5. /\ Means(c, push[a].seen) /\ (prompt => c \notin inflight)
        /\ push[a].seen # "unknown" => ~Sent!Open(c)
        /\ push[a].facts[push[a].round] = push[a].seen /\ push[a].facts \in Facts
    BY <1>1, <1>2, <1>3, <1>4 DEF ExecutorFits, Closed, Pushes
  <1>6. \A k \in Rounds : k # push[a].round =>
           /\ <<a, k>> \notin created \cup inflight /\ ~Alive(<<a, k>>) /\ ~Sent!Open(<<a, k>>)
           /\ push[a].facts[k] \in {"none", "auth_rejected"}
    BY <1>1, <1>4, OnlyOneMatters DEF Closed
  <1>7. \A d \in Requests : d[1] = a => d = c \/
           (d \notin created \cup inflight /\ ~Alive(d) /\ ~Sent!Open(d))
    <2>1. SUFFICES ASSUME NEW d \in Requests, d[1] = a, d # c
                   PROVE  d \notin created \cup inflight /\ ~Alive(d) /\ ~Sent!Open(d)
      OBVIOUS
    <2>2. d = <<a, d[2]>> /\ d[2] \in Rounds
      BY <2>1, Keys
    <2> QED BY <1>3, <1>6, <2>1, <2>2
  <1>8. /\ settled \in SUBSET {push[a].facts} /\ settled \subseteq Facts
        /\ ok \/ Rejected(a) <=> settled # {}
        /\ result \in {"ok", "pending", "plain"}
        /\ result = "ok" <=> ok
        /\ result = "plain" <=> push[a].seen # "accepted"
    BY <1>5
  <1>9. new \in Invoices
    BY <1>2, <1>3, Keys DEF Invoices
  <1>10. /\ new.version = invoice.version /\ new.task = invoice.task
         /\ new.order = IF push[a].seen = "accepted" THEN OrderOf(c) ELSE invoice.order
         /\ new.attempt = IF ok \/ Rejected(a) THEN 0 ELSE a
         /\ new.sync = IF ok THEN "synced" ELSE IF Rejected(a) THEN "sync_failed" ELSE "sync_uncertain"
    <2>1. CASE ok
      <3>1. push[a].seen = "accepted"
        BY <2>1
      <3>2. new = [invoice EXCEPT !.order = OrderOf(OnWire(a)), !.sync = "synced", !.attempt = 0]
        BY <2>1 DEF Rejected
      <3> HIDE DEF new, ok
      <3>3. /\ new.version = invoice.version /\ new.task = invoice.task /\ new.attempt = 0
            /\ new.order = OrderOf(OnWire(a)) /\ new.sync = "synced"
        BY <1>3, <3>2 DEF Invoices
      <3> QED BY <1>2, <2>1, <3>1, <3>3
    <2>2. CASE push[a].seen = "accepted" /\ ~ok
      <3>1. new = [invoice EXCEPT !.order = OrderOf(c)] /\ ~Rejected(a)
        BY <1>2, <2>2 DEF Rejected
      <3> QED BY <1>3, <1>4, <2>2, <3>1 DEF Invoices, Uncertain
    <2>3. CASE Rejected(a)
      <3>1. new = [invoice EXCEPT !.sync = "sync_failed", !.attempt = 0] /\ push[a].seen # "accepted"
        BY <2>3 DEF Rejected
      <3> QED BY <1>3, <2>3, <3>1 DEF Invoices
    <2>4. CASE push[a].seen # "accepted" /\ ~Rejected(a)
      <3>1. new = invoice
        BY <2>4
      <3> QED BY <1>4, <2>4, <3>1 DEF Uncertain
    <2> QED BY <2>1, <2>2, <2>3, <2>4
  <1>11. Rejected(a) => push[a].seen # "accepted" /\ c \notin created \cup inflight
    BY <1>5 DEF Rejected, Means
  <1>12. push[a].seen = "accepted" => c \in created
    BY <1>5 DEF Means
  <1>13. push[a].seen = "accepted" /\ ~ok => ~Rejected(a)
    BY DEF Rejected
  <1> DEFINE done == ok \/ Rejected(a)
  <1>14. done => push[a].seen # "unknown"
    BY DEF Rejected
  <1>15. /\ result = "ok" => ok
         /\ result = "plain" => push[a].seen # "accepted"
         /\ result = "plain" /\ Rejected(a) => c \notin created \cup inflight
         /\ result = "plain" /\ ~Rejected(a) => new.attempt = a
    BY <1>8, <1>10, <1>11
  <1>16. /\ ok => push[a].seen = "accepted"
         /\ done <=> settled # {}
         /\ done => settled = {push[a].facts}
         /\ ~done => settled = {}
    BY <1>8
  <1> HIDE DEF new, settled, result, ok, done
  <1>17. /\ invoice' \in Invoices /\ invoice'.readback = None
         /\ invoice'.order = new.order /\ invoice'.sync = new.sync
         /\ invoice'.version = invoice.version /\ invoice'.attempt = new.attempt
         /\ invoice'.task = invoice.task
         /\ (invoice'.leased <=> new.leased /\ new.attempt # 0)
    BY <1>1, <1>9, <1>10, WriteSays
  <1>18. /\ \A b \in Attempts \ {a} : push'[b] = push[b]
         /\ push'[a].stage = "over" /\ push'[a].version = push[a].version
         /\ push'[a].via = push[a].via /\ push'[a].target = push[a].target
         /\ push'[a].facts = push[a].facts /\ push'[a].settled = push[a].settled \cup settled
         /\ push' \in [Attempts -> Pushes]
    BY <1>1, <1>8, OverSays
  <1>19. /\ \A b \in Attempts : ExecutorFits(b)' /\ (Barren(b) => Barren(b)')
         /\ \A k \in Rounds : post'[<<a, k>>] \in {"none", "over"}
    BY <1>1, <1>8, OverKeeps
  <1>20. TasksFit' /\ run' \in [Runs -> RunRows]
    <2>1. result = "ok" => \E k \in Rounds : <<a, k>> \in created
      BY <1>3, <1>12, <1>15, <1>16
    <2>2. result = "plain" => Barren(a)' \/ invoice'.attempt = a
      <3>1. SUFFICES ASSUME result = "plain", Rejected(a)
                     PROVE  Barren(a)'
        BY <1>15, <1>17
      <3>2. \A k \in Rounds : <<a, k>> \notin created \cup inflight
        BY <1>3, <1>6, <1>15, <3>1
      <3> QED BY <1>1, <1>18, <1>19, <3>2 DEF Barren
    <2>3. /\ invoice'.attempt = invoice.attempt \/ invoice.attempt = a
          /\ \A d \in Requests : post[d] # "none" => post'[d] # "none"
          /\ result \in {"none", "ok", "plain", "pending"}
      BY <1>1, <1>4, <1>8
    <2> QED BY <1>1, <1>8, <1>17, <1>19, <2>1, <2>2, <2>3, TasksReturn
  <1>21. Types'
    BY <1>1, <1>17, <1>18, <1>20 DEF IInv, Types
  <1>22. \A b \in Attempts : push'[b].target = push[b].target /\ push'[b].facts = push[b].facts
    BY <1>18
  <1>23. /\ \A d \in Requests : OrderOf(d)' = OrderOf(d)
         /\ \A d \in Requests : (Sent!Open(d)' <=> Sent!Open(d)) /\ (Alive(d)' <=> Alive(d))
         /\ Sent!Frozen' <=> Sent!Frozen
         /\ \A b \in Attempts \ {a} : b \in Unresolved => b \in Unresolved'
         /\ ~done => a \in Unresolved'
    <2>1. \A d \in Requests : OrderOf(d)' = OrderOf(d)
      BY <1>22, Keys DEF OrderOf
    <2>2. ~done => push'[a].settled = push[a].settled
      BY <1>16, <1>18
    <2> QED BY <1>1, <1>4, <1>18, <2>1, <2>2 DEF Sent!Open, Sent!Frozen, Alive, Unresolved, Started
  <1>24. /\ invoice.order # None => invoice'.order = invoice.order
         /\ invoice'.order # invoice.order => /\ push[a].seen = "accepted" /\ c \in created
                                              /\ invoice'.order = c /\ invoice.order = None
    BY <1>4, <1>10, <1>12, <1>17 , Keys, Named, <1>3
  <1>25. InvoiceFits'
    <2>1. \A b \in Attempts : push[b].target # None => push[b].target = invoice.order
      BY DEF IInv, InvoiceFits
    <2>2. \A b \in Attempts : push'[b].target # None => push'[b].target = invoice'.order
      BY <1>22, <1>24, <2>1
    <2>3. Uncertain' <=> invoice'.attempt # 0
      BY <1>3, <1>10, <1>17 DEF Uncertain, done, ok
    <2>4. invoice'.leased => invoice'.attempt # 0
      BY <1>17
    <2>5. invoice'.attempt # 0 => /\ invoice'.attempt = a /\ push'[a].settled = {}
                                  /\ push'[a].version = invoice'.version /\ push'[a].stage = "over"
      BY <1>4, <1>10, <1>16, <1>17, <1>18 DEF done
    <2> QED BY <2>2, <2>3, <2>4, <2>5 DEF InvoiceFits, Started
  <1>26. NothingLost'
    <2>1. ASSUME NEW b \in Attempts, NEW k \in Rounds, push'[b].facts[k] = "accepted"
          PROVE  OrderOf(<<b, k>>)' = invoice'.order \/ b \in Unresolved'
      <3>0. push[b].facts[k] = "accepted" /\ <<b, k>> \in Requests /\ None \notin Orders
        BY <1>22, <2>1, Keys
      <3>1. OrderOf(<<b, k>>)' = OrderOf(<<b, k>>) /\ OrderOf(<<b, k>>) # None
        BY <1>23, <3>0, Named
      <3>2. CASE b = a
        <4>1. k = push[a].round
          BY <1>6, <3>0, <3>2
        <4>2. push[a].seen = "accepted" /\ <<b, k>> = c
          BY <1>3, <1>5, <3>0, <3>2, <4>1
        <4> QED BY <1>10, <1>17, <3>1, <4>2
      <3>3. CASE b # a
        <4>1. OrderOf(<<b, k>>) = invoice.order \/ b \in Unresolved
          BY <3>0 DEF IInv, NothingLost
        <4> QED BY <1>23, <1>24, <3>1, <3>3, <4>1
      <3> QED BY <3>2, <3>3
    <2>2. ASSUME NEW d \in Requests, Sent!Open(d)'
          PROVE  d[1] \in Unresolved'
      <3>1. Sent!Open(d) /\ d[1] \in Unresolved /\ d[1] \in Attempts
        BY <1>4, <1>23, <2>2, Keys DEF IInv, NothingLost
      <3>2. CASE d[1] = a
        <4>1. d = c
          BY <1>7, <3>1, <3>2
        <4>2. ~done
          BY <1>5, <1>14, <3>1, <4>1
        <4> QED BY <1>23, <3>2, <4>2
      <3> QED BY <1>23, <3>1, <3>2
    <2> QED BY <2>1, <2>2 DEF NothingLost
  <1>27. HoldsOrders'
    <2>1. created \subseteq Requests
      BY RowSays
    <2>2. /\ \A d \in created : content[OrderOf(d)] # None
          /\ invoice.order # None => content[invoice.order] # None
      BY DEF IInv, HoldsOrders
    <2>3. \A d \in created : content[OrderOf(d)'] # None
      BY <1>23, <2>1, <2>2
    <2>4. invoice'.order # None => content[invoice'.order] # None
      BY <1>10, <1>12, <1>17, <2>2
    <2> QED BY <1>1, <1>17, <2>3, <2>4 DEF HoldsOrders
  <1>28. OneOrder'
    <2>1. ASSUME prompt, NEW d \in Requests, Alive(d), ~outlived \/ push[d[1]].target = None
          PROVE  FALSE
      <3>1. d[1] = a
        BY <1>4, <2>1, AliveSays
      <3>2. d = c
        BY <1>7, <2>1, <3>1
      <3>3. post[c] = "over"
        <4>1. post[<<a, 1>>] # "none" /\ (push[a].round = 2 => post[<<a, 2>>] # "none")
          BY <1>1, <1>3 DEF ExecutorFits
        <4> QED BY <1>1, <1>3, <4>1 DEF ExecutorFits
      <3> QED BY <1>5, <2>1, <3>2, <3>3 DEF Alive
    <2>2. ASSUME prompt, NEW o \in Orders, content[o] # None
          PROVE  \/ o = invoice'.order
                 \/ /\ invoice'.order = None /\ o \in created /\ o[1] = invoice'.attempt
                    /\ push'[o[1]].target = None
      <3>1. \/ o = invoice.order
            \/ /\ invoice.order = None /\ o \in created /\ o[1] = invoice.attempt
               /\ push[o[1]].target = None
        BY <2>2 DEF IInv, OneOrder
      <3>2. CASE o = invoice.order
        BY <1>24, <3>2, Keys
      <3>3. CASE invoice.order = None /\ o \in created /\ o[1] = a /\ push[a].target = None
        <4>1. o = c
          BY <1>7, <3>3, RowSays
        <4>2. CASE invoice'.order # invoice.order
          BY <1>24, <4>1, <4>2
        <4>3. CASE invoice'.order = invoice.order
          <5>1. push[a].seen # "accepted"
            BY <1>3, <1>10, <1>17, <3>3, <4>3, Keys
          <5>2. ~done
            BY <1>11, <1>16, <3>3, <4>1, <5>1 DEF done
          <5> QED BY <1>10, <1>17, <1>22, <3>3, <4>3, <5>2 DEF done
        <4> QED BY <4>2, <4>3
      <3> QED BY <1>4, <3>1, <3>2, <3>3
    <2>3. \A d \in Requests : push'[d[1]].target = push[d[1]].target
      BY <1>22, Keys
    <2> QED BY <1>1, <1>23, <2>1, <2>2, <2>3 DEF OneOrder
  <1>29. Current'
    <2>1. SUFFICES ASSUME prompt, ~outlived
                   PROVE  /\ \A d \in created : d[1] = invoice'.attempt =>
                                content[OrderOf(d)] = invoice.version
                          /\ invoice'.sync = "synced" =>
                                invoice'.order # None /\ content[invoice'.order] = invoice.version
      BY <1>1, <1>17, <1>23, RowSays DEF Current
    <2>2. \A d \in created : d[1] = a => content[OrderOf(d)] = invoice.version
      BY <1>4, <2>1 DEF IInv, Current
    <2>3. \A d \in created : d[1] # 0
      BY RowSays, Keys
    <2>4. invoice'.sync = "synced" => ok
      BY <1>10, <1>17
    <2> QED BY <1>3, <1>10, <1>12, <1>16, <1>17, <2>2, <2>3, <2>4, Keys
  <1>30. Sent!SendInv'
    BY <1>1, Sent!SendingUntouched DEF IInv
  <1> QED BY <1>19, <1>20, <1>21, <1>25, <1>26, <1>27, <1>28, <1>29, <1>30 DEF IInv

-----------------------------------------------------------------------------
(* Recovery *)

\* A review adds what it has seen to what is settled.
LEMMA SettledSays ==
  ASSUME IInv, NEW a \in Attempts, Settled(a)
  PROVE  /\ \A b \in Attempts \ {a} : push'[b] = push[b]
         /\ push'[a].stage = push[a].stage /\ push'[a].round = push[a].round
         /\ push'[a].via = push[a].via /\ push'[a].version = push[a].version
         /\ push'[a].target = push[a].target /\ push'[a].facts = push[a].facts
         /\ push'[a].seen = push[a].seen
         /\ push'[a].settled = push[a].settled \cup {push[a].facts}
         /\ push' \in [Attempts -> Pushes]
  <1>1. push \in [Attempts -> Pushes] /\ push[a] \in Pushes
    BY RowSays
  <1>2. push'[a] = [push[a] EXCEPT !.settled = push[a].settled \cup {push[a].facts}]
    BY <1>1 DEF Settled, Pushes
  <1>3. \A b \in Attempts \ {a} : push'[b] = push[b]
    BY <1>1 DEF Settled
  <1>4. push'[a] \in Pushes
    <2>1. push[a].settled \cup {push[a].facts} \in SUBSET Facts
      BY <1>1 DEF Pushes
    <2> QED BY <1>1, <1>2, <2>1 DEF Pushes
  <1>5. push' \in [Attempts -> Pushes]
    BY <1>1, <1>4 DEF Settled
  <1> QED BY <1>1, <1>2, <1>3, <1>5 DEF Pushes

\* A review settles an attempt, closes all that is open and releases the row, bound to the
\* order that carries everything the attempt was acknowledged, while nobody acts any more.
LEMMA ReviewKeeps ==
  ASSUME IInv, NEW a \in Attempts, Started(a), Settled(a), invoice.attempt \in {0, a},
         UNCHANGED <<task, run, content, prompt, outlived>>,
         UNCHANGED <<authority, post, inflight, created>>, Sent!SendInv',
         \A c \in Requests : ~Sent!Open(c)',
         \A c \in Requests : ~Sent!Open(c) => claims'[c] = claims[c],
         NEW new \in Invoices, Write(new), new.attempt = 0, new.sync # "sync_uncertain",
         new.task = invoice.task, new.version = invoice.version,
         invoice.order # None => new.order = invoice.order,
         new.order # None => content[new.order] # None,
         Accepted(a) \subseteq {new.order},
         prompt => \A c \in Requests : Alive(c) => outlived /\ push[c[1]].target # None,
         prompt => \A o \in Orders : content[o] # None => o = new.order,
         prompt /\ ~outlived /\ new.sync = "synced" =>
            new.order # None /\ content[new.order] = new.version,
         \/ invoice.attempt = 0 \/ invoice.task = 0
         \/ task[invoice.task].status # "running"
  PROVE  IInv'
  <1>1. /\ \A b \in Attempts \ {a} : push'[b] = push[b]
        /\ push'[a].stage = push[a].stage /\ push'[a].round = push[a].round
        /\ push'[a].via = push[a].via /\ push'[a].version = push[a].version
        /\ push'[a].target = push[a].target /\ push'[a].facts = push[a].facts
        /\ push'[a].seen = push[a].seen
        /\ push'[a].settled = push[a].settled \cup {push[a].facts}
        /\ push' \in [Attempts -> Pushes]
    BY SettledSays
  <1>2. /\ invoice' \in Invoices /\ invoice'.readback = None
        /\ invoice'.order = new.order /\ invoice'.sync = new.sync
        /\ invoice'.version = invoice.version /\ invoice'.attempt = 0
        /\ invoice'.task = invoice.task /\ ~invoice'.leased
    BY WriteSays
  <1>3. Sent!Frozen' <=> Sent!Frozen
    BY DEF Sent!Frozen
  <1>4. /\ \A k \in Rounds : <<a, k>> \in Requests
        /\ Rounds = {1, 2} /\ ExecutorFits(a) /\ push[a].stage # "idle"
    BY Keys DEF IInv, Started
  <1>5. \A b \in Attempts \ {a} : ExecutorFits(b)'
    <2>1. ASSUME NEW b \in Attempts \ {a}
          PROVE  ExecutorFits(b)'
      <3>1. \A k \in Rounds : <<b, k>> \in Requests
        BY Keys
      <3> QED BY <1>1, <1>3, <3>1, OtherExecutor DEF IInv
    <2> QED BY <2>1
  <1>6. \A b \in Attempts : Barren(b) => Barren(b)'
    BY <1>1 DEF Barren
  <1>7. ExecutorFits(a)'
    <2>1. OnWire(a)' = OnWire(a) /\ OnWire(a) = <<a, push[a].round>>
      BY <1>1 DEF OnWire
    <2>2. \A k \in Rounds : Closed(<<a, k>>)'
      BY <1>4 DEF Closed
    <2>3. \A k \in Rounds : \A result : Means(<<a, k>>, result) => Means(<<a, k>>, result)'
      BY DEF Means
    <2>4. \A k \in Rounds : Means(<<a, k>>, push[a].facts[k])'
      BY <1>1, <1>4, <2>3 DEF ExecutorFits
    <2>5. \A f \in push'[a].settled : \A k \in Rounds : f[k] \in {"none", push[a].facts[k]}
      BY <1>1, <1>4 DEF ExecutorFits
    <2>6. push[a].stage \in {"observed", "recorded"} =>
             /\ push[a].seen # "none" /\ Means(OnWire(a), push[a].seen)'
             /\ prompt => OnWire(a) \notin inflight
             /\ Closed(<<a, push[a].round>>)'
      <3>1. SUFFICES ASSUME push[a].stage \in {"observed", "recorded"}
                     PROVE  /\ push[a].seen # "none" /\ Means(OnWire(a), push[a].seen)'
                            /\ prompt => OnWire(a) \notin inflight
                            /\ Closed(<<a, push[a].round>>)'
        OBVIOUS
      <3>2. /\ push[a].round \in Rounds /\ push[a].seen # "none" /\ Means(OnWire(a), push[a].seen)
            /\ prompt => OnWire(a) \notin inflight
        BY <1>4, <3>1 DEF ExecutorFits
      <3>3. Means(OnWire(a), push[a].seen)'
        BY <1>1, <2>1, <3>2 DEF Means
      <3> QED BY <1>1, <2>2, <3>2, <3>3
    <2> QED BY <1>1, <1>4, <2>1, <2>2, <2>4, <2>5, <2>6 DEF ExecutorFits
  <1>8. TasksFit'
    <2>1. \A b \in Attempts : /\ push'[b].via = push[b].via /\ push'[b].version = push[b].version
                              /\ push'[b].stage = push[b].stage
      BY <1>1
    <2> QED BY <1>2, <1>6, <2>1, TasksKept
  <1>9. Types'
    BY <1>1, <1>2, TypesKept
  <1>10. /\ \A b \in Attempts : push'[b].target = push[b].target /\ push'[b].facts = push[b].facts
         /\ \A b \in Attempts : Started(b)' <=> Started(b)
    BY <1>1 DEF Started
  <1>11. \A c \in Requests : OrderOf(c)' = OrderOf(c)
    BY <1>10, Keys DEF OrderOf
  <1>12. InvoiceFits'
    <2>1. \A b \in Attempts : push[b].target # None => push[b].target = invoice.order
      BY DEF IInv, InvoiceFits
    <2> QED BY <1>2, <1>10, <2>1 DEF InvoiceFits, Uncertain
  <1>13. NothingLost'
    <2>1. ASSUME NEW b \in Attempts, NEW k \in Rounds, push'[b].facts[k] = "accepted"
          PROVE  OrderOf(<<b, k>>)' = invoice'.order \/ b \in Unresolved'
      <3>0. push[b].facts[k] = "accepted" /\ <<b, k>> \in Requests /\ None \notin Orders
        BY <1>10, <2>1, Keys
      <3>1. OrderOf(<<b, k>>)' = OrderOf(<<b, k>>) /\ OrderOf(<<b, k>>) # None
        BY <1>11, <3>0, Named
      <3>2. CASE b = a
        BY <1>2, <3>0, <3>1, <3>2 DEF Accepted
      <3>3. CASE b # a
        <4>1. OrderOf(<<b, k>>) = invoice.order \/ b \in Unresolved
          BY <3>0 DEF IInv, NothingLost
        <4>2. b \in Unresolved => b \in Unresolved'
          BY <1>1, <3>3 DEF Unresolved, Started
        <4> QED BY <1>2, <3>1, <4>1, <4>2
      <3> QED BY <3>2, <3>3
    <2> QED BY <2>1 DEF NothingLost
  <1>14. HoldsOrders'
    <2>1. \A c \in created : content[OrderOf(c)'] # None
      BY <1>11, RowSays DEF IInv, HoldsOrders
    <2> QED BY <1>2, <2>1 DEF HoldsOrders
  <1>15. OneOrder'
    <2>1. ASSUME prompt, NEW c \in Requests, Alive(c)', ~outlived \/ push'[c[1]].target = None
          PROVE  FALSE
      <3>1. Alive(c)
        BY <2>1 DEF Alive, Sent!Open
      <3> QED BY <1>10, <2>1, <3>1, Keys
    <2> QED BY <1>2, <2>1 DEF OneOrder
  <1>16. Current'
    <2>1. \A c \in created : c[1] # 0
      BY RowSays, Keys
    <2> QED BY <1>2, <2>1 DEF Current
  <1> QED BY <1>5, <1>7, <1>8, <1>9, <1>12, <1>13, <1>14, <1>15, <1>16 DEF IInv

\* Reviews that name an order close what is open.
LEMMA NamesSays ==
  ASSUME IInv, NEW a \in Attempts, NEW o \in Orders, Names(a, o), UNCHANGED prompt
  PROVE  /\ Accepted(a) \subseteq {o}
         /\ Sent!SendInv' /\ UNCHANGED <<authority, post, inflight, created>>
         /\ \A c \in Requests : ~Sent!Open(c)'
         /\ \A c \in Requests : ~Sent!Open(c) => claims'[c] = claims[c]
  BY SettleEffect DEF Names, IInv

\* An administrator found no order: nothing exists, and no request has its lease any more.
LEMMA NotCreatedKeeps ==
  ASSUME IInv, NEW a \in Attempts, ConfirmNotCreated(a)
  PROVE  IInv'
  <1>1. /\ invoice.attempt = a /\ Uncertain /\ GateOpen /\ invoice.order = None /\ invoice.task = 0
        /\ Accepted(a) = {} /\ \A o \in Requests : content[o] = None
        /\ Sending!ReleaseUnsent(OpenClaims) /\ Write(Ready) /\ Settled(a)
        /\ UNCHANGED <<task, run, content, prompt, outlived>>
    BY DEF ConfirmNotCreated, UnderReview
  <1>2. Started(a) /\ Sent!SendInv /\ ~Sent!Frozen /\ invoice \in Invoices
    BY <1>1, OpenMeans, RowSays, Keys DEF IInv, InvoiceFits
  <1>3. /\ Sent!SendInv' /\ UNCHANGED <<authority, post, inflight, created>>
        /\ \A c \in Requests : /\ ~Sent!Open(c)'
                               /\ ~Sent!Open(c) => claims'[c] = claims[c]
                               /\ Sent!Open(c) => ~claims[c].leased
    BY <1>1, <1>2, ReleaseEffect
  <1>4. /\ Ready \in Invoices /\ Ready.order = None /\ Ready.attempt = 0
        /\ Ready.sync = "not_synced" /\ Ready.task = invoice.task /\ Ready.version = invoice.version
    BY <1>1, <1>2, Keys DEF Ready, Invoices
  <1>5. prompt => \A c \in Requests : Alive(c) => outlived /\ push[c[1]].target # None
    BY <1>3, AliveSays
  <1>6. prompt => \A o \in Orders : content[o] = None
    <2>1. SUFFICES ASSUME prompt, NEW o \in Orders, content[o] # None
                   PROVE  FALSE
      OBVIOUS
    <2>2. o = invoice.order \/ o \in created
      BY <2>1 DEF IInv, OneOrder
    <2> QED BY <1>1, <2>1, <2>2, RowSays, Keys
  <1> QED BY <1>1, <1>2, <1>3, <1>4, <1>5, <1>6, ReviewKeeps

\* Binding a first order that was read: it is the only one, and nobody is to create another.
LEMMA FirstOrderRead ==
  ASSUME IInv, NEW a \in Attempts, invoice.attempt = a, ~invoice.leased, invoice.order = None,
         invoice.readback # None
  PROVE  /\ Started(a) /\ invoice.readback \in Orders /\ invoice \in Invoices
         /\ content[invoice.readback] # None
         /\ prompt => \A c \in Requests : Alive(c) => outlived /\ push[c[1]].target # None
         /\ prompt => \A o \in Orders : content[o] # None => o = invoice.readback
         /\ prompt /\ ~outlived => content[invoice.readback] = invoice.version
  <1>1. /\ Started(a) /\ invoice.readback \in Orders /\ invoice \in Invoices
        /\ content[invoice.readback] # None
    BY RowSays, Keys DEF IInv, InvoiceFits, HoldsOrders, Invoices
  <1>2. prompt => \A c \in Requests : Alive(c) => outlived /\ push[c[1]].target # None
    BY NobodyActs
  <1>3. ASSUME prompt, NEW o \in Orders, content[o] # None
        PROVE  o \in created /\ o[1] = a
    BY <1>3, Keys DEF IInv, OneOrder
  <1>4. prompt => \A o \in Orders : content[o] # None => o = invoice.readback
    BY <1>1, <1>3, OneCreated
  <1>5. prompt /\ ~outlived => content[invoice.readback] = invoice.version
    BY DEF IInv, Current
  <1> QED BY <1>1, <1>2, <1>4, <1>5

\* An administrator binds the order that was read.
LEMMA BindKeeps ==
  ASSUME IInv, NEW a \in Attempts, BindOrder(a)
  PROVE  IInv'
  <1>1. PICK o : o = invoice.readback
    OBVIOUS
  <1>2. /\ invoice.attempt = a /\ ~invoice.leased /\ invoice.order = None /\ invoice.task = 0
        /\ o # None /\ Names(a, o) /\ Write([Ready EXCEPT !.order = o]) /\ Settled(a)
        /\ UNCHANGED <<task, run, content, prompt, outlived>>
    BY <1>1, Keys DEF BindOrder, UnderReview
  <1>3. /\ Started(a) /\ o \in Orders /\ invoice \in Invoices /\ content[o] # None
        /\ prompt => \A c \in Requests : Alive(c) => outlived /\ push[c[1]].target # None
        /\ prompt => \A x \in Orders : content[x] # None => x = o
    BY <1>1, <1>2, FirstOrderRead
  <1>4. /\ Accepted(a) \subseteq {o}
        /\ Sent!SendInv' /\ UNCHANGED <<authority, post, inflight, created>>
        /\ \A c \in Requests : ~Sent!Open(c)'
        /\ \A c \in Requests : ~Sent!Open(c) => claims'[c] = claims[c]
    BY <1>2, <1>3, NamesSays
  <1>5. PICK new \in Invoices : new = [Ready EXCEPT !.order = o]
    BY <1>3, Keys DEF Ready, Invoices
  <1>6. /\ new.order = o /\ new.attempt = 0 /\ new.sync = "not_synced"
        /\ new.task = invoice.task /\ new.version = invoice.version
    BY <1>3, <1>5 DEF Ready, Invoices
  <1> QED BY <1>2, <1>3, <1>4, <1>5, <1>6, ReviewKeeps

\* The automatic query binds a first order whose answer was lost.
LEMMA QueryKeeps ==
  ASSUME IInv, NEW a \in Attempts, QueryBind(a)
  PROVE  IInv'
  <1>1. PICK o : o = invoice.readback
    OBVIOUS
  <1>2. /\ invoice.attempt = a /\ ~invoice.leased /\ invoice.order = None /\ invoice.task = 0
        /\ o # None /\ Names(a, o) /\ Settled(a)
        /\ Write([invoice EXCEPT !.order = o, !.sync = "synced", !.attempt = 0])
        /\ UNCHANGED <<task, run, content, prompt, outlived>>
    BY <1>1 DEF QueryBind
  <1>3. /\ Started(a) /\ o \in Orders /\ invoice \in Invoices /\ content[o] # None
        /\ prompt => \A c \in Requests : Alive(c) => outlived /\ push[c[1]].target # None
        /\ prompt => \A x \in Orders : content[x] # None => x = o
        /\ prompt /\ ~outlived => content[o] = invoice.version
    BY <1>1, <1>2, FirstOrderRead
  <1>4. /\ Accepted(a) \subseteq {o}
        /\ Sent!SendInv' /\ UNCHANGED <<authority, post, inflight, created>>
        /\ \A c \in Requests : ~Sent!Open(c)'
        /\ \A c \in Requests : ~Sent!Open(c) => claims'[c] = claims[c]
    BY <1>2, <1>3, NamesSays
  <1>5. PICK new \in Invoices : new = [invoice EXCEPT !.order = o, !.sync = "synced", !.attempt = 0]
    BY <1>3, Keys DEF Invoices
  <1>6. /\ new.order = o /\ new.attempt = 0 /\ new.sync = "synced"
        /\ new.task = invoice.task /\ new.version = invoice.version
    BY <1>3, <1>5 DEF Invoices
  <1>7. /\ Write(new) /\ new.sync # "sync_uncertain" /\ invoice.attempt \in {0, a}
        /\ invoice.order # None => new.order = invoice.order
        /\ prompt /\ ~outlived => new.order # None /\ content[new.order] = new.version
    BY <1>2, <1>3, <1>5, <1>6
  <1> QED BY <1>2, <1>3, <1>4, <1>6, <1>7, ReviewKeeps

\* An administrator confirms the order the invoice has.
LEMMA ExistingKeeps ==
  ASSUME IInv, NEW a \in Attempts, ConfirmExisting(a)
  PROVE  IInv'
  <1>1. PICK o : o = invoice.readback
    OBVIOUS
  <1>2. /\ invoice.attempt = a /\ invoice.order # None /\ o = invoice.order
        /\ invoice.task # 0 => task[invoice.task].status = "uncertain"
        /\ Names(a, o) /\ Write(Ready) /\ Settled(a)
        /\ UNCHANGED <<task, run, content, prompt, outlived>>
    BY <1>1 DEF ConfirmExisting, UnderReview
  <1>3. /\ Started(a) /\ o \in Orders /\ invoice \in Invoices /\ content[o] # None
    BY <1>2, RowSays, Keys DEF IInv, InvoiceFits, HoldsOrders
  <1>4. /\ Accepted(a) \subseteq {o}
        /\ Sent!SendInv' /\ UNCHANGED <<authority, post, inflight, created>>
        /\ \A c \in Requests : ~Sent!Open(c)'
        /\ \A c \in Requests : ~Sent!Open(c) => claims'[c] = claims[c]
    BY <1>2, <1>3, NamesSays
  <1>5. /\ Ready \in Invoices /\ Ready.order = o /\ Ready.attempt = 0
        /\ Ready.sync = "not_synced" /\ Ready.task = invoice.task /\ Ready.version = invoice.version
    BY <1>2, <1>3, Keys DEF Ready, Invoices
  <1>6. prompt => \A c \in Requests : Alive(c) => outlived /\ push[c[1]].target # None
    BY <1>1, <1>2, NobodyActs
  <1>7. prompt => \A x \in Orders : content[x] # None => x = o
    BY <1>2 DEF IInv, OneOrder
  <1> QED BY <1>2, <1>3, <1>4, <1>5, <1>6, <1>7, ReviewKeeps

\* A late acknowledgement is settled, and its order bound if the row has none.
LEMMA LateKeeps ==
  ASSUME IInv, NEW a \in Attempts, ResolveLate(a)
  PROVE  IInv'
  <1>1. PICK o : o = invoice.readback
    OBVIOUS
  <1>2. /\ invoice.attempt = 0 /\ invoice.task = 0 /\ invoice.sync \in {"not_synced", "synced"}
        /\ a \in Unresolved /\ o # None /\ invoice.order \in {None, o} /\ Names(a, o) /\ Settled(a)
        /\ Write(IF invoice.order = None THEN [Ready EXCEPT !.order = o] ELSE invoice)
        /\ UNCHANGED <<task, run, content, prompt, outlived>>
    BY <1>1 DEF ResolveLate, LateFact
  <1>3. /\ Started(a) /\ o \in Orders /\ invoice \in Invoices /\ content[o] # None
    BY <1>1, <1>2, RowSays, UnresolvedSays DEF IInv, HoldsOrders, Invoices, Started
  <1>4. /\ Accepted(a) \subseteq {o}
        /\ Sent!SendInv' /\ UNCHANGED <<authority, post, inflight, created>>
        /\ \A c \in Requests : ~Sent!Open(c)'
        /\ \A c \in Requests : ~Sent!Open(c) => claims'[c] = claims[c]
    BY <1>2, <1>3, NamesSays
  <1>5. PICK new \in Invoices :
           new = IF invoice.order = None THEN [Ready EXCEPT !.order = o] ELSE invoice
    BY <1>3, Keys DEF Ready, Invoices
  <1>6. /\ new.order = o /\ new.attempt = 0 /\ new.sync # "sync_uncertain"
        /\ new.sync = "synced" => invoice.sync = "synced"
        /\ new.task = invoice.task /\ new.version = invoice.version
    BY <1>2, <1>3, <1>5 DEF Ready, Invoices
  <1>7. prompt => \A c \in Requests : Alive(c) => outlived /\ push[c[1]].target # None
    BY <1>2, NobodyActs
  <1>8. prompt => \A x \in Orders : content[x] # None => x = o
    <2>1. SUFFICES ASSUME prompt, NEW x \in Orders, content[x] # None
                   PROVE  x = o
      OBVIOUS
    <2>2. x = invoice.order \/ (x \in created /\ x[1] = 0)
      BY <1>2, <2>1 DEF IInv, OneOrder
    <2>3. /\ x # None
          /\ \A c \in created : c[1] # 0
      BY <2>1, RowSays, Keys
    <2> QED BY <1>2, <2>2, <2>3
  <1>9. prompt /\ ~outlived /\ new.sync = "synced" => new.order # None /\ content[new.order] = new.version
    BY <1>1, <1>2, <1>6 DEF IInv, Current
  <1>10. /\ Write(new) /\ invoice.attempt \in {0, a}
         /\ invoice.order # None => new.order = invoice.order
    BY <1>2, <1>5, <1>6
  <1> QED BY <1>2, <1>3, <1>4, <1>6, <1>7, <1>8, <1>9, <1>10, ReviewKeeps

-----------------------------------------------------------------------------
(* The row, its tasks and their runs *)

\* An employee edits an invoice that nobody has.
LEMMA EditKeeps ==
  ASSUME IInv, Edit
  PROVE  IInv'
  <1>1. /\ invoice.version < MaxEdits /\ invoice.task = 0 /\ ~Uncertain /\ Write(Edited)
        /\ UNCHANGED <<push, task, run, content, sending>>
        /\ UNCHANGED <<post, inflight, created>>
    BY DEF Edit, Mutable, sending
  <1>2. invoice \in Invoices /\ invoice.attempt = 0 /\ ~invoice.leased
    BY <1>1, RowSays DEF IInv, InvoiceFits
  <1>3. /\ Edited \in Invoices /\ Edited.order = invoice.order /\ Edited.attempt = 0
        /\ Edited.sync # "sync_uncertain" /\ Edited.sync # "synced" /\ Edited.task = 0
        /\ Edited.leased = invoice.leased
    <2>1. invoice.version + 1 \in Versions
      BY <1>1, <1>2, BoundAssumption DEF Invoices, Versions
    <2> QED BY <1>1, <1>2, <2>1 DEF Edited, Invoices, Uncertain
  <1>4. /\ invoice' \in Invoices /\ invoice'.readback = None /\ invoice'.order = invoice.order
        /\ invoice'.attempt = 0 /\ invoice'.sync # "sync_uncertain" /\ invoice'.sync # "synced"
        /\ invoice'.task = 0 /\ ~invoice'.leased
    BY <1>1, <1>3, WriteSays
  <1>5. Types'
    BY <1>1, <1>4, TypesKept DEF IInv, Types, sending
  <1>6. TasksFit'
    BY <1>1, <1>2, <1>4, TasksKept DEF Barren
  <1>7. invoice'.leased = invoice.leased
    BY <1>2, <1>4 DEF Invoices
  <1> QED BY <1>1, <1>2, <1>4, <1>5, <1>6, <1>7, RowMoves DEF Uncertain, sending

\* The lease of an attempt ends when what it sent can no longer act, or it is outlived.
LEMMA RowLeaseKeeps ==
  ASSUME IInv, LeaseExpires
  PROVE  IInv'
  <1>1. /\ invoice.attempt # 0 /\ invoice.leased
        /\ ~outlived' => \A c \in ClaimsOf(invoice.attempt) \cap OpenClaims : ~claims[c].leased
        /\ outlived => outlived'
        /\ outlived' \in BOOLEAN
        /\ invoice' = [invoice EXCEPT !.leased = FALSE]
        /\ UNCHANGED <<push, task, run, content,
                       authority, claims, evidence, post, reply, inflight, created, prompt>>
        /\ UNCHANGED <<post, inflight, created>>
    BY DEF LeaseExpires, sending
  <1>2. /\ invoice' \in Invoices /\ invoice'.readback = invoice.readback /\ invoice'.order = invoice.order
        /\ invoice'.attempt = invoice.attempt /\ invoice'.sync = invoice.sync
        /\ invoice'.task = invoice.task /\ ~invoice'.leased /\ invoice'.version = invoice.version
    BY <1>1, RowSays DEF Invoices
  <1>3. prompt /\ ~outlived' => \A c \in Requests : ~Alive(c)
    <2>1. SUFFICES ASSUME prompt, ~outlived', NEW c \in Requests, Alive(c)
                   PROVE  FALSE
      OBVIOUS
    <2>2. c[1] = invoice.attempt /\ claims[c].leased /\ Sent!Open(c)
      BY <1>1, <2>1, AliveSays
    <2>3. c \in ClaimsOf(invoice.attempt) /\ c \in OpenClaims
      BY <2>2, OpenMeans DEF IInv, ClaimsOf, Sent!Open
    <2> QED BY <1>1, <2>1, <2>2, <2>3
  <1>4. Types'
    BY <1>1, <1>2, TypesKept DEF IInv, Types
  <1>5. TasksFit'
    BY <1>1, <1>2, TasksKept DEF Barren
  <1> QED BY <1>1, <1>2, <1>3, <1>4, <1>5, RowMoves DEF Uncertain, sending

\* What is read while nobody acts is what the invoice says.
LEMMA ReadKeeps ==
  ASSUME IInv, NEW o \in Orders, ReadBack(o)
  PROVE  IInv'
  <1>1. /\ content[o] = invoice.version /\ invoice' = [invoice EXCEPT !.readback = o]
        /\ invoice.attempt # 0 => ~invoice.leased
        /\ UNCHANGED <<push, task, run, content, sending>>
        /\ UNCHANGED <<post, inflight, created>>
    BY DEF ReadBack, UnderReview, LateFact, sending
  <1>2. /\ invoice' \in Invoices /\ invoice'.readback = o /\ invoice'.order = invoice.order
        /\ invoice'.attempt = invoice.attempt /\ invoice'.sync = invoice.sync
        /\ invoice'.task = invoice.task /\ invoice'.leased = invoice.leased
        /\ invoice'.version = invoice.version
    BY <1>1, RowSays DEF Invoices
  <1>3. prompt /\ ~outlived => \A c \in Requests : ~Alive(c)
    BY <1>1, NobodyActs
  <1>4. Types'
    BY <1>1, <1>2, TypesKept DEF IInv, Types, sending
  <1>5. TasksFit'
    BY <1>1, <1>2, TasksKept DEF Barren
  <1> QED BY <1>1, <1>2, <1>3, <1>4, <1>5, RowMoves DEF Uncertain, sending

\* A linked task is registered for an invoice that nobody has.
LEMMA CreateTaskKeeps ==
  ASSUME IInv, NEW t \in Tasks, CreateTask(t)
  PROVE  IInv'
  <1>1. /\ task[t].status = "none" /\ invoice.version < MaxEdits /\ invoice.task = 0 /\ ~Uncertain
        /\ Write([Edited EXCEPT !.task = t])
        /\ task' = [task EXCEPT ![t].status = "pending", ![t].after = Edited.version]
        /\ UNCHANGED <<push, run, content, sending>>
        /\ UNCHANGED <<post, inflight, created>>
    BY DEF CreateTask, Mutable, sending
  <1>2. /\ invoice \in Invoices /\ invoice.attempt = 0 /\ ~invoice.leased
        /\ task \in [Tasks -> TaskRows] /\ t # 0 /\ t \in 0 .. MaxTasks
    BY <1>1, RowSays, Keys DEF IInv, InvoiceFits
  <1>3. Edited.version \in Versions
    BY <1>1, <1>2, BoundAssumption DEF Invoices, Versions, Edited
  <1>4. PICK new \in Invoices :
           /\ Write(new) /\ new.order = invoice.order /\ new.attempt = 0
           /\ new.sync # "sync_uncertain" /\ new.sync # "synced" /\ new.task = t
           /\ new.version = Edited.version
    <2>1. /\ [Edited EXCEPT !.task = t].order = invoice.order
          /\ [Edited EXCEPT !.task = t].attempt = 0
          /\ [Edited EXCEPT !.task = t].sync # "sync_uncertain"
          /\ [Edited EXCEPT !.task = t].sync # "synced"
          /\ [Edited EXCEPT !.task = t].task = t
          /\ [Edited EXCEPT !.task = t].version = Edited.version
      BY <1>1, <1>2, <1>3 DEF Edited, Invoices, Uncertain
    <2>2. [Edited EXCEPT !.task = t] \in Invoices
      BY <1>1, <1>2, <1>3 DEF Edited, Invoices, Uncertain
    <2> QED BY <1>1, <2>1, <2>2
  <1>5. /\ invoice' \in Invoices /\ invoice'.readback = None /\ invoice'.order = invoice.order
        /\ invoice'.attempt = 0 /\ invoice'.sync # "sync_uncertain" /\ invoice'.sync # "synced"
        /\ invoice'.task = t /\ ~invoice'.leased /\ invoice'.version = Edited.version
    BY <1>4, WriteSays
  <1>6. /\ \A u \in Tasks \ {t} : task'[u] = task[u]
        /\ task'[t].status = "pending" /\ task'[t].after = Edited.version
        /\ task'[t].step = task[t].step /\ task' \in [Tasks -> TaskRows]
    <2>1. [task[t] EXCEPT !.status = "pending", !.after = Edited.version] \in TaskRows
      BY <1>2, <1>3 DEF TaskRows
    <2>2. task' = [task EXCEPT ![t] = [task[t] EXCEPT !.status = "pending", !.after = Edited.version]]
      BY <1>1, <1>2
    <2> QED BY <1>2, <2>1, <2>2 DEF TaskRows
  <1>7. Types'
    BY <1>1, <1>5, <1>6 DEF IInv, Types, sending
  <1>8. /\ \A u \in Tasks : TaskFits(u)
        /\ \A r \in Runs : RunFits(r) /\ r[1] \in Tasks
        /\ \A a \in Attempts : ViaFits(a)
        /\ \A a \in Attempts : push[a].via = None \/ push[a].via[1] # t
        /\ \A r \in Runs : r[1] = t => run[r].stage = "idle"
        /\ task[t].step # "done"
    BY <1>1, Keys DEF IInv, TasksFit, TaskFits
  <1>9. \A u \in Tasks \ {t} : Written(u)' <=> Written(u)
    BY <1>1, <1>6 DEF Written
  <1>10. \A a \in Attempts : Barren(a)' <=> Barren(a)
    BY <1>1 DEF Barren
  <1>11. \A a \in Attempts : ViaFits(a)'
    <2>1. ASSUME NEW a \in Attempts, push[a].via # None
          PROVE  ViaFits(a)'
      <3>1. push[a].via \in Runs /\ push[a].via[1] \in Tasks \ {t}
        BY <1>8, <2>1, RowSays, Keys DEF Pushes
      <3> QED BY <1>1, <1>6, <1>8, <2>1, <3>1 DEF ViaFits
    <2> QED BY <1>1, <2>1 DEF ViaFits
  <1>12. \A r \in Runs : RunFits(r)'
    <2>1. ASSUME NEW r \in Runs
          PROVE  RunFits(r)'
      <3>1. CASE r[1] = t
        <4>1. RunFits(r) /\ run[r].stage = "idle"
          BY <1>8, <3>1
        <4> QED BY <1>1, <1>6, <3>1, <4>1 DEF RunFits
      <3>2. CASE r[1] # t
        <4>1. RunFits(r) /\ task'[r[1]] = task[r[1]] /\ (Written(r[1])' <=> Written(r[1]))
          BY <1>6, <1>8, <1>9, <3>2
        <4> QED BY <1>1, <1>2, <1>5, <1>10, <4>1 DEF RunFits
      <3> QED BY <3>1, <3>2
    <2> QED BY <2>1
  <1>13. \A u \in Tasks : TaskFits(u)'
    <2>1. TaskFits(t)'
      BY <1>1, <1>5, <1>6, <1>8 DEF TaskFits
    <2>2. ASSUME NEW u \in Tasks \ {t}
          PROVE  TaskFits(u)'
      <3>1. u # 0
        BY Keys
      <3> QED BY <1>1, <1>5, <1>6, <1>8, <1>9, <1>10, <3>1 DEF TaskFits
    <2> QED BY <2>1, <2>2
  <1>14. TasksFit'
    BY <1>11, <1>12, <1>13 DEF TasksFit
  <1>15. invoice'.leased = invoice.leased
    BY <1>2, <1>5 DEF Invoices
  <1> QED BY <1>1, <1>2, <1>5, <1>7, <1>14, <1>15, RowMoves DEF Uncertain, sending

\* A step of one task and of runs of it, which owns the row or gets it, or gives it back.
LEMMA TaskMoves ==
  ASSUME IInv, UNCHANGED <<push, content, sending>>,
         NEW t \in Tasks, NEW R \in SUBSET Runs,
         task' \in [Tasks -> TaskRows], run' \in [Runs -> RunRows], invoice' \in Invoices,
         \A u \in Tasks \ {t} : task'[u] = task[u],
         \A q \in Runs \ R : run'[q] = run[q],
         \A q \in R : q[1] = t /\ RunFits(q)',
         \A a \in Attempts : push[a].via \in R =>
            /\ run'[push[a].via].stage \notin {"idle", "claimed", "sending"}
            /\ push[a].stage # "over" => run'[push[a].via].stage = "pushing"
            /\ run'[push[a].via].before \subseteq run[push[a].via].before,
         task'[t].after = task[t].after, task'[t].status # "none",
         \A q \in Runs \ R : q[1] = t /\ task'[t].status = "running" /\ task'[t].token = q[2] =>
            task[t].status = "running" /\ task[t].token = q[2],
         task'[t].status \in {"pending", "failed"} /\ task'[t].step # "done" =>
            \A a \in Attempts : push[a].via # None /\ push[a].via[1] = t => Barren(a),
         task'[t].step = "done" => Written(t),
         invoice.task \in {0, t}, invoice'.task \in {0, t},
         task'[t].status \in {"pending", "running", "uncertain", "failed"} <=> invoice'.task = t,
         invoice'.task = t => invoice.version = task[t].after,
         invoice'.order = invoice.order, invoice'.sync = invoice.sync,
         invoice'.version = invoice.version, invoice'.attempt = invoice.attempt,
         invoice'.leased = invoice.leased, invoice'.readback \in {None, invoice.readback}
  PROVE  IInv'
  <1>1. UNCHANGED <<post, inflight, created>>
    BY DEF sending
  <1>2. Types'
    BY DEF IInv, Types, sending
  <1>3. /\ \A u \in Tasks : TaskFits(u) /\ u # 0
        /\ \A r \in Runs : RunFits(r) /\ r[1] \in Tasks
        /\ \A a \in Attempts : ViaFits(a)
        /\ \A a \in Attempts : push[a].via # None => push[a].via \in Runs
    BY Keys, RowSays DEF IInv, TasksFit, Pushes
  <1>4. \A u \in Tasks : task'[u].after = task[u].after
    OBVIOUS
  <1>5. \A u \in Tasks : Written(u)' <=> Written(u)
    BY <1>1, <1>4 DEF Written
  <1>6. \A a \in Attempts : Barren(a)' <=> Barren(a)
    BY <1>1 DEF Barren
  <1>7. \A a \in Attempts : ViaFits(a)'
    <2>1. ASSUME NEW a \in Attempts, push[a].via # None
          PROVE  ViaFits(a)'
      <3>1. ViaFits(a) /\ push[a].via \in Runs /\ push[a].via[1] \in Tasks
        BY <1>3, <2>1
      <3>2. CASE push[a].via \in R
        BY <1>4, <2>1, <3>1, <3>2 DEF ViaFits
      <3>3. CASE push[a].via \notin R
        <4>1. run'[push[a].via] = run[push[a].via]
          BY <3>1, <3>3
        <4> QED BY <1>4, <2>1, <3>1, <4>1 DEF ViaFits
      <3> QED BY <3>2, <3>3
    <2> QED BY <2>1 DEF ViaFits
  <1>8. \A r \in Runs : RunFits(r)'
    <2>1. ASSUME NEW r \in Runs \ R
          PROVE  RunFits(r)'
      <3>1. RunFits(r) /\ r[1] \in Tasks /\ run'[r] = run[r]
        BY <1>3, <2>1
      <3>2. task'[r[1]].status = "running" /\ task'[r[1]].token = r[2] =>
               task[r[1]].status = "running" /\ task[r[1]].token = r[2]
        BY <2>1, <3>1
      <3> QED BY <1>1, <1>5, <1>6, <3>1, <3>2 DEF RunFits
    <2> QED BY <2>1
  <1>9. \A u \in Tasks : TaskFits(u)'
    <2>1. TaskFits(t)'
      BY <1>5, <1>6 DEF TaskFits
    <2>2. ASSUME NEW u \in Tasks \ {t}
          PROVE  TaskFits(u)'
      <3>1. TaskFits(u) /\ invoice.task # u /\ invoice'.task # u /\ task'[u] = task[u]
        BY <1>3
      <3>2. \A r \in Runs : r[1] = u => run'[r] = run[r]
        OBVIOUS
      <3> QED BY <1>5, <1>6, <3>1, <3>2 DEF TaskFits
    <2> QED BY <2>1, <2>2
  <1>10. TasksFit'
    BY <1>7, <1>8, <1>9 DEF TasksFit
  <1>11. Uncertain' <=> Uncertain
    BY DEF Uncertain
  <1> QED BY <1>2, <1>10, <1>11, RowMoves DEF sending

\* A run says the same of its own as long as its task does not become its own.
LEMMA RunStays ==
  ASSUME IInv, UNCHANGED <<push, content, sending>>, NEW r \in Runs,
         task'[r[1]].after = task[r[1]].after, invoice'.attempt = invoice.attempt,
         run'[r].before \subseteq run[r].before,
         run'[r].stage = "returned" => run'[r].result \in {"ok", "plain", "pending"},
         run'[r].stage = "returned" /\ run'[r].result = "ok" => Written(r[1]),
         run'[r].stage \in {"judged", "stepped"} =>
            /\ run'[r].result \in {"done", "failed", "uncertain"}
            /\ run'[r].result = "done" => Written(r[1]),
         task'[r[1]].status = "running" /\ task'[r[1]].token = r[2] =>
            /\ run'[r].stage # "idle"
            /\ run'[r].stage # "stepped" \/ run'[r].result # "done" => \A a \in Attempts :
                  push[a].via # None /\ push[a].via[1] = r[1] /\ push[a].via # r =>
                     Barren(a) \/ run'[r].stage = "over"
            /\ run'[r].stage = "returned" /\ run'[r].result = "plain" => \A a \in Attempts :
                  push[a].via = r => Barren(a) \/ a = invoice.attempt
            /\ run'[r].stage \in {"judged", "stepped"} /\ run'[r].result = "failed" =>
                  \A a \in Attempts : push[a].via = r => Barren(a)
  PROVE  RunFits(r)'
  <1>1. UNCHANGED <<post, inflight, created>>
    BY DEF sending
  <1>2. Written(r[1])' <=> Written(r[1])
    BY <1>1 DEF Written
  <1>3. \A a \in Attempts : Barren(a)' <=> Barren(a)
    BY <1>1 DEF Barren
  <1>4. \A c \in run'[r].before : post'[c] # "none"
    BY <1>1 DEF IInv, TasksFit, RunFits
  <1> QED BY <1>1, <1>2, <1>3, <1>4 DEF RunFits

\* A task that ends, or waits again.
LEMMA TaskToSays ==
  ASSUME IInv, NEW t \in Tasks, NEW status, NEW step, TaskTo(t, status, step)
  PROVE  /\ \A u \in Tasks \ {t} : task'[u] = task[u]
         /\ task'[t].status = status /\ task'[t].step = step /\ task'[t].token = 0
         /\ task'[t].after = task[t].after
         /\ status \in {"pending", "uncertain", "failed", "manual", "done"}
            /\ step \in {"pending", "sending", "uncertain", "failed", "done"}
               => task' \in [Tasks -> TaskRows]
  <1>1. task \in [Tasks -> TaskRows] /\ task[t] \in TaskRows /\ 0 \in 0 .. MaxRuns
    BY RowSays, Keys
  <1>2. task'[t] = [task[t] EXCEPT !.status = status, !.step = step, !.token = 0, !.leased = FALSE]
    BY <1>1 DEF TaskTo, TaskRows
  <1>3. \A u \in Tasks \ {t} : task'[u] = task[u]
    BY <1>1 DEF TaskTo
  <1>4. status \in {"pending", "uncertain", "failed", "manual", "done"}
           /\ step \in {"pending", "sending", "uncertain", "failed", "done"} => task'[t] \in TaskRows
    BY <1>1, <1>2 DEF TaskRows
  <1>5. task'[t] \in TaskRows => task' \in [Tasks -> TaskRows]
    BY <1>1 DEF TaskTo
  <1> QED BY <1>1, <1>2, <1>3, <1>4, <1>5 DEF TaskRows

\* The row is given to a task, or taken from it, and nothing else of it changes.
LEMMA OwnerSays ==
  ASSUME IInv, NEW t \in 0 .. MaxTasks, Write([invoice EXCEPT !.task = t])
  PROVE  /\ invoice' \in Invoices /\ invoice'.readback = None /\ invoice'.task = t
         /\ invoice'.order = invoice.order /\ invoice'.sync = invoice.sync
         /\ invoice'.version = invoice.version /\ invoice'.attempt = invoice.attempt
         /\ invoice'.leased = invoice.leased
  <1>1. invoice \in Invoices /\ (invoice.leased => invoice.attempt # 0)
    BY RowSays DEF IInv, InvoiceFits
  <1>2. PICK new \in Invoices : new = [invoice EXCEPT !.task = t]
    BY <1>1 DEF Invoices
  <1>3. /\ Write(new) /\ new.order = invoice.order /\ new.sync = invoice.sync
        /\ new.version = invoice.version /\ new.attempt = invoice.attempt
        /\ new.leased = invoice.leased /\ new.task = t
    BY <1>1, <1>2 DEF Invoices
  <1>4. /\ invoice' \in Invoices /\ invoice'.readback = None
        /\ invoice'.order = new.order /\ invoice'.sync = new.sync
        /\ invoice'.version = new.version /\ invoice'.attempt = new.attempt
        /\ invoice'.task = new.task /\ (invoice'.leased <=> new.leased /\ new.attempt # 0)
    BY <1>3, WriteSays
  <1>5. invoice'.leased \in BOOLEAN /\ invoice.leased \in BOOLEAN
    BY <1>1, <1>4 DEF Invoices
  <1> QED BY <1>1, <1>3, <1>4, <1>5

\* The task that a run still owns.
LEMMA PhaseSays ==
  ASSUME IInv, NEW r \in Runs, Phase(r)
  PROVE  /\ r[1] \in Tasks /\ invoice.task = r[1] /\ task[r[1]].status = "running"
         /\ task[r[1]].token = r[2] /\ invoice.version = task[r[1]].after /\ r[2] # 0
         /\ TaskFits(r[1]) /\ RunFits(r) /\ task[r[1]] \in TaskRows
         /\ \A q \in Runs \ {r} : q[1] = r[1] => q[2] # r[2]
  BY RowSays, Keys DEF Phase, OwnsRun, IInv, TasksFit

\* The attempts that serve a run.
LEMMA ViaSays ==
  ASSUME IInv, NEW r \in Runs
  PROVE  /\ RunFits(r) /\ r[1] \in Tasks /\ TaskFits(r[1]) /\ run[r] \in RunRows
         /\ \A a \in Attempts : push[a].via = r =>
               /\ run[r].stage \notin {"idle", "claimed", "sending"}
               /\ push[a].stage # "over" => run[r].stage = "pushing"
               /\ <<a, 1>> \notin run[r].before
               /\ push[a].stage # "idle" /\ post[<<a, 1>>] # "none"
  <1>1. RunFits(r) /\ r[1] \in Tasks /\ TaskFits(r[1]) /\ run[r] \in RunRows /\ r # None
    BY RowSays, Keys DEF IInv, TasksFit
  <1>2. ASSUME NEW a \in Attempts, push[a].via = r
        PROVE  /\ run[r].stage \notin {"idle", "claimed", "sending"}
               /\ push[a].stage # "over" => run[r].stage = "pushing"
               /\ <<a, 1>> \notin run[r].before
               /\ push[a].stage # "idle" /\ post[<<a, 1>>] # "none"
    <2>1. ViaFits(a) /\ ExecutorFits(a)
      BY DEF IInv, TasksFit
    <2> QED BY <1>1, <1>2, <2>1 DEF ViaFits, ExecutorFits
  <1> QED BY <1>1, <1>2

\* A run starts: of a task that came to nothing so far, or whose order is written.
LEMMA StartKeeps ==
  ASSUME IInv, NEW r \in Runs, StartRun(r)
  PROVE  IInv'
  <1>1. PICK t \in Tasks : t = r[1] /\ t # 0 /\ t \in 0 .. MaxTasks /\ r[2] \in 0 .. MaxRuns
    BY Keys
  <1>2. /\ run[r].stage = "idle" /\ invoice.version = task[t].after
        /\ \/ task[t].status \in {"pending", "failed"} /\ invoice.task = t
           \/ task[t].status \in {"done", "manual"} /\ invoice.task = 0 /\ task[t].step = "done"
        /\ task' = [task EXCEPT ![t].status = "running", ![t].token = r[2], ![t].leased = TRUE]
        /\ Write([invoice EXCEPT !.task = t])
        /\ run' = [run EXCEPT ![r] = [stage |-> IF task[t].step = "done" THEN "stepped" ELSE "claimed",
                                      result |-> IF task[t].step = "done" THEN "done" ELSE "none",
                                      before |-> {c \in Requests : claims[c].state # "absent"}]]
        /\ UNCHANGED <<push, content, sending>>
    BY <1>1 DEF StartRun, Runnable
  <1>3. /\ invoice' \in Invoices /\ invoice'.readback = None /\ invoice'.task = t
        /\ invoice'.order = invoice.order /\ invoice'.sync = invoice.sync
        /\ invoice'.version = invoice.version /\ invoice'.attempt = invoice.attempt
        /\ invoice'.leased = invoice.leased
    BY <1>1, <1>2, OwnerSays
  <1>4. task \in [Tasks -> TaskRows] /\ run \in [Runs -> RunRows] /\ TaskFits(t)
    BY RowSays DEF IInv, TasksFit
  <1>5. /\ \A u \in Tasks \ {t} : task'[u] = task[u]
        /\ task'[t].status = "running" /\ task'[t].token = r[2] /\ task'[t].after = task[t].after
        /\ task'[t].step = task[t].step /\ task' \in [Tasks -> TaskRows]
    <2>1. [task[t] EXCEPT !.status = "running", !.token = r[2], !.leased = TRUE] \in TaskRows
      BY <1>1, <1>4 DEF TaskRows
    <2>2. task' = [task EXCEPT ![t] =
                     [task[t] EXCEPT !.status = "running", !.token = r[2], !.leased = TRUE]]
      BY <1>2, <1>4
    <2> QED BY <1>4, <2>1, <2>2 DEF TaskRows
  <1>6. PICK before \in SUBSET Requests : before = {c \in Requests : claims[c].state # "absent"}
    OBVIOUS
  <1>7. /\ \A q \in Runs \ {r} : run'[q] = run[q]
        /\ run'[r].stage = IF task[t].step = "done" THEN "stepped" ELSE "claimed"
        /\ run'[r].result = IF task[t].step = "done" THEN "done" ELSE "none"
        /\ run'[r].before = before /\ run' \in [Runs -> RunRows]
    <2>1. PICK stage \in {"stepped", "claimed"} : stage = IF task[t].step = "done" THEN "stepped" ELSE "claimed"
      OBVIOUS
    <2>2. PICK result \in {"done", "none"} : result = IF task[t].step = "done" THEN "done" ELSE "none"
      OBVIOUS
    <2>3. PICK row \in RunRows : row = [stage |-> stage, result |-> result, before |-> before]
      BY DEF RunRows
    <2>4. run' = [run EXCEPT ![r] = row]
      BY <1>2, <1>6, <2>1, <2>2, <2>3
    <2>5. row.stage = stage /\ row.result = result /\ row.before = before
      BY <2>3
    <2> QED BY <1>4, <2>1, <2>2, <2>3, <2>4, <2>5
  <1>8. /\ \A a \in Attempts : push[a].via # r
        /\ \A c \in before : post[c] # "none"
    <2>1. \A c \in before : c \in Requests /\ claims[c].state # "absent"
      BY <1>6
    <2>2. \A c \in Requests : Sent!RequestFits(c)
      BY DEF IInv, Sent!SendInv
    <2> QED BY <1>2, <2>1, <2>2, ViaSays DEF Sent!RequestFits
  <1>9. task[t].step # "done" => \A a \in Attempts : push[a].via # None /\ push[a].via[1] = t => Barren(a)
    BY <1>2, <1>4 DEF TaskFits
  <1>10. task[t].step = "done" => Written(t)
    BY <1>4 DEF TaskFits
  <1>11. UNCHANGED <<post, inflight, created>>
    BY <1>2 DEF sending
  <1>12. RunFits(r)'
    <2>1. Written(t)' <=> Written(t)
      BY <1>2, <1>5, <1>11 DEF Written
    <2>2. \A a \in Attempts : Barren(a)' <=> Barren(a)
      BY <1>2, <1>11 DEF Barren
    <2>3. CASE task[t].step = "done"
      <3>1. run'[r].stage = "stepped" /\ run'[r].result = "done"
        BY <1>7, <2>3
      <3> QED BY <1>1, <1>2, <1>7, <1>8, <1>10, <1>11, <2>1, <2>3, <3>1 DEF RunFits
    <2>4. CASE task[t].step # "done"
      <3>1. run'[r].stage = "claimed" /\ run'[r].result = "none"
        BY <1>7, <2>4
      <3> QED BY <1>1, <1>2, <1>7, <1>8, <1>9, <1>11, <2>2, <2>4, <3>1 DEF RunFits
    <2> QED BY <2>3, <2>4
  <1>13. \A q \in Runs \ {r} : q[1] = t => q[2] # r[2]
    BY <1>1, Keys
  <1>14. PICK R \in SUBSET Runs : R = {r}
    OBVIOUS
  <1>15. /\ \A q \in Runs \ R : run'[q] = run[q]
         /\ \A q \in R : q[1] = t /\ RunFits(q)'
         /\ \A a \in Attempts : push[a].via \notin R
         /\ \A q \in Runs \ R : q[1] = t => q[2] # r[2]
    BY <1>1, <1>7, <1>8, <1>12, <1>13, <1>14
  <1>16. /\ invoice.task \in {0, t} /\ invoice'.task \in {0, t} /\ task'[t].status # "none"
         /\ task'[t].step = "done" => Written(t)
         /\ task'[t].status \in {"pending", "running", "uncertain", "failed"} <=> invoice'.task = t
         /\ task'[t].status \notin {"pending", "failed"}
    BY <1>2, <1>3, <1>5, <1>10
  <1> QED BY <1>2, <1>3, <1>5, <1>7, <1>15, <1>16, TaskMoves

\* A run that goes on while neither row nor task change.
LEMMA RunGoesOn ==
  ASSUME IInv, UNCHANGED <<invoice, push, task, content, sending>>,
         NEW r \in Runs, run[r].stage # "idle",
         NEW stage \in {"returned", "judged", "error", "over"},
         NEW result \in {"none", "ok", "plain", "pending", "failed", "uncertain", "done"},
         RunTo(r, stage, result), RunFits(r)',
         \A a \in Attempts : push[a].via = r => push[a].stage = "over"
  PROVE  IInv'
  <1>1. /\ \A q \in Runs \ {r} : run'[q] = run[q]
        /\ run'[r].stage = stage /\ run'[r].before \subseteq run[r].before
        /\ run' \in [Runs -> RunRows]
    BY RunToSays
  <1>2. UNCHANGED <<post, inflight, created>> /\ invoice \in Invoices
    BY RowSays DEF sending
  <1>3. Types'
    BY <1>1 DEF IInv, Types, sending
  <1>4. /\ \A u \in Tasks : TaskFits(u)
        /\ \A q \in Runs : RunFits(q) /\ q[1] \in Tasks
        /\ \A a \in Attempts : ViaFits(a)
        /\ \A a \in Attempts : push[a].via # None => push[a].via \in Runs
    BY Keys, RowSays DEF IInv, TasksFit, Pushes
  <1>5. /\ \A u \in Tasks : Written(u)' <=> Written(u)
        /\ \A a \in Attempts : Barren(a)' <=> Barren(a)
    BY <1>2 DEF Written, Barren
  <1>6. \A a \in Attempts : ViaFits(a)'
    <2>1. ASSUME NEW a \in Attempts, push[a].via # None
          PROVE  ViaFits(a)'
      <3>1. ViaFits(a) /\ push[a].via \in Runs
        BY <1>4, <2>1
      <3>2. CASE push[a].via = r
        BY <1>1, <2>1, <3>1, <3>2 DEF ViaFits
      <3>3. CASE push[a].via # r
        BY <1>1, <2>1, <3>1, <3>3 DEF ViaFits
      <3> QED BY <3>2, <3>3
    <2> QED BY <2>1 DEF ViaFits
  <1>7. \A q \in Runs : RunFits(q)'
    <2>1. ASSUME NEW q \in Runs \ {r}
          PROVE  RunFits(q)'
      <3>1. RunFits(q) /\ q[1] \in Tasks /\ run'[q] = run[q]
        BY <1>1, <1>4
      <3> QED BY <1>2, <1>5, <3>1 DEF RunFits
    <2> QED BY <2>1
  <1>8. \A u \in Tasks : TaskFits(u)'
    <2>1. \A q \in Runs : run[q].stage = "idle" => run'[q].stage = "idle"
      BY <1>1
    <2> QED BY <1>4, <1>5, <2>1 DEF TaskFits
  <1>9. TasksFit'
    BY <1>6, <1>7, <1>8 DEF TasksFit
  <1>10. Uncertain' <=> Uncertain
    BY DEF Uncertain
  <1> QED BY <1>2, <1>3, <1>9, <1>10, RowMoves DEF sending

\* The executor refused before anything was claimed.
LEMMA RefusedKeeps ==
  ASSUME IInv, NEW r \in Runs, PushRefused(r)
  PROVE  IInv'
  <1>1. /\ run[r].stage = "sending" /\ RunTo(r, "returned", "plain")
        /\ UNCHANGED <<invoice, push, task, content, sending>>
    BY DEF PushRefused
  <1>2. /\ run'[r].stage = "returned" /\ run'[r].result = "plain"
        /\ run'[r].before = run[r].before
    BY <1>1, RunToSays
  <1>3. RunFits(r) /\ \A a \in Attempts : push[a].via # r
    BY <1>1, ViaSays
  <1>4. RunFits(r)'
    BY <1>1, <1>2, <1>3, RunStays DEF RunFits
  <1> QED BY <1>1, <1>3, <1>4, RunGoesOn

\* The verdict of a push: failed only when nobody has the row and nothing is unsettled.
LEMMA JudgeKeeps ==
  ASSUME IInv, NEW r \in Runs, Judge(r)
  PROVE  IInv'
  <1>1. PICK verdict \in {"done", "uncertain", "failed"} :
           /\ RunTo(r, "judged", verdict)
           /\ verdict = "done" => run[r].result = "ok"
           /\ verdict = "failed" => run[r].result \notin {"ok", "pending"} /\ ~Uncertain
    BY DEF Judge
  <1>2. /\ run[r].stage = "returned" /\ Phase(r)
        /\ UNCHANGED <<invoice, push, task, content, sending>>
    BY DEF Judge
  <1>3. /\ run'[r].stage = "judged" /\ run'[r].result = verdict
        /\ run'[r].before = run[r].before
    BY <1>1, RunToSays
  <1>4. /\ RunFits(r) /\ \A a \in Attempts : push[a].via = r => push[a].stage = "over"
        /\ task[r[1]].status = "running" /\ task[r[1]].token = r[2]
    BY <1>2, ViaSays, PhaseSays
  <1>5. verdict = "failed" => invoice.attempt = 0 /\ run[r].result = "plain"
    BY <1>1, <1>2, <1>4, RowSays DEF RunFits
  <1>6. RunFits(r)'
    <2>1. verdict = "done" => Written(r[1])
      BY <1>1, <1>2, <1>4 DEF RunFits
    <2>2. verdict = "failed" => \A a \in Attempts : push[a].via = r => Barren(a)
      <3>1. \A a \in Attempts : a # 0
        BY Keys
      <3> QED BY <1>2, <1>4, <1>5, <3>1 DEF RunFits
    <2>3. \A a \in Attempts : push[a].via # None /\ push[a].via[1] = r[1] /\ push[a].via # r => Barren(a)
      BY <1>2, <1>4 DEF RunFits
    <2> QED BY <1>2, <1>3, <2>1, <2>2, <2>3, RunStays
  <1> QED BY <1>1, <1>2, <1>4, <1>6, RunGoesOn

\* A run that fails, or dies.
LEMMA RunEndsKeeps ==
  ASSUME IInv, NEW r \in Runs, RunFails(r) \/ RunDies(r)
  PROVE  IInv'
  <1>1. PICK stage \in {"error", "over"} :
           /\ RunTo(r, stage, "none")
           /\ run[r].stage \in {"claimed", "sending", "returned", "judged", "stepped", "error"}
           /\ stage = "error" => run[r].stage \in {"sending", "returned", "judged"}
           /\ UNCHANGED <<invoice, push, task, content, sending>>
    BY DEF RunFails, RunDies
  <1>2. /\ run'[r].stage = stage /\ run'[r].result = "none"
        /\ run'[r].before \subseteq run[r].before
    BY <1>1, RunToSays
  <1>3. RunFits(r) /\ \A a \in Attempts : push[a].via = r => push[a].stage = "over"
    BY <1>1, ViaSays
  <1>4. RunFits(r)'
    BY <1>1, <1>2, <1>3, RunStays DEF RunFits
  <1> QED BY <1>1, <1>3, <1>4, RunGoesOn

\* A step of a run that still has its task: nobody else's run is concerned.
LEMMA OwnerMoves ==
  ASSUME IInv, UNCHANGED <<push, content, sending>>, NEW r \in Runs, Phase(r),
         NEW t \in Tasks, t = r[1],
         NEW stage \in {"sending", "stepped", "over"},
         NEW result \in {"none", "ok", "plain", "pending", "failed", "uncertain", "done"},
         RunTo(r, stage, result), RunFits(r)',
         \A a \in Attempts : push[a].via = r => stage # "sending" /\ push[a].stage = "over",
         task' \in [Tasks -> TaskRows], invoice' \in Invoices,
         \A u \in Tasks \ {t} : task'[u] = task[u],
         task'[t].after = task[t].after, task'[t].status # "none",
         task'[t].status = "running" => task'[t].token = r[2],
         task'[t].status \in {"pending", "failed"} /\ task'[t].step # "done" =>
            \A a \in Attempts : push[a].via # None /\ push[a].via[1] = t => Barren(a),
         task'[t].step = "done" => Written(t),
         invoice'.task \in {0, t},
         task'[t].status \in {"pending", "running", "uncertain", "failed"} <=> invoice'.task = t,
         invoice'.order = invoice.order, invoice'.sync = invoice.sync,
         invoice'.version = invoice.version, invoice'.attempt = invoice.attempt,
         invoice'.leased = invoice.leased, invoice'.readback = None
  PROVE  IInv'
  <1>1. /\ invoice.task = t /\ task[t].status = "running" /\ task[t].token = r[2]
        /\ invoice.version = task[t].after
        /\ \A q \in Runs \ {r} : q[1] = t => q[2] # r[2]
    BY PhaseSays
  <1>2. /\ \A q \in Runs \ {r} : run'[q] = run[q]
        /\ run'[r].stage = stage /\ run'[r].before \subseteq run[r].before
        /\ run' \in [Runs -> RunRows]
    BY RunToSays
  <1>3. PICK R \in SUBSET Runs : R = {r}
    OBVIOUS
  <1>4. /\ \A q \in Runs \ R : run'[q] = run[q]
        /\ \A q \in R : q[1] = t /\ RunFits(q)'
        /\ \A a \in Attempts : push[a].via \in R =>
              /\ run'[push[a].via].stage \notin {"idle", "claimed", "sending"}
              /\ push[a].stage = "over"
              /\ run'[push[a].via].before \subseteq run[push[a].via].before
        /\ \A q \in Runs \ R : q[1] = t => q[2] # r[2]
    BY <1>1, <1>2, <1>3
  <1> QED BY <1>1, <1>2, <1>4, TaskMoves

\* The order step begins.
LEMMA StepSendingKeeps ==
  ASSUME IInv, NEW r \in Runs, StepSending(r)
  PROVE  IInv'
  <1>1. PICK t \in Tasks : t = r[1]
    BY Keys
  <1>2. /\ run[r].stage = "claimed" /\ Phase(r) /\ RunTo(r, "sending", "none") /\ Touch
        /\ task' = [task EXCEPT ![t].step = "sending"] /\ UNCHANGED <<push, content, sending>>
    BY <1>1 DEF StepSending
  <1>3. /\ invoice' \in Invoices /\ invoice'.readback = None
        /\ invoice'.order = invoice.order /\ invoice'.sync = invoice.sync
        /\ invoice'.version = invoice.version /\ invoice'.attempt = invoice.attempt
        /\ invoice'.task = invoice.task /\ invoice'.leased = invoice.leased
    BY <1>2, TouchSays
  <1>4. /\ invoice.task = t /\ task[t].status = "running" /\ task[t].token = r[2]
        /\ task \in [Tasks -> TaskRows] /\ RunFits(r)
    BY <1>1, <1>2, PhaseSays, RowSays
  <1>5. /\ \A u \in Tasks \ {t} : task'[u] = task[u]
        /\ task'[t].status = "running" /\ task'[t].token = r[2] /\ task'[t].after = task[t].after
        /\ task'[t].step = "sending" /\ task' \in [Tasks -> TaskRows]
    <2>1. task' = [task EXCEPT ![t] = [task[t] EXCEPT !.step = "sending"]]
      BY <1>2, <1>4
    <2>2. [task[t] EXCEPT !.step = "sending"] \in TaskRows
      BY <1>4 DEF TaskRows
    <2> QED BY <1>4, <2>1, <2>2 DEF TaskRows
  <1>6. /\ run'[r].stage = "sending" /\ run'[r].result = "none"
        /\ run'[r].before = run[r].before
    BY <1>2, RunToSays
  <1>7. \A a \in Attempts : push[a].via # r
    BY <1>2, ViaSays
  <1>8. RunFits(r)'
    <2>1. \A a \in Attempts : push[a].via # None /\ push[a].via[1] = r[1] /\ push[a].via # r => Barren(a)
      BY <1>1, <1>2, <1>4 DEF RunFits
    <2> QED BY <1>1, <1>2, <1>3, <1>5, <1>6, <2>1, RunStays
  <1> QED BY <1>1, <1>2, <1>3, <1>4, <1>5, <1>7, <1>8, OwnerMoves

\* The verdict is written.
LEMMA StepKeeps ==
  ASSUME IInv, NEW r \in Runs, Step(r)
  PROVE  IInv'
  <1>1. PICK t \in Tasks : t = r[1]
    BY Keys
  <1>2. /\ run[r].stage = "judged" /\ Phase(r) /\ RunTo(r, "stepped", run[r].result) /\ Touch
        /\ task' = [task EXCEPT ![t].step = run[r].result] /\ UNCHANGED <<push, content, sending>>
    BY <1>1 DEF Step
  <1>3. /\ invoice' \in Invoices /\ invoice'.readback = None
        /\ invoice'.order = invoice.order /\ invoice'.sync = invoice.sync
        /\ invoice'.version = invoice.version /\ invoice'.attempt = invoice.attempt
        /\ invoice'.task = invoice.task /\ invoice'.leased = invoice.leased
    BY <1>2, TouchSays
  <1>4. /\ invoice.task = t /\ task[t].status = "running" /\ task[t].token = r[2]
        /\ task \in [Tasks -> TaskRows] /\ RunFits(r)
    BY <1>1, <1>2, PhaseSays, RowSays
  <1>5. PICK result \in {"done", "failed", "uncertain"} : result = run[r].result
    BY <1>2, <1>4 DEF RunFits
  <1>6. /\ \A u \in Tasks \ {t} : task'[u] = task[u]
        /\ task'[t].status = "running" /\ task'[t].token = r[2] /\ task'[t].after = task[t].after
        /\ task'[t].step = result /\ task' \in [Tasks -> TaskRows]
    <2>1. task' = [task EXCEPT ![t] = [task[t] EXCEPT !.step = result]]
      BY <1>2, <1>4, <1>5
    <2>2. [task[t] EXCEPT !.step = result] \in TaskRows
      BY <1>4 DEF TaskRows
    <2> QED BY <1>4, <2>1, <2>2 DEF TaskRows
  <1>7. RunTo(r, "stepped", result)
    BY <1>2, <1>5
  <1>8. /\ run'[r].stage = "stepped" /\ run'[r].result = result
        /\ run'[r].before = run[r].before
    BY <1>7, RunToSays
  <1>9. \A a \in Attempts : push[a].via = r => push[a].stage = "over"
    BY <1>2, ViaSays
  <1>10. /\ result = "done" => Written(t)
         /\ result = "failed" => \A a \in Attempts : push[a].via = r => Barren(a)
         /\ \A a \in Attempts : push[a].via # None /\ push[a].via[1] = r[1] /\ push[a].via # r => Barren(a)
    BY <1>1, <1>2, <1>4, <1>5 DEF RunFits
  <1>11. RunFits(r)'
    BY <1>1, <1>2, <1>3, <1>6, <1>8, <1>10, RunStays
  <1> QED BY <1>1, <1>2, <1>3, <1>4, <1>6, <1>7, <1>9, <1>10, <1>11, OwnerMoves

\* The run ends with the verdict it has written.
LEMMA FinishTaskKeeps ==
  ASSUME IInv, NEW r \in Runs,
         NEW status \in {"done", "manual", "failed", "uncertain"}, Finish(r, status)
  PROVE  IInv'
  <1>1. PICK t \in Tasks : t = r[1] /\ t # 0 /\ t \in 0 .. MaxTasks /\ r[2] # 0
    BY Keys
  <1>2. /\ run[r].stage = "stepped" /\ Phase(r) /\ RunTo(r, "over", "none")
        /\ IF run[r].result = "done" THEN status \in {"done", "manual"} ELSE status = run[r].result
        /\ TaskTo(t, status, task[t].step) /\ UNCHANGED <<push, content, sending>>
    BY <1>1 DEF Finish
  <1>3. /\ invoice.task = t /\ task[t].status = "running" /\ task[t].token = r[2]
        /\ task[t] \in TaskRows /\ RunFits(r) /\ TaskFits(t)
    BY <1>1, <1>2, PhaseSays
  <1>4. PICK owner \in {0, t} :
           /\ owner = IF status \in {"done", "manual"} THEN 0 ELSE t
           /\ Write([invoice EXCEPT !.task = owner])
    <2>1. Write([invoice EXCEPT !.task = IF status \in {"done", "manual"} THEN 0 ELSE t])
      <3>1. Write([invoice EXCEPT !.task = IF status \in {"done", "manual"} THEN 0 ELSE invoice.task])
        BY DEF Finish
      <3> QED BY <1>3, <3>1
    <2> QED BY <2>1
  <1>5. /\ invoice' \in Invoices /\ invoice'.readback = None /\ invoice'.task = owner
        /\ invoice'.order = invoice.order /\ invoice'.sync = invoice.sync
        /\ invoice'.version = invoice.version /\ invoice'.attempt = invoice.attempt
        /\ invoice'.leased = invoice.leased
    BY <1>1, <1>4, OwnerSays, Keys
  <1>6. /\ \A u \in Tasks \ {t} : task'[u] = task[u]
        /\ task'[t].status = status /\ task'[t].token = 0 /\ task'[t].after = task[t].after
        /\ task'[t].step = task[t].step /\ task' \in [Tasks -> TaskRows]
    <2>1. task[t].step \in {"pending", "sending", "uncertain", "failed", "done"}
      BY <1>3 DEF TaskRows
    <2> QED BY <1>2, <2>1, TaskToSays
  <1>7. /\ run'[r].stage = "over" /\ run'[r].result = "none"
        /\ run'[r].before = {}
    BY <1>2, RunToSays
  <1>8. \A a \in Attempts : push[a].via = r => push[a].stage = "over"
    BY <1>2, ViaSays
  <1>9. status = "failed" => \A a \in Attempts : push[a].via # None /\ push[a].via[1] = t => Barren(a)
    <2>1. SUFFICES ASSUME status = "failed", NEW a \in Attempts,
                          push[a].via # None, push[a].via[1] = t
                   PROVE  Barren(a)
      OBVIOUS
    <2>2. run[r].result = "failed"
      BY <1>2, <2>1
    <2>3. CASE push[a].via = r
      BY <1>1, <1>2, <1>3, <2>2, <2>3 DEF RunFits
    <2>4. CASE push[a].via # r
      BY <1>1, <1>2, <1>3, <2>1, <2>2, <2>4 DEF RunFits
    <2> QED BY <2>3, <2>4
  <1>10. task[t].step = "done" => Written(t)
    BY <1>3 DEF TaskFits
  <1>11. RunFits(r)'
    BY <1>1, <1>2, <1>3, <1>5, <1>6, <1>7, RunStays
  <1>12. /\ task'[t].status # "none" /\ task'[t].status # "running"
         /\ task'[t].status \in {"pending", "failed"} => status = "failed"
         /\ task'[t].status \in {"pending", "running", "uncertain", "failed"} <=> invoice'.task = t
    BY <1>1, <1>4, <1>5, <1>6
  <1> QED BY <1>1, <1>2, <1>3, <1>5, <1>6, <1>8, <1>9, <1>10, <1>11, <1>12, OwnerMoves

\* A run that raised: it has failed only when it added no claim and nothing is open.
LEMMA UnsentKeeps ==
  ASSUME IInv, NEW r \in Runs, FinishUnsent(r)
  PROVE  IInv'
  <1>1. PICK t \in Tasks : t = r[1] /\ t # 0 /\ r[2] # 0
    BY Keys
  <1>2. /\ run[r].stage = "error" /\ RunTo(r, "over", "none") /\ UNCHANGED <<push, content, sending>>
    BY DEF FinishUnsent
  <1>3. /\ run'[r].stage = "over" /\ run'[r].result = "none" /\ run'[r].before = {}
    BY <1>2, RunToSays
  <1>4. /\ RunFits(r)
        /\ \A a \in Attempts : push[a].via = r =>
              push[a].stage = "over" /\ <<a, 1>> \notin run[r].before /\ post[<<a, 1>>] # "none"
    BY <1>2, ViaSays
  <1>5. CASE ~(Phase(r) /\ task[t].step = "sending")
    <2>1. UNCHANGED <<task, invoice>>
      BY <1>1, <1>5 DEF FinishUnsent
    <2>2. RunFits(r)'
      BY <1>2, <1>3, <2>1, RunStays
    <2> QED BY <1>2, <1>4, <2>1, <2>2, RunGoesOn
  <1>6. CASE Phase(r) /\ task[t].step = "sending"
    <2>1. PICK verdict \in {"failed", "uncertain"} :
             /\ TaskTo(t, verdict, verdict) /\ Touch
             /\ verdict = "failed" => Unsent(r)
      BY <1>1, <1>6 DEF FinishUnsent
    <2>2. /\ invoice' \in Invoices /\ invoice'.readback = None
          /\ invoice'.order = invoice.order /\ invoice'.sync = invoice.sync
          /\ invoice'.version = invoice.version /\ invoice'.attempt = invoice.attempt
          /\ invoice'.task = invoice.task /\ invoice'.leased = invoice.leased
      BY <2>1, TouchSays
    <2>3. /\ invoice.task = t /\ task[t].status = "running" /\ task[t].token = r[2]
      BY <1>1, <1>6, PhaseSays
    <2>4. /\ \A u \in Tasks \ {t} : task'[u] = task[u]
          /\ task'[t].status = verdict /\ task'[t].token = 0 /\ task'[t].after = task[t].after
          /\ task'[t].step = verdict /\ task' \in [Tasks -> TaskRows]
      BY <2>1, TaskToSays
    <2>5. verdict = "failed" => \A a \in Attempts : push[a].via # None /\ push[a].via[1] = t => Barren(a)
      <3>1. SUFFICES ASSUME verdict = "failed", NEW a \in Attempts,
                            push[a].via # None, push[a].via[1] = t
                     PROVE  Barren(a)
        OBVIOUS
      <3>2. CASE push[a].via = r
        <4>1. <<a, 1>> \in Requests /\ Sent!RequestFits(<<a, 1>>)
          BY Keys DEF IInv, Sent!SendInv
        <4>2. claims[<<a, 1>>].state # "absent"
          BY <1>4, <3>2, <4>1 DEF Sent!RequestFits
        <4>3. {c \in Requests : claims[c].state # "absent"} = run[r].before
          BY <2>1, <3>1 DEF Unsent
        <4>4. <<a, 1>> \in run[r].before
          BY <4>1, <4>2, <4>3
        <4> QED BY <1>4, <3>2, <4>4
      <3>3. CASE push[a].via # r
        BY <1>1, <1>2, <1>4, <2>3, <3>1, <3>3 DEF RunFits
      <3> QED BY <3>2, <3>3
    <2>6. RunFits(r)'
      BY <1>1, <1>2, <1>3, <2>2, <2>4, RunStays
    <2>7. /\ task'[t].status # "none" /\ task'[t].status # "running"
          /\ task'[t].status \in {"pending", "failed"} => verdict = "failed"
          /\ task'[t].status \in {"pending", "running", "uncertain", "failed"} <=> invoice'.task = t
          /\ task'[t].step # "done" /\ invoice'.task \in {0, t}
      BY <2>2, <2>3, <2>4
    <2>8. \A a \in Attempts : push[a].via = r => push[a].stage = "over"
      BY <1>4
    <2> QED BY <1>1, <1>2, <1>6, <2>2, <2>4, <2>5, <2>6, <2>7, <2>8, OwnerMoves
  <1> QED BY <1>5, <1>6

\* A step of a task without its run.
LEMMA TaskAlone ==
  ASSUME IInv, UNCHANGED <<push, run, content, sending>>, NEW t \in Tasks,
         task' \in [Tasks -> TaskRows], invoice' \in Invoices,
         \A u \in Tasks \ {t} : task'[u] = task[u],
         task'[t].after = task[t].after, task'[t].status # "none",
         task'[t].status = "running" => task[t].status = "running" /\ task'[t].token = task[t].token,
         task'[t].status \in {"pending", "failed"} /\ task'[t].step # "done" =>
            \A a \in Attempts : push[a].via # None /\ push[a].via[1] = t => Barren(a),
         task'[t].step = "done" => Written(t),
         invoice.task \in {0, t}, invoice'.task \in {0, t},
         task'[t].status \in {"pending", "running", "uncertain", "failed"} <=> invoice'.task = t,
         invoice'.task = t => invoice.version = task[t].after,
         invoice'.order = invoice.order, invoice'.sync = invoice.sync,
         invoice'.version = invoice.version, invoice'.attempt = invoice.attempt,
         invoice'.leased = invoice.leased, invoice'.readback \in {None, invoice.readback}
  PROVE  IInv'
  <1>1. PICK R \in SUBSET Runs : R = {}
    OBVIOUS
  <1>2. /\ \A q \in Runs \ R : run'[q] = run[q]
        /\ \A q \in R : FALSE
        /\ \A a \in Attempts : push[a].via \notin R
        /\ run' \in [Runs -> RunRows]
    BY <1>1, RowSays
  <1>3. \A q \in Runs \ R : q[1] = t /\ task'[t].status = "running" /\ task'[t].token = q[2] =>
           task[t].status = "running" /\ task[t].token = q[2]
    OBVIOUS
  <1> QED BY <1>2, <1>3, TaskMoves

\* The lease of a run ends, and a later call finds that it has.
LEMMA ExpireKeeps ==
  ASSUME IInv, NEW t \in Tasks, RunLeaseExpires(t) \/ Expire(t)
  PROVE  IInv'
  <1>1. /\ task[t].status = "running" /\ UNCHANGED <<push, run, content, sending>>
        /\ invoice' = invoice \/ Touch
    BY DEF RunLeaseExpires, Expire
  <1>2. /\ task \in [Tasks -> TaskRows] /\ TaskFits(t) /\ t # 0
    BY RowSays, Keys DEF IInv, TasksFit
  <1>3. /\ invoice' \in Invoices /\ invoice'.readback \in {None, invoice.readback}
        /\ invoice'.order = invoice.order /\ invoice'.sync = invoice.sync
        /\ invoice'.version = invoice.version /\ invoice'.attempt = invoice.attempt
        /\ invoice'.task = invoice.task /\ invoice'.leased = invoice.leased
    BY <1>1, TouchSays, RowSays
  <1>4. PICK row \in TaskRows : /\ task' = [task EXCEPT ![t] = row]
                                /\ row.status \in {"running", "uncertain"} /\ row.token = task[t].token
                                /\ row.step = task[t].step /\ row.after = task[t].after
    <2>1. CASE RunLeaseExpires(t)
      <3>1. task' = [task EXCEPT ![t] = [task[t] EXCEPT !.leased = FALSE]]
        BY <1>2, <2>1 DEF RunLeaseExpires
      <3>2. [task[t] EXCEPT !.leased = FALSE] \in TaskRows
        BY <1>2 DEF TaskRows
      <3> QED BY <1>1, <1>2, <3>1, <3>2 DEF TaskRows
    <2>2. CASE Expire(t)
      <3>1. task' = [task EXCEPT ![t] = [task[t] EXCEPT !.status = "uncertain"]]
        BY <1>2, <2>2 DEF Expire
      <3>2. [task[t] EXCEPT !.status = "uncertain"] \in TaskRows
        BY <1>2 DEF TaskRows
      <3> QED BY <1>1, <1>2, <3>1, <3>2 DEF TaskRows
    <2> QED BY <2>1, <2>2
  <1>5. task' \in [Tasks -> TaskRows] /\ task'[t] = row /\ \A u \in Tasks \ {t} : task'[u] = task[u]
    BY <1>2, <1>4
  <1>6. /\ row.step = "done" => Written(t)
        /\ invoice.task = t /\ invoice.version = task[t].after
    BY <1>1, <1>2, <1>4 DEF TaskFits
  <1> QED BY <1>1, <1>3, <1>4, <1>5, <1>6, TaskAlone

\* An intent is queued while the stock executor is busy, of what came to nothing so far.
LEMMA DeferKeeps ==
  ASSUME IInv, NEW t \in Tasks, DeferInventory(t)
  PROVE  IInv'
  <1>1. PICK status \in {"uncertain", "pending"}, step \in {"done", "uncertain", "pending"} :
           /\ TaskTo(t, status, step) /\ (step = "done" <=> task[t].step = "done")
    BY DEF DeferInventory
  <1>2. /\ invoice.version = task[t].after
        /\ \/ task[t].status \in {"pending", "failed"} /\ invoice.task = t
           \/ task[t].status \in {"done", "manual"} /\ invoice.task = 0 /\ task[t].step = "done"
        /\ Write([invoice EXCEPT !.task = t]) /\ UNCHANGED <<push, run, content, sending>>
    BY DEF DeferInventory, Runnable
  <1>3. /\ t \in 0 .. MaxTasks /\ t # 0 /\ TaskFits(t)
    BY Keys DEF IInv, TasksFit
  <1>4. /\ invoice' \in Invoices /\ invoice'.readback = None /\ invoice'.task = t
        /\ invoice'.order = invoice.order /\ invoice'.sync = invoice.sync
        /\ invoice'.version = invoice.version /\ invoice'.attempt = invoice.attempt
        /\ invoice'.leased = invoice.leased
    BY <1>2, <1>3, OwnerSays
  <1>5. /\ \A u \in Tasks \ {t} : task'[u] = task[u]
        /\ task'[t].status = status /\ task'[t].step = step
        /\ task'[t].after = task[t].after /\ task' \in [Tasks -> TaskRows]
    BY <1>1, TaskToSays
  <1>6. task'[t].step # "done" => \A a \in Attempts : push[a].via # None /\ push[a].via[1] = t => Barren(a)
    BY <1>1, <1>2, <1>3, <1>5 DEF TaskFits
  <1>7. task'[t].step = "done" => Written(t)
    BY <1>1, <1>3, <1>5 DEF TaskFits
  <1>8. /\ task'[t].status \notin {"none", "running"}
        /\ task'[t].status \in {"pending", "running", "uncertain", "failed"}
        /\ invoice.task \in {0, t}
    BY <1>1, <1>2, <1>5
  <1> QED BY <1>2, <1>4, <1>5, <1>6, <1>7, <1>8, TaskAlone

\* A queued intent is given up.
LEMMA RejectKeeps ==
  ASSUME IInv, NEW t \in Tasks, RejectPending(t)
  PROVE  IInv'
  <1>1. /\ task[t].status = "pending" /\ invoice.task = t /\ Touch
        /\ UNCHANGED <<push, run, content, sending>>
    BY DEF RejectPending
  <1>2. /\ task \in [Tasks -> TaskRows] /\ TaskFits(t)
    BY RowSays DEF IInv, TasksFit
  <1>3. /\ invoice' \in Invoices /\ invoice'.readback = None
        /\ invoice'.order = invoice.order /\ invoice'.sync = invoice.sync
        /\ invoice'.version = invoice.version /\ invoice'.attempt = invoice.attempt
        /\ invoice'.task = invoice.task /\ invoice'.leased = invoice.leased
    BY <1>1, TouchSays
  <1>4. PICK step \in {"done", "failed"} :
           /\ step = "done" <=> task[t].step = "done"
           /\ task' = [task EXCEPT ![t] = [task[t] EXCEPT !.status = "failed", !.step = step]]
    <2>1. task' = [task EXCEPT ![t] = [task[t] EXCEPT !.status = "failed",
                      !.step = IF task[t].step = "done" THEN task[t].step ELSE "failed"]]
      BY <1>2 DEF RejectPending
    <2>2. CASE task[t].step = "done"
      BY <2>1, <2>2
    <2>3. CASE task[t].step # "done"
      BY <2>1, <2>3
    <2> QED BY <2>2, <2>3
  <1>5. /\ \A u \in Tasks \ {t} : task'[u] = task[u]
        /\ task'[t].status = "failed" /\ task'[t].step = step
        /\ task'[t].after = task[t].after /\ task' \in [Tasks -> TaskRows]
    <2>1. [task[t] EXCEPT !.status = "failed", !.step = step] \in TaskRows
      BY <1>2 DEF TaskRows
    <2> QED BY <1>2, <1>4, <2>1 DEF TaskRows
  <1>6. /\ task'[t].step # "done" => \A a \in Attempts : push[a].via # None /\ push[a].via[1] = t => Barren(a)
        /\ task'[t].step = "done" => Written(t)
        /\ invoice.version = task[t].after
    BY <1>1, <1>2, <1>4, <1>5 DEF TaskFits
  <1> QED BY <1>1, <1>3, <1>5, <1>6, TaskAlone

\* People close what failed, or end what is uncertain.
LEMMA CloseKeeps ==
  ASSUME IInv, NEW t \in Tasks, CloseFailed(t) \/ ResolveManually(t)
  PROVE  IInv'
  <1>1. /\ invoice.task = t /\ Write([invoice EXCEPT !.task = 0])
        /\ UNCHANGED <<push, run, content, sending>>
    BY DEF CloseFailed, ResolveManually
  <1>2. /\ task \in [Tasks -> TaskRows] /\ task[t] \in TaskRows /\ TaskFits(t)
        /\ t # 0 /\ 0 \in 0 .. MaxTasks
    BY RowSays, Keys DEF IInv, TasksFit
  <1>3. /\ invoice' \in Invoices /\ invoice'.readback = None /\ invoice'.task = 0
        /\ invoice'.order = invoice.order /\ invoice'.sync = invoice.sync
        /\ invoice'.version = invoice.version /\ invoice'.attempt = invoice.attempt
        /\ invoice'.leased = invoice.leased
    BY <1>1, <1>2, OwnerSays
  <1>4. /\ \A u \in Tasks \ {t} : task'[u] = task[u]
        /\ task'[t].status = "manual" /\ task'[t].step = task[t].step
        /\ task'[t].after = task[t].after /\ task' \in [Tasks -> TaskRows]
    <2>1. CASE CloseFailed(t)
      <3>1. task' = [task EXCEPT ![t] = [task[t] EXCEPT !.status = "manual"]]
        BY <1>2, <2>1 DEF CloseFailed
      <3>2. [task[t] EXCEPT !.status = "manual"] \in TaskRows
        BY <1>2 DEF TaskRows
      <3> QED BY <1>2, <3>1, <3>2 DEF TaskRows
    <2>2. CASE ResolveManually(t)
      <3>1. TaskTo(t, "manual", task[t].step)
        BY <2>2 DEF ResolveManually
      <3>2. task[t].step \in {"pending", "sending", "uncertain", "failed", "done"}
        BY <1>2 DEF TaskRows
      <3> QED BY <3>1, <3>2, TaskToSays
    <2> QED BY <1>1, <2>1, <2>2
  <1>5. task'[t].step = "done" => Written(t)
    BY <1>2, <1>4 DEF TaskFits
  <1> QED BY <1>1, <1>2, <1>3, <1>4, <1>5, TaskAlone

-----------------------------------------------------------------------------
(* Every behaviour *)

\* A new order, or one pushed before, with nothing claimed, sent or created since.
LEMMA InitKeeps == Init => IInv
  <1> SUFFICES ASSUME Init PROVE IInv
    OBVIOUS
  <1>1. PICK order \in {None, Original} :
          /\ invoice = [order |-> order, sync |-> "not_synced", version |-> 0, attempt |-> 0,
                        leased |-> FALSE, task |-> 0, readback |-> None]
          /\ content = [o \in Orders |-> IF o = order THEN 0 ELSE None]
    BY DEF Init
  <1>2. /\ push = [a \in Attempts |->
             [stage |-> "idle", via |-> None, version |-> 0, target |-> None, round |-> 0,
              seen |-> "none", facts |-> NoFacts, settled |-> {}]]
        /\ task = [t \in Tasks |->
             [status |-> "none", step |-> "pending", token |-> 0, leased |-> FALSE, after |-> 0]]
        /\ run = [r \in Runs |-> [stage |-> "idle", result |-> "none", before |-> {}]]
    BY DEF Init
  <1>3. Sent!SendInv
    BY SameInit, SettingAssumption, Sent!SendingStarts DEF Init
  <1>4. /\ inflight = {} /\ created = {}
        /\ \A c \in Requests : post[c] = "none" /\ ~Sent!Open(c) /\ claims[c].state = "absent"
    BY <1>3, SameInit DEF Init, Sent!SendingInit, Sent!SendInv, Sent!RequestFits, Sent!Open
  <1>5. order \in Orders \cup {None} /\ Original \in Orders
    BY DEF Orders
  <1>6. /\ invoice.order = order /\ invoice.sync = "not_synced" /\ invoice.version = 0
        /\ invoice.attempt = 0 /\ invoice.leased = FALSE /\ invoice.task = 0
        /\ invoice.readback = None
    BY <1>1
  <1>7. \A a \in Attempts :
           /\ push[a].stage = "idle" /\ push[a].via = None /\ push[a].version = 0
           /\ push[a].target = None /\ push[a].round = 0 /\ push[a].seen = "none"
           /\ push[a].facts = NoFacts /\ push[a].settled = {}
    BY <1>2
  <1>8. \A k \in Rounds : NoFacts[k] = "none"
    BY DEF NoFacts
  <1>9. Types
    <2>1. NoFacts \in Facts
      BY DEF NoFacts, Facts, Results
    <2>2. invoice \in Invoices
      BY <1>1, <1>5, Keys DEF Invoices
    <2>3. push \in [Attempts -> Pushes]
      BY <1>2, <2>1, Keys DEF Pushes, Results
    <2>4. task \in [Tasks -> TaskRows] /\ run \in [Runs -> RunRows]
      BY <1>2, Keys DEF TaskRows, RunRows
    <2>5. content \in [Orders -> Versions \cup {None}]
      BY <1>1, Keys
    <2>6. outlived \in BOOLEAN
      BY DEF Init
    <2> QED BY <2>2, <2>3, <2>4, <2>5, <2>6 DEF Types
  <1>10. \A a \in Attempts : ExecutorFits(a)
    <2>1. ASSUME NEW a \in Attempts PROVE ExecutorFits(a)
      <3>1. \A k \in Rounds : post[<<a, k>>] = "none"
        BY <1>4, Keys
      <3>2. Rounds = {1, 2}
        BY Keys
      <3> QED BY <1>7, <1>8, <3>1, <3>2 DEF ExecutorFits, Means
    <2> QED BY <2>1
  <1>11. InvoiceFits
    BY <1>6, <1>7 DEF InvoiceFits, Uncertain
  <1>12. NothingLost
    BY <1>4, <1>7, <1>8 DEF NothingLost
  <1>13. HoldsOrders
    BY <1>1, <1>4, <1>5, <1>6, Keys DEF HoldsOrders
  <1>14. OneOrder
    <2>1. \A c \in Requests : ~Alive(c)
      BY <1>4 DEF Alive
    <2>2. \A o \in Orders : content[o] # None => o = invoice.order
      BY <1>1, <1>6
    <2> QED BY <2>1, <2>2 DEF OneOrder
  <1>15. Current
    BY <1>4, <1>6 DEF Current
  <1>16. TasksFit
    <2>1. \A a \in Attempts : ViaFits(a)
      BY <1>7 DEF ViaFits
    <2>2. \A r \in Runs : RunFits(r)
      <3>1. \A r \in Runs : run[r].stage = "idle" /\ run[r].before = {} /\ task[r[1]].status = "none"
        BY <1>2, Keys
      <3> QED BY <3>1 DEF RunFits
    <2>3. \A t \in Tasks : TaskFits(t)
      <3>1. \A t \in Tasks : /\ task[t].status = "none" /\ task[t].step = "pending"
                             /\ t # 0
        BY <1>2, Keys
      <3> QED BY <1>2, <1>6, <1>7, <3>1 DEF TaskFits
    <2> QED BY <2>1, <2>2, <2>3 DEF TasksFit
  <1> QED BY <1>3, <1>9, <1>10, <1>11, <1>12, <1>13, <1>14, <1>15, <1>16 DEF IInv

\* A stuttering step keeps the invariant.
LEMMA StutterKeeps ==
  ASSUME IInv, UNCHANGED vars
  PROVE  IInv'
  <1>1. UNCHANGED <<invoice, push, task, run, content, sending>> /\ UNCHANGED <<post, inflight, created>>
    BY DEF vars, sending
  <1>2. Types'
    BY <1>1 DEF IInv, Types, sending
  <1>3. TasksFit'
    BY <1>1 DEF IInv, TasksFit, ViaFits, RunFits, TaskFits, Barren, Written
  <1> QED BY <1>1, <1>2, <1>3, RowMoves DEF Uncertain, sending

\* So does every step of an executor, of a review, of a run and of a task.
LEMMA NextKeeps ==
  ASSUME IInv, Next
  PROVE  IInv'
  <1>1. ASSUME NEW a \in Attempts, Executor(a) PROVE IInv'
    <2>1. ASSUME NEW via \in Runs \cup {None}, Claim(a, via) PROVE IInv'
      BY <2>1, ClaimKeeps
    <2>2. CASE Consume(a) \/ \E r \in {"identity", "unauthorized", "rejected", "unknown"} : Answer(a, r)
      BY <2>2, WireKeeps
    <2>3. CASE Remember(a) \/ Lost(a) \/ Record(a)
      BY <2>3, RememberKeeps, LostKeeps, RecordKeeps
    <2>4. CASE AuthorizeRetry(a) \/ ApplyRefused(a) \/ Raise(a) \/ Die(a)
      BY <2>4, RetryKeeps, LeavingKeeps
    <2>5. ASSUME NEW verified \in BOOLEAN, Apply(a, verified) PROVE IInv'
      BY <2>5, ApplyKeeps
    <2> QED BY <1>1, <2>1, <2>2, <2>3, <2>4, <2>5 DEF Executor
  <1>2. ASSUME NEW a \in Attempts, Review(a) PROVE IInv'
    BY <1>2, NotCreatedKeeps, BindKeeps, ExistingKeeps, LateKeeps, QueryKeeps DEF Review
  <1>3. ASSUME NEW r \in Runs, LinkedRun(r) PROVE IInv'
    <2>1. CASE StartRun(r) \/ StepSending(r) \/ PushRefused(r)
      BY <2>1, StartKeeps, StepSendingKeeps, RefusedKeeps
    <2>2. CASE Judge(r) \/ Step(r) \/ FinishUnsent(r)
      BY <2>2, JudgeKeeps, StepKeeps, UnsentKeeps
    <2>3. CASE RunFails(r) \/ RunDies(r)
      BY <2>3, RunEndsKeeps
    <2>4. ASSUME NEW status \in {"done", "manual", "failed", "uncertain"}, Finish(r, status) PROVE IInv'
      BY <2>4, FinishTaskKeeps
    <2> QED BY <1>3, <2>1, <2>2, <2>3, <2>4 DEF LinkedRun
  <1>4. ASSUME NEW t \in Tasks, TaskChange(t) PROVE IInv'
    BY <1>4, CreateTaskKeeps, ExpireKeeps, DeferKeeps, RejectKeeps, CloseKeeps DEF TaskChange
  <1>5. ASSUME NEW c \in Requests, TakeEffect(c) \/ ClaimLeaseExpires(c) PROVE IInv'
    BY <1>5, TakeEffectKeeps, ClaimLeaseKeeps
  <1>6. CASE Edit \/ LeaseExpires
    BY <1>6, EditKeeps, RowLeaseKeeps
  <1>7. ASSUME NEW o \in Orders, ReadBack(o) PROVE IInv'
    BY <1>7, ReadKeeps
  <1> QED BY <1>1, <1>2, <1>3, <1>4, <1>5, <1>6, <1>7 DEF Next

-----------------------------------------------------------------------------
(* The results *)

\* An executor and its facts, the row and the attempt that has it, the claims, what OKKI
\* holds and what the linked tasks say fit each other in every behaviour.
THEOREM OrderInvariant == Spec => []IInv
  <1>1. IInv /\ [Next]_vars => IInv'
    BY NextKeeps, StutterKeeps
  <1> QED BY InitKeeps, <1>1, PTL DEF Spec

\* Every variable keeps its type.
THEOREM OrderTypes == Spec => []TypeOK
  <1>1. IInv => TypeOK
    BY SameTypes DEF IInv, Types, TypeOK, Sent!SendInv
  <1> QED BY <1>1, OrderInvariant, PTL

\* However many executors stall or die, at a first POST or at the second one after a 401,
\* and whoever recovers the order meanwhile: if POSTs are prompt, OKKI never holds two
\* orders for the invoice, not even when attempts outlive their lease.
THEOREM OneOrderOnly == Spec => []NoDuplicateOrder
  <1>1. IInv => NoDuplicateOrder
    <2> DEFINE Held == {o \in Orders : content[o] # None}
    <2> SUFFICES ASSUME IInv, prompt PROVE Cardinality(Held) <= 1
      BY DEF NoDuplicateOrder
    <2>1. \A o \in Held : \/ o = invoice.order
                          \/ invoice.order = None /\ o \in created /\ o[1] = invoice.attempt
      BY DEF IInv, OneOrder
    <2>2. None \notin Held
      BY Keys
    <2>4. \A o, p \in Held : o = p
      <3> SUFFICES ASSUME NEW o \in Held, NEW p \in Held PROVE o = p
        OBVIOUS
      <3>1. CASE invoice.order # None
        BY <2>1, <3>1
      <3>2. CASE invoice.order = None
        <4>1. o \in created /\ p \in created /\ o[1] = p[1]
          BY <2>1, <2>2, <3>2
        <4> QED BY <4>1, OneCreated
      <3> QED BY <3>1, <3>2
    <2>5. CASE Held = {}
      BY <2>5, FS_EmptySet
    <2>6. CASE Held # {}
      <3>1. PICK o : Held = {o}
        BY <2>4, <2>6
      <3>2. Cardinality({o}) = 1
        BY FS_Singleton
      <3> QED BY <3>1, <3>2
    <2> QED BY <2>5, <2>6
  <1> QED BY <1>1, OrderInvariant, PTL

\* Unless the lease of an attempt ran out before that of its second POST, an invoice
\* shown as synced is what OKKI holds, and nothing on the wire will change that.
THEOREM SyncedMeansSo == Spec => []SyncedIsTrue
  <1>1. IInv => SyncedIsTrue
    <2> SUFFICES ASSUME IInv, prompt, ~outlived, invoice.sync = "synced"
                 PROVE  /\ invoice.order # None /\ content[invoice.order] = invoice.version
                        /\ \A c \in inflight : push[c[1]].version = invoice.version
      BY DEF SyncedIsTrue
    <2>1. invoice.order # None /\ content[invoice.order] = invoice.version
      BY DEF IInv, Current
    <2>2. invoice.attempt = 0
      BY RowSays DEF Uncertain
    <2>3. ASSUME NEW c \in inflight PROVE FALSE
      <3>1. c \in Requests /\ Alive(c)
        BY RowSays DEF Alive
      <3> QED BY <2>2, <3>1, NobodyActs
    <2> QED BY <2>1, <2>3
  <1> QED BY <1>1, OrderInvariant, PTL

\* An order that OKKI acknowledged is bound, or the invoice is blocked until somebody has
\* seen that acknowledgement, and an open claim never hides behind a settled invoice:
\* whoever answers late, and whether POSTs are prompt or not.
THEOREM NothingForgotten == Spec => []NothingIsForgotten
  <1>1. IInv => NothingIsForgotten
    <2> SUFFICES ASSUME IInv PROVE NothingIsForgotten
      OBVIOUS
    <2>1. \A a \in Attempts : \A o \in Accepted(a) : o = invoice.order \/ a \in Unresolved
      BY DEF IInv, NothingLost, Accepted
    <2>2. \A c \in OpenClaims : c[1] \in Unresolved \/ authority[Invoice].state = "frozen"
      <3>1. OpenClaims = {c \in Requests : Sent!Open(c)}
        BY OpenMeans DEF IInv
      <3> QED BY <3>1 DEF IInv, NothingLost, Sent!Frozen
    <2> QED BY <2>1, <2>2 DEF NothingIsForgotten
  <1> QED BY <1>1, OrderInvariant, PTL

\* A linked task that failed changed nothing in OKKI and will not, the order step is done
\* only when OKKI took its version, and exactly an unfinished task owns the invoice, for
\* any number of tasks, of runs that lose their lease, and of attempts.
THEOREM TasksAreTruthful == Spec => []TaskIsTruthful
  <1>1. IInv => TaskIsTruthful
    <2> SUFFICES ASSUME IInv, NEW t \in Tasks
                 PROVE  /\ task[t].status = "failed" /\ task[t].step # "done" =>
                              \A c \in created \cup inflight : push[c[1]].via = None \/ push[c[1]].via[1] # t
                        /\ task[t].step = "done" => \E c \in created : push[c[1]].version = task[t].after
                        /\ task[t].status \in {"pending", "running", "uncertain", "failed"} <=> invoice.task = t
      BY DEF TaskIsTruthful
    <2>1. TaskFits(t)
      BY DEF IInv, TasksFit
    <2>2. ASSUME task[t].status = "failed", task[t].step # "done", NEW c \in created \cup inflight,
                 push[c[1]].via # None, push[c[1]].via[1] = t
          PROVE  FALSE
      <3>1. c[1] \in Attempts /\ c[2] \in Rounds /\ c = <<c[1], c[2]>>
        BY RowSays, Keys
      <3>2. Barren(c[1])
        BY <2>1, <2>2, <3>1 DEF TaskFits
      <3> QED BY <3>1, <3>2 DEF Barren
    <2> QED BY <2>1, <2>2 DEF TaskFits, Written
  <1> QED BY <1>1, OrderInvariant, PTL
=============================================================================

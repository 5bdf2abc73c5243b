# Formal models of the LeShine Ark platform

This directory holds TLA+ models of the parts of the commission-system
repository whose effects cannot be undone by a transaction: the backend's
delivery of orders, outbounds and receipts to OKKI (小满), the external system of record,
and the leased queues behind which agents and paid image providers work. Each
module is translated from the Python source under `src/backend/app`; the comments name
the files and functions. TLC checks small instances of the models, and the
TLA+ proof system proves the central safety properties for every instance.

    tlc -workers 2 -config TransitionAuthority.cfg MCTransitionAuthority
    tlapm TransitionAuthorityProofs.tla
    tlapm SendingProofs.tla
    tlapm ReceiptDeliveryProofs.tla
    tlapm ReceiptRemovalProofs.tla
    tlapm ShipmentDeliveryProofs.tla
    tlapm OrderPushProofs.tla
    tlapm DelegatedRunsProofs.tla
    tlapm QueueProofs.tla

`PROJECT.json` lists the runs, the source lines behind every definition, the
hazards the properties are aimed at, the deliberately faulty variants each
property rejects, and what was found.

## 1. The system

Ark is a modular monolith: one FastAPI process (several instances may run), one
MySQL database, APScheduler jobs inside the process, and OKKI behind an HTTP
API without idempotency keys. Every command is a short database transaction
under row locks. What is hard is the HTTP call that no transaction can contain:
a POST may take effect although the answer is lost, and a document created twice
at OKKI is a real second order or payment, an image asked for twice is paid twice.

| component | state | operations | talks to |
|---|---|---|---|
| Transition gates (`commerce_transition/service.py`) | `PlatformPolicy` singleton, `WriterReceipt`, `InvoiceAuthority`, `SendingClaim`, `ClaimEvidence` | `set_policy`, `set_writer_receipt`, `ensure_authority`, `set_draft_route`, `confirm_authority`, `begin_send`, `finish_send`, `confirm_not_sent` | called by every sender; locks the policy row first |
| Transfer (`transfer_service.py`) | `TransferPreparation`, responsibility groups | `responsibility_closure`, `prepare_transfer`, `complete_transfer` | freezes authorities, then moves them to the local route |
| Original sending (`invoice/legacy_sending.py`, `okki_client.py`) | in-memory `SendTicket`, the claim behind it | `start`, `_consume`, `invoke`, `_remember`, `finish` | gates; OKKI |
| Receipt delivery (`receipt/sync_service.py`) | `Receipt` (its own outbox), `ReceiptAttempt` | `deliver`, `refresh_accepted`, `bind_remote`, `_reconcile`, `_resolve` | original sending; OKKI read-back |
| Receipt recovery (`receipt/recovery.py`) | the same rows | `recover_expired`, `recover_late_results`, `prepare_due`, `verify_due` | scheduler job every 30 s |
| Manual handling (`receipt/service.py`, `edit_service.py`, `retry_service.py`, `reconciliation_service.py`) | the same rows | edit, retry, void, reconcile, resolve | read-back of OKKI with all locks released |
| Background scan (`core/queue_scan.py`, `receipt/scheduler.py`) | in-memory cursor per queue | `take`, the batch loop | hands row ids to `deliver` |
| Receipt removal (`receipt/deletion_service.py`, `remote_change_service.py`) | `Receipt`, its log | `remove`, `_finish`, `abandon`, `accept` | gates (removal claims); OKKI |
| Receipt index (`receipt/receipt_index.py`) | shared index under a lease and token | refresh, verify | OKKI listing |
| Order push (`invoice/order_sync_execution.py`, `order_push_facts.py`) | `ark_invoices` (`sync_status`, `sync_attempt`, lease), facts START, FACT, FINISH, REVIEW in the invoice log | `prepare`, `claim`, `send`, `record_original`, `authorize_retry`, `apply`, `persist` | original sending; OKKI |
| Order recovery (`invoice/sync_recovery.py`, `order_query_recovery.py`) | the same rows | `confirm_not_created`, bind, `confirm_existing`, `resolve_late`, the automatic query | read-back of OKKI |
| Linked synchronisation (`invoice/linked_execution.py`, `linked_sync_service.py`, `linked_sync_worker.py`) | `ark_invoice_linked_syncs` with `run_token`, lease and steps | create, run, step, finish, expire, close, resolve manually | order push; reads outbounds and receipts |
| Shipment delivery (`invoice/shipment_delivery.py`, `shipment_inspection_service.py` and the services beside them) | `ark_shipment_settlements`, `ark_shipment_outbounds` with token and lease, LATE facts | `queue_ready`, `deliver`, `refresh`, `recover_expired`, absence recovery, retry, reconciliation, cancellations | gates; OKKI; inspections |
| Freight delivery (`invoice/freight_delivery.py`; not modelled) | receivables with token and lease | push, recover, retry | gates; OKKI |
| Agent runs (`agent_runtime/worker_service.py`, `service.py`) | `ark_agent_runs` with lease and attempt | `claim_run`, `heartbeat`, events, `complete_run`, `fail_run`, `cancel_run`, `reconcile_expired_runs` | workers outside the process; delegations |
| Delegations (`customer/delegation_service.py`, `delegation_guard_service.py`, `work_item_service.py`, `work_item_source_service.py`) | `ark_customer_delegations`, work items | create, pause, resume, cancel, `enqueue_waiting_delegations`, `guard_run`, `freeze_delegations` | agent runs |
| Image jobs (`design_image`, `customer_image`) | jobs with lease and token, assets, invitations with a quota, files | turns, batches, retries, generations, claim, finalise, recover, clean-up | image providers; storage |
| Inventory, finance (`inventory`, `finance`; not modelled) | documents, reservations, ledgers | reserve, post, reverse | invoices |
| Everything else (70 domains, portals, front ends) | see PROJECT.json | mostly one row per command | — |

The behaviours that are hard:

* **Concurrency.** Senders of one invoice (order push, receipts, outbounds,
  removals), the recovery jobs and administrators act on the same rows; a
  worker holds no lock while it prepares a POST (minutes) or waits for OKKI.
* **Failure.** A process may die between any two commits. An answer may be a
  definite refusal, a timeout, a 5xx, unreadable, or lost because the database
  refuses to store it. A row's lease may expire under a live worker.
* **Ordering.** Evidence of a request arrives after its row was given to
  somebody else, or contradicts an outcome that was already acted upon.
* **Timeouts.** A claim's lease (two request timeouts and a minute) decides
  when a person may declare a request unsent; a row's lease (30 minutes to
  prepare, 5 minutes to send) decides when recovery takes the row.

What makes each component correct:

* gates: one sender per active invoice; no route change over an unresolved
  request; no phase that disowns existing duties; contradictions freeze;
* sending and receipts: at most one document per receipt; `not sent' and
  `voided' are true; unknown outcomes wait for evidence; an identity that came
  back is never lost, shared or replaced; rows do not stay in `syncing';
* scan: no eligible row waits for ever, no row twice in a batch;
* removal: a document is removed only on a recorded intent, a receipt archived
  only on evidence; a removal given up was not carried out; a pending deletion
  is written by nobody else;
* order push: at most one order per invoice; `synced` is true of OKKI; an order
  that was acknowledged is bound or waits for a person; the verdict of a linked
  task on its own push is true, whoever stalled;
* shipments: at most one outbound per batch, none behind a cancelled one; a batch
  shown as created or shipped is that; a deletion in OKKI is noticed as long as OKKI
  still finds the document;
* agent runs: a run nobody asked to stop serves the present generation of an
  active delegation; no new run starts over one whose outcome is unknown; a stop
  is obeyed and a started run ends;
* image jobs: the quota is exact; what is refunded was never sent; a job is asked
  for in one call of the image service only, which may repeat its POST, ends once,
  and keeps its inputs and its output.

## 2. The modules

| module | models | about |
|---|---|---|
| `TransitionAuthority` | gates and transfer | state machine, its properties, and variants with a fault |
| `ExclusiveResponsibility` | — | abstract specification: a responsibility is a lock that is taken once and may be contested |
| `LegacySending` | one POST under a claim | actions of sender, OKKI and clock over the rows of `TransitionAuthority` |
| `ReceiptDelivery` | receipts of one order | composes rows, workers, recovery and people with `LegacySending` |
| `ReceiptRemoval` | removal of one bound receipt | composes row, intent, evidence and the others who read it with `LegacySending` |
| `FairScan` | rotating scan and batch loop | stands alone |
| `OrderPush` | pushing one invoice, its recoveries, linked synchronisation | composes executors, reviewers and linked runs with `LegacySending` |
| `ShipmentDelivery` | the outbound of one presale batch, its inspection, its recoveries | composes executors, readback, people and inspection with `LegacySending` |
| `DelegatedRuns` | agent runs of the delegations of one work item | composes runs, workers, delegations, item and sources |
| `ImageJobs` | image queues of studio and portal | one worker protocol, two desks |
| `TransitionAuthorityProofs` | — | theorems about `TransitionAuthority`: exclusivity; evidence, and the refinement of `ExclusiveResponsibility` |
| `SendingProofs` | — | lemmas about every original POST (`LegacySending`), which the proofs about its clients instantiate |
| `ReceiptDeliveryProofs`, `ReceiptRemovalProofs`, `OrderPushProofs`, `ShipmentDeliveryProofs`, `DelegatedRunsProofs` | — | theorems about the module each is named after |
| `QueueProofs` | — | theorems about `ImageJobs` and about `FairScan`, which share nothing |
| `MCTransitionAuthority`, `MCReceiptDelivery`, `MCReceiptRemoval`, `MCImageJobs` | — | symmetry and values for TLC |

`ReceiptDelivery`, `ReceiptRemoval`, `OrderPush` and `ShipmentDelivery`
instantiate `LegacySending`, which instantiates `TransitionAuthority` with the platform in `legacy_only`, one
invoice and one request key per POST or removal; so the gates a receipt, an
order or an outbound passes are the very definitions that are checked and proved on their own.

**How state corresponds.** `policy`, `writers`, `authority`, `claims`,
`evidence` and `preparations` are tables; a missing row is `None` or `absent`.
Phase, route, claim state and row state keep the code's names. `holdsKey` says
that `active_invoice_key` is set. `row` is `ark_receipts` with `sync`, `phase`,
`kind`, `due`, `tries`, `token`, `leased` for `sync_status`, `send_phase`,
`recovery_kind`, `next_attempt_at`, `recovery_attempts`, `attempt_token`,
`lease_until > now`. `prepared` and `reviewed` stand for a comparison of
versions: a write of the row clears them, as it moves `version`. `attempt` is a
worker's call stack (`stage`, `error`, `sent`, `round`), lost in a crash, with
the columns of `ReceiptAttempt` (`remote`, `handled`), which survive. `post`,
`reply` and `inflight` are the sender inside `invoke` and the network; `created`
is OKKI.

**How actions correspond.** An action is one transaction, one HTTP exchange or
one step of the clock. In the gates every function begins by locking the policy
singleton and its caller commits, so a call is atomic, and optimistic versions
(`policy.version`, `lock_version`) only refuse a caller that lost a race. In
`ReceiptDelivery` the handler `deliver` is split exactly at its commits and at
the HTTP call: `Claim`, `Prepare`, `BeforeSend`, `Consume`, `Answer`,
`Remember`, `Persist`, `Accept`, `Handle`; between two of them anything else
may happen, and `Crash` ends any of them. A manual read-back and the decision
that follows it are two actions (`Review`, `ConfirmNotCreated`), as in
`reconciliation_service.recover`, which releases its locks in between and
compares a digest afterwards.

In `ReceiptRemoval` `row` is the same table with the columns a removal looks at;
`flow` is the token of the last `delete_started` log that no `delete_abandoned`
follows, so `Pending` is `deletion_service.pending`. `step` says how far each
caller, the scheduler and the administrator are in capture, read and commit;
`proof` is what was read. The digest a caller compares after its read covers the
row and the intent, so a write of either ends the older captures there and then
(`Write`) instead of letting them come back to be refused. `Intend` is the commit
before the POST, `Consume`, `Answer`, `EndPost` are `invoke_removal`, `Finish`
and `Abandon` the two commits that end a pending deletion. `document` is OKKI's:
active, removed but readable, or gone. A readback becomes `early` when
the lease of the claim ends under it; no guard tells it from a later one, but the
history variable `misread` remembers the intents that were given up on one.

In `OrderPush` an attempt `a` is one executor and what it writes to the invoice
log: `push[a].facts` are its FACT records by POST, `settled` the fingerprints a
FINISH or a REVIEW has accounted for, so `Unresolved` is `facts.unresolved`: an
observation recorded later opens the attempt again. `invoice.attempt`, `leased`
and `task` are `sync_attempt`, its lease and the linked task that owns the row.
`Owns` is the test every commit of the executor makes before it writes the row;
`Record` is the one commit that does not make it (`record_original`), because an
observation must survive its executor. The executor is split at its commits and
at the POST (`Claim`, `Consume`, `Answer`, `Remember`, `Record`,
`AuthorizeRetry`, `Apply`), the linked run likewise (`StartRun`, `StepSending`,
the push, `Judge`, `Step`, `Finish`): it reads its verdict in one transaction
and writes it in the next. `readback` is an order a reviewer has read and found
equal to the row; every write of the row or its facts forgets it, which is the
comparison of captures in `sync_recovery` and `order_query_recovery`. The five
minutes of an attempt may run out at any moment, also while a POST of it is on its
way, unless it is the first, whose three minutes start with them; the history variable
`outlived` remembers that this happened to a second POST.

In `ShipmentDelivery` `row` joins the batch with its outbound, as their states move
together: `waiting` and `paused` are the batch before an outbound exists, `late` the
LATE facts of `remember_late_result`. `worker[a]` is one execution of `deliver`, split
at its commits and at the POST (`Claim`, `Prepare`, `Grant`, `Consume`, `Answer`,
`Remember`, `Persist`), `check[k]` one execution of `refresh` between its
reads (`CheckRead`) and its transaction (`CheckCommits`). Two writers look at the row
without a lock and commit an UPDATE by primary key, with no version column to refuse it:
the exception handler of `deliver`, which reads where `Fails` is and
writes in `Record`, and `recover_expired` (`SweepSelects`, `SweepWrites`). Anything
may happen to the row in between. `gone` are the deleted documents OKKI does not find any
more (`remote.read` raises, and the row stays as it is), the parameter `same` of
`CheckRead` is false for a document that was edited in OKKI and differs from the frozen
task, and `overwritten` remembers that a handler wrote `failed` over a row that was not
its executor's any more. The named lock (`GET_LOCK`) that `deliver`, `refresh`, absence
recovery and the cancellation of deleted documents hold is not in the model, as it
is lost with its connection: executors may overlap. `read` is what a person has
seen in OKKI: every write of the row forgets it, which is the comparison of
captures each service makes after its read. `inspection[o]` counts the submissions and
recalls of document `o`; odd is submitted.

In `DelegatedRuns` `run[<<d, g>>]` is the run with idempotency key d-g; the lease
token is the attempt number, and a worker `k` may report with an old token at
any time. The helpers (`Frozen`, `Reconciled`, `Guarded`, `StopRecorded`, ...) map the rows
a transaction has locked to the rows it leaves, as the functions they are named
after do, and each action composes those its handler calls in the handler's
order. A worker that acknowledges a stop leaves its lease on the run, as `complete_run` does. A reconciliation decides on the delegations it read before it
froze some (`autoflush=False`): the ones frozen in the same transaction stay paused.
`item` is the work item with its source revision, `drift` what the
sources did that `reconcile_item_inputs` has not seen yet, `authorised` whatever
permissions, assignment and profile say.

In `ImageJobs` `job` is the row, `worker` the thread that executes it (lost in a
crash), `file` the stored output. A worker's `step` separates what the code
separates: nothing sent, sent and not answered, stored and not committed,
commit not acknowledged (`unsure`), failed before or after the call. The call is
`image_service._send_with_retry`: `Send` is its first POST, `PostAgain` the repetition of
one that was refused with 502 or 503 or whose answer was lost, `PostWithout` the repetition
without an optional parameter the service rejected. `tries` and `strips` count
them, `bill` what the provider has charged for the call: nothing, at most one image, or possibly
more (`unclear`). `pending` is
a message that waits for `resolve_message_action`. `deployment` chooses the desk,
where files are kept, and the inputs.

**Abstractions.** Amounts, fees, balances, permissions, proofs and messages are
one free choice (`PrepareFails`) where they may refuse a send. A payload is its
request key. A writer receipt is `ready` or `unknown`; raising
`min_writer_version` is the same as its writers becoming unknown. `sync_status`
`waiting_target`, batches and presale targets are left out, as are resource
scopes, bank identities and settled authorities. Time is a bit per lease, kept while
something reads it: a claim loses it when it is resolved, a row with its token when
it is no longer `syncing`.

* `OrderPush`: the content of invoice and order is a version. Whether the
  accepted lines can be verified, receipts and stock agree and permissions hold is free
  wherever it only refuses. The named inventory lock is not relied on, as it is
  lost with its connection. An administrator who confirms that no order was
  created has looked in OKKI, and there is none. A POST refused with a second
  401 counts as rejected. The draft and ready forms of `not_synced` are one; the
  query's `MAX_QUERIES` is not counted.
* `ShipmentDelivery`: `shipped` stands for `shipped` and `shipped_unfunded`, as
  funding decides between them and nothing else depends on it. The
  historical confirmation step (`confirming`, `confirm_uncertain`) is left out. A
  document is inspected only if no other one of the batch is; where OKKI may be
  late, nothing is submitted or deleted and no 401 is met (the bound of `Prompts`).
* `DelegatedRuns`: one item, one person. Readiness of the inputs, per-user caps
  and refusals are free. Queued runs are claimed in any order. `open` stands for
  the item's states new, in progress, waiting and decision required. An owner
  change inside a reconciliation is part of `authorised`. Contexts, the contents
  of events and artifacts, the event log's own idempotency, `waiting_input`
  as a status of its own and runs without a delegation are left out.
* `ImageJobs`: one user, or one invitation. The limit per day, the check of
  presets and configuration, the expiry of drafts and of sessions are free or
  left out; an idempotent repeat of a request changes nothing. Jobs are claimed
  in any order. A look after an uncertain commit sees that commit decided.
  Outputs used as later inputs and library assets are left out.

## 3. The runs

| run | instance | states | shows |
|---|---|---|---|
| `authority` | 2 invoices, a request and a removal, 2 identities, epochs and observations ≤ 2 | 88 k | `ExclusiveSender`, `KeyIsExclusive`, `PhaseMatchesDuties`, `RouteChangesAreFenced`, `ContradictionFreezes`, refinement of `ExclusiveResponsibility` |
| `delivery` | 1 receipt, 2 claims of it, 2 POSTs each, prompt OKKI | 29 k | `NoDuplicateReceipt`, `NotSentIsTrue`; with fairness `NothingIsStranded` |
| `late_twins` | 2 indistinguishable receipts, 2 claims between them, 1 POST each, OKKI arbitrarily late | 0.40 M | `UnresolvedIsParked`, `UnknownIsDecided`, `IdentityIsStable` |
| `removal` | 1 receipt, 2 callers, read-back, administrator, 1 amendment; OKKI prompt, or arbitrarily late; evidence arbitrarily old | 1.22 M | `OutcomeIsTrue`, `RemovalIsIntended`, `PendingIsFrozen` |
| `fair_scan` | 5 rows, batches of 2, one failing row, a restart | 6 k | `NoStarvation`, `WaitIsBounded` |
| `order_push` | a new or a pushed order, 2 executors, one 401, 1 edit, 1 linked task with 1 run; a new order also with an OKKI arbitrarily late | 0.61 M | `NoDuplicateOrder`, `SyncedIsTrue`, `NothingIsForgotten`, `TaskIsTruthful` |
| `shipment` | 1 batch, 2 executors, one 401, 2 submissions or recalls, 1 deletion; OKKI prompt, or late | 0.89 M | `OneOutbound`, `OutboundIsTrue`; with fairness `DeletionIsNoticed` |
| `delegated_runs` | 1 delegation, 2 generations, 2 leases of a run, 2 source revisions | 69 k | `RunMatchesDelegation`, `EarlierRunsStopped`, `HandoverIsCurrent`; with fairness `DelegationsMoveOn` |
| `image_jobs` | 2 jobs, 2 requests, 2 sessions, inputs, 2 POSTs in a call and 1 optional parameter; a studio on cloud storage or a portal on local storage | 0.78 M | `QuotaIsExact`, `FilesAreKept`, `ConversationIsSerial`, `PaidByOneCall`; with fairness `JobsEnd` |
| `correction`, `image_output`, `starvation` | small | — | a disagreement each, section 6 |

**Bounds.** Two invoices are needed for a transfer of a set and for policy
checks that quantify over invoices; two keys for one sender against another and
for a late contradiction of the first (an original request and a removal, as they
differ in what they may report); two identities for documents that disagree; two
observations, counted over all requests, are one and its contradiction; epoch 2 for a stale sender. More keys of one invoice only repeat the
second, as claims interact through their invoice alone. Two claims of a receipt
row (`MaxAttempts`) are a worker and its successor after recovery, retry or a
confirmation; two POSTs are the retry of `push` after a 401. `PrepareLimit` and
`VerifyLimit` are 2 instead of 5 and 8: the counters are shared, and both the
last allowed and the first refused retry occur. `late_twins` asks about
identities and late evidence, not about retries: its limits are 1, and
`MaxClaims` shares two claims between the rows, so that either each row has one,
or one row is claimed again while the other looks like it. Five rows and batches of two make
the cursor wrap with a batch that is part front, part back; `missed` counts no
further than the table has rows, more than the bound `WaitIsBounded` puts on it.

Two callers of the deletion, each able to come again, are the one who recorded
the intent and another who finishes it, gives it up or records the next; one
amendment is enough for terms that no longer match.

In `order_push` two executors are one that stalls and the one recovery lets in;
`MaxRetried` gives the 401 and its second POST to the first of them, in
behaviours without a linked task, as the two only multiply. One edit separates the version a stalled
executor carries from the present one; one linked task with one run meets every verdict, its
expiry, closing and manual end. A late OKKI is checked for a new order, where a
duplicate could arise. In `shipment` two executors are again one that stalls
and the one let in after it; two edits are a submission and its recall; one document
is deleted, which is enough, as a batch has one document at a time. In `delegated_runs` two generations are a run and the one
that must not start over it, two attempts a lost lease and the last one; one
generation is kept in reserve for a source that becomes invalid. In `image_jobs`
two jobs are a batch, a retry beside another request, or two
generations that compete for the last unit of a quota of one; `Attempts` is 2 instead of the
code's 3, the first POST and a repetition, and `Optional` is 1, so a repetition happens both with and
without the parameter. `QueueProofs` has no such bound.

`CHECK_DEADLOCK FALSE` in the gates, receipt, order, shipment, delegation and image runs:
the system may stop when all bounded keys, attempts or jobs are used and every
row is settled.

**The promptness assumption.** `Prompt` (`prompt` in `LegacySending`,
`ReceiptRemoval`, `OrderPush` and `ShipmentDelivery`) says that a POST takes effect while its sender waits, which is no longer than the claim's lease. The code relies on it:
`send_lease_until` is chosen so that a person may declare a request unsent only
after the worst case of two timeouts plus a margin. Under `Prompt` there is at
most one document per receipt and an attestation is true. Without it no
protocol could promise that, and the run `late_twins` checks what still holds:
nothing becomes invisible, conflicts stay blocked, unknown outcomes are decided
by evidence. `order_push` chooses `prompt` at the start (`Prompts`); there
`NoDuplicateOrder` and `SyncedIsTrue` are claimed of a prompt OKKI, the rest of both;
`shipment` does the same, and claims `OneOutbound` of a prompt OKKI.

**What the properties except.** Four times the code allows a behaviour that no line
excludes and that the property at hand would otherwise forbid. The model has it in each case,
and the property names it:

* `OrderPush`: the second POST of an attempt, sent after a 401, may outlive the
  attempt, whose five minutes are not renewed while the claim's three start afresh
  (`outlived`). `SyncedIsTrue` excepts it; `NoDuplicateOrder` does not.
* `ReceiptRemoval`: `abandon` reads OKKI first and lets `confirm_not_sent` test the
  lease of the claim afterwards, so a read made before the POST took effect can
  release it once the lease has run out (`misread`). `OutcomeIsTrue` excepts a
  receipt given up like that from `removed nothing', and still
  demands that nothing of it is on its way.
* `ShipmentDelivery`: a handler may write `failed` over the row another executor has
  claimed since it was read (`overwritten`). `OneOutbound` excepts what follows; it
  takes two executors at once, that is, a lost named lock. A stale sweep and a stale
  `uncertain` need no exception. And a deleted document OKKI does not find any more
  is not noticed by the job (`gone`), which `DeletionIsNoticed` excepts.
* `ImageJobs`: one call of the image service may repeat a POST whose answer was lost,
  so a job may be paid for more than once (`bill`). `PaidByOneCall` allows that
  within the one call of a job and nowhere else.

Section 6 has the traces.

**Fairness** (`delivery`, `fair_scan`, `shipment`, `delegated_runs`, `image_jobs`). The receipt job runs every 30 seconds,
one instance at a time (`schedulers/registry.py`): weak fairness of
`RecoverExpired`, `RecoverLate` and `VerifyDue` per row, and of a pass of the
scan. Leases expire because time passes. A prompt sender's POST ends because
httpx's timeouts end it. Nothing is assumed of OKKI, of people, or of a worker
between two steps: it may stop for ever. `NothingIsStranded` follows
from recovery alone. `RecoverExpired` of a row rests on the batch
reaching it; that is what `fair_scan` shows of `take`, and `recover_expired`
itself takes all rows. `NoStarvation` assumes a pass that catches what one row
raises (`Isolated`), as `refresh_accepted`, the handler behind `verify_due`,
does for itself; the loop over `deliver` in `process_receipts` does not, which
is the finding `starvation`.

`process_pending` reads verified outbounds back in every pass, the ones checked
longest ago first, and moves their time of checking even if the reading fails:
weak fairness of `ReadBack`. It assumes that OKKI can be read again and again, except
for a document it does not find.

`reconcile_expired_runs` and `enqueue_waiting_delegations` are jobs of the same
registry (every one and five minutes); that some worker polls for runs is the
purpose of the external worker, and weak fairness of `Claim` says it. Leases age,
a run reaches its time limit and a review falls due because time passes. Nothing
is assumed of a worker that holds a run or of people. `DelegationsMoveOn` excepts a waiting
delegation that has used the last generation of the bound (`Bounded`).

The image queue is polled every few seconds: weak fairness of `Claim`. (`MaxRunning` is
2, so the studio's limit never keeps one of two jobs waiting; that a job comes to its turn under
a limit that is reached is not checked.)
A worker that lives goes on (`Work`), as httpx limits the wait for the
provider, its repetitions are counted and nothing else blocks it; a worker may die at any step, and then the lease nobody
renews runs out. A heartbeat may also fail under a living worker, without any fairness.

## 4. The properties

* `ExclusiveSender` — while an invoice is active, at most one original request
  is unresolved; it holds the unique key and carries the present route and
  epoch. Two senders, a late contradiction or a transfer could break it.
* `KeyIsExclusive` — the UNIQUE constraint never has to refuse.
* `PhaseMatchesDuties`, `RouteChangesAreFenced` — policy and route never move
  away from duties that exist.
* `ContradictionFreezes` — the observation that first contradicts what is known
  freezes the invoice in the same transaction.
* `ResponsibilitySpec` — the gates implement the lock of
  `ExclusiveResponsibility`; the mapping takes the open claims of an invoice as
  its holders, the existing rows as spent keys, and frozen as blocked.
* `NoDuplicateReceipt`, `NotSentIsTrue` — about OKKI's documents, not only about
  the rows: one per receipt at most; none for a request attested as not sent, nor
  for a voided receipt.
* `UnresolvedIsParked`, `UnknownIsDecided` — unresolved money and conflicting
  identities are visible and leave that state only by evidence.
* `IdentityIsStable` — one document, one receipt, for good.
* `OutcomeIsTrue` — the two ends of a removal are true of OKKI's document, through
  lost answers, crashes and a removed document that is still readable; an
  acknowledged removal is not given up; one given up as not sent removed nothing,
  unless that rests on a readback made under the claim's lease (`misread`), and
  will remove nothing.
* `RemovalIsIntended` — the POST, the intent, the frozen row and the order's lock
  stay together, whoever finishes the deletion.
* `PendingIsFrozen` — the scheduler and the administrator never write a pending deletion.
* `NoDuplicateOrder` — about OKKI's orders: no executor, retry, review, query or
  linked run makes a second one.
* `SyncedIsTrue` — an invoice shown as synced is what OKKI holds, and no older
  POST is still under way that could overwrite it; assumes a prompt OKKI and excepts a second
  POST that outlived its attempt (`outlived`).
* `NothingIsForgotten` — an acknowledged order is bound or blocks the invoice, also
  when its acknowledgement came after a review that had found none; no claim
  stays open behind an invoice that looks settled.
* `TaskIsTruthful` — the verdict of a linked run, read in one transaction and
  written in the next, with the push and its lease running beside it, is true of
  OKKI; a task that is not over keeps its invoice.
* `OneOutbound` — about OKKI's outbounds: never two of one batch, and none, nor
  one still under way, behind a cancelled batch, whose money and goods are free
  again. Executors, recoveries, retries, both cancellations and the stale writes of
  handlers and sweeps meet in it. Excepted is what follows a `failed` that was written
  over another executor's row (`overwritten`).
* `OutboundIsTrue` — batch, document, claims and inspection agree, whatever
  refresh, reconciliation, submission and recall overtake one another.
* `DeletionIsNoticed` — liveness: a document deleted in OKKI, still readable there, does
  not stay behind a batch shown as created or shipped. One that OKKI does not find any more
  may (`gone`).
* `RunMatchesDelegation`, `EarlierRunsStopped`, `HandoverIsCurrent` — delegation and
  run stay together through stops, expiries, source changes and late reports; no
  run starts over one whose outcome is unknown; what is handed over belongs to
  the present generation and inputs.
* `QuotaIsExact`, `PaidByOneCall` — money of the image desks: what is counted and given
  back; and that nothing but the repetition of a POST within the one call of a job
  pays for it again.
* `FilesAreKept`, `ConversationIsSerial` — files and conversations against
  clean-ups, lost acknowledgements and late confirmations.
* `WaitIsBounded` — how long a row may wait for its batch, in batches.
* `NothingIsStranded`, `NoStarvation`, `DelegationsMoveOn`, `JobsEnd` — liveness.

Each property is also run against variants of one definition with a plausible
bug (the definitions commented `Faulty variant'), and fails there.

## 5. What is proved

`TransitionAuthorityProofs` proves, for all sets of invoices, request keys,
writers and identities and all bounds, from the assumptions of
`TransitionAuthority` (`None` is none of the values it stands beside, removals
are requests, there is an identity):

* `TypeCorrect` — `Spec => []TypeOK`;
* `Invariant` — `Spec => []IInv`;
* `SenderIsExclusive` and `KeyNeverCollides` — the two exclusivity properties;
* `PhaseFollowsDuties` — `Spec => []PhaseMatchesDuties`;
* `RoutesAreFenced` — the action property `RouteChangesAreFenced`.

`ExclusiveSender` is not inductive: if a claim could exist on an invoice without
an authority row, `EnsureAuthority` would create an active invoice under it with
any route and epoch. `Linked` excludes that (an existing claim belongs to an
invoice whose row exists), and `IInv` joins it with the types and with both
exclusivities, which share their case analysis. The argument has one lemma per
group of actions; `OneClaimCloses` carries the actions that close one claim,
`DutiesUntouched` those that leave claims alone. `PhaseMatchesDuties` is
inductive given `TypeOK` (`PhaseStep`). `RouteChangesAreFenced` follows from
`TypeOK` alone: actions on claims keep every route (`ClaimsKeepRoutes`), and the
few that move one are taken one by one (`RouteStep`).

It goes on, under the same assumptions, to what is promised of evidence:

* `EvidenceInvariant` — `Spec => []FitInv`, of which `EvidenceFits` is new;
* `ContradictionsFreeze` — the action property `ContradictionFreezes`;
* `GatesImplementResponsibility` — the refinement, `Spec => ResponsibilitySpec`.

Whether an observation contradicts *for the first time* depends on what the row
and the older evidence say of each other. `Fits` states that: an unresolved claim
has no conclusive evidence unless it is contested; a closed claim agrees with its
conclusive evidence, and has some. Without it a claim might be closed on one
outcome, have evidence of the other, and be contradicted in the set of its evidence by
an observation that agrees with the row, which freezes nothing. The refinement goes action by
action: begin takes the lock, closing and releasing give it back, a
contradiction contests it, and everything else stutters.

`SendingProofs` has the lemmas that the clients of `LegacySending` share. `SendInv`
says of every request, for any set of them, how ticket, claim, answer, wire and
OKKI fit: what is on the wire was a ticket; an answer that rules an effect out is
right; a `failed` claim has no effect; while nothing is frozen at most one claim is
unresolved; and, if OKKI is prompt, what is under way still has its lease. Each step of
`LegacySending` has an effect lemma and a lemma that it keeps `SendInv`. A client
instantiates the module with its own requests and first shows that its steps are these
(`SameGrant`, `SameRemember`, ...).

`ReceiptDeliveryProofs` proves, for all receipts, any number of claims per row, one or two
POSTs per claim and all limits of the retries, from the assumptions of `ReceiptDelivery`
(the limits and bounds are numbers, `None` is no request):

* `DeliveryInvariant`, `TypeCorrect` — `Spec => []IInv` and `Spec => []TypeOK`;
* `NoReceiptIsDuplicated`, `NotSentMeansNotSent` — `NoDuplicateReceipt` and
  `NotSentIsTrue`, assuming `Prompt`;
* `WhatIsUnresolvedIsParked` — `UnresolvedIsParked`, for any OKKI;
* `UnknownOutcomesAreDecided`, `IdentitiesAreStable` — the action properties
  `UnknownIsDecided` and `IdentityIsStable`, for any OKKI.

`IInv` has a part per worker (`WorkerFits`: its stage decides what may come of its
requests; before its first ticket nothing, in `returned` exactly its document)
and a part per row: `RowShape` (counters and states), `IdentityFits`, `UnresolvedFits`,
`ConflictFits`, and `EffectFits`, the part about a prompt OKKI. `EffectFits` is why there is one document:
a request that can still take effect belongs to the worker whose token is in the row, under
both leases, on a row without document; and a document keeps its row away from
sending for good. The token alone would not do, as OKKI does not look at it: a prompt
POST ends before the lease of its claim, and that one before the lease of the row.
`Prompt` is assumed where section 3 says that the code relies on it and no protocol could do without.

`ReceiptRemovalProofs` proves, for any callers and any number of amendments, from the
assumptions of `ReceiptRemoval` (the bound is a number; callers, scheduler, administrator and
`None` differ):

* `RemovalInvariant`, `TypeCorrect` — `Spec => []IInv` and `Spec => []TypeOK`;
* `RemovalsAreIntended` — `RemovalIsIntended`;
* `OutcomesAreTrue` — `OutcomeIsTrue`, with its exception and no assumption about time beyond `prompt`;
* `PendingStaysFrozen` — the action property `PendingIsFrozen`.

The claims of `Calls` say little about the document by themselves; `IInv` ties them
to the intent (`ClaimFits`: an unresolved or succeeded claim is of the recorded intent), the captures to
the row (`StepFits`), the readbacks to the document (`DocumentFits`: what was read
as deleted is). `ReleaseFits` says of a claim released as not sent that nothing of it is on its
way and that it had no effect, unless it is in `misread`; the one step that needs this is the
abandonment of an intent by an early readback (section 3).

`OrderPushProofs` proves, for any number of attempts, edits, linked tasks, runs and refused
tokens, for new and for pushed orders, from the assumptions of `OrderPush` (the bounds are
numbers, `Prompts` are truth values, `None` is no order, version or run):

* `OrderInvariant`, `OrderTypes` — `Spec => []IInv` and `Spec => []TypeOK`;
* `OneOrderOnly` — `NoDuplicateOrder`, whether or not an attempt is over within its lease;
* `SyncedMeansSo` — `SyncedIsTrue`, with its exception `outlived`;
* `NothingForgotten`, `TasksAreTruthful` — `NothingIsForgotten` and `TaskIsTruthful`, for any OKKI.

`IInv` says of every executor what its stage allows (`ExecutorFits`: a second POST follows a 401 and a closed
first claim; a fact is true of OKKI; what a review settled is still what the facts say) and
which attempt the row belongs to (`InvoiceFits`: the one that made it uncertain, at its
version, unsettled). `NothingLost` is the first half of `NothingIsForgotten` by facts instead of acknowledgements. `OneOrder` is
the argument for one document: an order that is not bound yet is of the attempt that has
the row, and a request that can still take effect (`Alive`: on the wire, or a ticket whose claim
is sending) belongs to it too, under a claim that is leased, and none exists if it is to
create one. Once a second POST has outlived its attempt that holds of requests that create an order, for which no
order is bound while they run; an update that outlives its attempt may overwrite a newer version, which is why
`SyncedIsTrue` needs `~outlived` (`Current`) and `NoDuplicateOrder` does not.

A linked run reads the verdict in one transaction and writes it in the next, and a task may
be run again after a failure. `TasksFit` therefore speaks of all runs of a task: once the task is failed or waits
again, each attempt made for any of its runs is `Barren` (over, and nothing of it is in OKKI or on the
way), unless the order step is `Written`; a run whose token is no longer the task's concludes nothing.
`RunFits` has one conjunct per point at which the run loop can be interrupted.

The proof found one fault of the model: two arms of a CASE in `Apply`, and two in `Judge`, were true
together. TLC takes the first; the language leaves the choice open, and with the other arm of
`Apply` an attempt would be settled whose row is still uncertain. The guards now exclude each
other, as the branches of the code do.

`ShipmentDeliveryProofs` proves, for any number of executions of `deliver`, submissions
and recalls, with a second POST in each execution, from the assumptions of `ShipmentDelivery`
(the bounds are numbers, `None` is no request, `Prompts` are truth values):

* `ShipmentInvariant`, `TypeCorrect` — `Spec => []IInv` and `Spec => []TypeOK`;
* `OneOutboundOnly` — `OneOutbound`, which is about a prompt OKKI and the time before
  anything is `overwritten`;
* `OutboundsAreTrue` — `OutboundIsTrue`, for any OKKI.

`OneOutbound` counts documents that are there or under way. Inductive is a wider
notion: `Present` adds the ticket that has not been used, and `EffectOf` says that there is at most
one present request; that whoever reads `absent` or `retired` while the row stays as it is will not find one
later; and that a row with one is neither free nor cancelled. So a row that is given
back, by recovery, retry or cancellation, has none, and one that is `sending` has only that of
its token. All this holds while `Sound` does, which is the premise of the property. A stale sweep
writes `uncertain` over any row, so it may take a `sending` row from an executor whose POST is alive: `Alive` (on the
wire, or a ticket whose claim is sending) may therefore be of an `uncertain` row with that executor's token, where its
open claim under its lease keeps recovery away. `Alone` says of an executor that is yet to send, while the row
is its own, that no other request is alive. `failed` is written by an executor over its own row
only (that is `Sound`), after its request ended without effect, so the two ways that a `failed` row opens stay safe. `WorkerFits`
excludes a second request of the same executor beside the first (the 401 means that OKKI
did not act). `OutboundIsTrue` needs `VerifiedFits` (verification closes all claims of the
order, and nothing opens one behind a verified row) and that a submission or recall writes the row of the document it is of.

`DelegatedRunsProofs` proves, for all delegations, generations, attempts and revisions:

* `DelegationInvariant`, `TypeSafe` — `Spec => []IInv` and `Spec => []TypeOK`; the latter says where a
  lease is: on every run at work, and otherwise only on one whose worker acknowledged a stop (`LeaseFits`);
* `RunsMatchDelegations`, `EarlierRunsHaveStopped`, `HandoversAreCurrent` — the
  invariants `RunMatchesDelegation`, `EarlierRunsStopped`, `HandoverIsCurrent`.

The model composes each handler of helpers that map the locked rows to new ones, and
so does the proof: `Sound` is a predicate of such a world, `Loose` is `Sound` without the
delegations a transaction is still working on, and each helper has a lemma that
takes the one to the other. In the middle of a transaction a delegation may be active over a stopped run; at
its end it never is. The new facts: a run that has not stopped is the last one of its delegation, later
generations have no row at all, and what waits was handed over by a completed run from the delegation's own inputs.

`QueueProofs` proves of `ImageJobs`, for every finite set of jobs, all requests, sessions
and inputs, every quota and every choice of deployments, from the assumptions of
`ImageJobs` (the same kind as above; the jobs are finite, as their number is counted):

* `TypeCorrect` and `Invariant` — `Spec => []TypeOK` and `Spec => []IInv`;
* `QuotaCorrect`, `FilesCorrect`, `SerialCorrect` — the invariants
  `QuotaIsExact`, `FilesAreKept`, `ConversationIsSerial`;
* `PaidByOneCallCorrect` — `PaidByOneCall`, an invariant and an action property, for any number of repetitions.

None of these is inductive. `IInv` adds three facts. `Once`: a job is claimed
once, so its row and the step of its worker bound what was asked (nothing before the worker's call,
nothing if the job was given back, its image stored before it succeeds);
without it a late worker might ask or give back again. `InputsHeld`: in the
studio no input of any job is deleted, not only of the unfinished ones that
`FilesAreKept` names, because a failed job may be retried at any later time. `NoPending`: only the
studio asks back. The quota is a cardinality; a generation accepted adds one
element to the set it counts and a give-back removes one (`FS_AddElement`,
`FS_RemoveElement`), which is why one worker must not give back twice and why a
stale job and a living worker must not both do so. `WorkerIsLocal` and
`WorkerKeeps` carry the actions of workers, `StudioRows` those of the studio.

`QueueProofs` proves of `FairScan`, for every finite table, every batch size, every
handler and any number of restarts:

* `ScanInvariant` — `ScanSpec => []ScanInv`;
* `WaitingIsBounded` — `WaitIsBounded`.

That a batch has no row twice and is not too long is a matter of `Picked` alone
(`PickedSays`: the wrapped part takes only rows the front did not). The bound on the wait counts
batches and rows, not steps: `Gap(cursor, i)` are the rows between the cursor and row i,
round the table. A batch that leaves an eligible row out is full, and all its rows were in the row's gap,
up to which the cursor moves, so the gap loses `Limit` rows (`WayShortens`). Hence
`missed[i] * Limit + Cardinality(Gap(cursor, i)) < Cardinality(Ids)`, which is inductive
(`WayIsLeft`), whatever rows become eligible or cease to be. Nothing else moves the cursor but
a restart, which forgets the count with it. `Lowest` names the k-th row by the k - 1 rows below it, and its length
by a cardinality, so that what `ORDER BY ... LIMIT` returns follows from cardinalities and needs
no induction.

The invariants that the runs check all have a theorem. Only model-checked is
liveness (`NothingIsStranded`, `NoStarvation`, `DeletionIsNoticed`,
`DelegationsMoveOn`, `JobsEnd`), as temporal properties under fairness need ENABLED, which is out of the
prover's reach. The three disagreements of section 6 are TLC's. No proof is by
induction over data, and no module declares a RECURSIVE operator.

## 6. Where the code and its words disagree

Three runs show one each:

1. `correction`: editing a receipt that waits for an automatic preparation
   retry keeps that schedule, so the corrected receipt is sent without the
   explicit retry the comment promises. (`change`, no longer called, clears it.)
2. `image_output`: the studio's worker deletes the stored image when the commit
   of a finished job took effect but was not acknowledged, if files are kept on
   local disk: `cloud_reference_exists`, which is asked first, does not look
   there. The portal's worker looks the row up again. (The managed deployment is
   what `image_jobs` checks for the studio.)
3. `starvation`: `deliver` of a pending receipt of a frozen invoice raises
   outside its own `try` and ends the pass for the rows behind it.

Observations made while modelling, without a run of their own:

* gates: a later readback may close the reopened claim while the invoice stays
  frozen; the runbook's unfreeze procedure then matches no claim, and there is
  no other way out. `finish_send` reopens a contradicted claim even when another
  claim has begun, where its comment says it does so only otherwise; the freeze
  in the same transaction keeps this harmless for sending.
* receipts: between the commit that stores the identity on the claim and the one
  that stores it on the attempt, `confirm_not_created` is accepted if OKKI's
  listing does not show the document yet. `recover_late_results` skips voided
  receipts. `api-reference.md:2043` describes binding by receipt and attempt
  token, the code deliberately uses the receipt alone. A restart resets the scan
  cursor.
* removal: `abandon` tests the lease of the claim after its readback, not before
  it; a readback made while the POST is under way and used after the lease ends
  releases, as not sent, a removal that took effect. Usually there is time: the POST ends
  within a minute and the lease runs three; slow reads, a wait for row locks or a stopped process use it
  up. TLC reaches such a state in 11 steps (`misread`). The receipt is `synced` again, with its document gone. A document amended in OKKI
  while its deletion is pending is evidence for neither end of it, so the
  deletion stays pending until somebody undoes or removes it in OKKI.
  `remote_change_service` takes the readable details of a removed document for an
  active one, where the deletion looks at the lists.
* orders: after a 401 `authorize_retry` starts a claim of three minutes under a
  lease of five that it does not renew (`order_sync_execution.py:127` and `:153`),
  so a slow second POST may still be under way when the manual review opens; the
  docstring at `legacy_sending.py:38` places every send below that threshold.
  TLC reaches it in nine steps (`outlived`): `Claim`, `Consume`, `Answer`
  (401), `Remember`, `Record`, `AuthorizeRetry`, `LeaseExpires`, `Consume`. After
  a review that settled an attempt, an executor that
  records a late `unknown` or `rejected` opens the attempt again, and
  `late_context`, which asks for exactly one accepted reference, can never close it.
  `_finish_unsent_failure` treats an invoice in `sync_failed` as uncertain
  although nothing was sent.
* shipments: `_remember`, failing three times, raises a `TransitionError`, which is a
  `ValueError`, so `deliver` (`shipment_delivery.py:424`) classifies an unknown
  outcome as `failed`, with its claim open; likewise if the acknowledgement of
  `before_send`'s commit is lost. Retry is then refused by the open claim, absence
  recovery asks for `uncertain`, and `cancel_failed` cancels without closing the claim, where
  `claim_settlement.py` says that each settling path must close it; the claim then blocks
  every legacy send of the order. `deliver`'s exception handler and `recover_expired`
  read the row without a lock and write it at their commit, over whatever it is by then. Two
  executors at once, after the first has lost its named lock, can so cancel a batch whose
  POST is under way; in the model in 15 steps (`overwritten`):
  `QueueReady`, `Claim(1)`, `RowLeaseExpires`, `SweepSelects`, `PrepareFails(1)`, `SweepWrites`, `ReadAbsence`,
  `Recover`, `Claim(2)`, `Prepare(2)`, `Grant(2)`, `Record(1)` (`failed`), `ReadAbsence`, `Consume(2)`, `CancelFailed`.
  A sweep that is late never leads there, but it may turn a cancelled or verified row into
  `uncertain`. A deleted document that OKKI does not find is never noticed by the job: `refresh` reads without
  `allow_missing` (`shipment_delivery.py:259`), `process_pending` swallows what that raises, and the row stays as
  it is until a person cancels the deleted outbound, which an inspection once submitted forbids. An `uncertain` batch with a LATE fact whose document was deleted
  in OKKI has no way out. `verifying` and `uncertain` with a remote id are never
  read back by the job, only reconciled by hand.
* agents: `cancel_run` of a queued delegated run leaves its delegation `active`
  with no live run until a person acts (`RunMatchesDelegation` excepts it). A leased run
  that never starts may renew for ever, as the time limit counts from its start
  (`DelegationsMoveOn` is about started runs). `fail_run` with an unknown outcome of a
  run that has not started is refused. A delegation whose last run is ambiguous
  can be cancelled, never resumed. An acknowledged stop (the cancelled path of `complete_run`)
  keeps `lease_token_hash` and `lease_expires_at`, which the other ends of a run clear; the
  status alone makes `_leased_run` refuse its token. `reconcile_item_inputs` freezes delegations and asks, with
  `autoflush=False`, which of them the item's own transition had paused: those just frozen are not seen
  and stay paused.
* images: the image service posts one job up to three times (`_IMAGE_MAX_ATTEMPTS`), also after a broken
  connection and after a 502 or 503 behind which the provider may have made the image, so a job may be billed up
  to three times in its one call, and again without an optional parameter. It does not ask in between whether the
  job still has its lease: a job that recovery has failed may go on being posted. The portal gives nothing back for
  it (`classify_image_error` asks that nothing was posted).

## 7. Not modelled, and plan

Left out of the modelled parts: the read side of OKKI's order lines, stock and
presale settlement, and cancellation of an order (`OrderPush`); the older path
through `sync_coordinator` and the run loop of `linked_sync_service` that
`linked_execution` replaced; edits made in OKKI to an order; the closure of a
transfer (`PrepareTransfer` takes any set of confirmed invoices); batches of
three and more image jobs beside a third; `waiting_target` and presale targets
of receipts.

Not modelled: freight orders (a further client of `LegacySending`, with the same
token and lease); the historical confirmation of outbounds; the receipt index, a cache whose
candidates are read back before any decision; inventory and finance, whose
commands are one transaction each under row locks; mail outreach and messaging;
the other domains, which keep one row per command. User interfaces, text
generation, imports of mirrored data, decimal arithmetic and one-off migrations
have no protocol for a model checker to explore. Most of the repository's lines
are of these kinds.

Next, in this order:

1. Freight orders and the confirmation history of outbounds; `AuthorityTransfer`, closures
   over groups, batches and production orders.
2. An abstract lease-and-fence specification that `DelegatedRuns` and
   `ImageJobs` both implement; `StockLedger`.

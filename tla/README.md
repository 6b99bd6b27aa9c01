# Formal model of ez-prep-api

TLA+ modules, TLC runs and TLAPS proofs for the stateful parts of this repository: how an
order is paid exactly once while verify calls, webhooks, sweeps and refunds run
concurrently, how paid orders become entitlement windows that are stacked, revoked and
re-anchored, how money is refunded, and beside the commerce core the student sessions, the
mock-test attempts and the import of question papers.

## 1. The system

A NestJS service over MongoDB, with Redis for sessions and caches. It runs as one PM2
process in fork mode (`src/ecosystem.config.js`), so two request handlers interleave at
every `await` and at no other place. Schedulers run in the same process, guarded by an
in-memory `running` flag. MongoDB writes are single-document: the commerce code uses no
transactions and relies on compare-and-set updates (`compareAndSet`), unique indexes and
repair sweeps. A restart loses every request that is under way, between any two of its
database calls.

| Component | State it keeps | Operations | Talks to | What makes it correct |
|---|---|---|---|---|
| Order and payment lifecycle (`orders/orders.service.ts`, the two transition tables) | `orders`, `payments` | `markOrderPaid`, `markOrderFailed`, `markOrderExpired`, `markOrderRefunded`, `recordDuplicateCapture` | called by checkout, webhooks, reconciliation, refunds, and calls the paid handler | PAID only on captured money, the paid handler once, no capture lost, duplicates on record, status only along the documented edges |
| Checkout (`orders/checkout.service.ts`) | order in CREATED, 30 s claim, provider order id | quote, create, replay, verify | gateway, orders service | one provider order per order, open-order cap, replay is idempotent |
| Reconciliation and late-capture watch | `nextReconAt`, `reconAttempts`, `lateWatchUntil`, `needsReview` | `tick`: expire, reconcile, watch | gateway, orders service | every open order is closed or reviewed, a late capture is found |
| Provisioning and entitlements (`entitlements/`) | `entitlements`, `entitlement_locks`, `order.provisionedAt` | provision, revoke, re-anchor, lease lock, admin grant | called by the paid handler, the repair sweep, refunds and admins | windows back to back, one row per grant, no gap after a revoke |
| Refunds (`refunds/refunds.service.ts`) | `refunds` | begin, settle, fail, retry, reconcile, duplicate captures | gateway, orders service, entitlements | money returned once, the refunded order loses its access |
| Razorpay webhooks | `webhook_events` | ingest, apply, finish | orders service, refunds | each event applied in the end, redelivery harmless |
| Repair sweeps | `repairAttempts` and `nextRepairAt` of the order | provision, issue, render, clear, reschedule | provisioning, invoices | a PAID order gets what is missing |
| Invoices | tax invoices with their sequence and PDF key | issue, allocate a number, store the PDF | orders, storage | one invoice per order, numbers without hole or double |
| Student sessions (`auth/session`) | Redis records and refresh index, process-local cache and touch throttle | create, check, touch, refresh, revoke | guards, auth service | a revoked session stays revoked, the current refresh token works, a web session ends at its deadline |
| Mock-test attempts | `mocktestattempts` | start, answer, pause, resume, complete a session, submit, lazy expiry in every reader | question store | a closed attempt is final, its time and score are those of its sessions and answers |
| Import pipeline (`queues/`, `imports/`) | two BullMQ queues in Redis, `question_uploads`, `failed_questions`, question bank | publish, poll, run, recover, persist, import one failed question | parser, LLM | no question lost or inserted twice, no upload busy for ever |
| Accounting snapshot cache | Redis snapshot and lock | read, build, lock, unlock | reports | one builder at a time |
| Products, offers, catalog, tax, access, users, taxonomy, content, analytics, dashboards, configuration, infrastructure | documents, one at a time | CRUD and read-only computation | | per-document validation |

`PROJECT.json` lists the same parts with their files and status, and the hazards of the
code at the lines where they bite.

## 2. Modules and the code

| Module | Role |
|---|---|
| `PaymentStates` | statuses and the source sets of the compare-and-set writes |
| `OrderLifecycle` | abstract specification: one order that moves along the edges of the two transition tables and delivers once |
| `OrderPayment` | the handlers of `OrdersService`, one database call per action, and `Lifecycle`, the refinement mapping |
| `OrderPaymentProofs` | theorems about `OrderPayment` |
| `EntitlementWindows` | window arithmetic: the calendar months of a preset, stacking and the re-anchor walk |
| `Fulfilment` | provisioning, the lease lock, refund settlement, admin grant and revoke, and re-anchor for one user and one product |
| `FulfilmentProofs` | theorems about `Fulfilment` |
| `PaymentSignals` | what surrounds `markOrderPaid`: checkout's claim and gateway call, webhook events, the reconciliation tick and the late watch |
| `Refunds` | the refunds collection against the provider's own refunds |
| `StudentSessions` | sessions in Redis, one command per step, and the cache of the process |
| `MockTestAttempt` | handlers that fetch, change and save one attempt row |
| `ImportPipeline` | the upload document, the queues, the poll worker, the recovery and the admin requests |
| `Invoices` | from a paid order to its stored invoice: provisioning's save, the scheduled issue, the repair sweep and the administrator's repair |
| `PaymentSignalsProofs`, `RefundsProofs`, `StudentSessionsProofs`, `MockTestAttemptProofs`, `ImportPipelineProofs`, `InvoicesProofs` | theorems about the module each is named after |
| `MC...` | small instances for TLC |

`PaymentSignals` and `OrderPayment` share `PaymentStates` and divide the payment between
them: `OrderPayment` takes the handlers of `OrdersService` apart and lets any signal come at
any time, `PaymentSignals` takes those apart that send the signals and makes `markOrderPaid`
the two writes that can part, the payment row and the order. `Refunds` and `Fulfilment` divide a settlement in the same way: `Refunds` decides
when it happens, `Fulfilment` what it does to the windows. `Fulfilment` lets a sweep start the
provisioning of any PAID order, `Invoices` is how the sweep finds it, and reduces provisioning
to its first read and its save.

### OrderPayment

State: one order (`paymentProvider`, `orderStatus`, `opened`, `lateCaptureAt`, `lateWatch`),
its PRIMARY payment row, the set of its DUPLICATE rows, what the provider has captured, and
for each concurrent request the handler it runs and the next database call (`req`). A read
whose result is used later is an action that moves the request to the point the code would
be at. A compare-and-set is one action with two outcomes, and a missed one goes to the
separate read that the code makes next.

* Checkout: `MarkPendingPayment`, `MarkPendingMissed`, `FindInitiatedPayment` and
  `InsertInitiatedPayment` follow `openProviderOrder`. The claim and the gateway call
  precede `StartOpen`. Because a claim goes stale while its gateway call runs, several opens
  may be live.
* `markOrderPaid`: `PaidReadOrder` to `InsertDuplicate`. `proof` tells whether the signal
  carries a provider payment that may reopen a FAILED or EXPIRED order.
* `markOrderFailed`, `markOrderExpired` and `markOrderRefunded` likewise. Their callers (the
  reconciliation tick, the CREATED sweep, refund settlement) appear as the `Start...`
  actions, with the guard the caller has checked before the call.
* `CustomerPays` is the environment: the client holds the provider order once it is saved
  and may pay more than once.
* `Abort` is a restart or a database error: the request disappears between two calls. A
  restart that loses several requests is several aborts.

Ids of orders, amounts, signatures and audit rows are left out. The two gateways differ in
what the code does for them: Razorpay signals always carry proof, and only other gateways
are ever failed by reconciliation.

### Fulfilment

State: the paid orders of one user for one product, the entitlement row of each order and
grant, the rows of admins that name the product, the lock row with its lease, the clock, and for
each worker the handler and the point in it (`job`). The clock is a day counted from 1 January
2025 (`Days` are those on which anything happens), and a preset is a number of calendar months:
`ExpiresAt` keeps the day of the month and runs over into the next month like `setUTCMonth`.

* `provisionForPaidOrder`: `StartProvision` reads the order and the clock, `AcquireLock`,
  `FindWindow` stacks on the rows that are active, those of admins included, `InsertGrant` inserts one grant per step
  (the unique `provisioningKey` turns a repeat into a no-op), `ReleaseLock`,
  `SaveProvisioned`.
* `settleProcessed`: `ClaimRefund` is the compare-and-set to COMPLETED, `FindRows` and
  `RevokeRow` are `revokePaymentEntitlementsForOrder`, then the re-anchor under the lock
  (`PlanMoves`, `ApplyMove`), then `MarkRefunded`.
* `AdminRevoke` is one admin revoke with the same re-anchor. `AdminGrant` gives the user a row
  that names the product, and `RevokeGrant` takes it back. Neither takes the lock or re-anchors,
  and `PlanMoves` does not see such rows: the code asks for PAYMENT rows there
  (`entitlements.service.ts:219`, `:344`).
* The lock: `LockFree` lets a new holder in when there is no row or its lease is over,
  `LeaseEnds` ends the lease of a lost holder at any time and of a running holder within
  `MaxFaults`, `ReleaseLock` deletes the row only while it names the worker, `LockBusy` is
  the 503 after the retries.
* `overruns` counts leases outlived by their holder, `late` holds the workers this has happened
  to while they still believe they hold the lock, and `lost` records which kind of work
  was cut short, so that a property can say under which conditions it is meant to hold.

Simplifications, each kept on purpose:

* The time of day is left out: an instant is a whole UTC day.
* The window of a REVOKED row is dropped: no code reads it.
* An order has one item. The code provisions the items one after the other, and items of
  different products do not share rows or a lock.
* Beginning a refund and the gateway's answer are merged into `ClaimRefund`, and the read
  before an admin revoke into its write.
* An admin grant that names no product is left out: no query of these handlers finds it.

### PaymentSignals

State: one razorpay order with its claim, provider order id, payment row (`captor`, the payment
that captured it) and the fields of reconciliation, the payment whose signal made the order PAID
(`winner`) and those recorded as `duplicates`, the calls of one idempotency key (`call`), the provider orders that exist,
that a response has shown and that are paid, the webhook event of each payment, the
deliveries under way, the reconciliation tick and the hour since the expiry.

* Checkout: `ClaimProviderOpen`, `CreateOrder` or `GatewayFails`, then either
  `ReleaseProviderOpenClaim` or `MarkPendingPayment` and `EnsureInitiatedPayment`. A loser
  waits and shows what it finds (`ShowOpenedOrder`). `ClaimGoesStale` is the 30 s.
* `MarkPaid` is `markOrderPaid`: `CapturePrimary` may come alone first, as the request that captures the
  row need not be the one that wins the order. A signal that finds the order settled is recorded as a
  duplicate unless its payment is the captor. The winner that found the row captured for another
  payment is on no row, as in `OrderPayment`.
* Webhooks: `Claim` inserts or loads the event row, `Apply` ends in `Applied` or
  `NotApplied`, `Finish` saves the status if it differs from the one loaded and answers.
  `RetryWindowEnds` makes FAILED terminal.
* The tick: the three parts of `reconcileOnce`, each a query and then what it does to the
  order it found, with `PostponePending` counting attempts up to the cap and
  `ScheduleLateWatch` moving the watch on. `Restart` loses the tick and every request.

### Refunds

State: `row`, one refund document for each captured payment (the order's own, and a second
capture), `prov`, the refunds of the provider with their status, amount and origin, the
order, whether the entitlements are revoked, and the requests (`job`). `AdminRefund` and
`SchedDuplicate` begin, `ProviderAccepts`, `ProviderRejects` and `NoAnswer` are the gateway
call, `SettleRead` to `MarkOrderRefunded` are `settleProcessed`, `FailRead` and `FailClaim`
`settleFailed`, `SchedKnown` and `SchedUnknown` with what follows are the two sweeps, and
`Deliver`, `Recover`, `RecoverSave` are the webhook. `DashboardRefund` is an operator at the
provider, in full or in part. The branch of `refund` that compares the gateway's answer is
dead with razorpay, whose gateway throws for another amount or status (`NoAnswer`).

### StudentSessions

State: session records and refresh index with their key expiry, the positive cache, the
touch throttle, and for each request the handler, its point and the record it has read. One
Redis command or pipeline is a step. Refresh tokens are numbered and stand for their hashes.
A time in a record is the handler's clock when it began, `now` is the clock of Redis. A Redis failure
ends the request where the code lets it throw (`RedisFails`). The pipeline of a rotation does not throw: the
handler goes on with a token that Redis has not been told of (`RefreshUnwritten`).

### MockTestAttempt

State: the rows, and for each handler slot the row as fetched and as it will be saved.
A document without a version key saves the paths it has changed: `Merge` keeps a path of the
stored row when the handler left it as read. `Expire` is the lazy expiry every fetch makes
first. `SubmitWithAnswer`, `WriteAnswer` and `SubmitRefetch` are the submit that brings
answers, and `CompleteFetch`, `CompleteSubmit`, `NextSession` are `completeSession`, which
saves before it submits. One question stands for those of a session.

### ImportPipeline

State: the upload document, the failed questions, how often each question is in the bank,
the jobs of both queues, the worker with the pass it is in, the recovery and the requests.
The worker polls at boot, when a request has queued a job and, after a pass that found work,
once more by a timer (`FollowUp`): nothing else wakes it. `LockExpires` is the BullMQ lock
of a worker that died, `MoveStalled` its consequence: one check marks an active job, a later one moves it if
its lock is gone by then. `PersistRead` to `PersistEnd` insert
the cached questions one by one, each insert followed by the write that takes it out of
the cache. That write may fail (`PersistSyncFails`): the loop goes on, and the write at its end heals it, unless
it fails too (`PersistEndFails`). `FixRead` to `FixDelete` import one failed question, whose delete may fail
(`FixDeleteFails`). Of the database calls, those that follow an insert may fail; another one that throws ends
its request before it has inserted anything. What the parser and the LLM
make of a paper is a set of good questions, the rest is rejected.

### Invoices

State: for each order its status, `provisionedAt`, the phase of `nextRepairAt` (unset, in the
future, reached), the sequence of its invoice and whether the PDF is stored; the sequences that other
orders took; the tasks handed to `setImmediate`; what each request and the sweep is doing, and the
rows the sweep has read.

* `ProvisionRead` and `ProvisionSave` are `provisionForPaidOrder`, which sets the first
  `nextRepairAt` and schedules `RunScheduled`.
* `IssueRead`, `NextSequence`, `InsertInvoice`, `EnsurePdf` are `issueForPaidOrder`. The unique
  indexes of `tax-invoice.schema.ts` decide `InsertInvoice`: one loser takes the winner's invoice,
  the other asks for the next number.
* `Repair` to `RescheduleRepair` are `repairDocument`, `FindDue` to `SweepEnds` the two queries
  of a pass and its loops. The sweep works on rows as it read them and with the clock of its
  start. An administrator's repair (`RepairOrder`) passes `force`.
* `Throw` is a call that throws at any point, `Restart` loses requests, tasks and the pass.

Simplifications: the delays of 2, 10, 30 and 60 minutes are one instant in the future, which `Tick`
reaches; the clock moves between two passes, as `now` is read once per pass. The reads at the start of an issue are
one step, as what they read only moves forward. The two writes of `markOrderRefunded` are one, so a
restart between them (the payment REFUNDED, the order PAID, every issue refused) is left out here:
it is the divergence listed for refunds. The eight attempts at a number are not counted,
because each lost attempt is another order's invoice. Invoices and reconciliation are
switched on, and the seller configuration is complete: without it every issue is refused.

## 3. Runs

| Run | Instance | Result | What it shows |
|---|---|---|---|
| `order_payment` | 2 requests, 1 lost, 2 payment ids, both gateways, fair | passes, 392 736 states | type, paid handler at most once, settled only on captured money, duplicates are extra money, a razorpay capture is never left on a closed order, the refinement of `OrderLifecycle`, and once the payment row exists, a captured payment makes the order PAID |
| `order_payment_lost` | 2 requests, none lost | violated | two captures racing: one is acknowledged and recorded nowhere (D-28) |
| `fulfilment` | 3 orders of one month, 2 grants each, 1 admin row, 2 workers, 1 and 31 January, 1 fault | passes, 1.34 million states | type, exclusive section, no overlap beyond the slip of a month, no gap, provisioned means complete, windows only move earlier |
| `fulfilment_live` | 1 order, 2 workers, 1 fault, fair | passes, 30 018 states | every paid order is provisioned or refunded, although a request or a lock holder is lost |
| `payment_signals` | 2 checkout calls, 2 deliveries, 2 provider orders, 2 payments, 2 looks, attempt cap 2, 1 fault | passes, 2.00 million states | the client is shown the provider order that is saved, an acknowledged capture is on record, won the order or has its event FAILED, one late look per offset |
| `refunds` | own payment and 1 second capture, 2 requests, 2 refunds at the provider, 1 delivery, 1 fault | passes, 1.08 million states | COMPLETED and revoked only for money the provider has sent |
| `refunds_live` | own payment, 2 requests, 1 delivery, 1 retry, 1 fault, fair | passes, 206 641 states | FAILED leaves no live refund of the application behind, a processed full refund that its row names settles the order |
| `student_sessions` | 1 web session, 2 requests, 3 tokens, clock 0..2, 1 fault | passes, 2.07 million states | revoked stays revoked, the token a record names leads to its session, the cache adds at most its lifetime, the deadline holds |
| `mock_test_attempt` | 1 attempt, 2 handlers, one timer of 2 or two sessions of 1, clock 0..3 | passes, 1.49 million states | stored time, order of sessions, score, closed is final |
| `import_pipeline` | 2 requests, 2 questions, 2 jobs, 1 crash or 1 failed call of a request | passes, 1.56 million states | inserted once, none lost |
| `import_pipeline_live` | 1 request, 1 question, 2 jobs, 1 crash, 1 error, fair | passes, 278 884 states | a busy upload settles, unless a job is left behind without a poll |
| `invoices` | 1 order beside up to 2 others of the series, 1 request and the sweep, 2 faults, fair | passes, 175 160 states | numbers without hole or double, a paid order gets its access and its stored invoice |

The violated run checks a statement of the repository's own documents, quoted in
`findings`.

### Bounds

* Two requests on a payment are two signals that race: the one that captures the row and the one
  that writes the order, a capture and an expiry, two opens. Each starts again once it has ended, so
  what a third finds is what a reused one finds. Two payment ids are what a duplicate
  needs. The six properties other than `CapturedIsSettled` are theorems, so they do not depend on
  these numbers, nor on the number of lost requests.
* Two orders is the smallest number with a purchase that stacks on another one and moves
  when the other is revoked. A third one is what it may run into, which takes one worker and no fault
  (`MCOneTrouble`): with a `Slip` of two days, this run finds the overlap of section 5. Two grants is the smallest number with a half-provisioned
  order. Two workers are a holder and its successor, or a provisioning beside a refund.
  On 1 and 31 January, a row that has started, one that starts now and one that starts later
  all occur, and a month from the second day runs over the end of February. `MaxFaults` counts lost
  requests and outlived leases together. One of either kind is explored at every step of two orders while no admin
  grants or revokes (`MCOneTrouble`). The theorems cover all of these together. The six properties of the run are theorems for any numbers;
  the liveness of `fulfilment_live` is not.
* Two checkout calls are a holder of the claim and the one that takes it over, two provider
  orders what they can create, two deliveries a webhook and its repetition. Two looks have a
  next one and a last one, and two attempts stay below the cap and reach it.
* Two requests on the refunds are a sweep and a webhook, or an admin and either. Two refunds
  at the provider are the first and the one of a retry or of the dashboard.
* Two requests on a session suffice for every pair of handlers that overlap. A third one,
  started later, finds only what these two have left, which a reused slot finds as well. With a
  web lifetime of 2 and a cache lifetime of 1 a deadline passes and an entry gets old.
* Attempts: a paper of two sessions has a first and a last one, a timer of 2 can be paused
  and resumed before it runs out. All six properties are theorems for any papers and any
  number of handlers. The run does not go on from a state in which a handler has
  saved over a change it had not read (`MCUpToOverlap`): the properties but `TimeWithinPaper`
  say nothing there, and 'Known divergences' says what happens. `TimeWithinPaper` rests on its theorem there.
* Import: two questions allow one to be inserted and one to be refused. Its three properties are
  theorems for any number of them. The run has one
  crash or one failed call of a request (`MCRequestsFail`), or none and then questions that are handed out again,
  and does not go on once both excuses of its properties hold (`MCOneFailure`). The failing calls of the worker are
  in `import_pipeline_live`.
* One order with two others in its series loses its number twice and then gets one. One request
  beside the sweep overlaps with it in every way, two faults hit a repair and its repetition.
  A second order shares with the first nothing but the series.
* Idle workers wait for new work, so TLC's deadlock check is off where that can be all there is: an order that
  is settled, provisioned and refunded has nothing left to do.

### Fairness

`OrderPayment!Fairness`: a request that has started takes its next step (Node's event loop
runs every continuation), and a captured payment is signalled again and again. That is what
the webhook retry, reconciliation and the late watch do together. It is strong fairness,
because all requests may be busy at times. The end of these retries is not in this module,
it is in `PaymentSignals`.

`Fulfilment!Fairness`: a worker takes its next step, the lease of a lost holder ends, the
sweep starts every PAID order without `provisionedAt` again, and one of the retries finds a
lock that is free again and again. Nothing is assumed of `LockBusy`, `Abort`, new refunds or
admin revokes.

`Refunds!Fairness`: a request takes its next step, the provider ends what it has accepted,
time passes for a row, and the sweep comes round again and again for each row it selects
(strong, as a request may have the row when it does). Nothing is assumed of webhooks, admins
or the dashboard.

`ImportPipeline!Fairness`: the worker, its timer, the recovery and every request go on, the
process is restarted, a lock that is not renewed ends, an old upload gets old. No request is
assumed to be made.

`Invoices!Fairness`: what has begun takes its next step, a pass of the sweep goes on and the next one
begins, and time passes between two passes (strong, as passes come and go). That a pass begins
takes it that the parts of the reconciliation tick before it do not throw for ever:
`reconcileOnce` calls the sweep last, and section 5 names a state in which an earlier part
throws on every tick. No request, payment, refund or scheduled task is fair.

### Conditions in the properties

The code is not meant to withstand everything the models let happen. Where a property holds
only short of a known divergence, a history variable says when that has occurred, and
only then the property says nothing:

* `Fulfilment`: `overruns` and `lost`, as said in section 2.
* `PaymentSignals`: `outlived`, a claim went stale or was dropped under a call that held it;
  `restarts` counts looks cut short.
* `Refunds`: `gaveUp`, the window of an unknown outcome ran out; `strayed`, news of one attempt
  reached the row of another, or a request in the middle of one was lost.
* `StudentSessions`: `raced`, a session was revoked while a request was about to write what it
  had read of it; `staled`, a last-seen write has put an older record back.
* `MockTestAttempt`: `raced`, a handler saved over a change it had not read; `halfDone`, the
  last session is saved as over and the paper is not yet (for `ClosedStaysClosed` only); `blur`, the time a handler took.
* `ImportPipeline`: `repeated`, a request ended, by a crash or a failed last write, while a question it
  had inserted was still in the cache or in the failed list, the questions were enriched again, the upload left
  the enriched status under a persist, or one failed question was imported twice at once; `overlap`, an
  enrichment was saved over a running persist; both also when an earlier status was restored over
  an enrichment that is saved in part; `Stranded`, a job is left in Redis and no poll is due: active after a crash
  or a failed finish, or waiting after a failed poll or add.

* `Invoices`: `RepairsOverlap`, two repairs of one order run at once, the provisioning of the
  paid signal counted as one.

Each of these is needed: without it TLC finds the behaviour listed in section 5.

## 4. Proofs

All theorems hold for every value of the constants that meets the named assumptions.

`OrderPaymentProofs` proves type correctness, `HandlerAtMostOnce`, `SettledIsCaptured`,
`DuplicatesAreExtra`, `NoStrandedCapture`, a step property (`MoneyNeverMovesBack`) and the refinement
`Spec => Lifecycle!Spec`. None of them is inductive alone: a request that has read the
payment row as CAPTURED settles the order several steps later. The invariant `IInv`
therefore says for each request what it may rely on at its point (`Backed`): at the order
write the payment has money, at the handler and at the duplicate insert the order is
settled. `Progress` lists what no step undoes, so `BackingIsStable` carries the reliance of
every other request over a step, and each action needs an argument only for its own
request and rows. `NoStrandedCapture` needs a second invariant on top of it, `CarriedInv`: as long as no
request was lost, a CAPTURED row beside an order that is not settled is carried by some request that stands
between its write to the row and its write to the order (`CaptureIsCarried`), every such request has
proof under razorpay (`PaymentsAreProven`), and no payment row is there before the order was opened
(`OpenedFirst`). The carrier cannot miss: with proof, every status but PAID and REFUNDED is one it
may move to PAID.

`FulfilmentProofs` proves all six properties of the run `fulfilment`. Four invariants stand on each other.

* `IInv`, for `LockExclusive` and `ProvisionedIsComplete`: a worker in the section holds the lock with a lease
  that has not ended, unless its own lease was outlived (`HoldersHold`: it is in `late` then), a provisioning job
  has inserted the grants before `next` and all of them once it left the loop (`Inserted`), and no step takes a
  row away (`RowsStay`).
* `TypeInv`, for `TypeOK` and `OnlyMovesEarlier`: the plans of a job move a window to an earlier start and
  give it its full duration. What a plan says is compared with the row once more by the write, so this
  needs no lock: it holds with stale plans and outlived leases too.
* `PackedInv`, for `NoOverlap`, while no lease was outlived and no provisioning lost: all rows of an order
  have one window of full length, and of the windows of two orders one is ahead of the other. `Ahead` says more than
  that it ends in time: there is a start, at its own or later, from which its preset ends in time. That is what a move
  to an earlier start keeps, while the end itself may slip (`ExpiryKeepsOrder`: of two starts the later one ends at
  most two days before the earlier). An order is whole unless a worker
  is inserting it, what a worker is about to insert goes behind every other window (`InsertFits`), and the rows
  a plan moves are where it found them, with no window that stays put between their new start and the old
  one (`PlansFit`). A re-anchor may be lost between two of its moves, so the plans are in the order of
  their starts and every rest of them fits.
* `GapInv`, for `NoGap`, once nothing was lost and no revoke waits for its re-anchor: the day before the start of
  a waiting purchase is covered when all plans are carried out (`GapFree`), by the window of another order or by
  a row that an admin has granted, and so is the window of an order that is being inserted. From that every
  waiting day is covered: the purchase that covers the day before starts earlier itself. A revoke makes `Settled`
  false until the plans of its re-anchor are there. `GrantsHaveBegun` says that the row of an admin has started.

The last two rest on what the walk of `Reanchor` returns (`ReanchorIsWalked`): it stays behind the cover it has
walked, leaves the groups it passes where they are, and its moves go from one end to the next start. The walk
is a fold over a finite set, defined by recursion on its subsets. `WalkExists` proves that such a function is
there and `SubsetInduct` is induction over the subsets in first-order form, with the property given as a set of
subsets. The walk over a set takes one step more than the walk without its latest group, and `OneStep` says what
such a step may do. About the calendar,
the proofs above use two lemmas only: when a window ends (`ExpiryOf`) and `ExpiryKeepsOrder`. The assumptions are that
the orders and the rows of admins are finite and some order exists, the durations are presets, the days are natural
numbers and day 0 is one, there is at least one grant, and the two special lock states are no workers.

`StudentSessionsProofs` proves type correctness, `WebDeadlineHolds` and `RevokedStaysGone`.
The expiry of a session exists in three copies: the record, the cache entry and the record a
request holds between a reply of Redis and what it writes. `IInv` bounds each of them by the
login (`StoredIsBounded`, `RequestsBacked`), which is what makes the deadline inductive: a
verdict is given from a copy. For `RevokedStaysGone` the invariant adds that no request waits
to write the record of a revoked session, and that only sids that have logged in are in use
(`Gone`, `LoggedIn`): a step that reads can then find no record to put back. The
assumptions are that the numbers are natural, that web sids are sids, and that `None` is
neither a sid, a number nor a record.

Two more follow from the same core. `RevokedWithinCacheTTL` (`CacheInv`): no cache entry and no record in a
request's hands is younger than the revoke of its session, once no write was under way. It needs that a
cache entry lives for some time at all (`CacheHolds`). `CurrentTokenWorks` (`TokenInv`) is about who owns a
token, a failed rotation and two that overlap included: there is an assignment of the drawn tokens to sids and deadlines that every record, index entry and
request agrees with, and the index leads to a live record at least as long as it lives. That assignment is a
witness inside the invariant and no variable of the model.

`PaymentSignalsProofs` proves type correctness, `ShownIsSaved`, `AckedIsRecordedOrFailed` and
`WatchLooksOncePerOffset`. `OrderInv` is what the tick and the calls rely on, `ClaimInv` that while no claim was
outlived at most one call stands between its claim and its save, `EventInv` that what is PROCESSED is on record or
won the order and that a FAILED row stays known to the delivery that loaded it, `WatchInv` that `reconAttempts` of a watched
order counts its looks, but for those a restart cut short.

`RefundsProofs` proves type correctness, `CompletedIsProcessed`, `RevokedOnlyByFullRefund` and
`FailedHasNoLiveRefund`. `RefundInv` says what a row and a job have behind them: a refund they name is one of
their payment, and what a job has read of it stays true, as the provider takes nothing back. `FailedHasNoLiveRefund` needs
`AttemptInv` on top: one job at a time attempts a refund, a FAILED row or a job about to call the
provider has no live refund beside it, and every live refund is known to the row or to the job that asked for it.

`MockTestAttemptProofs` proves type correctness, `TimeWithinPaper`, `SessionsInOrder`, `ScoreIsOfStoredAnswers`,
`PaperTimeIsRunningTime` and `ClosedStaysClosed`. The invariant says of every row that no handler saved over a change: its sessions stand in
place (`InPlace`), its score is that of its answers once it is closed (`Scored`), and a current session that is
over has no time left (`Timed`). A handler works on the document it has fetched. What it is about to save (`Made`)
keeps these three of what it has read, and as no other save has crossed it, what it has read is the stored row.
The proofs showed that neither `SessionsInOrder` nor `PaperTimeIsRunningTime` needs an exception for
half-completed papers, and both were strengthened. `TimeWithinPaper` also holds for rows saved over each other (`TimeInv`): each path is bounded alone. What a sum
over the sessions is worth is proved by induction over the subsets of a finite set, in first-order form: the
property is a set of subsets, and the least counterexample comes from `WFMin`.

`PaperTimeIsRunningTime` rests on an account of the time (`ClockInv`). For every part of a row, the paper or one
session of it, what its record would charge now is compared with the ticks it was running. What is charged too
much (`More`) and too little (`Less`) is added up over the parts, and neither sum exceeds `blur` (`Kept`). A frozen
part that is used up counts as its length. A change a handler makes at the instant it reads the clock charges no
more and no less than the row did (`Honest`, a lemma for each of stop, pause, resume, open, complete, submit and
expire). From then until the save the charge of each part is off by at most one more per tick, and `blur` grows by
one per tick for the row a handler holds, so the account carries over to what is saved (`HeldTicks`, `MergedAlike`).
The document of the late submit after a refetch is not made yet, and its account is kept in advance (`WillSubmit`).

`ImportPipelineProofs` proves type correctness, `InsertedOnce` and `NoQuestionLost`. The invariant says
where a question can be: in the bank, in the hands of a request, among the failed ones or in the
cache. As long as no inserted question was handed out again, an inserted one stays in the cache or in the list
only while the request runs that still has to take it out (`OnePlace`, `Owes`). The attempt to prove it found
the restored status of section 5, which the bounds of the run had kept out of reach; the two history variables record it now.

`InvoicesProofs` proves `NumbersAreGapless` for any orders, requests and bounds. The invariant `GInv` adds to
it the types, with the points at which a job may be placed, and `NobodySkips`: an issuer that holds a
number holds at most the one after the last. That no hole comes is then arithmetic on the cardinality of
the issued orders: what is inserted is free, so it is exactly the next number. The steps that only move a job
along share one lemma (`MovesPreserve`). The assumptions are that the orders are finite and the sweep is no request.

Every invariant and every action property of the passing runs is stated by a theorem. Left to TLC are the liveness
properties: they rest on fairness, and the prover has no ENABLED.

## 5. Known divergences

What the models reach and the documents rule out, or leave open. All of them are behaviours
of the modules above. The runs are built so that no property denies them.

Orders and payments:

* Two captures that race may leave one acknowledged and recorded nowhere
  (`orders.service.ts:742`, run `order_payment_lost`).
* An order that expires while `markOrderPaid` runs is paid without the late mark
  (`orders.service.ts:323`, `docs/payment-gateway/state-machines.md:54`).
* The sweep of CREATED orders passes no watch hours, so an order opened under it expires
  unwatched (`reconciliation.service.ts:94`, `state-machines.md:64`). An order without a
  payment row makes the same call throw, and the rest of the tick is skipped.
* A crash between the two saves of checkout leaves PENDING_PAYMENT without a payment row,
  which no replay and no paid signal repairs (`checkout.service.ts:285`).
* A gateway call that outlives the 30 s of its claim, or a release that drops the claim of
  another call, gives two provider orders. The client may be shown the one that the order does not
  name (`checkout.service.ts:290`).
* The last late look is due at the very instant at which the watch window closes, so with the
  default hours a tick must fall on that millisecond (`orders.service.ts:464`, `late-capture-watch.ts:34`).
* A delivery that loaded its event as RECEIVED and fails writes FAILED over the PROCESSED of
  its repetition (`razorpay-webhook.service.ts:386`). The row then needs another delivery.
* The open-order cap counts before it inserts (`checkout.service.ts:82`), so it does not bound
  concurrent checkouts.

Entitlements and refunds:

* A re-anchored window may run into the next one, because a calendar month from an earlier day can end later
  (`duration-preset.ts:26`, against "back to back", D-09 and D-23). Orders A, B and C of one month start on 1
  January, 1 February and 1 March. When A is refunded on 31 January, B moves to 31 January and ends on 3 March,
  while C keeps 1 March: two paid days are spent twice. The overlap is less than three days (`NoOverlap`).
* A purchase that was stacked behind an admin's grant keeps its later start when that grant is revoked: the user
  has paid, waits, and has no access. The stacking looks at rows of every source
  (`entitlement-provisioning.service.ts:156`), the re-anchor is for PAYMENT rows only
  (`entitlements.service.ts:219`, `:344`).
* A second provisioning run of a half-provisioned order stacks the remaining grants on the
  first ones and gives them a later window (`entitlement-provisioning.service.ts:156`).
* A refund that settles during provisioning revokes nothing, and the access stays
  (`entitlement-provisioning.service.ts:71`).
* A refund made at the dashboard whose webhook is lost has no row, and no sweep looks for it
  (`refunds.service.ts:540`, `:727`): the order stays PAID. `ProcessedIsSettled` speaks of refunds that a row names.
* A claimed refund whose revoke, re-anchor or order write fails is not repeated, the order
  stays PAID (`refunds.service.ts:433`).
* A refund given up on after its unknown window, and processed later, is never settled: the
  compare-and-set starts from INITIATED only (`refunds.service.ts:778`). The window of a
  retry counts from the first attempt, whose `outcomeUnknownAt` is kept (`:943`).
* `recoverRefundWebhook` writes the refund it was told of over the one the row knew (`:643`).
* A crash between the gateway call and the save of its id leaves INITIATED without an id and
  without `outcomeUnknownAt`, which neither sweep selects (`:543`, `:729`): only a webhook ends it.

Invoices and repairs:

* `clearRepair` compares nothing with what its repair had read. When two repairs of one order
  overlap (the sweep and an administrator, or either and the provisioning of the paid signal),
  one may unset the `nextRepairAt` that the other has just set, and the sweep's first query never finds the
  order again: an order without an invoice or without its PDF stays so
  (`repair-sweeps.service.ts:149`, against "A missing invoice is repaired by the sweep",
  `entitlement-provisioning.service.ts:41`).
* An order that is refunded after it was provisioned and before it had an invoice is repaired for ever:
  `repairDocument` takes REFUNDED orders, `assertPayable` refuses them (`invoice.service.ts:247`;
  `docs/payment-gateway/phases/phase-14c-webhook-refund-repair-robustness.md:102` has `PAID | REFUNDED`).

Sessions, attempts, imports:

* `touchActivity` writes back the record it read: after a revoke the session is back until its
  key ends, after a rotation the new token no longer matches and its use revokes the session
  (`student-session.service.ts:482`, `docs/STUDENT_SESSION_AUTH.md:219`).
* Two refreshes of one token that overlap both rotate it, and the token of the first to write is taken for reuse
  when it is used. When the second reads the index before that write and the record after it, the session ends
  at once (`student-session.service.ts:299`, `:321`). Only the client's single flight avoids it
  (`docs/STUDENT_SESSION_AUTH.md:151`, `:276`).
* A refresh in progress restores a session that is revoked meanwhile (`:341`).
* A handler of an attempt that overlaps another one saves over its changes path by path
  (`mock-test-attempt.schema.ts:121`), and the answer of `updateAnswer` is written whatever the
  status has become. Two starts that overlap create two attempts. Expired and paused attempts
  do not count as retakes (`docs/MOCK-TEST-CREATION.md:118`).
* A crash between the insert of a question and the write that takes it out of the cache makes
  the next persist insert it again (`import.service.ts:1297`). So does a failed write after the insert when the
  last write of the request fails as well (`:1303`, `:1331`). When the delete after the import of a failed question
  fails (`:1530`), that question is offered again too. Two imports of one failed
  question insert it twice.
* `restoreUploadJobSnapshot` puts the status back that a request has read before it queued a job, also when
  the worker has meanwhile taken that job and replaced the failed questions: the upload is shown while
  its enrichment is saved in part (`import.service.ts:460`).
* An enrichment is not excluded by a running persist, and the end of a persist completes the
  upload whatever its status is (`import.service.ts:1388`).
* A poll that fails schedules no follow-up (`import-queue.worker.ts:171`), so the job waits
  for the next enqueue or restart (`docs/REDIS.md:131`).
* After a crash the job of the dead worker is active. The first check after the restart only marks it, or
  finds it locked, and no follow-up comes as the pass has found nothing. The recovery takes the job for live, so the
  upload stays busy until another request queues a job, or for ever, where `docs/REDIS.md:82` and `:206` have the
  next poll put the job back.

## 6. Plan

Built: the modules of section 2. Next, in this order:

1. `WindowAlgorithms`: `Reanchor` against a reference definition and coverage for life, over
   bounded inputs.
2. `SnapshotCache`: the lock that is released by a read and a delete.

## 7. Not modelled

* Boot repair of old orders, order listing, orders of several items, order
  flags and audit rows. The open-order cap, which needs several orders.
* The in-memory driver of the import queue, `close()` of the worker, `parseUploadMarkdown`, the
  deletion of failed questions by an admin.
* The snapshot cache, as planned above, and the time of day of entitlement windows.
* BullMQ's `maxStalledCount`, after which a job that stalls again and again is failed.
* CRUD modules, reports, tax and pricing arithmetic, PDF rendering, file storage and
  third-party clients: sequential code over one document, or external services. They are the
  greater part of the lines of this repository.

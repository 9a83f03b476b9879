# GoBilling: TLA+ models, checks and proofs

GoBilling is a billing server written in Go: HTTP handlers over services, one
PostgreSQL database, a Redis cache, a payment provider, and four polling
workers per server instance. This directory models the parts whose correctness
depends on the order of events, checks the models with TLC and proves what can
be proved with TLAPS. Paths below are relative to `src/internal` unless they
begin with `src`.

## 1. Inventory

| Component | State | Operations | Interacts with |
|---|---|---|---|
| payments (`payment/`) | `payments`, `refunds` rows | Attempt, Refund (Get, List read) | invoices (row written back), ledger, provider |
| invoices (`invoice/`) | `invoices`, `invoice_line_items` rows | Finalize, Void, MarkPaid, MarkUncollectible, RecordPayment | payments and subscriptions share the rows |
| ledger (`ledger/`) | `ledger_transactions` rows, append only | RecordPayment, RecordRefund, RecordCharge, GetBalance | called in the payments' transactions |
| subscriptions (`subscription/`) | `subscriptions` rows | Create (with the first invoice), Cancel, UpdatePlan | customers and plans (checked), invoices (created) |
| renewal worker (`worker/renewal.go`) | a batch of copied rows | poll, renew | subscriptions |
| customers (`customer/`) | `customers` rows with a version | Create, Update, Suspend, Reactivate, Delete | subscriptions (checked by Delete) |
| catalog (`product/`) | `products`, `plans` rows | create, update, archive | subscriptions read plans |
| webhooks (`webhook/`, `worker/webhook_delivery.go`) | endpoints, deliveries | enqueue, deliver, retry | events, HTTP |
| outbox (`event/`, `worker/outbox.go`) | `events` rows | publish, dispatch, retry | webhooks |
| idempotency (`platform/middleware/idempotency.go`) | Redis keys | look up, mark processing, store, delete | every mutating request |
| transactions (`platform/database/transaction.go`) | the transaction in the context | begin, commit, roll back | every repository |
| payment retry worker | none | its batch function is empty | |
| authentication, rate limit | none | not mounted by the server | |
| pagination (`pkg/pagination/`, list handlers) | none | cut a table into pages | every list endpoint |
| money, ids, clock, config, other handlers | none | pure functions and I/O | |

What makes the code hard: services read rows outside any transaction, decide on
the copy and write whole rows back; only `customers` has a version. Requests
and workers of several server instances interleave at every database statement
and at the provider's answer. A transaction stays open across the provider
call. A request can be cut off by the 60 second timeout, by the client or by a
crash; an open transaction then rolls back while the provider's side stays done.

What makes each component correct:

* payments and ledger: the ledger agrees with the payment and refund rows;
  money recorded was moved by the provider; a key charges once; a payment is
  refunded once; an invoice counts its payments and stays in a terminal state.
* subscriptions: creation and first invoice are one; a cancellation is final;
  periods follow each other and never run ahead of the clock; what is due is
  renewed, what is scheduled is canceled; a deleted customer has none.
* customers: no lost update, deletion is final, one email for one customer.
* catalog: an archived product stays archived and has no active plan; an update
  is not lost.
* lists: a client that walks through the pages sees each row once and misses none.
* webhooks and outbox: what is enqueued is delivered at least once and its
  record never goes back; retries end; one event does not keep others waiting.
* idempotency: two copies of a request do not both run; a replayed answer is that
  of a copy; a key does not stay "processing" for ever.

## 2. Modules

| Module | Models | Checked by | Proved in |
|---|---|---|---|
| `Invoice` | the invoice aggregate: rows and methods as operators | through `Payments` | lemmas in `PaymentsProofs` |
| `Payments` | payment.Service, invoice.Service, the ledger, the provider, over committed rows | `MCPayments` | `PaymentsProofs` |
| `Settlement` | the abstract book: settle, fail, reverse, keep, each in one step | as a property of `Payments` | `BookRefined` |
| `Subscription` | the subscription aggregate | through `Subscriptions` | lemmas in `SubscriptionsProofs` |
| `Subscriptions` | subscription.Service, customer.Service, renewal workers, plan archiving, the clock | `MCSubscriptions` | `SubscriptionsProofs` |
| `Webhooks` | webhook.Service, delivery workers, the endpoints' answers, the clock | `MCWebhooks` | `WebhooksProofs` |
| `Delivery` | the abstract delivery: accept, request, retry, settle, and records that may fall back or not | as a property of `Webhooks` | `MailRefined` |
| `Paging` | how a list endpoint cuts a table into pages, and a client's walk through them | through `Catalog` and `Customers` | lemmas in `FiniteLemmas`; `WalksAreExact` in `CatalogProofs` and `CustomersProofs` |
| `Catalog` | product.Service: products, plans, their archiving and listing | `MCCatalog` | `CatalogProofs` |
| `Customers` | customer.Service with emails: creation, changes, deletion, listing | `MCCustomers` | `CustomersProofs` |
| `Idempotency` | the middleware, Redis and the two second context around an abstract handler | `MCIdempotency` | `IdempotencyProofs` |
| `Outbox` | the event publisher, outbox workers and the statuses the table accepts | `MCOutbox` | `OutboxProofs` |
| `FiniteLemmas` | nothing: facts about finite sets, sums and pages that several proofs cite | | itself |

### Payments

A *call* is one service call made for one request; it runs at most once. `pc`
says where it is, `req` what it was asked, `snap` the invoice copy it holds,
`answer` what the provider said. `invoices`, `payments`, `refunds` and `ledger`
are the committed rows. A payment or refund is identified by its call. The
columns of a payment that no UPDATE changes (invoice, key, amount) are read from
the call's request and snapshot, so `payments[c]` is the status column.

One action is one stretch of code between two points where others can see or
change something: the first reads (`AttemptRead`, `RefundRead`, `InvoiceRead`),
the insert that takes the unique index (`AttemptInsert`, which waits for an
uncommitted twin and fails on a committed one), the provider's answer
(`AttemptCharge`, `RefundCharge`) and the commit (`AttemptSucceed`,
`AttemptDecline`, `RefundSucceed`, `RefundDecline`) or rollback (`AttemptError`,
`RefundError`, `Abort`). Writes before a commit are part of the commit, since
READ COMMITTED shows nothing of them earlier. `InvoiceWrite` writes the whole
copied row back.

Attempt, MarkPaid, MarkUncollectible and RecordPayment have no HTTP route at
this commit; they are exported service operations and are modelled as such.
`InvoiceOps` chooses which have a caller. Nothing refuses a negative amount, so
`Amounts` are integers. An operation on an invoice that does not exist only reads
and is left out, as is a refund of a missing payment.

`met`, `blind` and `lost` are history the program does not keep: which refunds of
the same payment were under way when a refund began, which lookups missed a refund
through an error, and over which invoices a copy was written that was not the row.
`Settlement` is the book without calls: a payment is reversed once, unless it is
`contested`, which is that two refunds of it collided in one of these ways.

### Subscriptions

The same shape: `pc`, `req` and `copy` (what a creation will insert, or the row as it
was read; of a customer, with the status it will get). `subs[c]` is the row created by
call `c`. `batch[w]` is what worker `w` polled and has not processed. `now` counts
ticks: a tick is a second where invoice numbers are made and a billing period or trial
is `Terms[p]` ticks. Quantity is 1. Nothing refuses negative trial days: such a
subscription is trialing, has the plan's period and no invoice (`CreatePlan`,
`Billed`). `CreatePlan` reads the plan and the clock, `CreateCommit` is the transaction
with the invoice. `PlanRead` merges UpdatePlan's three reads, which commute with
every other action since plans are only ever archived. `Process` renews the row
of a batch that the query returned first, or skips it when `Activate` refuses.

`PastDue` is an environment action: `MarkPastDue` is in the model and in the
documented state diagram, but nothing in the repository calls it. With
`Dunning = FALSE` no row is ever past due, as in `MCSubscriptionsActive`.

`met` and `revived` are history: the creations that were under way together with a
deletion of their customer, and the rows that a stale copy brought back to life.

The migration lacks the column `customers.external_id` that every statement on
customers names; the model takes the column to exist.

### Webhooks

`endpoints` and `rows` are the tables; `batch[w]` holds the copies worker `w`
polled, `task[w]` the one it is processing and whether it will send or write
next. `edits[u]` is what an UpdateEndpoint call read and changed. `Take` reads the
endpoint (and the event, which never changes), `Send` is the request with its
answer (2xx, 4xx, or anything else), `Write` puts the whole row back. `Abort` is a
failed lookup or write, which skips the row, or the death of the worker, which
loses its batch. Between `Send` and `Write` the endpoint knows more than the
database: a crash there sends the event again. `answers` and `paused` are history
the program does not keep; the properties compare the rows with them. `usable`
stands for a URL `http.NewRequest` accepts: the table checks only its scheme.
`EnqueueDelivery` has no caller at this commit and is modelled as the exported
operation it is. The foreign key of deliveries makes DeleteEndpoint fail while one
refers to the endpoint. Payload, signature and response body are left out; that the
table refuses some bodies (a zero byte) is one of the failed writes of `Abort`.

`Delivery` is what this amounts to for the sender of an event: a record per delivery
and the answers its requests got (`Recorded`, `answers`). `Send` is its `Request`,
`Write` its `Retry` or `Settle`; everything else but `Enqueue` is a stutter, crashes
included. With several workers a copy older than the row may be written last, which
is its `Overwrite`: what a record says is still warranted by the answers, but a
delivered row may become pending and be requested again, since the row locks of the
polling query end with the statement and two workers may poll one delivery. With one
worker that is impossible: `Relapse` is `Several`, that there are several workers.

### Paging, Catalog and Customers

A row is its id, and ids are numbers. Several instances draw them, so their order
is not the order of the inserts: `Calls`, `Seeds` and `SeedPlans` interleave in the
instances. `Query` is the SELECT (`id > after ORDER BY id LIMIT n`), `Fetched`,
`HasMore` and `Shown` what a handler makes of it, `Turn` the client that names the
last id it was shown. The client names the id itself: the `next_cursor` a list
returns is its base64, which the query would compare as it is and nothing decodes.
A walk is a call like the others, so rows appear and disappear on both sides of it.
The lists of invoices, payments and subscriptions are cut the same way; the list of
webhook endpoints has a limit and no `starting_after`.

`Catalog` keeps `products` and `plans`; `copy[c]` is the product row a call will
write and `listed[c]` the plans an archiving call listed before its transaction.
`edits` stands for the columns an update changes: the set of updates the row shows.
`ArchiveCommit` writes product and plans in one transaction. Of a plan only
`active` can change, so its own archiving is a read and a write of that column.
Prices and tiers are valid or not. `met[c]` is history: who was running when `c`
began; two calls overlapped if one is in the other's `met`.

`Customers` adds emails to what `Subscriptions` says of the same rows, and leaves
the subscriptions out: `DeleteCheck` may get either answer. `GetByEmail` returns one
of the rows that hold the email, and an error of it (`blind`) counts as not found.
`Write` compares the version and increases it; the columns it writes do not include
`deleted_at`, so a deleted customer stays in the list and keeps its email from
others. `setBy` and `edits` are history. Name, external id and metadata are one
change among others.

### Idempotency

A request is one HTTP request; a client that repeats itself sends another with the
same key and body. `cache` maps a header's key and the hash of method, path and body
to an entry. A request without a key runs its handler and leaves Redis alone
(`Bypass`); one whose body cannot be read is refused with a 400 before either
(`Unreadable`). For the others the middleware sends up to four commands to Redis (GET,
SET, SET, DEL), and one action is one of them or the handler's run. All four share a
context of two seconds that began before the first: `Expire` ends it at any point, and
after it every command fails unnoticed (`Unreached`). The client's departure cancels
it as well. A SET or DEL that was already on its way when its sender gave up is in
`transit`, and Redis may execute it at any later point (`Overdue`), over whatever is
there by then. `Faults` bounds the commands that fail or are delayed while their
context is alive; those of an ended context fail without bound. `Handle` runs the
handler: a success has taken effect, a refusal or an error has not. `Panic` leaves the
middleware through the Recoverer, `Die` is the death of the instance; both leave the
entry as it is. `Evict` is the end of the 24 hours, which outlast every request and
every command under way.
`source`, `applied`, `met` and `gone` are history:
whose answer was given, who took effect, which copies were under way and where they
were, and for which keys Redis missed a command or forgot the entry. That the
handler acts once per request, and only if it reports success, is what the other
modules say of the services' transactions; a success that was cut off after its
commit is outside this abstraction (`MCPaymentsLive` says when charges are recorded).

### Outbox

`rows` is the events table, `batch` and `task` the copies a worker holds, as in
`Webhooks`. Dispatching an event is a log line at this commit, and nothing calls
`Publish`; what the module is about is the row. `Statuses` is the set
`events_status_check` accepts. The worker marks the copy delivered and writes it in
a transaction; if that fails it schedules a retry on the same copy, whose status
still says delivered, and writes it without looking at the result. The constraint
accepts neither `delivered` nor `failed`, so nothing is ever written: the row
stays pending and due, and is dispatched at every poll.

## 3. Runs

"violation" runs check one statement of a document against the code; TLC finds a
behaviour of the code that breaks it, and PROJECT.json quotes the line.

| Run | Question | Instance | Result |
|---|---|---|---|
| `MCPaymentsConcurrent` | what survives any overlap, crash, decline and failing lookup; by what alone a documented rule is broken; is the abstract book implemented | 4 calls, 2 invoices of 2 customers, 2 keys, voids, write-offs and a correction by hand | holds, 837k states |
| `MCPaymentsLive` | all four invoice operations and partial payments; do calls end, are charges recorded | 3 calls, 1 invoice, nobody dies | holds, 41k |
| `MCPaymentsRefunds` | is a payment refunded once, whatever overlaps | 3 calls, 1 invoice, nobody dies | violated |
| `MCSubscriptionsConcurrent` | billing at creation, customer versions; by what alone a cancellation or a deletion is undone | 3 calls, 1 worker, 2 customers, a billed plan and one with negative trial days | holds, 378k |
| `MCSubscriptionsWorkers` | two workers on the same rows; is what is past due renewed | 2 calls, 2 workers, batches of 1, a billed and a trial plan, nobody dies | holds, 154k |
| `MCSubscriptionsActive` | is an active subscription renewed | 2 calls, 1 worker | violated |
| `MCCatalogConcurrent` | which writes may undo which; is a walk through a list exact | 3 calls, 1 product with two plans, a list limit of 1, pages of 1 | holds, 609k |
| `MCCustomersConcurrent` | when may two customers have one email; are changes lost; is a walk exact | 3 calls, 1 customer, 2 emails, failing lookups | holds, 735k |
| `MCIdempotencyCopies` | when does a copy run again; what may it be answered | 3 requests, 1 key, 2 bodies, 1 failing or delayed command | holds, 5.0M |
| `MCOutboxBatch` | is every event dispatched | 2 events, a batch of 1, nobody dies | violated |
| `MCWebhooksWorkers` | two workers, edits and a crash on one delivery: is its record true, are retries early | 1 delivery, 2 workers, 1 edit, 1 crash, 1 retry but two delays | holds, 299k |
| `MCWebhooksQueue` | is what is due attempted, or what alone keeps it waiting; is the abstract delivery implemented | 2 deliveries to 2 endpoints, 1 worker, batches of 1, 1 edit, 1 crash, 2 retries but one delay | holds, 582k |

What the documents promise of a single operation is often lost when two overlap,
because services decide on copies. Such promises are not checked with one call at a
time: the runs let calls overlap in every way, and the property names the one way in
which the code breaks the promise. It fails if anything else breaks it, and with no
overlap it is the plain promise.

* `TerminalIsFinal`: a paid, void or uncollectible invoice changes again only if a call
  writes back a copy that another write has overtaken, or through `RecordPayment`,
  which does not look at the status.
* `PaymentsAreCounted`: an invoice never shows more than its payments took, and less
  only if a copy that was not the row was written over it: two attempts with different
  keys both charge and the invoice counts one (`architecture-diagram.html:694`).
* `PaidHasPayment`: a paid invoice has a payment that took money unless it was paid by
  hand.
* `SecondRefundCollides`: a payment has two refund rows only if the refunds were under
  way together or the lookup of one failed. That this does happen is what
  `MCPaymentsRefunds` shows of `OneRefundPerPayment` (`architecture-diagram.html:673`).
* `CanceledIsFinal`, `PeriodsContiguous`: a canceled subscription is written again, or a
  period does not follow the one before it, only by a write of an overtaken copy.
* `DeletedHasNoSubscriptions`: a deleted customer has a living subscription only if its
  creation overlapped a deletion (`architecture-diagram.html:668`) or a stale copy
  brought it back.
* `EmailsDistinct`, `ArchivedIsSealed`, `ReopenedOnlyByOverlap`, `EditsSurvive`,
  `AppliedOnce`, `RetriesGetThrough`: likewise, with the exceptions each one names.

The two queues are checked with batches smaller than what is due, since both take the
oldest rows first and both have rows of which nothing is ever written. `PastDueIsRenewed`
says that a past-due subscription is renewed unless active ones, which the worker never
writes, fill the batch before it; `DueIsAttempted` that a due delivery is attempted
unless deliveries to an active endpoint with an unusable URL fill it (`Starved`, in
both). Without these exceptions both properties fail.

Without any overlap, an active subscription is never renewed (`ActiveIsRenewed`)
and the younger events are never dispatched (`EveryEventDispatched`), each with a run
that shows it. Four more things show in the models without a run: a cancellation
scheduled for the end of the period is never applied, since the due query leaves its
row out; a trial never ends, since the query selects no trialing row; a provider
error leaves no failed payment behind (`AttemptError` rolls its row back, although
the diagram says that provider errors store a failure); and `ArchiveProduct` leaves
active what is beyond the 100 plans it lists (`ListLimit`).

Bounds. Every call runs once, so `Calls` bounds the rows and the amounts. A
payment hazard needs at most a payment and two calls that race over it; four
calls leave one for a bystander (a void, or a second key). Two invoices show
that entries do not cross customers; two keys give equal and different ones.
Totals 0 and 2 (with payments by hand of 3 and a correction of -1 in `MCPaymentsLive`,
and the correction alone in `MCPaymentsConcurrent`) give an invoice that is paid at
once, paid exactly, paid too much, and one that owes more than its total. A subscription hazard needs
a creation and two calls or workers that race over the row. In
`MCSubscriptionsWorkers` a `MaxTime` of 2 lets one period end and the next begin, so
that a second renewal is possible, and a batch of one is the smallest that two rows
overfill; in `MCSubscriptionsConcurrent` a `MaxTime` of 1 lets a period end and the
worker of batches of two hold both rows. One delivery is enough for two workers to race
over it; with one retry and three ticks a stale copy can be written before, at and after
the retry is due. The number of delays exceeds `MaxRetries` in one run of `Webhooks` and
falls short of it in the other, so each of the two bounds on attempts is the one that
counts once (in the code they are equal). Two deliveries and a batch of one are the
smallest queue that can starve. `MaxAborts` bounds crashes, so the requests of a
behaviour are finitely many. In `Catalog` and `Customers` three calls are two that race
and one that sees the result, or two that change a list around a walk; a list limit of 1
with two plans shows what is cut off. Three requests are an original, a copy and a third
that interferes (fails, deletes, replays); one failing or delayed command besides the
expired contexts shows each command failing and each being late. Two events and a batch
of one are the smallest queue with a younger event. `MaxInFlight` is at least the number
of calls wherever a run passes, so it restricts nothing there; `MCPaymentsRefunds` needs
two at once. Symmetry is used where no property is temporal beyond one step; the
abstract book has no fairness and treats calls alike, so it is checked with it.

Fairness. `Fairness` in `Payments` is weak fairness of every call's next step: a
call that began is a running goroutine, and the provider call and the statements
return. A wait on the unique index ends because the twin's transaction ends. A
request need not arrive, and `Abort` is never forced. In `Subscriptions` workers
also poll for ever (`worker/renewal.go:46-63`) and the clock runs, as in
`Webhooks` (`worker/webhook_delivery.go:49-66`), where crashes are bounded and a
crashed worker polls again, and in `Outbox` (`worker/outbox.go:30-47`). The other liveness
runs set `Aborts = FALSE`: with it a charge can be orphaned, which is a listed
hazard and not a property.

## 4. Proofs

`PaymentsProofs` proves for every value of the constants that satisfies the
named assumptions of `Payments` (customers of invoices, natural totals, integer
amounts, known operations and answers):

* `Invariance`: `Spec => []IInv`.
* `TypeCorrect`, `BalancedInvoices`, `LedgerAgrees`, `NothingInvented`,
  `KeyProtects`, `RefundsAgree`: the invariants of `MCPaymentsConcurrent` that
  `IInv` implies.
* `BalancesExplained`: the balance of the ledger is what payments took less what refunds
  gave back.
* `PaidByPayments`, `TerminalRowsKept`, `SecondRefundsCollide`, `PaymentsCounted`: the
  documented rules, each with the one way it is broken, for any overlap.
* `BookRefined`: `Spec => BookKept`, step by step.

`IInv` adds to the checked invariants what makes them inductive. `ControlInv`
ties a call's location to its request, its snapshot and its answer (a call that
was inserted holds the copy of an open invoice, so it charges a positive
amount); `RowInv` and `RefundInv` tie the rows to calls that are done, and a
refund's request to a payment that took money; `KeyInv` says that of the
attempts with one invoice and key at most one is between insert and commit or
has committed a payment; `PairInv` says that two refunds of one payment that are past
their lookups have collided. With them each invariant is preserved by each action
alone: stale copies do not matter because balance is a property of a single row
and every copy is balanced.

The balance is a sum over a set of entries, and so are the two sums it is compared
with. TLC evaluates them with a fold, of which the prover knows only the recursion
that defines it. `FiniteLemmas` says what is needed of it: that a fold over a finite
set is *the* function that adds one element at a time (`FoldIsAdditive`,
`AdditiveUnique`), hence how a sum behaves when an element joins, when the elements are
renamed, and when two sums are joined (`SumStep`, `SumImage`, `SumUnion`, `SumOpposite`).
Each is an induction over a finite set, made by taking a smallest subset for which the
claim fails (`LeastSubset`), since the induction theorems of the library take an operator
as a parameter. `Calls` need not be finite: `BegunFinite` shows that only finitely many
calls have begun in any state, and the sums range over those.

`PaymentsCounted` needs an invariant of its own. `CountInv` compares every invoice, and
every copy of it that a call holds, with the sum of the payments that took money for it:
none shows more, and the row shows as much until an overtaken copy is written over it.
A copy adds its own payment to what it showed when it was read, which was no more than
the payments took, so the sum grows by as much as the row does or more
(`PaidSumStep`). `TerminalRowsKept` needs only `ControlInv`: a call that is not
`RecordPayment` holds the copy of an open invoice, so if the row has ended the copy is
not the row.

`BookRefined` reads the abstract book's `contested` off the history: a second reversal of
a payment is a step of the book only if it is contested, and `PairInv` is what shows that
it is.

`WebhooksProofs` proves for any numbers of deliveries, endpoints, workers and
edits, any batch size, retry schedule and number of crashes that a delivery counts
no more attempts than requests failed (`AttemptsHonest`), has a final status only
for the reason that status stands for (`SettledHonest`), and is never sent before
its retry time (`BackoffRespected`). No invariant of the rows alone is inductive,
since a stale copy may be written last; its `IInv` says of every copy, in a batch
or in hand, what it says of the rows (`Explained`), and a copy stays explained
because answers only accumulate (`ExplainedStays`). `EndpointSteps` shows that
edits disturb none of it: a referenced endpoint exists, and an inactive one was
paused.

`MailRefined` is `Spec => MailKept`, step by step. It needs one invariant more:
`WithinInv` says of rows and copies that no attempt beyond the allowed ones is counted
and that a delivery given up after errors has counted them all, so that every row
written is a record `Delivery` knows and warrants (`CopyWarranted`).
With one worker no record falls back: `OneWorkerInv` says that the worker's copies are
the rows, that it holds one copy of each delivery, and that what it is about to write
follows the pending row, settled or with one more failure. Nothing is assumed about
crashes, edits, batch or queue. `MCWebhooksQueue` has one worker and so checks the strict
half; that records may fall back with several, and in which way alone, is shown by the
proof for every instance. `AttemptsHonest` is a consequence of `MailKept` and no property
of a run.

`SubscriptionsProofs` proves for any calls, workers, customers, plans, clock and batch
size what the runs check: `CreatedIsBilled`, `RowsAreCoherent`, `PeriodsAreNotAhead`,
`DeletedStaysFrozen`. Rows are written back from stale copies, so its `IInv` makes every copy coherent
(`Good`), has a worker hold only rows whose period was over when it polled, and has a
call hold a customer no younger than the table's: if the versions are equal the
customer is not deleted, so no write can follow a deletion.

`CanceledStaysFinal`, `PeriodsFollow` and `DeletedHasNone` say by what alone a
cancellation, the sequence of periods and a deletion are undone. The first two are facts
about the rows one step changes (`RowsOfStep`) and about what a copy can be (`CopyInv`: a
copy a worker or a cancelling or changing call may still write was not canceled when it
was read). `DeletedHasNone` rests on `RaceInv`: a creation and a deletion of its customer
that are under way together have met; what is alive although a deletion found nothing
alive has met it or was brought back to life (`RaceStep`). Creations that are refused,
customers that are reactivated and plans that are archived meanwhile change nothing in it.

`CustomersProofs` proves `EmailsAreDistinct`, `EditsAreKept` and `WalksAreExact`. A call that found an
email free claims it until it writes (`Claims`); `ClaimInv` says that whoever gave the
email to another customer meanwhile was under way with the claimant, or one of the two
did not see its lookup's answer. `Fresh` says that a copy with the table's version
differs from the table's row by the call's own change only, so nothing is lost.

`CatalogProofs` proves `SurvivingEdits`, `ReopeningOverlaps`, `ArchivedPlansSealed` and
`WalksAreExact`.
Products have no version, so the invariant says of each copy what writing it would
undo (`EditInv`: which updates it lacks; `OpenInv`: which archiving it would reopen;
`SealInv`: which plans it would leave active) and that in each case the holder and
the one undone are under way together. `QueryAll` shows that a list below its limit
holds every row, which is where the exception for `ListLimit` comes from.

`WalksAreExact`, in both modules, is about a client that goes through the pages while
rows are inserted on both sides of it. `Walking` is its invariant: all that was seen lies
at or before the last id, and all of the start that lies before it was seen. That a page
is the beginning of what is left (`QueryIsPrefix`, `ShownIsPrefix`) keeps it, one page
after the other (`WalkTurns`); a page that is not cut is all that is left (`QueryIsAll`).
Rows never disappear from a list, and the table is finite.

`IdempotencyProofs` proves `CopiesApplyOnce`, `ReplaysGenuine` and `RetriesThrough`. A
copy that marked the key leaves an entry, so another finds nothing only after a
deletion; `ShieldInv` and `BusyInv` explain every deletion by a copy that failed and
was under way, or by a command Redis missed. A command that Redis executes late is of a
key already known as lost, and what it stores is still the answer of a request with that
key (`TransitInv`), which is why `ReplaysGenuine` needs no exception for it.

`OutboxProofs` proves `NothingIsRecorded`: if the table accepts neither status the
worker writes, no row ever differs from what `Publish` inserted, for any number of
events, workers and retries.

All of these rest on the named assumptions of their modules (finite seeds, ids that
are positive numbers, positive limits), which the runs' constants satisfy. Only
`NothingIsRecorded` has a hypothesis of its own; the statuses of the migration, which
`MCOutboxBatch` uses, satisfy it.

Every invariant and every action property of the passing runs is a theorem. Only
model-checked are the liveness properties (`CallsEnd`, `ChargesRecorded`,
`PastDueIsRenewed`, `DueIsAttempted`): `ENABLED` and fairness are outside the prover's
reach, as is what recursive definitions compute for every input. The three statements of
documents that the code breaks are refuted by runs and not proved.

## 5. Plan

Done: `Invoice`, `Payments`, `Settlement`, `Subscription`, `Subscriptions`, `Webhooks`,
`Delivery`, `Paging`, `Catalog`, `Customers`, `Idempotency`, `Outbox`, the proof modules of the six
components and the outbox, and `FiniteLemmas`. Every safety property is proved. Next, in this order:

1. `Idempotency` composed with `Payments`, so that the key of the header and the key of
   the payment meet.
2. `Subscriptions` composed with `Payments` over one invoice table.

Not modelled: authentication and rate limiting (not mounted by the server), the
payment retry worker (its batch function is empty), `money` (no caller), the handlers
besides their lists (each decodes, calls one service and formats), the server's
wiring and the configuration (no state of their own), the ids' monotonic entropy (a
data race inside a library that is not in the repository), `service.Finalize` of
invoices, the pausing and expiry of subscriptions and `RecordCharge` (no caller, or
no row they could apply to).

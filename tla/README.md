# Bookstore: a TLA+ model of its durable core

The repository is a SvelteKit bookshop with a PostgreSQL database, a worker
process and Stripe as payment provider. Almost everything that can go wrong in
it goes wrong between transactions: jobs are retried and their leases stolen,
Stripe tells its news late, twice and out of order, objects in storage and rows
in the database never change together, and workers, customers and
administrators change the same rows. These modules model that part, TLC checks
them on small instances, and TLAPS proves for every size what it can of them: the
job queue and the outbox above it, the checkout, refunds and access, refund reports,
catalog with ingestion and cleanup, reader state, financial scans, and the administrators' roles and commands.

Paths below are relative to `src/src/lib/server/` unless they start with `src/`.

## 1. The system

| component | state | operations | hard because | correct when |
|---|---|---|---|---|
| Job queue (`jobs/repository.ts`) | table `jobs`: status, attempts, lease, rerun request | enqueue, coalesce, adopt, rearm, claim, renew, complete, fail | leases expire while handlers run; requests meet running jobs; the claim query refuses some jobs for a time, or for ever | no request lost, one active job per entity, only the lease holder settles, failure only when earned |
| Worker loop (`jobs/runner.ts`, `worker/process-runtime.ts`) | slots of each process | poll, handle, renew beside the handler, settle, shut down | crash, lost lease, calls whose outcome is unknown | every job ends |
| Outbox (`outbox/`) | table `outbox_messages` | store with its job, dispatch, mark | send and mark are not atomic, dispatchers overlap | delivered stays delivered, every message is decided |
| Checkout and fulfillment (`commerce/orders.ts`, `webhooks.ts`, `handler.ts`, `fulfillment.ts`) | `orders`, `payments`, `stripe_events` | accept, create and attach session, receive, read twice, fulfil, record exception | reads before the transaction are old; events in any order; attempts are limited | paid once, never falsely an exception, converges, never unpaid in silence |
| Refunds and disputes (`commerce/refunds.ts`, `disputes.ts`, `reconciliation.ts`) | `refunds`, allocations with components, `disputes` | handle event: store, attribute, recompute access | stale and out-of-order news; rounding; humans do the same | nothing over-refunded, final is final |
| Grants and entitlements (`commerce/grants.ts`, `refund-access.ts`, SQL 0010) | `entitlement_grants`, `entitlements` | derive, project, claim | four kinds of transaction derive the same state | access follows the facts |
| Refund review (`commerce/financial/refund-review/`) | drafts, finalization effects, recovery grants, corrections | save, discard, finalize, give and withdraw recovery access | races with the worker on the same refund | what the screen shows is true |
| Catalog and publication (`catalog/`) | `titles`, `title_revisions`, settings, covers | upload, review, publish, replace, roll back, withdraw | administrators against retried jobs | readers see what is complete, and it stays |
| Ingestion (`ingestion/`) | revisions of each generation, objects in storage | claim, copy, parse, write, record, fail, retry | objects and rows change in turn, also when an answer is lost; executions overlap | every upload is decided; the source of a retry is kept |
| Storage cleanup (`storage/cleanup.ts`, SQL 0011) | the objects | list a page, load references, delete one by one | writers run meanwhile | nothing referenced is deleted |
| Reader state and its client (`reader-state/`, `src/src/lib/reader/progress-sync.ts`) | `reader_progress` with versions, migrations; the pending place of each device | save, migrate, retry, conflict, close | requests late, lost or doubled; revisions replaced below the reader | no place forgotten, none overwritten unseen |
| Financial scans (`commerce/financial/scans/`, `payouts/`) | `financial_scan_runs`, cursors, `financial_payout_discovery_state` | schedule, page, continue, replay, switch the authority | chains of jobs, overlapping windows, a growing ledger | nothing skipped; the switch finds all classified |
| Roles (`auth/roles.ts`) | `user_roles` | bootstrap, grant, revoke | two administrators demote each other | there is always an administrator |
| Financial admin commands (`commerce/financial/admin-commands/`, SQL 0012) | commands, jobs with a database-held lease | submit, claim, execute, refuse, settle, adopt | the actor is demoted meanwhile; answers are lost | one effect, by an administrator, and every command decided |
| Operations retry (`operations/jobs/`, SQL 0015) | retry commands, the failed job | as above | the target runs and fails again meanwhile | only the failure that was seen is retried |
| Ledger, classification, evidence, sales reporting, mail, accounts, rate limits, carts, Stripe parsing, routes, UI, deployment | | | | see section 6 |

How they interact: a webhook stores a Stripe event and enqueues its job in one
transaction; the job's handler reads the provider and then changes orders,
refunds or disputes in one transaction that locks the order first; whatever must
be sent goes through the outbox, whose dispatch is again a job, as are the
ingestion of an upload, every page of a scan, and every command of an
administrator. So `JobQueue` says *that* a handler runs (at least once, possibly
overlapping with itself), and the other modules take exactly that as their
environment.

## 2. The modules

| module | models | composed |
|---|---|---|
| `JobPromise` | what the queue promises: whoever asks gets an attempt that begins after the request, unless the work is held again and again | abstract specification |
| `JobQueue` | table, routines, worker slots, and the claim gate | implements `JobPromise` (`KeepsPromise`, `KeepsFairPromise`) |
| `Outbox` | outbox messages and the dispatch handler, step by step | extends `JobQueue`: every step of the queue is composed with the handlers it starts and ends |
| `Checkout` | one order from the accepted request to paid, failed, expired or exception, however often its events are handled | |
| `CheckoutJobs` | the limited attempts of the events' jobs, their failure and rearming, and the claim gate | extends `Checkout`, and allows nothing it does not (`JobsOnlyLimit`) |
| `RefundAllocation` | the pure attribution of refunds to items and the price/tax split, and what it gives stated without its loops | operators only |
| `PurchaseAccess` | refunds, disputes, review and access of one fulfilled order | extends `RefundAllocation` |
| `ReportingCorrections` | how the refunds of a payment are reported, corrected, replayed and carried to the next implementation of the ledger | instantiates `RefundAllocation`; `FinancialScans` has the switch page by page |
| `Publication` | a title and its revisions: review, settings, publish, replace, roll back, withdraw | |
| `Ingestion` | uploads, ingestion jobs of every generation, the handler between storage and database, retry | extends `Publication` |
| `CatalogPromise` | what readers are promised: a title shows complete revisions only, and what it shows keeps its objects | abstract specification |
| `Catalog` | covers and the storage cleanup beside all of it | extends `Ingestion`, implements `CatalogPromise` (`ShowsFinished`) |
| `ReaderState` | progress rows, their migration, and the synchronizer of each device | extends `Publication` |
| `FinancialScans` | discovery, paged scans, payout windows, the replay of the ledger and the switch of authority | |
| `AdminCommands` | roles and the commands given in an administrator's name | |
| `OperationsRetry` | retries as a kind of command, and the job they retry | extends `AdminCommands` |
| `JobQueueProofs` | theorems about `JobQueue`: its table and slots, requests and the refinement, settlements; and about `Outbox` above it, whose invariant strengthens the queue's | extends `Outbox` |
| `CheckoutProofs` | theorems about `Checkout` and `CheckoutJobs` | extends `CheckoutJobs` |
| `RefundProofs` | theorems about `PurchaseAccess` and the loops of `RefundAllocation`, about `ReportingCorrections`, and about sums and shares of amounts | extends `PurchaseAccess` and `ReportingCorrections` |
| `PublicationProofs` | lemmas about the steps of `Publication` | used by the next two |
| `CatalogProofs` | theorems about `Catalog`, that is about `Publication`, `Ingestion` and the cleanup together | |
| `ReaderStateProofs` | theorems about `ReaderState` | |
| `FinancialScansProofs` | theorems about `FinancialScans` | |
| `AdminCommandsProofs` | theorems about `AdminCommands`, and about `OperationsRetry` above it | extends `OperationsRetry` |
| `MC*` | instances for TLC | |

Correspondence. A transaction that locks what it reads is one action, named
after the function of the code. What happens between transactions is interleaved
freely. The code is split further where it is *not* one transaction:

- a handler's provider reads in `Checkout` and `PurchaseAccess`
  (`RetrieveCheckoutSession`, `RetrievePayment`, `RetrieveObject`), and the
  second transaction of `Checkout` that records an exception after a rollback;
- the stages of the outbox dispatcher (read, send, mark);
- each write and delete of an object in `Ingestion`, also the delete by which
  the upload route answers a failure: if only the answer of its transaction was lost
  (`unanswered`), the job is live by then (`UnansweredUploadDeletes`); and in `Catalog` each
  deletion of a cleanup after its references were loaded;
- requests of a device in `ReaderState`, which lie on a `wire` until they are
  applied, lost, or answered too late;
- the reading and the committing of a page in `FinancialScans`;
- in `AdminCommands`, transactions that take the administrators' lock and then
  decide: looking and committing are two steps with the lock between them, and so
  are the refusal after a rollback and the settlement of the job.

In `PurchaseAccess` a conflict and the exception recorded for it are one step,
because only the event's outcome is written.

Abstractions that matter:

- **Time** is never a number where it can be a flag: in `JobQueue` `due` and
  `expired`, in `Catalog` `old`, become true at any moment, which covers every
  lease, backoff and retention. Only the hours of `FinancialScans` are counted,
  because the discovery windows are about them.
  The retention of the cleanup is hours, a request minutes: `RetentionPasses` leaves
  out what a live writer has in hand, and waits for a route that got no answer to have
  deleted what it staged, or failed to.
- **The claim gate** (`claimableJob`, `jobs/repository.ts:927-1092`) lets the jobs of
  events, sources, payouts and scans through only while no replay is pending and
  the active implementation is this build's, and a local-only worker takes none
  of them. What its clauses look at is in `FinancialScans`; here it is what they
  make of it, the set `held` of what is refused now, which changes at any moment
  and need not open again (`GateChanges`).
- **Unknown outcomes**: a database call that throws may or may not have
  committed; both are allowed (`ClaimNextThrows`, `CompleteThrows`,
  `RenewLeaseThrows`, `SettleFailureThrows`, `StoreThrows`, and the steps of
  `AdminCommands` that leave a worker without its answer).
- **Evidence** in `Checkout` (amounts, currency, tax, line items) is taken to
  match; what is kept is the order in which snapshots are taken and applied.
- **Money** in `RefundAllocation`, `PurchaseAccess` and `ReportingCorrections` is whole minor units with
  the code's integer division and rounding. Amounts are far below the safe
  integer limit the code checks, so no width is modelled.
- **Reports** in `ReportingCorrections` are of what the customer paid. The amounts
  in the currency of settlement follow the same distribution; a rebase may refuse
  them (`settles`). Workers of the old and the new implementation may run side by
  side, and every job armed may run, be overtaken or wait.
- **Contents** of uploads are "objects or a failure"; a place in a book is a
  model value that has, or has not, one exact counterpart in another revision.
- **Commands** have one effect, counted by `effects`: what the executors do is in
  `PurchaseAccess`. Submitting a command again changes nothing (its idempotency
  key is taken), so it is no action.
- **External**: the provider. A session is open, then complete or expired; a
  payment is pending, failed or succeeded; a refund may fail after it succeeded;
  what is refunded at a time never exceeds the payment; a dispute opens and is
  won or lost; payouts appear in the hour they are created, and those older than
  where the first discovery of the code begins (seven days before the earliest
  paid order, `scans/repository.ts:241-249`) are of no order of the shop and left
  out, so that first window has no lower bound. The provider may
  forget an idempotency key (`checkout`).
- In `PurchaseAccess`, finalization and recovery also demand reconciled financial
  evidence, an unchanged preview fingerprint and a reporting correction. These
  only refuse; leaving them out allows more behaviours, so the safety properties
  hold for fewer.

Operators named `X_fault` placed before `X` are `X` with a plausible fault.
`PROJECT.json` pairs each with the property that notices it; they take no part
in any specification.

## 3. What is checked

| run | instance | shows |
|---|---|---|
| `jobs_coalesced` | two triggers of one entity that the gate may refuse, 2 processes of 2 slots, 3 requests | one active job, fenced settlements, failures earned; the queue's steps are steps of `JobPromise` |
| `jobs_kinds` | an event's job, which the gate may refuse, and a classification job, 3 requests, fairness | rearm and adoption: no request lost; every request gets its attempt unless the gate closes again and again (`KeepsFairPromise`); every job that the gate lets pass from some time on ends |
| `outbox_dispatch` | a message with 2 attempts, one without handler, fairness | a job that succeeded delivered its message, every message is delivered or its job fails |
| `checkout` | up to 2 sessions for one order, 2 handlers, 2 requests | finalized once, no money forgotten, settled stays settled; if the provider honoured the idempotency key: converged, no exception by a race |
| `checkout_jobs` | 1 session, 2 handlers, 1 request, 2 attempts per event, fairness | money taken is followed by a paid order, or by the failed job of the event that tells of it, unless the gate closes again and again |
| `refund_reporting` | every order of 1 or 2 items, prices 0..2, tax 0..1, up to 3 refunds, the first of them perhaps attributed by hand; of two refunds over two items, each corrected twice while one replay switches implementations | loops equal reference definitions without loops, the split never fails; the reports stay within what was paid, show the newest correction, and change only by an approval |
| `purchase_access` | 2 items and 3 uneven refunds; or one refund and two disputes, of an account or of a guest | nobody over-refunded, split as if in order, local status converges, access follows the facts, final is final, with finalization, recovery, claim and repair mixed in |
| `purchase_draft` | 2 refunds | **violated**, see section 5 |
| `catalog` | 1 revision retried once (2 attempts, then 1), 1 cover, 1 administrator, fairness | what readers are shown is complete and stays (refinement of `CatalogPromise`); a source that may still be claimed is kept, except from the route that lost its answer; every upload is decided |
| `reader` | 2 devices (2 and 1 navigations), 2 revisions, 1 retry, 1 page closed | no place forgotten in silence, no progress overwritten unseen, the shown revision is a published one |
| `scans` | six agendas: overlapping hours, a missed hour, initial and hourly, a scan over pages, a replay under a growing ledger, both | no record or payout skipped, no cursor without a job, the switch finds all classified |
| `admin_commands` | 2 administrators, a command or a retry with 2 attempts, 3 changes of its target, fairness | always an administrator, one effect under current authority, only the failure seen is retried, every command decided |

The properties were chosen from the hazards in `PROJECT.json`; each hazard names
the properties that would catch it. Deadlock is not checked, except in
`admin_commands`, whose roles can always be changed again: the other systems
really come to rest when requests, events and restarts are used up.

Bounds, and why they suffice.

- `MaxRequests`: three requests are a job, a request that meets it running and
  one that meets it ended or rearms it.
- `Gated`: the jobs of one entity have one type and pass or are refused together, so one
  gated entity beside one that is not shows both. Messages are never refused.
- Attempts, 1 and 2: first and last, and both at once when a lease is lost.
- Processes: two incarnations, so one can crash, stop or lose a lease while the
  other takes over; two slots per process, because lease names are per slot.
  `Survivor` is a bound too: a process ends only while another is up or can
  start, standing for the deployment's restart.
- `MaxEvents` and `MaxReads`: with two reads and up to three events every stale,
  repeated and swapped application of one object's states occurs. Two items and
  three refunds are the least for which an attribution spans items, a remainder
  is carried, and a late refund falls between two others. `EventsOf` gives an
  object fewer events where its history is not the subject.
- `Checkout` has no bound: its provider is finite. `MaxTries` of `CheckoutJobs`
  is two, where the code has twelve: an attempt that may be followed by another,
  and the last one. What is proved about it is proved for any number.
- `Catalog`: two generations and two attempts give an old execution beside a
  retry and beside itself (`MaxLive` executions at a time); an object's keys are
  its own, so a second revision would add none of the hazards but the product.
- `ReaderState`: two navigations of one device and one of the other give a place
  that is pending, retried, in conflict and superseded; two revisions that
  replace each other, forward and back.
- `FinancialScans`: `Overlap` is one hour where the code reaches back 72; what
  matters is that the window overlaps the previous one and starts from the
  coverage when an hour was missed. Two records make two pages.
- `ReportingCorrections`: corrections disturb each other in pairs, so two refunds
  of two items are the least; two implementations give one replay with a switch,
  and two approvals of each refund a newest one beside an older one that was, or
  was not, carried over. A refund that did not succeed is only skipped, so its
  amount is fixed.
- `AdminCommands`: two users are what demoting each other takes. One command per
  behaviour: commands meet only in the administrators' lock, which the role
  changes contend for too. The target of a retry is looked at from the moment
  the retry is asked for, in every failed state it may then be in.

Symmetry is used only in runs without liveness, over values nothing tells apart.

Fairness, and what justifies it. `JobQueue`: a started slot polls until it
stops, a handler returns (its provider calls time out, its signal aborts), the
database answers, leases expire, and processes start; all weak. A renewal, a
crash or a thrown call is never forced. `Outbox`: the same, and the stages of a
dispatcher go on. `Catalog`: jobs are claimed or their leases expire, and a
handler goes on; nothing is forced of administrators and the cleanup.
`AdminCommands`: PostgreSQL serves those who wait for an advisory lock in turn,
hence strong fairness for taking it (`TakesTheLock`); everything else is weak.
`CheckoutJobs`: the provider delivers an event until it is answered, and after
that perhaps never again (`RearmPendingStripeEventJob` is not fair); a handler does
not stand still, but any attempt may stop short; a job whose last attempt is over
is settled, or recovered by a claim that passes the gate; all weak. That a job is
claimed which may be claimed again and again is strong fairness, since the other
jobs come between: the query takes the job that is due longest
(`order by run_at, created_at`), and whatever fails or is armed meanwhile is due later.

No fairness opens the gate, in `JobQueue` or in `CheckoutJobs`: while a replay is
pending whose classification child failed for good, the jobs of events wait until
an administrator acts. So `JobsEnd`, `KeepsFairPromise` and `PaidIsFulfilled` say
what follows *if* the gate lets the jobs pass from some time on.

## 4. What is proved

### The job queue

For every number of jobs, entities, processes, slots, attempts and requests,
under the named assumptions of `JobQueue` on its constants (kinds and entities
are functions on jobs, attempts are positive, `None` is neither job nor slot,
jobs that are not coalesced are alone in their entity):

| theorem | property |
|---|---|
| `Inductive` | `Spec => []IInv` |
| `TypeCorrect` | `TypeOK` |
| `NothingElseWaits` | `WaitsForGateOrClock`: an active job that no claim would take waits for the gate, for its time or for a lease to run out, and for nothing else (no run of its own; it does not say that the gate opens) |
| `OnlyHolderPasses` | `Fenced`: an owner check passes only for the latest claim's slot (no run of its own, `FencedSettlement` is what it is for) |
| `RequestsSurvive` | `NoLostRequest` |
| `Coalesced` | `OneActivePerEntity` |
| `QueueKeepsPromise` | `KeepsPromise` (refinement of `JobPromise`) |
| `OvertakenHasNoEffect` | `FencedSettlement` |
| `FailureIsEarned` | `FailsOnlyWhenSpent` |

The argument. `IInv` joins three parts: `RowInv` (each row passes the table's
checks, a pending row has attempts left, a running row has at most its maximum
and its owner is the slot that made the latest claim), `SlotInv` (a slot has a
job exactly while it handles or settles one) and `RestInv` (types of the rest).
None of the properties is inductive without them: `WaitsForGateOrClock` needs that a
pending row has attempts left, and that needs the bound on running rows, since a retry
turns a running row into a pending one;
`Fenced` needs that owner and latest claim agree. One lemma per routine says
what it makes of a row, one step per action carries the invariant.
For requests, `Next` is then reduced to four kinds of step (somebody asks, an
attempt begins, a row goes on, nothing changes), and the loss-free handling of
requests, coalescing and the refinement follow from those alone. The action
properties about settlements follow from `IInv`.

### The outbox

For any messages, processes, slots and attempts, under the assumptions of
`JobQueue`:

| theorem | property |
|---|---|
| `BoxInductive` | `BoxSpec => []BoxInv` |
| `BoxTypeCorrect` | `BoxTypeOK`: types, and a message exists exactly when its job does |
| `QueueUnderneath` | `BoxSpec => Spec`: whatever is proved of the queue holds of dispatch jobs |
| `SucceededWasDelivered` | `SucceededIsDelivered` |

The argument. Two dispatchers may handle one message, and either may send it.
What bounds the sends is that a handler that has yet to send (`Unsent(m)`, those
that read or send) stands for an attempt of its own: `sent[m]` and their number
together never exceed the attempts used (`AttemptsHold`). A claim adds one to
both sides, a send moves one over, and a crash, a lost lease or a failure only
takes away. `StageHolds` says what the stage of a handler proves (it delivers
what was sent, it settles as a success what was delivered) and `MessageHolds`
what a job's success does. Of the queue's many steps the proof uses only two
facts, `RowGoes` and `SlotGoes`, shown once per routine.

### The checkout

For any sessions, handlers, requests and positive `MaxTries`, assuming only that `None` is no session:

| theorem | property |
|---|---|
| `Inductive` | `Spec => []IInv` |
| `TypeCorrect` | `TypeOK` |
| `OrderPaidOnce` | `PaidOnce` |
| `MoneyIsRemembered` | `NoForgottenPayment` |
| `SettledIsFinal` | `SettledStays` |
| `OneInductive` | a stronger invariant, while `KeyHonoured` |
| `NoConflictWithOneSession` | `NoFalseException` |
| `ConvergesWithOneSession` | `Converged` |
| `JobsOnlyLimit` | `JobSpec => Spec`: all of the above holds beside the jobs of the events, for any number of attempts |
| `JobTypeCorrect` | `JobTypeOK` |

The `WithOneSession` two speak of states in which the provider has honoured the
idempotency key (`KeyHonoured`: it created one session, of however many it might);
the invariant below them needs `Existing`, that a session which a request or the
order names was created. With two
sessions, when the provider forgot the idempotency key, a conflict is real and
recorded for a person, which `MoneyIsRemembered` covers.

The argument. A handler applies what it read some time ago, so the invariant
says of each read what it still implies now (`ReadHolds`): an expiry and a success are
final, a failure may only have become a success, and if this event tells of the
payment then the payment was read. Each step of the provider keeps what was
read true in this sense. `TakenHolds` says that money that was taken is known to
the order or the event that tells of it is still open; `OrderHolds`, that an
order which failed or expired did so by its session.

### Refunds and access

For any items, prices, taxes, refunds, disputes, orders and bounds, assuming what
`allocateDeterministicRefunds` checks of its input (`AmountsAssumption`: there is an
item, no item is free, no refund is empty), that no dispute is a refund
(`ObjectsAssumption`), and the types of the bounds (`BoundsAssumption`,
`OrdersAssumption`):

| theorem | property |
|---|---|
| `AccessInductive` | `Spec => []AccessInv` |
| `AccessIsTyped` | `TypeOK` |
| `RefundsWithinAmounts` | `WithinAmounts` |
| `SplitIsInOrder` | `SplitAsInOrder` |
| `ReviewIsTrue` | `AttributionIsComplete` |
| `StatusConverges` | `Converged` |
| `AccessIsWhatFactsSay` | `AccessFollowsFacts` |
| `NothingIsTakenBack` | `NothingTakenBack` |
| `AttributionSuitsReports` | `SuitsReports`: what `ReportingCorrections` assumes of an order |
| `ArithmeticStaysExact` | `RefundArithmetic`: in every state, whatever further refunds succeed, the attribution is `Attributable`, the loops give overlaps (`GivesOverlaps`) and what they add is exact (`IsExact`) |

The argument has three parts, the conjuncts of `AccessInv`, and a fourth about the
loops alone.

*Money.* The two loops are recursive functions here (`Given`, `Plans`), and what
they compute is shown by an invariant over their steps (`GivenSet`, `PlanSet`) with
`RunExists`. The loop over refunds and items gives every succeeded refund all it has
left, and no item more than it has (`NewAmountsAre`): what both sides have in all
is equal, and a pair that is passed leaves one of its sides with nothing. Each
amount is then split into shares that fit what price and tax have left
(`SplitFits`: rounding loses at most one unit, and the larger remainder has room for
it), so no plan is ever rejected (`AfterIs`). `SplitHolds` says of each part that it
is the share of what its item had left *after the earlier refunds*. New parts come
after all that their item has (`OutOfOrder` is refused), so older parts keep it, and
by induction over the refunds (a smallest one that differs) only one split has it: that of
attributing all in order (`SplitUnique`, `SplitInOrder`).

*News.* A read is applied long after it was made. `ReadHolds` says what it still
implies: its status was the provider's, and is if nothing has happened since.
`LocalRefundHolds` and `LocalDisputeHolds` say the same of what is stored, and that
it is the provider's once the last event has been handled. A conflict of disputes
is thereby impossible (`DisputeEventIs`), and one of refunds is about a success that
failed later.

*Access.* Each of the five kinds of step that change a grant is shown to give
what the facts give, where a revocation is never lost because attribution only
grows (`Grows`) and a lost dispute stays lost.

*Loops.* `GivesOverlaps` has a closed form for the loop over refunds and items,
so the loop is compared with it cell by cell: `Upto` gives the first cells their
overlaps and the others nothing. What an interval overlaps with several that lie end
to end adds up to what it overlaps with all of them (`OverlapsAdd`, `OverlapsUpTo`), so
what refund and item still have before their cell is known (`UptoOpen`), and the
smaller of the two is their overlap (`OpenIsOverlap`). With one item a refund gives its
remainder without looking at the item, and that is the overlap too, because the
refunds together are within the order (`OneItemTakesAll`, `RestsAre`).
`IsExact` then needs that a price part is the exact proportion rounded
(`SplitRounds`, from what integer division leaves) of what the item had left when
the refund was split (`LeftForIs`). Its hypothesis `Attributable` is what
`RefundHolds` and `PartsHold` say of every reachable state. When a new amount would come
before an attributed later one the code stops with an exception before it splits, so
`IsExact` leaves that case (`OutOfOrder`) out; in the small orders of the run, where only
the first refund is attributed by hand, it never occurs. The two theorems about any
attribution (`LoopsGiveOverlaps`, `AttributesExactly`) are what the specification's
follows from.

`AttributionSuitsReports` joins this model and the next: the assumption
`IsAttributed` of `ReportingCorrections` is true in every reachable state here.

### Refund reports

For any orders, implementations and corrections, assuming that what an order's
refunds were attributed is within what each item cost (`PurchasesAssumption`, which
`AttributionSuitsReports` justifies) and that there is a first implementation (`VersionsAssumption`):

| theorem | property |
|---|---|
| `ReportsInductive` | `ReportsSpec => []ReportsInv` |
| `NeverMoreThanPaid` | `ReportsWithinPaid` |
| `NewestIsShown` | `NewestApprovalShown` |
| `ReportsChangeByApproval` | `ReportChangesByApproval` |
| `AttributedByOverlap` | `GreedyIsOverlap`, of the attribution the reports start from |
| `AttributedExactly` | `AttributionIsExact`, of the same |

The argument. `RowOK` says of each refund's chain of corrections that anchors
never go back and a rebase skips no set (`Ordered`), that everything carried over
repeats an approval (`Descends`), that nothing belongs to an implementation that
is not registered (`KnownOnly`), and that a replay which has built the pending
set has carried the newest correction over or left an issue (`CarriedOver`).
Jobs of both implementations run in any order, so each operation is shown to
keep this of a row, whatever the row was. The switch then changes no complete report:
either implementation shows the newest approval or neither does. That the reports together stay within
what was paid is a fact about sums: what the complete heads show is a part of
what the compatibility of each correction was checked against.

The last two are about the arithmetic behind the attribution. They assume
`OrderGiven`: the order is the one the constants of `RefundAllocation` name, and is
attributed as `PurchaseAccess` leaves it. The constants stand for any order, so that is
no restriction on it; that every state of `PurchaseAccess` meets the second part is
what `ArithmeticStaysExact` says. `ReportingCorrections` applies the arithmetic to
the fields of its order, so each of its operators is shown to be the same there
(`SameParts` to `SameExactness`).

Sums over refunds are folds of the community modules. The library's induction
theorems cannot be used with the installed provers, but a smallest counterexample
among the subsets of a finite set can (`SmallestSubset`, from well-foundedness),
and that is how `SumRemove`, `SumMonotone` and the other lemmas are proved.

### Catalog, ingestion and cleanup

For any revisions, retries, attempts, administrators and covers, assuming
only that attempts are positive, bounds are numbers and `NoRevision` is no revision:

| theorem | property |
|---|---|
| `Inductive` | `Spec => []IInv` |
| `TypeCorrect` | `TypeOK` |
| `ShownIsActive` | `ActiveIsPublished` |
| `FinishedStaysComplete` | `FinishedIsComplete` |
| `SourceIsKept` | `SourceKept` |
| `CatalogKeepsPromise` | `ShowsFinished` (refinement of `CatalogPromise`) |

The argument. The cleanup deletes, one by one, what was unreferenced when it
loaded a page, and by then rows may refer to it. Two facts make that safe:
nothing in a writer's hand (the object an execution is about to commit, the copy
of a retry under way, a cover that is being set) is past its retention, and only
what is past it is ever doomed (`doomed \subseteq old`). `SourceKept` is about every
step but one: the delete of the upload's route, after a transaction whose answer was lost,
which section 5 is about. What a row refers to
already is no candidate. `RunHolds` says of each stage of an execution which
objects exist; `RevisionHolds`, that a finished revision has its original and
the objects its row names, and that those are not doomed.

### Reader state

For any revisions, devices, places and bounds (`NoRevision` is no revision, the
beginning is a place):

| theorem | property |
|---|---|
| `Inductive` | `Spec => []IInv` |
| `ShownIsActive` | `ActiveIsPublished`, beside readers |
| `PlacesAreKept` | `NoPlaceForgotten` |
| `RowsAreSeenFirst` | `NoSilentOverwrite` |

The argument. A request carries the version its sender saw, not the row. What
makes that enough is that rows only grow (`Grow`): every write, of a save or of
a migration, is one version on. So whoever knows a row knows one of a version
no later than the table's, and the same row if the version is the same
(`Known`). This is kept for pages and for requests on the wire, and a save that
passes the check of its version is then a save by somebody who saw the row.
`KeepsPlace` follows the last place of a page from pending through the request in
flight to its answer.

### Roles, commands and retries

For any users, commands and attempts, assuming only that each command has an
actor among the users, that attempts are positive and that retries are commands:

| theorem | property |
|---|---|
| `Inductive`, `RetryInductive` | the invariant of `AdminCommands`, and of its composition with retries |
| `TypeCorrect`, `RetryTypeCorrect` | the type invariants |
| `AdministratorRemains`, `RetryAdministratorRemains` | `AlwaysAdministered` |
| `EffectIsAuthorized`, `RetryEffectIsAuthorized` | `OnceByAnAdministrator` |
| `RetryOfWhatWasSeen` | `OnlyTheFailureSeen` |

The argument. What one must know is that what a transaction found when it looked
is still so when it commits, although looking and committing are two steps.
`IInv(S)` says: at most one role change is past its check (`OneChecked`), what
it checked still holds (`CheckHolds`), no command of an administrator is being
executed at that time (`NotBoth`), and the actor of a command that is being
executed is an administrator (`AuthorityHolds(S)`); all four are consequences of
the lock, and none is inductive alone. `EffectIsResult` counts effects: one if
the command succeeded, none otherwise. `S` are the commands whose authority is
looked at before they go inside: all of them in `AdminCommands`, all but the
retries in `OperationsRetry`, since a retry's authority is looked at in the step
that commits. So the lemmas about the one module serve the other.

### Financial scans

For any workers, overlap, bounds and agendas, assuming that records and hours
are numbered from one and that there are finitely many records (`AgendaAssumption`):

| theorem | property |
|---|---|
| `Inductive` | `Spec => []IInv` |
| `NothingIsSkipped` | `ScansMissNothing` |
| `CursorIsCarriedOn` | `CursorHasJob` |
| `SwitchSeesAll` | `SwitchIsComplete` |

The argument. Two jobs of a run, and two attempts of a job, may hold pages at a
time, and what a page was taken from changes under it. `Unasked` is what a phase
has still to ask for; it only shrinks (`UnaskedShrinks`), because a payout is
created in the current hour, which no window closes over yet, and because the
ledger enrolls its own new rows once a replay is pending. `RowHolds` says that
what is unasked lies after the cursor of a run, and nothing is unasked in the
phases behind it; `PageHolds`, that a loaded page holds what is unasked directly
after *its* cursor. A commit compares the two cursors, so it moves the run's past
nothing. `WindowHolds` says that a window starts no later than the coverage, also
when an hour was missed, so that coverage never jumps over a payout. For
`CursorHasJob`: cursors only move forward and no job is ahead of its run
(`NotAhead`), so the job of a new cursor is a new one, and a job that succeeds
without moving a cursor was behind it. For `SwitchIsComplete`: the finalizer's
phase has the page phase behind it, so no row is unasked, and `SubjectHolds` says
that a classification which succeeded used the latest evidence.

### Only model-checked

- All liveness (`JobsEnd`, `KeepsFairPromise`, `EveryMessageDecided`,
  `PaidIsFulfilled`, `EveryUploadDecided`, `EachCommandDecided`): fairness and
  `ENABLED` are beyond the prover.

Every invariant and every action property of the passing runs is stated by a theorem.

## 5. Disagreements found

`purchase_draft` violates `ActiveDraftMeansDraft`. An administrator saves a
draft for a refund that waits for review. Before it is finalized, an event for
another refund makes the refunds add up to the order, the worker attributes
both, and the loop at `commerce/refunds.ts:531-558` sets the drafted refund to
`finalized`. Its draft stays active. `drafts.ts:303-308` and `query.ts:325-331`
both take "active draft, status not draft" for corrupted data: the detail page
fails, the draft can be neither saved nor discarded nor finalized, and recovery
access for the order is refused while the draft is active. The other properties hold
all the same, and are proved: attribution itself is right.

Seen while writing `Ingestion`, in states that run `catalog` reaches: the upload
route deletes the staged object whenever the transaction failed
(`src/src/routes/admin/catalog/[titleId]/revisions/upload/+server.ts:94-95`), and a
lost answer looks like a failure: the revision and its pending job may exist by then,
and perhaps run (`UnansweredUploadDeletes`). The job is left without its source. Its
attempts fail, the revision fails, and a retry has nothing to copy from; the file
must be uploaded again. The design
(`src/docs/superpowers/specs/2026-08-09-storage-ingestion-publication-design.md:97`)
and the plan of the component (line 51 of
`src/docs/superpowers/plans/2026-08-09-backend-plan-4-storage-ingestion-revisions-publication.md`)
say that after a failed transaction the object stays, as an orphan for the delayed
cleanup. `SourceKept` names this step as its exception. `EveryUploadDecided` and
the promise to readers hold with it.

Seen while writing `ReportingCorrections`, in states its run reaches. They break
none of its properties, which are about what is reported as complete, and the
reader should know that those say no more than that:

- A correction whose head became incompatible, because another refund's report
  now takes the same item's money, can seldom be repaired: while the refund's own
  attribution or baseline exceeds what the other reports leave, the planner
  refuses it (`correction-plan.ts:444-449`, `477-480`), although repair by a new
  correction is what `readiness` (`corrections.ts:886-891`) lets through.
- An ordinary recompute resolves every open code of the active sets, also
  `correction_rebase_required` (`sources/refund.ts:1387-1399`). If the newest
  correction is anchored at an older implementation, the head is then complete
  without it: the approved distribution is no longer shown, nothing tells, and
  `readiness` (`corrections.ts:880-885`) refuses to approve another. The report
  changed while it was incomplete, so `ReportChangesByApproval` holds.
- A recompute of an incompatible head sets the refund's evidence to `exception`,
  and from then on `readiness` refuses the repair (`corrections.ts:842-846`).
- A rebase checks the other refunds by the reports of the *active* implementation
  (`rebase.ts:1971-1976`); when another refund's correction has already been
  carried to the pending one it counts that refund by its uncorrected
  attribution, and may refuse what would fit. The refusal is flagged.

Things that look like faults and are by design:

- A refund that fails at the provider after it had succeeded stays succeeded
  locally and its event becomes an exception for a person (`Converged` says so).
- A Stripe event whose job used up its attempts is rearmed by another delivery,
  but nothing makes the provider deliver an event again that was answered with success:
  the failed job has to be noticed (`PaidIsFulfilled` says that there is one).
- A device that does not learn that its save arrived, and saves again, gets a
  conflict with its own write and shows the reader a choice; a place that waits
  behind it is dropped with that choice, not in silence (`NoPlaceForgotten`).
- While a replay is pending whose classification child failed permanently,
  provider jobs stay unclaimed until an administrator acts: the claim gate is
  meant to keep the ledger from growing under an old implementation. Until then no
  payment that an event tells of is fulfilled.

## 6. What is not modelled yet, and the plan

Modelled, in this order: job queue, outbox, checkout, refund arithmetic, purchase
access, proofs of the queue; catalog with ingestion and cleanup, reader state,
financial scans, admin commands and operations retry, proofs of the last two;
reporting corrections; proofs of checkout, catalog, reader state, outbox,
financial scans, refund reports, refunds and access.

Next, to extend the model:

1. The currency of settlement and fees of `ReportingCorrections`, and the disputes
   of the payment.
2. Claim links of guests: issue, capability, expiry (`PurchaseAccess` has the
   claim itself).
3. Rate-limit windows and the heartbeat supervisor.

What is left unproved is liveness, which stays with TLC.

Left out of modelled components: bookmarks and preferences (the same optimistic
version as progress); metadata and contributors of titles; the payout-impact scan
(pages like the others); reruns of the jobs of admin commands; the kinds of job
whose retry policy only denies; `setPreservedGrantState`.

Not modelled, and why: parsers (EPUB, comics, images, Stripe payloads) and
rendering convert data; sales reporting, listings and audit read or append only;
mail keeps its state in the outbox; sessions are those of an external library;
carts and quotes are checked in one request; routes are thin; the financial
evidence sources, the classification rules and the several hundred SQL guards
validate rows one at a time; scripts, deployment and database roles run outside
the program. They make up most of the repository's lines.

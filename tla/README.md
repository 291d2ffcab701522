# A TLA+ model of IAPStack

IAPStack verifies in-app purchases with Apple, Google Play and Huawei, keeps what
the providers answered in PostgreSQL, derives each customer's entitlements from it,
and tells the customer's backend about changes with signed webhooks. This directory
models the protocols that make those entitlements correct, checks them with TLC on
small instances and proves the most important ones with TLAPS for every size.

`PROJECT.json` lists the components, the runs, the faulty variants that show each
property can fail, the correspondence of definitions and source lines, the hazards
and the theorems. Paths below are relative to `src/`.

## Inventory

| Component | State | Operations | Hard behaviour |
| --- | --- | --- | --- |
| Durable queues (`internal/persistence/postgres/queue.go`, `outbox.go`) | rows of `inbox_messages`, `reconciliation_jobs`, `outbox_events`: outcome timestamps and `river_job_id` | save (insert, reopen, requeue), complete, fail, purge | at-least-once delivery, rows and jobs in different transactions, retention |
| Worker (`internal/worker/runner.go`) | the claimed job, its attempt and snooze counters | execute: load, handle, complete or fail, transition error | death between two commits, lost commit answers, bounded retries |
| Reconciliation (`internal/processing/handlers.go`, `internal/transport/httpapi/api.go`) | one generation per lineage and UTC day | schedule next, refresh, retire; schedule after a client request | midnight, overlapping writers, one of several transactions failing |
| Verification (`internal/verification/service.go`, `refresh.go`) | none of its own between the provider call and the transaction | Verify, Reconcile, persist, post-commit | state read before the provider call and used after it |
| Observations and entitlements (`purchase.go`, `entitlement.go`) | one row per logical snapshot with its latest sighting; one projection with a version per customer and entitlement | SaveEvidence, SaveObservation, source query, PutEntitlement | stale answers, duplicates, several independent sources |
| Projector (`internal/verification/projector.go`) | none | Project | order of map iteration, ties, preserving an independent source |
| Customer identity (`identity.go`, `control.go`) | customers, aliases, merges | resolve, alias, merge, closure locks | merges racing verifications, lock order |
| Historical import (`internal/revenuecatimport`, `import_grant.go`) | batches, import grants | plan, apply per subscriber | repeated runs, stores superseding imports |
| Notifications (`api.go`, `handlers.go`) | inbox rows | authenticate, store, resolve to a purchase, reconcile | redelivery, unknown purchases, replacements |
| Webhooks (`internal/webhooks`, the receiving handler of `sdk/go/webhook.go`) | endpoint revision and secret; the receiver's event store | configure, deliver; verify, apply, remember | attempts that overlap, deaths on either side, rotation |
| API keys and sessions (`internal/auth`, `operations.go`) | key verifiers, revocation times | mint, authenticate, revoke | revocation racing use, the last administrator |
| Provider adapters (`internal/stores`) | none | verify, reconcile, linked purchase, acknowledge, normalize | provider states, clock skew, replacements, snapshots a store returns to |
| Credentials and protection (`internal/credentials`, `internal/platform/protection`) | credential revisions, key ring | rotate, open | rotation racing use |
| Financial reports (`internal/financialreports`) | report runs and rows | fetch, import, replace | partial imports, corrected reports |
| Process and configuration (`internal/app`, `internal/platform`) | running services | start, drain, stop | shutdown order |

The API and the workers are separate processes that share only PostgreSQL. They
interact through rows: a handler of one transaction saves a row and inserts its River
job, a worker claims the job later. Purchase transactions are serializable and retried,
and everything that touches one customer takes the write barrier of the customer's
closure first, so `DurableQueue`, `ReconciliationChain` and `CustomerEntitlements` treat
a transaction as one step and put the interleaving between transactions. Where two
isolation levels or an advisory lock decide what is right, the transaction itself is cut
into its statements: `AccessKeys` (read committed), `CustomerIdentity` and
`FinancialReports` (serializable and read committed side by side).

### What makes each component correct

- **Durable queues and worker.** Accepted work is never forgotten silently; an outcome
  never turns into the other; retries are bounded and every job ends; retention does not
  remove a row whose job can still run.
- **Reconciliation.** The refresh of a live lineage does not stop once its successor is
  saved, nor before it while attempts are left; the refresh of an ended one does stop; a
  day has one generation whoever schedules it.
- **Verification, observations, projector.** A customer has access exactly when a
  current source gives it, independent of commit order; a repeated answer is silent; the
  projection, its version and its event move together; nothing is acknowledged to a
  provider that is not stored.
- **Identity.** Aliases and merges never form chains, a repeated merge is never refused,
  an external id has one owner, a purchase belongs to the customer that is canonical
  when it is stored.
- **Access control.** A revoked key and everything derived from it stops working; one
  administrator key always remains.
- **Webhooks.** What counts as delivered was applied; an event the receiver has recorded
  is not applied again by a later request; a revision names one secret. Ordering events
  by their version is left to the host's callback.
- **Imports, reports, credentials.** A repeated run changes nothing; a partial failure
  can be repeated; a store answer supersedes imported history.

## Modules

`DurableQueue`, `AuditRecord`, `DurableQueueProofs`
: The three queue tables and the executor. A message is a row; `status` stands for its
  two outcome timestamps and `link` for `river_job_id`. `jobState`, `attempt` and
  `snoozes` are River's own columns (River is external and modelled from how
  `runner.go` configures and uses it). `SaveInboxMessage`, `SaveReconciliationJob` and
  `SaveOutboxEvent` are the producers, each with the job insertion of the same
  transaction. `execute` is cut at the points where another transaction can come
  between: `ExecuteLoad`, `HandlerReturns`, `CompleteQueue`/`FailQueue`/`AuditWriteLost`,
  then River's `Finish`. `Crash` can happen at any of them, `Rescue` is the stale-job
  recovery, `Clean` and `PurgeTerminalQueueRecords` are the two retentions.
  `AuditRecord` is the abstract specification: what a row promises when jobs, attempts,
  crashes and lost answers are left out. `runs`, `handled` and `superseded` are history.

`ReconciliationChain`, `WorkerJobsProofs`
: The generations of one lineage, one per UTC day. `ClientVerifies` and
  `ClientSchedules` are the API's request, `Start` to `Finish` the worker's handler, in
  the code's order: save the successor, ask the provider, retire the successor if the
  lineage ended, complete. Time is the day number, since only the boundary matters. A run
  that does not complete ends in one of the ways of `execute`: an error before the answer
  is stored (`RefreshFails`), which is tried again if it is retryable and attempts are left
  and otherwise recorded in the row (`FailRow`); an audit write that does not commit or
  whose answer is lost (`OutcomeLost`), after which an earlier attempt is run again and a
  last one is snoozed; a death, a cancellation or a row that cannot be loaded (`RunDies`),
  which leaves no outcome: after a last attempt River discards the job and the row stays
  open. How many snoozes there are is left to `DurableQueue`. `saved`, `lastRuns` and
  `everEnded` are history.

`EntitlementProjector`, `ProjectorScan`, `PurchaseAccessProofs`, `MCProjectorScan`
: `Project` of `projector.go` for one entitlement as operators on sets of candidates.
  `ProjectorScan` runs the code's loops with the map visited in every order and compares
  the outcome with those operators.

`ImportPlan`, `CustomerEntitlements`, `MCCustomerEntitlements`, `CustomerEntitlementsProofs`
: Compose the projector with the verification service, the stored observations, imports,
  merges and the outbox. A request goes through `Query` (scope loaded, provider
  answered), `Normalize` (the adapter stamps its clock) and `Persist` (one serializable
  transaction: evidence, observation, projection, version, event); `Fail` ends it
  anywhere, and what follows the commit is in `Notifications`. `ImportPlan` is the plan of
  a historical import as operators: both export formats in their normal form, the mapping
  file, the access decision. A command plans at the clock it started with, opens its
  batch, writes one subscriber per transaction, may die between two of them and be run
  again, and ends with an exit code. Import customers exist beforehand. A UUID computed
  from a customer and a purchase is a number that names both (`IdBase`).

`AccessKeys`, `MCAccessKeys`, `AccessKeysProofs`
: Authentication in the code's steps (load the key, take a derivation slot, derive,
  compare; open a session and load its issuer), authorization, and the operations that
  change access: `PutAPIKey`, `Mint` and the revocation as `RevokeLock`, `RevokeCheck`,
  `RevokeUpdate`, because `Operate` is read committed. `key` is the row of `api_keys`,
  `lock` the advisory lock, `slots` the semaphore. `barred` and `removed` are history:
  what had lost its access when a request began. The one clock leaves out the skew
  allowed between instances.

`WebhookDelivery`, `WorkerJobsProofs`
: `Configure` with its expected revision, `Deliver` cut where the secret is loaded, the
  request is out and the answer is classified, and the Go SDK's `ServeHTTP`: verify,
  look up, apply, remember, answer. The sender may stop waiting while the receiver still
  works, either process may die at any point, and a new attempt overlaps an old one.
  `applied`, `answered` and `confirmed` are history.

`CustomerIdentity`, `MCCustomerIdentity`, `CustomerIdentityProofs`
: `db` holds the committed rows of `customers`, `customer_aliases` and `customer_merges`.
  A request of `PutCustomerAlias`, `MergeCustomers` or `persist` carries the snapshot of
  its first statement (`view`) and waits for its locks afterwards; `PutCustomer` reads
  what is committed. PostgreSQL aborts a serializable transaction only on a real
  conflict. The model does it whenever another writing serializable transaction has
  committed since the snapshot (`stale`): this only adds retries, and commits still
  happen from every serializable order. `Retry` is `transact`'s bounded loop for
  serialization failures, deadlocks and lock timeouts. Not aborted are snapshots that
  miss a read-committed insert, which is what `identity_owner` is about.

`StoreResult`, `AppleAdapter`, `GooglePlayAdapter`, `HuaweiAdapter`
: The adapters as operators, from a request and what the store answers while it runs to
  a normalized observation or a failure. A signed payload is the record of its fields with
  its signature's verdict. The checks keep the code's order, since the first failure
  decides whether the worker tries again. `StoreResult` holds what they share: failures,
  references, the identity of a snapshot and the validation before anything is stored.

`StoreAnswers`, `MCStoreAnswers`, `PurchaseAccessProofs`
: One purchase asked about again and again while time passes: the adapter's answer, the
  rows of `SaveObservation` (reuse of a known snapshot, the sighting time it moves to,
  enrichment of missing prices) and what readers derive from the rows at each instant.
  `heard` and `told` are history. Rows an earlier release left behind are part of `Init`.

`StoreNotifications`, `Notifications`, `MCNotifications`, `NotificationsProofs`
: The callbacks of the three stores with their validation and authentication, and the
  inbox worked on while a client verifies or restores the same purchases and customers
  are merged. An attempt is cut where the handler leaves the database: binding to a known
  or a replaced purchase, the store's answer, the transaction, the acknowledgement, the
  schedule. The store's state of a purchase only moves forward, through phases. The queue
  itself is `DurableQueue`; here an attempt ends done, failed for good, or open. A worker
  verifies an App Store callback with the signed transaction it carries (`Evidence`), every
  other attempt begins with what the client submitted or with a lookup. `Persist` checks
  what the transaction checks: the customer resolved again, the products, the owner of the
  evidence and the owner of a row whose snapshot is stored again. Nothing in the schema or
  in `SaveObservation` compares the other rows of a purchase, so that they have one
  customer rests on the stores: `NamesAccount` assumes that every answer and signed record
  about a purchase names the account it was made with, and the adapters compare that
  account with the customer who is asked for. An inbox row an earlier release left behind
  has a fingerprint, and so a row, of its own.

`AppleFinancialReport`, `FinancialReports`, `MCFinancialReports`, `FinancialReportsProofs`
: `ParseAppleConsolidated` as a loop over rows with exact decimals, and the
  administrator's upload, supersede and pull. A request holds the snapshot of its first
  statement, waits for its locks, and is retried on a conflict; applications are
  registered at read committed in between. `adminRecognizedRevenue` is the dashboard's
  read.

## Runs

| Run | Question | Bounds |
| --- | --- | --- |
| `queue` | Do redeliveries, crashes, lost audit writes, rescues and retention keep rows and jobs consistent and handler calls bounded, do the rows of all three kinds implement `AuditRecord`, and does every accepted job end? | one notification, one event, two generations (one retires the other), two jobs, two attempts, one snooze: a superseded job overlaps its successor, a row is purged and delivered again |
| `chain` | Does the chain of a live lineage survive requests, midnights, failures, lost audit writes and deaths once its successor is saved, and before that while attempts are left; does the chain of an ended one stop? | two concurrent requests, four generations, one change at the provider, two bad endings with two attempts, so that a generation can fail or die for good, before or after it saved its successor (1.2 million states) |
| `projector_order` | Does the selection depend on visiting order, or hide a source? | all sets of up to three of 40 candidates (two products, two lineages, imports), every current projection |
| `customer_entitlements` | Does access follow the answers in every commit order, with merges and imports, and can an import be repeated? | two customers and lineages, two overlapping requests, two instants, four export files and six commands of one importer, three verifications or imports in all |
| `access` | Does a revocation, or the removal of the bootstrap key, end all access derived from it, does one administrator remain, and is every lock and slot given back? | two administrator keys and one application key, two requests, one slot, one session, two instants |
| `webhook_delivery` | Was a delivered event applied, once it is recorded never again, and does a revision name one secret? | one event, three attempts so that two overlap while a third begins, two secrets, three commands |
| `identity` | Do concurrent creations, aliases, merges and purchases keep every id resolvable, repeated merges accepted and purchases with the canonical customer? | three customers of which two exist, three external ids, two merge keys, three requests, two attempts |
| `identity_owner` (violation) | Can an external id get two owners? | as above with two requests |
| `financial_reports` | Does a month count once, is revenue the sum of the accepted files, and is a report only replaced by who named it? | three requests of two attempts over two versions of a month, a later month and a file of mixed scales, one late application, four rows |
| `provider_answers` | Is every valid answer stored and served until the next one? | up to three asks over five instants, one instant of skew, for each store the answers of a subscription's life: renewal, grace, hold, recovery, deferred replacement, refund, failures, App Store answers of two rows or of a foreign lineage, rows of earlier releases (380 thousand states) |
| `notifications` | Is a message that is done applied, does a replacement stay with its owner and settle without the client, and does no subscription stay unscheduled in silence? | two pushes, one client request of up to two items, one merge, one failure or death, two tries, two Google purchases, the second replacing the first for the same account or, after a renewal, for another one; two purchases of Huawei and one of Apple, each in two phases; a row of an earlier release (730 thousand states) |
| `notification_after_merge` (violation) | Do notifications of a merged customer's purchase stay bound to the account the store knows? | as above |

Each state machine is bounded by named constants; the counters they bound never guard
anything the code does not bound itself, they only end the behaviour. Runs set
`CHECK_DEADLOCK FALSE` because these systems may rest: a queue with nothing to do, a
bounded clock at its end. Symmetry is used in runs without temporal properties other than
action properties: requests are interchangeable in `customer_entitlements`, `access`,
`identity` and `financial_reports`, and so are administrator keys in `access`.

The property to read first in each run: `NoSilentLoss` (no row without an outcome behind a
finished job), `ChainAlive` (a live lineage has a generation that will refresh it unless the last one
ended for good before it had saved its successor),
`AccessFollowsAnswers` (access is exactly what the newest answers and unsuperseded imports
give), `AdministratorRemains`, `DeliveredWasApplied`, `NeverUnresolvable`,
`RevenueIsTheFiles`, `AnswerIsServed`, `DoneIsApplied`.

### Fairness

`DurableQueue!Fairness`: a running worker polls and fetches every available job
(`Fetch`), `JobTimeout` cancels a handler that does not return (`Execute`), River stores
the result (`Finish`) and its rescuer, which runs with River's defaults because `runner.go`
sets no other, recovers jobs of dead workers (`Rescue`). Only weak fairness of these is assumed; crashes, database
errors and deliveries are never forced or forbidden.
`ReconciliationChain!Fairness`: midnight passes, an HTTP request ends, due jobs are
claimed and running handlers continue.
`Notifications!Fairness`: the queue works every open message again and a running attempt
goes on, which is what `DurableQueue` justifies. It is weak fairness, written out because
the enabling condition is known, and only for messages about replacements. Nothing is
assumed of clients, stores or the host.

## Where code and documents disagree

Two runs end in a counterexample, each to a sentence of the repository.

- `identity_owner`: the comment of `lockExternalCustomerID` says the lock serializes the
  creation of customers and of aliases for one external id. An alias request has its
  snapshot before it gets the lock, and a customer that was created in between, at read
  committed, is neither visible to it nor a serialization conflict: the id becomes the
  primary id of one customer and the alias of another.
- `notification_after_merge`: a test says that the binding of notifications "stays on the
  historical customer" after a merge. It does once. The row stored for that notification
  belongs to the canonical customer, and the next lookup expects the store's account to be
  the canonical one, which the store does not know: this and later notifications of the
  purchase fail for good, and only the daily refresh and the client reach it.

Met while modelling, without a run of their own:

- `HandleReconciliation` saves the successor first "so a failed refresh cannot end the
  chain". It cannot; what still ends it is a generation that gets no successor at all: a
  last attempt that fails or dies before `scheduleNext` commits, or an error of the
  scheduling that is not retryable, on any attempt (`ChainCut`). The row is then failed, or
  open behind a discarded job, and the next client request or notification starts a chain anew.
- A resubscription between the worker's refresh and its retirement is closed again by that
  retirement (`handlers.go:591`, `:727`) until the next request or notification.
- An adapter stamps an answer when it normalizes it (`googleplay/adapter.go:665`), so of
  two overlapping requests the one normalized last wins, not the one the store answered
  last. `AccessFollowsAnswers` is stated for the stamped order.
- The comment at `purchase.go:303` says that an unchanged grace snapshot is reused and
  writes no second row. The comparison comes before the price is filled in, so a row an
  earlier release stored without its price is not reused by an answer that has one.
- An import repeated after a merge writes one more version of the projection, since the
  grants then belong to another customer; an export that is older than the one applied
  before it overwrites the newer grant (`import_grant.go:58`).
- An inbox row can stay pending behind a discarded job (`queue.go:225`), and a save that
  computed its day before midnight can reopen a generation whose job has ended
  (`queue.go:68`), until the next day's generation runs.
- A secret rotated between its load and the request makes the host answer 401, which is
  permanent (`webhooks/service.go:134`). Retries deliver an older event after a newer one:
  the version in the payload is what a host must order by.
- A merge that goes on to lock an earlier merged customer can form a cycle with a purchase
  (`identity.go:217`); PostgreSQL ends it and `transact` retries. After its last attempt
  the request is answered as unavailable (`store.go:153`).

## Proofs

`DurableQueueProofs` holds for every finite or infinite set of rows, every attempt and
snooze limit from one, and every number of jobs (`QueueAssumption`: the three tables are
disjoint, the limits positive naturals). `TypeOK` alone is not inductive, and neither is
any of the safety invariants, so the proofs share one inductive invariant `IInv`:

- `JobsConsistent`: River's state of a job and the worker's place agree, an available job
  has an attempt left. Without it a claim could exceed the attempt limit (`TypeOK`).
- `LinksConsistent`: a row and its job point at each other, an absent row has no job.
  Needed for `LiveJobAccounted`: a purge may clear a link only when the job is final.
- `ReportsConsistent`: a worker about to report success has left an outcome behind.
  Needed for `NoSilentLoss`: `Finish` records what was decided two transactions earlier.
- `CallsPaidFor`: each handler call used up an attempt or a snooze, the credit argument
  behind `HandlerRunsBounded`.

`IInv` holds initially and every action preserves it (one step per action, one per
conjunct it can disturb). `TypeCorrect`, `LiveJobsAccounted`, `NothingLostSilently` and
`HandlerCallsBounded` follow. `QueueKeepsPromise` shows with `IInv` that every step of
the queue is a step of `AuditRecord` or a stutter, which is the refinement that
`queue` checks on one instance.

`AccessKeysProofs` holds for every finite set of keys (`AccessAssumption`: the two roles
share no key, capacity and lifetime are positive), any requests, slots and clock bound.
`AdministratorRemains` is not inductive: between `RevokeCheck` and `RevokeUpdate` it rests
on what was counted. Its strengthening says that who counted holds the lock (`LockHeld`)
and that the administrator counted is still active (`OtherAdministrator`), which only
another holder of the lock could change. `RequestsConsistent` ties a request's place to
its credential and to the access that was lost when it began (`RevokedNeverActs`);
`SessionsEnd` says that sessions of the bootstrap administrator stem from the time it was
configured (`BootstrapAccessEnds`). `LockHeld` is an equivalence, so the same invariant
gives `NothingHeldForever`: who has ended holds neither the lock nor a slot.

`CustomerIdentityProofs` holds for any customers, external ids, keys and requests
(`IdentityAssumption`: registered external ids are distinct, a merge names two customers).
A transaction decides on its snapshot and writes to the database of later, so `IInv` says
what a snapshot still tells:

- `SnapshotsArePast`: its identity rows are still there, nothing is taken back.
- `FreshSnapshots`: if it is not stale, it has all of today's (`MergesDecided` then carries
  the decision of a merge to its commit, and `NoChains` follows: `EveryIdResolves`).
- `RefusalsHold`, `RefusedForGood`: what a snapshot refuses was not committed since, what
  was refused to a client never is (`RefusalIsFinal`). The first needs the second's
  persistence lemma: a reason to refuse never goes away.
- `PlacesFit`: the places only one kind of command reaches.

`RecordedForCanonical` needs the advisory locks as well. A customer is created at read
committed and makes no snapshot stale, so `FreshSnapshots` says nothing of new customers.
`LInv`, proved from `IInv`, adds what the locks keep:

- `IdsLocked`: a request that creates a customer or an alias holds the lock of its external
  id from the look at the other table to the end of the transaction.
- `InsertsAreFree`: what `CheckAlias` saw holds until the insert, so an alias never becomes
  a customer's own id. `OneCustomerPerId`: an id is the primary id of one customer.
- `IdsKept`: the same for a snapshot that is read later, whose customers are still there.
- `PurchasesResolved`: a purchase that waits for the closure locks has its customer.

`PurchaseFollowsMerge` follows: the customer resolved on the snapshot is the one the id
resolves to when the purchase is recorded.

`WorkerJobsProofs` holds the theorems of two kinds of jobs. Those of `WebhookDelivery` are for any events, secrets, commands and attempts
(`WebhookAssumption`). `DeliveredWasApplied` spans two processes, so `IInv` follows the
evidence from one to the other: `AnswersAreEarned` (a 204 on its way was given for a
recorded event, a recorded event was applied, and so was one about to be recorded), with
`AttemptsBegun` (a sender that is somewhere has begun an attempt, so the request it sends
has a place of its own). `RevisionNamesOneSecret` needs `EndpointHasSecret` and
`RotationsAreSteps`: a confirmed rotation is the step after the revision it started from,
so two from one revision are the same. `HandledOnlyOnce` is an action property from the
same invariant: an event that was answered is recorded, and what is recorded is not handed
to the callback.

The same module proves `ChainStaysAlive` of `ReconciliationChain` for any clients and every number of
days, attempts and failures (`ChainAssumption`). `ChainAlive` is not inductive: the
generation that keeps the chain alive changes. `ChainIInv` says that a generation whose worker
saved a successor is not the last one (`SavedHasLater`) and that one that has not is
still runnable, or has ended with its last attempt or an error that is not retryable
(`UnsavedRuns`); `PlacesFit` ties a worker's place to its attempts and to what it has saved.
The last generation can therefore not have saved a successor, so it runs, or the chain was
cut. A death on the last attempt is among the steps: it leaves the row open, so the theorem
cannot speak of failed rows only. That a last one exists is the well-founded minimum (`WFMin`) of the
reversed order on the bounded days.

`PurchaseAccessProofs` proves `OrderNeverMatters` and `NoSourceEverHidden` for any set of
candidates with distinct identities and any clock (`ScanAssumption`; that a source has one
kind is the prefix of its lineage key). The lemmas show that both orders of the code are
strict and total. `IInv` then says of the two loops: what the map holds of a source is the
newest live candidate met so far (`Grouped`), what is chosen is preferred to everything
already visited (`Chosen`), and the end compares the choice with the current projection
(`Projected`). That a newest one exists is carried along by the loop itself, which
replaces an argument about maxima of finite sets.

`CustomerEntitlementsProofs` holds for any customers, lineages, provider answers, aliases,
export files, requests and import commands that overlap (`EntitlementsAssumption` and
`MappingAssumption`: answers with one id are one answer, ids of the kinds do not meet, an
export names known customers, its cells are numbers, every mapped entitlement is the one
entitlement of the model). No property of this module is inductive. `IInv` has these parts
besides types:

- `NoChains`, `RowsOwned`, `GrantsNamed`: a merge leads to a canonical customer, a row
  belongs to the owner of its lineage or to who the owner has become, a grant's id is the
  one computed from its customer and purchase, so that an upsert replaces what it must.
- `NewestIsLatest`: the history `newest` is what the rows of a lineage and product say last.
- `Settled`: the projection of a canonical customer is, but for its sighting time, one of
  today's reported sources that none outranks. It is the heart of the argument: a refresh reads the old projection and
  may keep it, so that one refresh is right only if the one before was. The lemmas on the
  projector show that its preference is a strict total order, that a finite set has a first
  element in it (`FiniteFirst`, by a minimal counterexample in the subset order instead of
  induction over data), and that a change of a sighting time alone selects the same source.
- `Events`: each version up to the current one has its event or is silent, and the last
  event tells the projection as it was at a moment up to now.
- `Commanded`: what a running or ended import command holds agrees with the plan of its
  file. Lemmas on `transactionRow`, `subscriberGrantRow`, `mapGrant`, `decideAccess` and
  `planSubscriber` say what a planned grant has to do with the rows of the file.

`AccessIsAnswered`, `OneEventPerVersion`, `LastEventAgrees`, `ImportsArePaid` and
`SuccessfulImportIsStored` follow. `DuplicatesAreIdle` and `RepeatsAreIdle` are action
properties from the same invariant: the sources before and after differ in sighting times
only, and a settled projection is then left alone.

`FinancialReportsProofs` holds for any uploads, applications, requests and attempts
(`FinancialAssumption`). A transaction decides on its snapshot and its rows are merged into
a table that has moved on, so `IInv` adds to `PeriodCountsOnce` what a snapshot still tells:
`Underway` says that its rows are the first rows of the table, with their provider, period
and file. If the transaction is not stale, the rows of its period and the row it names are
as it saw them (`FreshSnapshot`), and the commit does one of three things (`CommitWrites`):
nothing, one row of a new file for a period that is free (`Adds`), or the named row
superseded and the draft's file accepted in a new or a revived row (`Supersedes`).
`OneImportPerPeriod` and `ReplacementIsNamed` follow by cases.

`AcceptedReportsSum` says that the parser and the store agree on what can be summed. The
assumption is only that a cell is a decimal or refused (`ReportFile`). `LoopFits` is the
invariant of the parser's row loop: every running total of a currency has the scale seen
for that currency. It is carried from row to row by induction, without the library's
induction theorems: the rows at which it holds contain the first one and with each row the
next, so the smallest row at which it fails cannot exist (`SmallestNumber`, `UpTo`). `IInv`
then carries `Resolves` from a draft to the accepted row, whichever commit wrote it, and
totals of one scale (`OneScale`) can be added.

`NotificationsProofs` holds for any purchases with any lives, any callbacks, requests,
merges, failures and bounds (`NotificationsAssumption`: a callback names the state the store
had reached, an answer is about its purchase and names the account it was made with, only
Google replaces one purchase by another).
First come lemmas on the adapters: an answer that is refused names its failure (`Sound`), so
a failed ask is never taken for success; a Google answer without a pending action is
acknowledged; the purchase it says it replaces is the one it replaces; an answer that is
accepted names the account that was asked for (`ValidNames`, `AppleNames`, `HuaweiNames`,
`GoogleSound`, joined in `AcceptedAccount`). `IInv` consists of
facts that, once true, stay true: rows stay with their customer and are only sighted later,
customers only come together, the store forgets no acknowledgement (`Grows`).

- `MessageFits`: what a message announced was reached by the store, and a message that is
  done was applied (`DoneCallbacksAreApplied`).
- `JobFits`: what an attempt knows at each place: `Bound` before the store is asked,
  `AnswerFits` after it, `StoredFits` once the answer is stored.
- `ClientFits`: the items before the current one are stored, owned and acknowledged
  (`SuccessCoversEveryItem`).
- `Watched`: a subscription that is not scheduled has someone who will schedule it or has
  reported it (`NothingIsSilentlyUnscheduled`).
- `RowsFit`, `ReplacementsFit`: the rows of a purchase belong to the customer of the account
  the store names, since only an answer bound to that account is stored; the transaction
  itself does not compare them. A replacement nobody submitted belongs to the customer of
  the replaced purchase (`ReplacementsStayWithOwner`). A merge may come between the lookup of the owner and the
  commit, so `Bound` speaks of who the customers have become.

Each step is shown to grow (`FrameGrows`, `StoreStep`), which keeps every other actor's facts
at once; what is left per action is the one actor that moves.

The second part of `PurchaseAccessProofs` is about `StoreAnswers`, for any answers of the
three stores, any number of asks and any clock. `AnswersAssumption` says what the stores may
send, as weakly as the code needs it:

- App Store: an answer is about the lineage that was asked for, only a subscription expires,
  billing grace does not end with the paid period, and signed transactions that differ at most in the price agree on it where both name one.
- Google Play: an item has at most one expiry, one replaced product and known kinds of plans.
- Huawei: billing grace ends after the paid period, only a subscription expires, a purchase
  token belongs to one subscription.
- A row of an earlier release is a grace row whose identity lacks the grace end.

The run evaluates the assumption on its instance. The proof goes through every adapter:

- What an accepted answer reports (`AppleSeen`, `HuaweiSeen`, `GoogleCurrent`, and
  `GoogleEnded` for the product a replacement ended), from the chain of checks that
  `Verify` and `Reconcile` pass (`Answered`).
- `Determined`: two observations with one identity have one snapshot and the same
  references, and their prices agree. It holds field by field for each of the five kinds of
  identity; for the App Store it needs the end that `snapshotExpiresIdentity` adds.
- `Serves`, `Ends`: a reader that applies `AccessAt` to the observation grants at once what
  the answer grants, and later only what it grants. The skew of an active status that has
  just expired, and the end that is published for it, meet here.
- `Saves`: `SaveObservation` accepts such an observation over any rows that fit, by inserting
  it, or by refreshing the row of the same snapshot under the new or the earlier identity.

`AnswersInv` then says that each row agrees with every answer of its identity (`RowsFit`),
that identities are unique (`OneEach`), that no row was sighted in the future (`Sightings`),
that the newest row of a product is what the last answer about it reported (`HeardFits`), and
that the product that counts leads all rows when it was just stored (`ToldFits`: the ended one
is one step older). `StoreNoSnapshotConflict`, `StoreServedAsAnswered`, `StoreAnswerIsServed`
and `StoreLookupFindsCurrent` follow.

Only model-checked, and why:

- Liveness (`EveryJobEnds`, `EndedLineageStops`, `ReplacementNeedsNoClient`): fairness is
  outside the prover's reach.
- `RevenueIsTheFiles`: it compares sums over sets that are taken in different orders and
  needs laws of powers of ten, which the provers do not have.

## Not modelled, and why

- **Credentials and data protection.** Encryption, envelopes and the key ring carry no
  protocol state between steps. The optimistic revision of a credential has the shape of
  the webhook endpoint's in `WebhookDelivery`; the adapters model a credential that is
  missing or malformed.
- **Catalog, offerings and control plane.** Single-statement writes guarded by database
  constraints, and reads. What the protocols need of the catalog is a constant.
- **HTTP server, configuration, logging, metrics, shutdown order.** Process wiring and I/O.
- **Mobile and host SDKs, dashboard, deployment.** Clients of what is modelled, except the
  webhook receiver of the Go SDK.
- Inside modelled parts: the destination policy of webhooks, the download of subscribers
  over HTTP, text decoding (JSON, CSV, decimals as text), listing endpoints.

SQL isolation is taken as given: outside the modules that cut transactions open, a
serializable transaction that commits is one step, one that aborts is a failed request.
River and the stores are external and modelled from how the code uses them.

## Plan

1. *(done)* queues and worker, the reconciliation chain, the projector, the composed
   customer entitlements; proofs of the queue and its refinement.
2. *(done)* API keys and sessions, customer identity with the transaction retry, webhook
   delivery, all with proofs.
3. *(done)* notifications, provider adapters, import batches and financial reports; proofs
   of the chain, of webhook delivery and of the projector's loops.
4. *(done)* proofs of the composed customer model with its imports, of the report
   transactions, and of the customer a purchase is recorded for.
5. *(done)* proofs of `Notifications`, of `StoreAnswers` with its three adapters, and that
   accepted reports can be summed.
6. Catalog writes that guard an invariant, and the Go client's retry loop.

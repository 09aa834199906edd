# Banking ledger: TLA+ models and proofs

This directory verifies the logic that moves money in the banking ledger: the
path of a transaction from the API gateway over Kafka to PostgreSQL and, by the
transactional outbox, to the MongoDB ledger. The modules are translated from
the Go code; paths below are relative to the repository.

## 1. The system

| Part | Code | State | Operations | Talks to |
|---|---|---|---|---|
| API gateway, submission | `internal/api_gateway/{handler,service}/transaction_*`, `internal/platform/messaging/producers/transaction_request.go` | none of its own; the buffer of the asynchronous Kafka writer | look the idempotency key up in the ledger, publish | MongoDB (reads), Kafka |
| API gateway, accounts | `.../account_*` | table `accounts` | check the national id, insert | PostgreSQL |
| API gateway, history | `GetTransactionByID`, `GetTransactionsByAccountID`, `handler/http_response.go` | - | a page and a total, from two queries | MongoDB |
| API gateway, process | `cmd/api_gateway/main.go`, `server.go` | the steps of the shutdown begun | signal, close, stop, exit | all of the above |
| Kafka consumer | `internal/platform/messaging/consumers/consumer.go`, `internal/transaction_processor/consumer` | position of the reader, committed offset of the group | fetch, handle, commit or skip | Kafka, processing service, dead letters |
| Worker pool | `service/worker_pool_service.go` | a pool, a map of result channels | submit and wait, release | processing service |
| Dead letter queue | `consumer/transaction_event_handler.go`, `producers/dead_letter.go` | - | publish a message that is no request | Kafka |
| Processor, process | `cmd/transaction_processor/main.go` | the steps of the shutdown begun | signal, close, exit, restart | consumer, pool, databases |
| Processing service | `service/processing_service.go`, `components/*` | one call per message; PostgreSQL transaction | validate, check idempotency, lock and update the account, write the outbox row, commit; or record a failure | PostgreSQL, MongoDB |
| Outbox poller | `outbox_poller/poller.go`, `ledger_publisher.go` | the batch it is working on | fetch pending rows, write the ledger, mark, count attempts, give up | PostgreSQL, MongoDB |
| Repositories | `internal/data/*`, `migrations/` | tables `accounts`, `transaction_outbox`; collection `ledger_entries` | statements | - |
| Set-up, routing, configuration, logging | `internal/platform`, `internal/config`, `internal/api_gateway/{router,middleware}` | - | - | - |

Several replicas of both services run at once and share the databases. There
is no state shared in memory between them, so everything hard is in the
databases and in Kafka:

- **Concurrency.** A row lock (`SELECT ... FOR UPDATE`), an optimistic version
  and a `CHECK` guard an account; a `UNIQUE` constraint guards the outbox;
  nothing guards the ledger, where a lookup and an insert are two statements,
  nor the outbox rows a poller has fetched.
- **Failure.** Every statement may fail, and an `INSERT`, `UPDATE` or `COMMIT`
  may have taken effect although it reports an error. Processes die between any
  two statements. The group moves a partition away from a live consumer.
- **Ordering and delivery.** The producer is asynchronous, so a request may be
  lost or duplicated; the consumer redelivers after a crash, and goes *on* after
  an error; the ledger lags behind the outbox.
- **Stopping.** Both processes close what their goroutines use while these may
  still be at work: nobody waits for the consumer, and the gateway closes
  PostgreSQL before its server. A task that panics leaves its consumer waiting.

What makes each part correct:

- *Processing*: a transaction moves its account at most once, by its amount,
  and only if the account accepts it at that moment; locks are released on
  every return path; nothing is computed from a stale account; the outbox rows of
  an account, in the order in which they are published, account for its balance.
- *Poller and workers on one ledger*: an applied transaction is shown as such, in
  one document, and an account's transactions appear in their order - as far as the
  code achieves that: for transactions that are delivered once, with one instance
  for the one document, until a statement fails for the order. A row is marked only
  when there is a document, and given up only after its attempts; retries end.
- *Consumer*: the committed offset never passes an unsettled request; every
  request in the topic is reported in the end.
- *Gateway*: what a client is told is true; a national id has one account; a key
  that is in the ledger is never used again; stopping sends what was accepted; a
  history misses no entry.
- *Process*: no message disappears in silence; being stopped loses nothing, and
  comes to an end.
- *System*: a client's answer and the fate of its money agree.

`PROJECT.json` lists the components with their status, and under `hazards`
everything found to be hard to test, at its line, with the properties about it.

## 2. The modules

```
Bank ── Stores ──┬── Processing ───┬── Publication ── TransactionProcessor ── BankingLedger
  │              └── OutboxPoller ─┘                                          (uses Gateway)
  └─ ExactlyOnce: implemented by Processing, Publication, TransactionProcessor,
     BankingLedger

Gateway ── GatewayMain        implemented by BankingLedger
ProcessorMain
History

BankProofs ── ProcessingProofs ── PublicationProofs ── TransactionProcessorProofs
                                                          └─ BankingLedgerProofs
GatewayProofs   ProcessorMainProofs   HistoryProofs
```

**Bank** is the domain model: requests, `Validate` (`Valid`), the checks of
`LockAndUpdateAccount` in their order (`Refusal`), and `Deposit`/`Withdraw`
(`NewBalance`) in two's complement with `MaxInt` for 2^63 - 1. An amount is any
integer of that type; ids, currencies and request types other than the two known
are symbols. Failure reasons, correlation ids and clock readings of accounts are
left out.

**Stores** is what the repositories see of the databases. `accounts`, `rowLock`
and `outbox` are PostgreSQL as committed (plus the row locks of open
transactions); what an open transaction has written is kept by the call until
`Commit`. `outbox[t]` is the row of transaction `t`, because `transaction_id`
is unique. `ledger[t][s]` counts the documents of `t` with status `s`, since
nothing prevents several; `FindOne` and `UpdateOne` may take any of them. A
failing statement is a disjunct of the action it belongs to (`Fails`), with or
without its effect when it writes; `faults` bounds how many fail. The
`AccountRepository.Update` error of a deposit that overflowed (the `CHECK`) is
not such a fault: it is what the code does.

**ExactlyOnce** is the abstract promise: a set of applied transactions and the
balances; `Apply` adds one transaction not applied yet, which the account
accepts, by its exact amount, without overflow.

**Processing** is `ProcessTransaction`, one action per statement: `Deliver`
(with validation), `CheckIdempotency`, `Begin`, `LockForUpdate`,
`UpdateAccount` (currency, funds, conditional `UPDATE`), `CreateOutboxEntry`,
`Commit`; and `RecordFind`/`RecordUpdate`/`RecordCheck`/`RecordInsert` for
`RecordFailure`, which runs with the row lock held. `Return` is the end of the
call with the deferred rollback. Any transaction may be delivered at any time,
to any instance, as often as one likes: more than Kafka does, so safety here
does not depend on Kafka.

**OutboxPoller** is `processPendingMessages` and `PublishToLedger`, one action per
statement, with the attempts of a message as read by `Fetch`. It has no
environment of its own: rows and documents are written by the workers while it runs,
so its specification is that of `Publication`. A tick that finds no row, or whose
query fails, changes nothing but the fault budget.

**Publication** puts `Processing` and `OutboxPoller` on the same databases, every
instance with its worker and its poller. Any transaction is delivered to any
instance at any time, any number of times (`Receive`), and an instance may die at any
point (`Die`). So a refusal may be recorded for a transaction that is already
committed, between any two statements of a poller that publishes it: `RecordFailure`
never looks at the outbox (`failure_recorder.go:50-77`). `delivered` is a history
variable, which no guard reads: how often a transaction was delivered. The properties
need it, since what the ledger says of a transaction that was delivered again may be
wrong (run `recorded_as_failed`).

**TransactionProcessor** puts the request topic and the consumer group in front of
that (one partition: messages of different partitions meet only in the databases,
where `Processing` lets them meet in any order): the readers, the committed offset,
crashes, restarts, assignments and revocations. Each of its steps is one of
`Publication` or touches the group only. After a revocation the former owner
finishes the message in hand, and its commit may be accepted or not.

**Gateway** is `CreateTransaction` and `CreateAccount`, one action per statement
or publication, with the asynchronous writer's buffer and, as environment, the
moment the ledger gets its entry (`Record`). Bodies the handlers refuse with 400
change nothing and are left out. **GatewayMain** adds the process: `stopping`
holds the steps of the shutdown sequence begun so far. The server accepts calls
until `StopServer`; a call in flight meets a closed pool of connections or a
closed producer and answers with an error; `Exit` needs the producer's buffer to
be empty, which is what `Close` of the writer waits for.

**BankingLedger** composes the two services. It extends `TransactionProcessor`,
whose environment action `Publish` is now the gateway's producer
(`WriteRequest`), and instantiates `Gateway` with `recorded <- Recorded`, the
transactions that have a document: the lookup of an idempotency key reads what
the workers and pollers wrote, and `Record` is gone. That it implements `Gateway`
shows the processor to be the environment `Gateway` assumes.

**ProcessorMain** is one process of the processor from start to exit: the
goroutine of `Subscribe` with its handler and the dead letter producer
(`consumer`), the task it has in the worker pool (`task`: its next step, whether
it holds a connection, what it sent to the result channel), and the steps of the
shutdown (`stopping`). A call fails by itself or because its context is
cancelled. `Panic` rolls back and sends no result. A crash is an exit without
the sequence, and `Start` reads from the committed offset. A transaction is seen
from here only as one of three kinds of message, `accepted`, `refused` or
`malformed`, and by what becomes of it (`settled`, `deadLetters`, `logged`). A deposit
that overflows is neither accepted nor refused, and has no kind of its own here: it
ends like an accepted one whose call fails.

**History** is a client that walks through the pages of an account: `FindPage`
and `Answer` are the two queries of one page, entries are inserted at any moment
and anywhere in the order, since `created_at` is the clock of the gateway that
took the request. Entries of one moment come in any order, which may differ from
query to query.

The `MC*` modules give the constants their values. Some definitions stand beside
the one they vary (`NothingIsTaken` beside `TransactionIdTaken`, say): the
variant is a plausible bug, and `PROJECT.json` (`mutants`) names the property
that TLC finds violated when it takes the place of the original.

## 3. What is checked

| Run | Question | Bounds |
|---|---|---|
| `processing` | types, locks, snapshots, `BooksBalance`, `ImplementsExactlyOnce` | 2 instances, 2 transactions over 9 kinds of request, 2 failing statements, integers -4..3 |
| `one_instance` | one document, of the right status, for what is delivered once; when a row is given up | 1 instance, 2 transactions, batch 2, 2 attempts, 3 failing statements, any number of deliveries and deaths |
| `publication` | the same status, and the order of an account's documents, beside redeliveries to other instances | 2 instances, 2 transactions, batch 1, no failing statement, any number of deliveries and deaths |
| `system` | nothing lost or applied twice, answers agree with balances, what is marked is in the ledger, `ImplementsGateway`, `ImplementsExactlyOnce` | 2 instances, 2 submissions of one withdrawal under one key, 2 copies of a request, 1 crash or rebalance, 1 fault of the gateway, no failing statement |
| `processor_live` | every call returns, retries end, every request is reported, the budget with two pollers | 2 instances, 1 request, 1 failing statement, 1 crash or rebalance, 2 attempts |
| `gateway` | true answers, one account per national id, a recorded key is final, shutdown flushes | 2 submissions, 2 registrations, 2 faults |
| `main` | nothing vanishes, shutdown loses nothing and ends, every message is handled | every topic of 3 messages, 1 failing call, 1 panic, 2 signals or crashes |
| `history` | what a walk shows, repeats and counts | 4 entries, 4 moments, pages of 1 and 2 |

The bounds let the interesting cases happen: two instances are enough for every race
on an account or a row, since the code compares two parties at a time; two
transactions of one account make one overdraw the other and one offset pass the
other; with batch 2 a poller goes on to a second row, and with batch 1 a batch ends
before the queue does; three failures exceed the two attempts; the integers -4..3
let a deposit of 2 on a balance of 2 overflow. In `main`, three messages let a
commit pass a skipped message and a second life read one again; two terminations are
a crash while a shutdown is under way, or a second shutdown after the restart. In
`history`, four entries make up to four pages of 1 or two of 2, with insertions
before, between and behind what was shown.

`system` has no failing statement because `NoRequestLost` is false with one, and
its amount does not overflow, for the same reason (section 4 states the exact
condition). What survives failing statements is proved for any number of them,
and `processing` and `one_instance` check the core of it. `publication` has no
failing statement because `AccountOrderUntilFailure` says nothing after one, and two
instances with one are beyond five minutes. `one_instance` has one instance because
`OneEntryWhenDeliveredOnce` is false with two (run `two_entries`). In both runs the
account starts empty, so that a withdrawal is refused before a deposit is committed,
and a deposit and its withdrawal make the redelivered withdrawal refused on the new
balance: its refusal then meets the poller at every statement. In `processor_live` the
second delivery comes from the group, after the crash or the rebalance.
`EventuallyReported` promises nothing once a statement has failed, since the request
may then be skipped; `RetriesEnd` and `EveryCallReturns` hold all the same. A row whose
last attempt was counted and that was not given up, because that update failed or the
process died before it, is met there by the crash.

**Fairness.** `processor_live` assumes weak fairness of the consumer's loop of each
instance, with its call and the restart after a crash; of each poller, whose ticker
keeps firing; and of the group, which assigns a free partition. Weak fairness
suffices for `LockForUpdate` too: it is disabled only while another call holds the
row, and deliveries are finitely many. `main` assumes that the goroutines run and
that a process that ended is started again (`restart: unless-stopped` in
`docker-compose.yml`). Nothing obliges a statement to fail, a client to submit, a
message to be duplicated, an instance to crash, an operator to stop a process or a
task to panic.

Deadlock is checked everywhere but in `gateway`, `duplicate_submission` and
`main`: the submissions of the gateway are finitely many and its process ends;
and a process of `main` that has read the whole topic waits for a message or a
signal, neither of which need come. Elsewhere pollers tick and messages may
arrive.

### Disagreements between the code and what is said of it

Each of these is a run that TLC ends with a counterexample (`findings`).

- `lost_request`: `consumer.go:90` says failed messages are not committed "to
  allow for reprocessing". The reader goes on, and the commit of a later message
  passes the failed one. An overflowing deposit is lost the same way, without
  any fault: its `CHECK` violation is an ordinary error, so it is neither
  recorded nor applied.
- `recorded_as_failed`: a duplicate that arrives while the first copy waits in
  the outbox is not applied again (`ImplementsExactlyOnce` holds), but, refused
  on the new balance, it sets the ledger entry of the applied transaction to
  FAILED (`README.md:217`).
- `two_entries`: two pollers, or a poller and a worker, both pass the lookup of
  `LedgerRepository.Create` and both insert (`ledger_repository.go:39`).
- `duplicate_submission`: until the ledger has the entry, a retry with the same
  idempotency key is published again under a new id (`README.md:216`).

Also seen:

- `README.md:222-228` says that a service that is stopped completes the work in
  flight and waits for its goroutines. `Subscribe` returns at once, so the wait
  group of the processor does not cover the consumer
  (`cmd/transaction_processor/main.go:119`), and the databases are closed under
  it; and the gateway closes PostgreSQL before it stops serving
  (`cmd/api_gateway/main.go:104`). `main` and `gateway` show that accepted
  requests and true answers survive that. One thing does not: a message that is
  refused while the context is cancelled may be committed although its record
  failed, because `RecordFailure`'s error is only logged. `ShutdownLosesNothing`
  therefore leaves refused messages out.
- A task that panics sends no result: its consumer waits until it is stopped
  (`worker_pool_service.go:99`), and `HandledUnlessHanging` says so.
- Entries with one `created_at` may be repeated in a history, or missed.
- A row whose attempts are used up stays `FAILED_TO_PUBLISH`, so its
  transaction never reaches the ledger; when the update that gives it up fails,
  the row is attempted beyond the maximum; and a mark that took effect although
  it reported an error may be followed by `FAILED_TO_PUBLISH` for a published row.

## 4. What is proved

`ProcessingProofs` proves for every number of instances, transactions, accounts
and faults, from the assumptions named in `Bank` and `Stores` only:

- `TypeCorrect`: `ProcessingSpec => []ProcessingTypeOK`; in particular no
  balance leaves 0..MaxInt, although the program adds without an overflow check.
- `LocksCorrect`: `ProcessingSpec => []LocksMatchCalls`.
- `SnapshotsCorrect`: `ProcessingSpec => []SnapshotIsCurrent`.
- `Refinement`: `ProcessingSpec => ImplementsExactlyOnce`.
- `BooksCorrect`: `ProcessingSpec => []BooksBalance`.

The invariant `IInv` is the conjunction of the types, `LocksMatchCalls`,
`SnapshotIsCurrent` and what a call has already checked at each `pc` (`CallOK`:
there is a transaction in hand; it is valid; the account exists, and accepts the
request on the balance the table has; at `commit` the outbox has no row of it -
which stays true because its account is locked). None of the three is inductive alone: a
snapshot stays current only because the lock is exclusive, locks match calls
only if `pc` says what the call has seen, and the new balance fits its type only
because `Storable` was checked on the balance the table still has. `NextIInv`
has one lemma per action; what instances other than the acting one keep is
shown once (`OthersPreserved`), and what the ways of leaving a statement keep
once each (`ReturnPreserves`, `GotoPreserves`, ...). For the refinement only
`Commit` with its effects is not a stutter, and `CommitApplies` shows it to be
`ExactlyOnce!Apply`.

`BooksBalance` relates columns of two tables that the code never compares: the
version of an account is one more than the number of its outbox rows, and there is
an order of these rows, along their `created_at`, in which every transaction is
acceptable when its turn comes and which leads from the opening balance to the
balance. It could fail because `created_at` is read from the clock before the
commit. `BooksInv` therefore adds that the stamp a call carries to its commit is
not before that of any committed row of its account (`StampOK`): nobody else can
commit for that account in between, since the lock is held. `CommitBooks` extends
the order by the new row; every other step leaves it alone (`BooksKept`). The
order itself is never computed: `Balanced` only says that there is one, so no
induction over data is needed. What it assumes of the clocks is the guard of
`CreateOutboxEntry`: a clock reading is not before the `created_at` of what is
committed, on whatever instance.

`PublicationProofs` composes calls and pollers, for any number of instances,
transactions, deliveries, deaths and failing statements, any batch size and retry
budget, from the assumptions of `Bank`, `Stores` and `OutboxPoller` (transaction ids
are finitely many, so that a batch has a length). `PubInv` is `IInv`, what the pollers
know of their batches (`BatchesOK`: the rows exist and have at least the attempts that
were read), and `CompletedIsApplied`. `IInv` was proved with `PublishRow` in place of
the pollers; here `CallEffect` and `PollEffect` say what a step of one component does
to the tables of the other.

- `PublicationTypeCorrect`, `PublicationLocksCorrect`, `CompletedCorrect`:
  `PublicationSpec => []PublicationTypeOK`, `[]LocksMatchCalls`, `[]CompletedIsApplied`.
- `PublicationRefinement`: `PublicationSpec => ImplementsExactlyOnce`.
- `PublicationBooksCorrect`: `PublicationSpec => []BooksBalance`; a death between the
  stamp and the commit drops the stamp, and pollers keep `created_at` (`StampsKept`).
- `BudgetIsSpent`: `PublicationSpec => []GivesUpOnlyAfterMaxAttempts`, and
  `MarkedIsRecordedCorrect`: `PublicationSpec => []MarkedIsRecorded`. `MarksInv` adds
  that at `giveUp` the table already has the maximum, and that a poller about to mark
  a row knows a document (`RecordedOK`) - not of which status, since a worker may set
  it to FAILED meanwhile. What a poller knew stays true because attempts are only
  counted up and documents are never removed (`OnlyGrows`).
- `OnceIsRight`: `PublicationSpec => []RightWhenDeliveredOnce`. Redelivery is the only
  cause of `recorded_as_failed`, and it spoils no other transaction than the one
  redelivered. `OnceInv` says, of each transaction delivered once, that one call at
  most works on it, that it is not settled until that call ends, and that this call
  never gets to `RecordUpdate`. So the call decides once: it commits, or it inserts a
  FAILED document, and no poller has a row to publish in the latter case.
- `OneEntry`: `SingleInstance /\ PublicationSpec => []OneEntryWhenDeliveredOnce`.
  `SoloInv` adds that a poller about to insert a document of such a transaction has
  seen that there is none: nobody else can have inserted one meanwhile, since the
  only call that could, the refusal, has decided otherwise (`OnceInv`). Without
  "delivered once" this is false for a single instance too: the worker, refusing on
  the new balance, and the poller both pass the lookup.
- `InOrderUntilFailure`: `PublicationSpec => []AccountOrderUntilFailure`. While nothing
  has failed (`OrderInv`), whatever comes before a message of a batch in hand is
  completed or before it in that batch (`OrderOK`), although rows are added while
  batches are published; and an attempt on a message is counted only because somebody
  else has completed it (`CountedOK`): `ErrDuplicateEntry`. A row committed later has no
  earlier stamp than any row of its account, which is `StampOK` of `BooksInv` again.

`TransactionProcessorProofs` proves that the consumer group is one way of delivering:
`ProcessorImplementsPublication`, `Spec => PublicationSpec`. Its invariant `ProcessorInv`
is `PubInv` and `GroupOK` (the committed offset, every reader and every message in hand
lie inside the topic). Everything above but `OneEntry` and `InOrderUntilFailure`, which
are left where they are, is carried over by citing it: `ProcessorLocksCorrect`,
`ProcessorCompletedCorrect`, `ProcessorRefinement`, `ProcessorBooksCorrect`,
`ProcessorBudgetIsSpent`, `ProcessorMarksCorrect` and `ProcessorOnceIsRight`. Its own
theorems are

- `ProcessorTypeCorrect`: `Spec => []TypeOK`;
- `NothingLostUndisturbed`: `Spec /\ []Undisturbed => []NoRequestLost`.

`Undisturbed` says that no statement has failed so far and that no deposit about
to be written overflows. Without it the conclusion is false (run `lost_request`),
so the assumption is the exact price of the consumer going on after an error.
`DeliveryInv` says of each reader that what it has fetched is settled, except for
the message in hand, and that one too once its call has returned, with an error or
without: under `Undisturbed` the only error left is that the outbox has the
transaction already.

`BankingLedgerProofs` is about the whole system. `SystemImplementsProcessor`
(`SystemSpec => Spec`) carries the theorems above over to it; `SystemInv` is
`ProcessorInv` and `SubmissionsOK`: whatever is in the topic, in hand, in the
outbox or in the ledger was written by a submission that was accepted.

- `SystemRefinement`: `SystemSpec => ImplementsExactlyOnce`, and
  `SystemLosesNothing`: `SystemSpec /\ []Undisturbed => []NoRequestLost`.
- `SystemBooksCorrect`, `SystemBudgetIsSpent`, `SystemMarkedIsRecorded` and
  `SystemRightWhenDeliveredOnce`: the same four properties of `SystemSpec`.
- `OnlyAcceptedCorrect`: `SystemSpec => []OnlyAcceptedIsApplied`.
- `GatewayRefinement`: `SystemSpec => ImplementsGateway`. A document never
  disappears, and the first one of a transaction is a `Record` of it.
- `RecordedKeyCorrect`: `SystemSpec => RecordedKeyMovesNothing`, idempotency from
  end to end. No run checks this property: on the instance of `system`, without
  the symmetry its quantified temporal formula forbids, TLC needs minutes, and
  agrees.

`GatewayProofs` proves of `GatewayMainSpec`, for any number of calls, keys and
faults and at every step of a shutdown, `GatewayTypeOK`, `AnswersAreTrue`,
`OneAccountPerNationalId`, `AcceptedIsSent` and `RecordedKeyIsFinal`. `GatewayInv`
adds what a call knows before it answers (nothing is sent, there is no row), and
that an answer `error` of a submission means that nothing was sent.

`ProcessorMainProofs` proves of `MainSpec`, for every set of topics and any
number of failures, panics, signals and crashes, `MainTypeOK`, `NothingVanishes`
and `ShutdownLosesNothing`. `MainInv` adds that the message in hand is the last
one fetched (`HandOK`), that there is a task exactly while the consumer waits and
what its reply means (`TaskOK`), and that the messages passed in this life are
handled (`PassedHandled`), or decided as long as a commit may still come
(`PassedClean`): a cancelled context may make a call fail without a failure, but
then the loop ends before the next commit.

`HistoryProofs` proves the four properties of `HistorySpec`, for any number of
entries and moments, any page sizes and any insertions between the queries
(`HistoryTypeCorrect`, `WalkComplete`, `WalkRepeatsNothing`, `TotalCorrect`). The
order `Find` answers in is chosen anew by every query, so `HistoryInv` speaks of
ranks instead: an entry that shares its `created_at` with no other stands in every
such order behind the newer ones and nothing else (`Rank`). An insertion can only
raise a rank, so what the pages so far have not shown has a rank at or behind the
page in hand (`SeenOK`, `PageOK`); without insertions what they have shown stays
before it. A walk ends on a page at or behind the quotient rounded up
(`TotalPagesCover`), behind which no rank is left.

Only model-checked: liveness (`EventuallyReported`, `RetriesEnd`, `EveryCallReturns`,
`ShutdownCompletes`, `HandledUnlessHanging`): fairness and ENABLED are out of the proof
system's reach. Every other property of a passing run is a theorem of the
specification that run checks, except two, which need an assumption: `NoRequestLost`
(`Undisturbed`) and `OneEntryWhenDeliveredOnce` (`SingleInstance`, which the instance
of `one_instance` satisfies).

## 5. Not modelled

- Several partitions in one module: messages of different partitions meet only in
  the databases, where `Processing` lets them meet in any order. Rebalances are in
  `TransactionProcessor`, not in `ProcessorMain`; the poller is in the former, where
  it may die between any two statements, and not in the latter's shutdown.
- The map of result channels of the worker pool, which is written and never read,
  and the fallback to the base service when there is no pool, which `main` never
  takes.
- Reads by id (`GetTransactionByID`, `GetAccountByID`): one statement each, and
  nothing depends on them.
- A disabled dead letter queue: the configuration requires its topic
  (`config.go:133`).
- Configuration, logging, connection set-up, DDL, routing, middleware, response
  envelopes: stateless, or done before anything runs.
- Serialization: a payload reads back as what was written; identifiers are
  fresh; clocks of the instances agree to the order of the commits (`History`
  does not assume that of the gateways).
- Statements no program calls: `UpdateBalance`, `Delete`, `GetByTimeRange`, and
  `GetByTransactionID` of the outbox.

## 6. What could follow

- `ProcessorMain` with a group of instances, so that a shutdown and a rebalance
  overlap; `TransactionProcessor` has the rebalance only for healthy instances.
- A poller that reserves its rows, and a unique index on `transaction_id`, as
  variants of `Stores` and `OutboxPoller`: with them `AtMostOneEntry` should hold
  for any number of pollers and deliveries.

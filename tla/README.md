# A limit order book and its API, in TLA+

This directory specifies, model-checks and proves safe the Rust program in the
repository: a price-time priority matching engine with an event log and its
replay, a simulator that drives it and scripts that keep its results, and an
HTTP API over PostgreSQL for users, sessions, accounts and instruments. Every
safety property that a passing run checks is also a theorem; liveness is
model-checked.
Paths below are relative to the repository (`src/engine/...` is the Rust code,
`docs/...` its documents).

`PROJECT.json` maps every definition that models code to the lines it stands
for, and lists the runs, the hazards with the properties that cover them, one
plausible bug for each property, and the theorems. Some modules contain such
bugs as definitions named after what they break (`AfterSession_Kept`,
`LockTable_Not`, ...); the specifications never use them.

## 1. Inventory

| Part | State | Operations | What is hard | What makes it correct |
|---|---|---|---|---|
| Matching engine `engine/order_book.rs`, `engine/matching.rs` | level maps for bids and asks, arena, `order_slots`, `seen_order_ids`, event log | `add_order`, `cancel_order`, `modify_order`, `snapshot`, `best_bid/ask`; the loops `match_buy_order`, `match_sell_order`, `match_at_level` | three views of one set of orders kept in step by hand; partial fills over several levels; loops whose end depends on dropping empty levels | price-time priority, conservation, never crossed, identifiers used once, index = arena = queues, loops end |
| Arena `engine/arena.rs` | slab of entries, free list threaded through vacant slots, `len` | `insert`, `remove`, `get`, `get_mut` | recycling after long sequences, `u32` slot numbers | each vacant slot on the free list once, no slot in use handed out |
| Price level `engine/level.rs` | `head`, `tail`, cached `total_quantity`; links live in the arena | `push_back`, `unlink` | four cases of unlink, a cached sum updated in several places | one doubly linked FIFO per level, cached sum = sum of queue |
| Replay `replay/engine.rs`, `replay/persistence.rs` | JSON file of events | save, load, `replay_events` | a log that omits or reorders a command | replay is accepted and rebuilds the same book and log |
| Rate limiter `api/rate_limit.rs` | mutex-protected map client -> bucket | `try_acquire`, middleware `limit_auth_requests` | clock read before the mutex; eviction | burst + refill is never exceeded, nobody is refused unduly, eviction changes nothing |
| Sessions and access `api/auth/*`, `api/admin/auth.rs`, `api/mod.rs` | `sessions` table, `users.status`, `users.role` | login, logout, `require_authenticated`, `require_admin` | revocation, expiry and suspension between a check and its use | access only with, refusal only without, entitlement during the call |
| Accounts `api/accounts/*` | `accounts` table | create, list | the owner is the identity checked earlier | accounts appear only for the caller who owns the token |
| User creation `api/auth/signup.rs`, `api/admin/users.rs`, `bin/bootstrap_admin.rs` | `users`, `user_credentials` tables | signup, create user, bootstrap program | transactions of several processes against one table | at most one bootstrap, no half-created users |
| Instrument administration `api/admin/instruments.rs` | `instruments` table | batch creation, status change | batches in opposite orders, failures mid-batch, lost commits | batches all-or-nothing, delisting final, no deadlock for ever |
| Instrument queries `api/instruments.rs` | none | list, get | - | readable with a session only |
| API process `bin/api.rs`, `db/connection.rs` | pool of 5 connections, watch channel for shutdown, two servers | start, serve, stop; bodies received from clients; acquire and return of connections | a signal at any moment of startup or service; requests that hold connections while they wait for rows; clients that stall | as long as clients finish their bodies both servers stop and nobody waits for ever; nothing is cut off; a stalled request holds nothing |
| Simulator `simulator/*`, driven by `main.rs` | a book and a list of trades per scenario | `run_scenario`, predefined scenarios, two generators | abort at the first error; price arithmetic near the ends of `u64` and with a zero tick | quantities balance, generators keep their promises, scenarios end |
| Metrics `metrics/*` | none | book and trade metrics | sums of `u64` that wrap beside a `u128` notional; conversions to `f64` that round above 2^53 | figures are those of the book as far as sums fit and conversions are exact |
| Run folders: `write_run_artifacts` in `main.rs`, `scripts/*.sh`, `ai/analyze_run.py` | folders with three artifacts | run, run and analyze, analyze | jobs in one folder; failure between two artifacts | a report is about one run |
| CLI reports, monitoring, deployment files, benchmark | - | - | pure I/O | - |

How they interact: callers (the CLI, the simulator, replay) call the engine
synchronously with `&mut self`, so engine commands never overlap. The simulator feeds a new book one
command at a time; the replay mode reads back a log that a scenario saved. Jobs
of the scripts are processes that share the run folders. The engine and the API
share no state at this commit. API handlers are concurrent tasks
which interleave at every `.await`; they share the limiter's mutex and, through
the pool, PostgreSQL. `/auth/signup` and `/auth/login` pass the limiter;
`/admin`, `/accounts` and `/instruments` pass the session middleware, and
`/admin` then the role middleware. `bootstrap_admin` is a separate process on
the same database.

## 2. Modules

### The engine

- `OrderTypes`: orders, trades, events, errors; quantities are machine words
  modulo `QtySpace`. `Opposite`, `Outranks` and `Crosses` serve both sides,
  which the code writes out twice.
- `OrderArena`, `PriceLevel`, `RestingBook`: the data structures as records
  with operators that return the updated record: the slab and its free list,
  `push_back` and `unlink`, `rest_order`, `remove_order_by_id`, and what an
  iteration of `match_at_level` does to the maker (`ConsumeMaker`). Slots are
  numbered from 1.
- `OrderBook`: the machine. Each early return of a command is an action
  (`AddZeroQuantity`, `AddDuplicate`, `CancelUnknown`, ...). A command that
  matches is `AddOrder` or `ModifyOrder`, then one `FillStep` per iteration of
  the inner loop, then `FinishCall`, which rests the remainder and records the
  events of the mode. `call` holds the locals of the command. The history
  variable `older` says who came to rest before whom; no guard reads it.
- `OrderBookProperties`: what is claimed of it.
- `PriceTimePriority`: the abstract engine, a set of orders with an order of
  arrival, in which each trade is with the order that has priority.
  `AtomicBook`: a coarser one, in which a whole command is one step whose
  outcome is a formula: every crossing order is filled by what is left after
  all those ahead of it. `OrderBookRefinement` instantiates both; for the
  second it adds history variables that hold the abstract state until the
  command returns.
- `Replay`: a live engine, the saved file, and a second instance of the same
  engine driven by it. One action per kind of event.
- `FloatingPoint`: the `f64` arithmetic of the metrics. An `f64` is written as a
  multiple of the smallest positive one; `Nearest` rounds an exact quotient to
  the nearest, a tie to the even one, and conversion, sum, half and quotient are
  that. What is an `f64` is a parameter.
- `Metrics`: `calculate_book_metrics` and `calculate_trade_metrics` as operators,
  with mid price, imbalance and average price in `f64`. Sums wrap like the words
  of a release build (a debug build panics instead).
- `Simulator`: extends the engine. A job is a scenario of the command line, a
  generator with a configuration, or any list of commands; `run_scenario` is
  one action per kind of command, which is the engine's own action or its
  rejection, then the engine's steps, then `Collect`. Identifiers, prices and
  quantities are words of one width; `OrderIds` are the identifiers that the
  scenarios considered use. The history variable `entered` is the
  quantity brought in less what was withdrawn.
- `RunArtifacts`: the jobs that a scheduler starts. An artifact is created
  (truncated) in one step and filled in another; its content is the job it
  stems from. `Fail` may end a job anywhere (`set -e`).

### The API

- `RateLimiter`: a request is `ReadClock`, then `TryAcquire`, which is the
  whole critical section (evict, refill, spend, answer). Time is counted in
  units of refill, so that the `f64` bucket is integer arithmetic.
- `AccessControl`: login (load the row, verify the password and generate a
  token, insert the session), logout (one UPDATE), and calls of protected
  routes (one SELECT with the checks after it, then the handler), each step
  one statement with the code that follows it up to the next await. `Tick` and
  `SetStatus` (an operator's UPDATE, there is no route for it) come in between.
  The history variables record what callers know, from which `Entitled` is
  defined without looking at the tables: this is the yardstick, and the code is
  measured against it.
- `UserAccounts`: signup, `create_user` and `bootstrap_admin`, one step per
  statement.
- `Instruments`: `create_instruments` and `update_instrument_status`, one
  step per statement.
- `ApiServer`: the composition. The modules above look at one kind of request;
  here a request is only the way it takes: the server it comes to, whether its
  session is checked, whether its handler takes a body (`Json(request)`, which
  awaits what the client has yet to send: the stage `Body`), and the rows its
  transaction locks. All of them share the connection pool. Around them the process starts, installs its signal
  handlers, is signalled or killed, drains and exits.

PostgreSQL and the clock are not in the repository; definitions for them are
marked external in the map. The models have what the handlers rely on under
READ COMMITTED: unique violations, inserts that wait for an open transaction
with the same key, row locks, table locks, deadlock detection. They also have
what the handlers have to live with: any statement may fail, the client may
hang up so that the handler is dropped where it awaits, a transaction that is
dropped is rolled back only some time later, and a commit may succeed while
its acknowledgement is lost.

`MC*` modules only add symmetry sets and, for `Simulator` and `ApiServer`, the
values of constants (configurations and command lists, kinds of requests).

## 3. Runs

| Run | Question | Bounds, and why they are enough |
|---|---|---|
| `book` | Are index, queues, free list, snapshot, cached depth, prices, priority, conservation and identifiers right in every book and during every command? | 3 identifiers, 3 prices, quantities 0..3. An incoming order can fill two makers over two levels, partially or fully, and rest; a queue of three has a head, an inner order and a tail; the free list has up to three slots in every order of release; quantities wrap modulo 4, which two orders reach. The event log is off, so there is no bound on the number of commands: the state space is finite and complete. |
| `refinement` | Does the engine implement both abstract specifications? | 3 identifiers, 2 prices, quantities 0..2. |
| `replay` | Does a saved log account for the book and rebuild it? | Commands are issued while the log is shorter than 4 events (`MaxEvents`); a log then has add, trade, modify, cancel in every legal order, and slots are recycled. |
| `scenarios` | Do scenarios end, does their result balance, are metrics and generators right? | Words of 7 bits, in which two orders of 100 wrap. The five names of the command line, the default generators for 0..24 orders (their ten levels wrap around twice), 3200 configurations with zero ticks, levels and quantities and with prices and identifiers at both ends of the range, and every list of up to four of twelve commands. Floats have four significant bits, the smallest is 1/16: integers up to 16 and their halves are exact, of the words above 16 most are rounded, so that neighbouring prices near 120 are one float. Each scenario runs to its end (`MaxEvents` is above the longest log). |
| `limiter` | Is the allowance right with overlapping requests and eviction? | 2 clients, 2 tasks, a burst of 2 tokens of 2 units, clock up to 3 (`MaxClock`), eviction from 2 tracked clients on. Full, partial and empty buckets and fractions of a token occur, and so does a reading up to 3 units old. |
| `limiter_stale` | Is the documented limit kept whatever the order of requests? | The same. It is **violated**; see section 6. |
| `instruments` | Are batches atomic, conflicts real and delisting final, and does every request end with its locks gone? | 3 requests, 2 symbols, batches up to one more than the limit of 2, with a malformed element: cycles of waits, a bystander, repeated symbols. No symmetry, since liveness is checked. |
| `access` | Is access given and refused only for a reason? | 2 tasks, an administrator and a trader, 2 tokens, lifetime 1 and a clock of one tick: a session may expire, be revoked, or its user be suspended at any step of a concurrent login, logout or call. |
| `users` | Are users created whole, a first administrator once, and does a failure leave nothing? | 3 attempts over 2 emails: two rivals and a third that changes the table between them; no symmetry. |
| `server` | Does a signal stop the process, without cutting requests off, does every request end, and does a stalled one hold nothing? | 3 requests (`MaxRequests`), 2 connections, 2 rows, locked in both orders, some with a body, whose clients may stall: the pool runs dry, transactions wait for each other and for a bystander, and a session check waits for a connection that a blocked transaction holds. |
| `artifacts` | Is an undisturbed report about one run? | 3 jobs, one named folder that they may reuse, two seconds: a run that failed half way, one after it in the same folder, and an analysis. |
| `artifacts_clash` | Is an automatic folder fresh? | 2 jobs. It is **violated**; see section 6. |

Deadlock is checked except where the system may stop: a replay, a scenario and
the API process end, and the requests of `Instruments`, the attempts of
`UserAccounts` and the jobs of `RunArtifacts` are finitely many.

### Fairness

- `Simulator`: weak fairness of the next step. A scenario, and each command in
  it, is straight-line code and loops on one thread that waits for nothing.
- `Instruments`: weak fairness, per request, of the handler's next statement,
  of the pool's rollback and of deadlock detection. Tokio polls a handler whose
  statement has completed; PostgreSQL looks for deadlocks after a timeout.
  Failures are not fair: nothing has to go wrong, and nothing has to go wrong
  for `RequestsEnd` except that PostgreSQL picks a victim of a cycle.
- `UserAccounts`: weak fairness per attempt. Attempts are finitely many, so no
  waiter can be overtaken for ever.
- `ApiServer`: weak fairness of each step of main, of the shutdown task, and per
  request of its next step, of the pool's rollback and of deadlock detection.
  Signals, failures, hang-ups and the pool's timeout are not fair:
  `RequestsAnswered` does not need anybody to time out. Nor is `ReceiveBody`,
  which is up to the client, and the code puts no limit on it: `ServerStops` and
  `RequestsAnswered` have the premise `ClientsFinish`, that no client leaves a
  request for ever without the rest of its body or a hang-up.

## 4. Properties

Of the engine, besides a type invariant:

- `IndexMatchesArena`, `FreeListWellFormed`, `QueuesWellFormed`,
  `SnapshotIsArrivalOrder`, `CachedDepth`: the three views agree, lists are
  lists, `unreachable!` is unreachable.
- `Uncrossed`, `FillsRespectPriority`, `FillsConserveQuantity`,
  `IdsAreSingleUse`.
- `ImplementsPriceTimePriority`, `ImplementsAtomicBook`: refinement.
- `LogAccountsForBook`, `ReplayRebuildsBook`.

Of the simulator: `ScenarioBalances`, `MetricsInRange`, `GeneratedAsPromised`,
and `ScenarioEnds`, which includes that every matching loop terminates. Of the
run folders: `ReportsAreOfOneRun`.

Of the API: `WithinAllowanceInOrder`, `NoUndueRefusal`, `OthersUnaffected`;
`HandledOnlyIfEntitled`, `RefusedOnlyIfNotEntitled`, `SessionsOnlyEnd`,
`AccountsOfCallers`; `UsersHaveCredentials`, `BootstrapIsFirst`,
`FailuresLeaveNothing`, `AttemptsEnd`; `BatchesAreAtomic`, `ConflictsAreReal`,
`DelistedIsFinal`, `RequestsEnd`; and of the process that serves them all,
`NothingCutOff`, `StalledHoldsNothing`, `ServerStops`, `RequestsAnswered`. Each
is stated in words above its definition.

Some things the properties say precisely and a reader should know:

- A call may still be served after its session was revoked, has expired, or its
  user was suspended: the check is one moment of the call, and the handler does
  not repeat it. `HandledOnlyIfEntitled` promises only that such a moment lay
  within the call.
- A user suspended while a login verifies the password gets a session, because
  the status is read before the hash. The session opens nothing while the user
  is suspended, since every call reads the status again; it does work if the
  user becomes active again within its lifetime.
- A 500 does not mean that nothing happened: the acknowledgement of a commit
  may be lost. `BatchesAreAtomic` and `UsersHaveCredentials` hold all the same;
  400, 404 and 409 do mean that nothing was stored. `FailuresLeaveNothing` says
  this of every 409 and 500 of `UserAccounts`: nothing is left, or, if a commit
  was not acknowledged, all of it.
- `FillsConserveQuantity` ties the trade to its two orders: it names the taker
  and a maker who rests at just the price of the trade on the other side, and
  the taker's limit admits that price.
- `ScenarioBalances` leaves out scenarios that failed: the `?` of `run_scenario`
  drops book, trades and log together, so that nobody sees an imbalance.
- `MetricsInRange` says what can be said of rounded numbers. The mid price lies
  between the touch as floats, and strictly inside only while bid plus ask is
  exact (up to 2^53). An imbalance has its side of one half while the depth is
  exact, the average price lies between the extremes while the sums and prices
  are. Where sums wrap it says nothing of imbalance and average: the total of the
  traded quantities is a `u64` while the notional is a `u128`, so that after a
  wrap in a release build (2^64 units) `vwap` divides sums of different things
  and is no "total traded value / total traded quantity"
  (`metrics/trade_metrics.rs`, line 6).
- A request that waits for its body holds neither connection nor row
  (`StalledHoldsNothing`), so that stalled clients take nothing from others. They
  do keep a drain open: handlers that take a body await it in their `Json`
  extractor, and neither the router nor the drain has a timeout. "One signal
  stops both servers" (`src/bin/api.rs`, line 65) and "The server finishes
  in-flight requests before exiting" (`README.md`, lines 102-103) therefore hold
  as `ServerStops` says, as long as clients finish what they send.
- `NothingCutOff` is about an orderly exit. The handlers for Ctrl-C and SIGTERM
  are installed by a spawned task; a signal before that kills the process and
  whatever it is serving (`Kill`).
- `GeneratedAsPromised` needs a tick, a quantity and prices that fit (`Sane`).
  "This avoids accidental crossing" (`simulator/generator.rs`, line 23) is not
  true of every configuration that `GeneratorConfig` admits: with `tick_size` 0
  both sides meet at the base price and trade, and with prices next to the end of
  `u64` the sells wrap below the buys in a release build. A low base price, where
  buys collapse at zero, is sane, and so is the command line's own configuration.
- A fixed run folder keeps the files of an earlier run until each is
  overwritten. After a run that failed half way, `analyze_run.sh` on that folder
  mixes two runs; the scripts that run and report in one go do not, because
  `set -e` stops them first.

## 5. Proofs

Eight modules hold theorems, all checked by TLAPS for every value of the
constants that the named assumptions admit. Each has an invariant `Inductive`
(`BookInv` for the book alone), a lemma per action, `StepInductive`, and
`AlwaysInductive`; an action property follows from `Inductive` and one step.

| Module | Theorem | Property |
|---|---|---|
| `OrderBookProofs` | `TypeCorrect` | `TypeOK` |
| | `IndexAlwaysMatchesArena` | `IndexMatchesArena` |
| | `FreeListAlwaysWellFormed` | `FreeListWellFormed` |
| | `QueuesAlwaysWellFormed` | `QueuesWellFormed` |
| | `SnapshotAlwaysInArrivalOrder` | `SnapshotIsArrivalOrder` |
| | `DepthAlwaysCached` | `CachedDepth` |
| | `NeverCrossed` | `Uncrossed` |
| | `IdentifiersStayGone` | `IdsAreSingleUse` |
| | `FillsByPriority` | `FillsRespectPriority` |
| | `FillsConserve` | `FillsConserveQuantity` |
| | `LogAlwaysAccountsForBook` | `LogAccountsForBook` |
| | `ReplayAlwaysRebuilds` | `ReplayRebuildsBook`, when `EventMode = "Full"` |
| | `ImplementsPriority` | `ImplementsPriceTimePriority` (refinement) |
| | `ImplementsAtomic` | `ImplementsAtomicBook` (refinement) |
| | `DetachPreserves`, `RestPreserves`, `PartialPreserves` | the three updates of a book keep `BookInv` |
| `SimulatorProofs` | `ScenariosRunTheEngine` | a scenario is a behaviour of `OrderBook` |
| | `ScenariosAlwaysBalance` | `ScenarioBalances` |
| | `MetricsAlwaysInRange` | `MetricsInRange` |
| | `GeneratorsKeepTheirPromise` | `GeneratedAsPromised` |
| | `ScenariosAreFinite` | every step lessens `StepsLeft`, a natural number |
| `UserAccountsProofs` | `TypeCorrect` | its `TypeOK`, the exclusiveness of the table lock included |
| | `CredentialsAlwaysStored` | `UsersHaveCredentials` |
| | `FailuresAlwaysLeaveNothing` | `FailuresLeaveNothing` |
| | `BootstrapAlwaysFirst` | `BootstrapIsFirst` |
| `InstrumentsProofs` | `TypeCorrect` | its `TypeOK` |
| | `BatchesAlwaysAtomic` | `BatchesAreAtomic` |
| | `ConflictsAlwaysReal` | `ConflictsAreReal` |
| | `DelistedStaysDelisted` | `DelistedIsFinal` |
| `AccessControlProofs` | `TypeCorrect` | `TypeOK` |
| | `AlwaysHandledOnlyIfEntitled` | `HandledOnlyIfEntitled` |
| | `AlwaysRefusedOnlyIfNotEntitled` | `RefusedOnlyIfNotEntitled` |
| | `SessionsAlwaysOnlyEnd` | `SessionsOnlyEnd` |
| | `AccountsAlwaysOfCallers` | `AccountsOfCallers` |
| `RateLimiterProofs` | `TypeCorrect` | `TypeOK` |
| | `AlwaysWithinAllowanceInOrder` | `WithinAllowanceInOrder` |
| | `NeverUndueRefusal` | `NoUndueRefusal` |
| | `OthersAlwaysUnaffected` | `OthersUnaffected` |
| `ApiServerProofs` | `NothingEverCutOff` | `NothingCutOff` |
| | `StalledAlwaysHoldsNothing` | `StalledHoldsNothing` |
| `RunArtifactsProofs` | `ReportsAlwaysOfOneRun` | `ReportsAreOfOneRun` |

### Assumptions

- The engine: prices are naturals, quantities are words of positive width, and
  there are at most `SlotSpace` identifiers, finitely many (identifiers are
  single-use, so a book never has more slots than identifiers). The code does
  not enforce this: with more than 2^32 orders resting at once the `u32` cast in
  `arena.rs`, line 46, truncates, and the theorems, `FreeListAlwaysWellFormed`
  included, say nothing about that. `None` is neither a number nor a command in progress.
- The simulator: words have more than 110 values, so that the literals of
  `scenarios.rs` are words; prices are all the words, identifiers are words, and
  those that the predefined and the generated scenarios use are among
  `OrderIds`. `run_scenario` makes its book with `OrderBook::new()`, whose mode
  is `Full`. Configurations and command lists are any that their types admit,
  and there may be any number of them. `None` is no outcome. Of the floats it
  is assumed (`FloatAssumption`) that they are finitely many multiples of the
  smallest, zero and every integer up to `Exact` and its half among them, and
  (`RangeAssumption`) that a word, its square and twice a float within the words
  do not overflow. All this is true of `f64` with `Exact` 2^53; significands and
  exponents play no other part. What the properties themselves say of sums that fit in a word and of
  sane configurations is a premise of the property, not an assumption.
- The API and the scripts: `None` is not a value of the other types
  (`NoneAssumption` of each module) and bounds are naturals. A token of the
  limiter costs at least one unit and a session lives at least one tick;
  administrators are users, and `Active` is one of the statuses a user can
  have; the pool has at least one connection, and the metrics server plans no
  database work. Clients, batches of instruments and jobs are finitely many, as
  addresses, HTTP bodies and processes are, but nothing is assumed of how many,
  nor of the number of tasks, users, symbols or folders.

### The engine

`Inductive` is `TypeOK`, `BookInv`, `IndexMatchesArena` and `Uncrossed`. None of
the last three is inductive alone. `Uncrossed` needs `TypeOK` and the queue
invariant to know that the maker an iteration consumes stands at the best price,
and that the order rested by `FinishCall` crosses nothing because the best level
does not cross. The queue invariant needs the index (a cancelled order's slot is
occupied by that order), the free list (the slot handed out for a new order is
vacant, so no link leads to it) and the order of arrival (unlinking from the
middle joins two neighbours between whom nobody else stands). That a queue is
*one* list is said without recursion: neighbours point at each other, only one
order of a level can be without a predecessor, since it precedes all others in
order of arrival, and every link goes to the immediate successor in that order.
The free list, which has no such natural order, is a witness function:
`IsFreeList` says some enumeration of the vacant slots follows the links; every
step of the proof builds the enumeration of the new list from that of the old.

The action properties need, besides `Inductive`, only `CallAgrees`: the order
that shrinks while it is matched keeps the side and the price of the order that
was submitted. `FillsRespectPriority` follows from the queue invariant: the
maker of an iteration is the head of its queue, hence first in order of
arrival, and its level is the best price. `FillsConserveQuantity` adds that
the traded quantity is the lesser of the two remaining ones, so that neither
subtraction wraps, and that a recycled slot cannot make the fill hit another
identifier. `IdsAreSingleUse` needs that the index finds exactly the resting
orders.

The refinement maps the book to its set of resting orders. Each action has a
lemma that it is a step of `PriceTimePriority` or changes nothing there:
`DetachOrders` says what leaves the set, `HeadHasPriority` that a fill trades
with the order that has priority, `NothingCrosses` that the end of a command
rests an order only when no maker is left for it.

For `AtomicBook`, where a command is one step, `HistoryOK` says that the outcome
of the command in progress never changes: what `Outcome` computes from the order
as submitted and the book when it was issued is what the command has traded so
far, together with what `Outcome` computes from what is left of the order and
the book as it is now (`SameOutcome`). A fill takes either all of the foremost
maker (`WholeMaker`: everybody behind it then has that much less ahead, and the
order that much less to give) or all that is left of the order (`PartOfMaker`:
nobody else is reached). At the end nothing is left to match (`NothingToMatch`),
so that what the command has done is its outcome.

`LogAccountsForBook` speaks of the moments between commands. `LogOK`
strengthens it to every moment: the log, continued by what the command in
progress has yet to record, gives each order what rests of it plus what is still
incoming. Then every step records at most one event, and `NextEvent` says what
one more event does to `QuantityInLog`. That definition is recursive, and
`NextEvent` is proved by induction over the length of the log: `SetInduction`,
from the well-foundedness of the naturals, is induction for a set instead of a
predicate, so that it can be applied without instantiating an operator.

`CachedDepth` is proved from lemmas about sums. `SumExists` builds, by
`SetInduction` over cardinalities, the function that gives every set of orders
its quantity; `SumStep` says what one order more adds to it. The three updates
of a book take an order away, bring one or reduce one (`DetachedSet`,
`RestedSet`, `ReducedSet`), and each does to the cached word, modulo `QtySpace`,
what it does to the sum (`DetachDepth`, `RestDepth`, `PartialDepth`): a total
that wraps is still right modulo `QtySpace`, in either direction.

`SnapshotIsArrivalOrder` follows from the queue invariant in every book.
`level_orders` follows the links from the head (`IsWalk`). `SlotOrder` and
`WalkVisits` show that each stop comes later in the order of arrival than all
stops before it, so that no slot is visited twice and the walk ends within as
many steps as there are slots, and that an order it has not met stands behind
the stop it has reached, so that when it ends it has met all.

`ReplayRebuildsBook` compares two engines that run one after the other. The
strengthening `ReplayOK` says that the live book went through a chain of states
(`Chain`), each a `Moves` from the one before, and that the book being rebuilt
is at one of them. Matching is deterministic, and a command is determined by the
event it records (`Commanded`), so that wherever the rebuilding stands it can
only go on to the next state of the chain (`RebuildingMoves`, `CommandRepeats`).
`Announced` is the log of a state, continued by the `OrderModified` that a
modification under way records only at its end: it only grows along the chain,
by one event that is no trade when a command starts and by trades when it ends.
Hence the first event at or after the cursor that is no trade is the command
that the live book was given next (`NextCommand`), replay accepts it, and when
the cursor has passed the end of the log so has the rebuilding. The chain is a
witness function, which TLC cannot enumerate: the run checks the property, and
only the proof knows `ReplayOK`.

### The simulator

A scenario is a caller of the engine like any other (`StepOfEngine`: every step
is a step of `OrderBook` or leaves it alone), so that `Inductive` holds all
along, and each argument below only adds what the runner knows.

`ScenarioBalances` speaks of the moments between commands. `Balance`
strengthens it to every moment: what entered is what rests, plus what the order
in hand has left, plus twice what was traded; and the trades, with those of the
command in progress, are those of the log continued by what that command has
yet to record (`FullLog`, from the proof of `LogAccountsForBook`). Each action
moves a quantity from one term to another: a fill takes from the maker and from
the order in hand (`Consumed`, `FillBalances`), the end of a command lets the
order in hand rest (`FinishBalances`). This is an equation between integers.
The reported totals are words, summed level by level or trade by trade:
`Total` is the sum of weights over a finite set, `FoldIsTotal` says that the
folds of the metrics compute it, modulo `QtySpace` where they wrap, and
`SumOfLevels` and `QueueDepth` that the totals of the levels add up to that of
the book, each order being listed once.

`MetricsInRange` needs no invariant of its own but `TradesPositive`. The touch
is the best level of each side (`Touch`); that the spread is positive is
`Uncrossed`. Rounding (`Rounding`, `RoundingExact`, `RoundingMonotone`) leaves a
float alone and is monotone, so that it never carries a result across a float:
neither the mid price across the touch (`MidPrice`), nor a quotient across one
half, one or an exact price (`Quotients`). The exact average lies between the
extremes because each term of the notional does (`Average`, by induction over
the trades), and the notional, of twice the width, does not wrap when the traded
quantity does not.

`GeneratedAsPromised` needs the shape of the book after each generated order.
A sane configuration gives new orders with identifiers of their own
(`TwoSidedScript`, `CrossingScript`: fewer than `QtySpace` indices, hence no
two words alike, `DistinctWords`), of which none is rejected (`Sequenced`). If
bids and asks stay apart, nothing crosses and what rests is what was submitted
(`Visible`), half of it on either side by a bijection with the even and the odd
indices (`HalfAndHalf`). If the second half bids a price that reaches every ask,
`Swept` counts: while the first half runs there are as many asks as commands;
then each bid takes one ask, whole, since all orders have one quantity, and one
that is cheapest, so that trades come in order of price and are all cheaper than
the asks that are left; when none is left, at most one bid is, and it rests.
`CollectSweeps` uses that the end of a command rests an order only when no maker
is left for it: a bid that rests proves that there is no ask.

`ScenariosAreFinite` is the safety half of `ScenarioEnds`. `StepsLeft` allows
each command that is left as many steps as an order has units, plus one, and the
command in hand as many as it has units left, plus one. What remains for
`ScenarioEnds` is that a scenario without an outcome can take a step, which is
about `ENABLED` and stays with TLC.

### The API

- User creation. `RowsOK` ties a committed row to an attempt that ended in a
  commit, so that a conflict can never leave a row; `LockOK` says who has an
  uncommitted row, and that while the table is locked only the holder may have
  one, which is what `LOCK TABLE` waits for; `SeenOK` says that what a bootstrap
  saw (no administrator) is still true when it inserts and commits, which holds
  because `LockOK` keeps everyone else's insert from committing in between;
  `CodesOK` ties an answer to the state it reports; with
  them each way to fail is followed to what it leaves (`FailsClean`).
- Instruments. `BatchesAreAtomic` is about rows, which appear only at a commit;
  what makes a commit whole is `InsertsOK`: a batch under way holds exactly the
  symbols that it has inserted so far, and none of them is a row. `HoldersOK`
  gives locks to open transactions only, so that one that ends (by a late
  rollback, or by a commit that nobody hears of) takes them along. `UpdatesOK`
  says that a change found legal is still legal when it is stored: the row lock
  keeps everyone else's update out, and this is why `DelistedIsFinal` holds.
  `CreatorsOK` and `AnswersOK` tie rows and answers to requests that ended.
- Access. The histories `could` and `could_not` cover the present moment
  (`WitnessOK`), so that what the one SELECT of a call sees is a moment of the
  call. `SessionOK` ties rows to logins and revocations to logouts that were
  asked for; `LoginOK` and `TokensDiffer` say that a token about to be inserted
  is new, without which an insert could overwrite a session.
- The limiter. A bucket accounts exactly for what its client spent.
  `BucketsOK`, for refusals, says that what a bucket lacks was spent, in some
  stretch of time up to its last refill; it survives readings that go
  backwards, which only give more. `Covered`, for the limit, says the opposite
  inequality for every stretch, and holds while requests are in order; a
  client whose bucket was evicted is covered by the time since. The history
  `spent` has, per client and reading, the units let through since, so that what
  was spent in an interval is a difference of two numbers.
- The process. A server that has stopped has no request in flight and accepts
  none, and only a process that failed or was killed cuts off. A request has a
  connection only where it uses one, and rows only in its handler or until they
  are rolled back (`HoldsOK`).
- Run folders. While nobody else writes in the folder of a job, the job finds
  there what it has written (`Holds`, artifact by artifact; `AnalyzingOK` when
  all three are complete), and whatever is whole in a folder is of one of its
  writers (`FilesOK`). `ReadOK` carries this over to what was read.

### Only model-checked

Liveness (`ScenarioEnds`, `AttemptsEnd`, `RequestsEnd`, `ServerStops`,
`RequestsAnswered`) is out of the prover's reach, like `ENABLED`. Every other
property of a passing run is a theorem. Conversely the type invariants of
`UserAccounts` and `Instruments`, `ScenariosRunTheEngine` and
`ScenariosAreFinite` are proved and need no run.

## 6. Findings

### The limiter refills a gap twice

`src/api/rate_limit.rs:119` reads the clock before `try_acquire` waits for the
mutex, and line 94 stores that reading as `last_refill` unconditionally. If a
request with a later reading took the mutex first, `last_refill` moves back,
and the gap between the two readings is refilled twice. "Ten quick attempts,
then one more every five seconds" (line 36) is then exceeded, as
`limiter_stale` shows. Each overtaking credits the gap between two readings
once more, and that gap is the time a request waits for a short critical
section: with the configured five seconds per token the excess is small. As
long as requests lock in the order of their readings, the limit holds
(`WithinAllowanceInOrder`), and nobody is ever refused unduly.

### An automatic run folder is shared within a second

`scripts/run_simulation.sh` and `scripts/run_and_analyze.sh` name an automatic
folder by the second and `mkdir -p` accepts one that exists. "Pass "auto" from
schedulers like Windmill to avoid overwriting older runs" (`run_simulation.sh`,
line 11) and "`auto` gives each run a fresh timestamped folder"
(`docs/WINDMILL.md`, lines 53-54) do not hold for two jobs started in one second, as
`artifacts_clash` shows: they write into one folder, and the later one truncates
what the earlier one saved. A six-field schedule does not start one job twice in
a second, but manual and scheduled jobs, or two schedules, can meet.

## 7. What is abstracted or left out

- Formats: JSON, SQL text, error messages, UUIDs, timestamps in rows, header
  parsing, e-mail and symbol normalisation. An instrument is its symbol, a user
  an e-mail and a role. What `validate_instrument` refuses is one element.
- The file of the event log reads back what was written (`persistence.rs` has a
  round-trip test); I/O errors only end the program.
- Passwords and tokens: verification is a nondeterministic answer, a fresh
  token is one that was never generated, and a digest is the token itself.
- One clock for the API process and the database. Skew between them moves the
  end of a session by as much; the table's check `expires_at > created_at` is
  in `InsertSession`.
- The modules of single handlers have no pool: there, a handler that cannot get a
  connection fails, which is `Fail`. The pool is in `ApiServer`, where in turn
  handlers are reduced to the rows they lock.
- `f64` is what the metrics use of it: results that are finite and not negative,
  each operation rounded once. Infinities, NaN and printing are left out.
- Of the exchange with a client only the body of a request is modelled. Reading
  the head of a request and writing an answer also depend on the client, and a
  client who does not read its answer may hold the drain in the same way.
- Run folders: log files and the analysis itself, which no job reads, are left
  out, and so is `cargo build` of a missing binary.
- Not modelled: the upkeep and the labels of the Prometheus recorder, health
  text, argument parsing and printed reports of the CLI, the text of the
  analysis, deployment files, the benchmark: no other state depends on them.

## 8. Plan

Done: the engine with its refinements and replay, user creation, the rate
limiter, sessions and instruments, the simulator with its metrics and
generators, the API process with pool and shutdown, the run folders of the
scripts; the proofs of section 5, which cover every safety property.

What a later change of the code asks for: a route that stores orders or trades
would join the engine and the API, which share no state today; the engine would
then be called from concurrent tasks, and `OrderBook` would become a module that
`ApiServer` composes. Of the present code, liveness could be proved with a prover
that knows `ENABLED`: `StepsLeft` is the measure for `ScenarioEnds`.

# A verification development for EasyTrade

EasyTrade is a demonstration stock-trading platform made of some twenty small
services in C#, Java, Go, C++ and TypeScript around one MySQL database. Most of
them answer queries. The ones that change shared state do so without locks,
concurrency tokens or distributed transactions, and the browser application
keeps a cache of what it has read that has to follow. That is where this
development looks: TLA+ modules translated from the source, TLC runs that
check them on small instances, and TLAPS proofs for all instances.

Run from this directory: `tlc -config broker_serial.cfg MCBroker.tla`,
`tlapm Broker_proofs.tla`. `PROJECT.json` lists every run with its properties,
every definition with the source lines it stands for, the hazards of the code,
and for every property a mutant of the code that breaks it.

## 1. Inventory

| Component | State it keeps | Operations | What is hard | Here |
|---|---|---|---|---|
| broker-service | `Balance`, `Balancehistory`, `Ownedinstruments`, `Trades` | deposit, withdraw, quick buy and sell, create a long trade, process the long trades | EF Core change tracking over REPEATABLE READ snapshots, whole-row writes without tokens, a batch that flushes after each trade and commits at the end, notifications posted before the commit by tasks nobody awaits | modelled |
| credit-card-order-service | `CreditCardOrders`, `CreditCardOrderStatus`, `CreditCards` | create and delete an order, status updates, WorkScheduler | one transaction per statement, check-then-insert, a scheduler that writes without looking, rows ordered by whole seconds | modelled |
| third-party-service | two lists in memory | take a manufacture order; ManufactureScheduler, CourierScheduler | list changed during its walk, calls without timeouts, state advanced before it is reported | modelled |
| engine | one `ScheduledFuture` | start, stop, status; a tick that calls the broker | unsynchronised check-then-act, a tick outliving its schedule, a batch outliving its tick | modelled |
| frontend: session, router, query cache, forms | `user-id` in sessionStorage, the cache of TanStack Query, navigations and mutations in flight | log in and out, navigate, read, deposit, withdraw, trade | reads and calls that outlive the page and the session they were started for, keys that do not name the user | modelled |
| frontend: credit card pages | two queries of the cache, two forms | order a card, follow it, revoke it | errors cached as data, a layout that throws and redirects on what is cached | modelled |
| feature-flag-service and the flag page | a map of flags in memory; the list the page has read | read, set; toggle and announce | lost at a restart, older reads in flight | modelled |
| problem-operator | an annotation of a Kubernetes deployment | apply or roll back a problem | partial failure, conflicts and retries, a rollback to whatever revision came before | modelled |
| aggregator-service | a failure counter for each platform, clocks | check offers, sign up | a timer per platform | not modelled |
| loginservice, accountservice, manager | `Accounts`, `Balance` of a new account | sign up, log in, whole-row update | two saves, concurrent duplicates | not modelled; the frontend modules have what the frontend sees of them |
| pricing-service, RabbitMQ, calculationservice | `Pricing`, a queue | read prices, publish, consume | publish after the answer, acknowledge before the work | not modelled |
| contentcreator | `Pricing`, old rows of other tables | generate, insert, clean up | clean-up against running requests | not modelled |
| offerservice | none | offers, sign up | nothing of its own: it forwards | not modelled |
| reverse proxy, loadgen | none of the system's | forwarding, simulated users | | not modelled |
| database scripts, fraud-detection, manifests | data and configuration | | | not modelled; keys and column types are modelled where they matter |

How they interact. The frontend calls the services through the reverse proxy.
The engine posts to the broker once a minute to have its long trades
processed, and the broker posts a notification back to the engine for each one
it closes, once and without waiting for it. The order service posts to the
manufacturer in the third party;
the schedulers of the third party call the order service back. Flags are read
over HTTP from the feature flag service, by the services, by the frontend and by
the problem-operator, which changes deployments of the cluster accordingly.
Everything else meets in the database.

What makes each component correct:

- broker: the history of an account explains its balance; each executed trade
  leaves its movement, its fee and the owner's income; no quantity becomes
  negative; a closed trade stays closed; an expired trade is closed in the end.
- card orders: one order for each account and one card for each order; the
  status only moves forward, and what it says is true; an order is delivered in
  the end.
- engine: what its status says is true; it does not call for a batch while
  another one is at work; long trades are processed as long as it has a schedule.
- frontend: no user sees data of another; what a user has done he sees; no
  navigation and no form waits for something that never comes; a page that
  the session forbids is left.
- credit card pages: the page fits the order there is; revoking a card deletes
  the order of that card.
- flag page: what it has announced it shows.
- problem-operator: the annotation tells whether the problem is applied, no
  release is lost by applying it and rolling it back, and the cluster converges
  to the flag.

The hazards, each at its line and with the properties aimed at it, are listed
under "hazards" in `PROJECT.json`.

## 2. Modules

| Module | Content |
|---|---|
| `Broker` | the broker service, one action for each database access |
| `Ledger` | what the broker promises about money and holdings, abstractly |
| `BrokerLedger` | the refinement mapping from `Broker` to `Ledger` |
| `Broker_proofs` | TLAPS theorems about `Broker`, however sessions interleave |
| `BrokerSerial_proofs` | TLAPS theorems about sessions that run one at a time, and about a batch that requests interleave with |
| `MCBroker` | instances for TLC |
| `Engine` | the schedule of the engine, its start, stop and ticks |
| `EngineBroker` | engine and broker together, with broken connections and restarts |
| `Engine_proofs` | TLAPS theorems about `Engine` and `EngineBroker` |
| `MCEngine` | instances for TLC |
| `CardOrders` | the order service: requests, status updates, WorkScheduler |
| `ThirdParty` | manufacturer and courier with their scheduler threads |
| `CardFlow` | both together, with the calls, their failures, and the properties |
| `CardLifecycle` | what a customer is promised about an order, abstractly |
| `CardFlow_proofs` | TLAPS theorems about the order service in `CardFlow`, whatever the third party reports |
| `CardLifecycle_proofs` | TLAPS theorems about both services together: types, one card, the refinement of `CardLifecycle` |
| `MCCardFlow` | instances for TLC |
| `QueryCache` | one entry of the query cache: the operators of TanStack Query that the frontend uses |
| `FrontendSession` | one tab: session, router, cache, forms and their calls |
| `FrontendSession_proofs` | TLAPS theorems about `FrontendSession` |
| `MCFrontend` | instances for TLC |
| `FrontendCards` | the credit card pages against the order service |
| `FrontendCards_proofs` | TLAPS theorems about `FrontendCards` |
| `MCFrontendCards` | instances for TLC |
| `FeatureFlags` | a flag, its registry, and the page that toggles it |
| `ProblemOperator` | the flag composed with the operator and the cluster |
| `ProblemOperator_proofs` | TLAPS theorems about `FeatureFlags` and `ProblemOperator` |
| `MCProblemOperator` | instances for TLC |

A definition commented as a *mutant* is another definition with a plausible bug
in it. Nothing uses it; putting it in the place of the original must break the
property it is listed with in `PROJECT.json`.

### 2.1 Broker

A *session* is one HTTP request or one call of
`ProcessLongRunningTransactions`. The variable `uow[s]` is the `DbContext` of the
session: the values it tracks (`bal`, `own`), which of them it has changed
(`touched`, `rows`), what it will add (`entries`, `trade`) or flag (`executed`,
`failed`). A quick buy is `BuyCheck` (read the balance, query the price and the
fraud score), `Compute` (open the transaction, read the rest, work out
everything) and `Save` (SaveChanges and Commit). A batch is `BatchBegin` (load
the expired and the open trades), `BatchSaveOverdue`, one `LongBuy`, `LongSell` or
`NotLong` per trade and `BatchCommit`. `Deposit`, `Withdraw` and `CreateLong` are prepared in
one step and saved in the next. `Fail` and `BatchFail` roll back.

What the model relies on:

- *Identity map.* A context returns the tracked entity for a row it has seen,
  also when a later query reads a newer one. Balances and holdings are
  therefore taken from `uow` once they are in it.
- *Whole absolute values.* A save writes the value the session computed, not a
  difference, and there is no concurrency token. Lost updates are in the model.
- *Scope.* Repositories are transient but the context is scoped, so all services
  of a request share one unit of work.
- *Snapshots.* REPEATABLE READ fixes what a batch sees at its first query; a
  plain read takes no lock. Sessions see the committed tables only.
- *Locks.* A batch flushes after each trade, which locks the rows written until
  it ends (`Flushed`, `RowsFree`); a request saves and commits in one
  step, because whoever needs its rows would merely wait in between.
- *Two batches that deadlock* are resolved by InnoDB aborting one: `BatchFail`.
- *Overlapping batches* are real: the endpoint is public, and ASP.NET does not
  cancel a batch when the engine disconnects or restarts. `Broker` lets any number
  overlap; `EngineBroker` shows how many the engine itself can cause.
- *Announcements.* `CloseTrade` starts a task that posts the closing to the engine,
  before anything is flushed. `announced` are the trades whose task has been
  started; a rollback does not take them out, and `BatchFail` may have started
  one more. Whether the POST arrives is part of `EngineBroker`.
- *Not long.* `ProcessLongRunningTransactions` closes as failed an open trade that is
  neither a long buy nor a long sell. The services leave none open, but the table
  admits one; `engine_progress` has one.
- *Prices* are one of `Prices` for each trade; a missing price aborts the batch.
  Time is the set `expired`. Amounts are not negative because `ValidateInput`
  refuses them. A refusal that changes nothing is not a step, except `SellRefuse`,
  which happens after a step has been taken.

### 2.2 Engine

`start` and `stop` are split at each access of the field `scheduledFuture`, which is
neither volatile nor locked. `stop` reads it twice; the model lets the second read
return the current value or the first one again, as compiled code may, and throw
when it is null. A read in the middle of other calls sees the old or the new
value, which their interleaving covers. `live` are the schedules not cancelled.
`cancel(false)` lets a tick that is running finish.

The `ThreadPoolTaskScheduler` of `EngineApplication` has its default size of one
thread, and a tick waits for the answer of the broker: `awaited` is the batch it
waits for. So schedules left over by overlapping calls double the rate of the
ticks but do not make them overlap. `EngineBroker` identifies a tick with the batch
it begins (`TickBegins`); `TickAnswered` ends it once the batch has returned, by a
commit or not; `ConnectionBreaks` and `EngineStops` end it earlier while the batch
goes on. Two batches may then deadlock over rows each has flushed, and InnoDB
aborts one (`DeadlockVictim`); no other failure of a batch is part of this module.

In the other direction, each announced trade is posted to `/notification`, which logs
it: `Notify` puts it into `told`, and `PostLost` (the exception that
`TradeNotificationService` logs, or a process that stops before its task has run)
into `lost`. Nobody tries again, unless a later batch closes the trade once more
after a rollback. So a trade may be announced and still open, or closed and unknown
to the engine; `ClosedIsAnnounced` and `ClosedIsTold` say what remains.

### 2.3 Card orders

Neither service opens a transaction, so every SQL statement commits by itself
and is a step. `client`, `handler` and `work` say where create and delete requests,
status updates and the WorkScheduler are; `thread` says where the two scheduler
threads of the third party are in their walks.

- *Newest status.* `getLastOrderStatus` sorts by `Timestamp`, a `datetime` of whole
  seconds; rows of the same second tie and any may be returned (`recent`,
  `LastStatuses`). `getOrderIdsWithStatusOrderCreated` uses `MAX(Id)` instead
  (`Waiting`). Any row may share its second with the ones before it, up to
  `MaxTied` rows (`MayTie`). That includes rows written by the schedulers of the third
  party: they sleep for minutes at the end of a visit, but a visit that an
  exception ends returns before its sleep, and the next one, overdue at its fixed
  rate, begins at once. Two rows in the same second make the sequence check look
  at either: the second parcel of a card handed over twice is then accepted and its
  id replaces the first, which `ShippingIdStable` exempts and `CardLifecycle` allows.
- *Walks.* The schedulers iterate over an `ArrayList`; a process added meanwhile
  makes the next step of the iterator throw (`grown`, `Disturbed`), and processes
  already handed over are not removed: they are handed over again later.
  Removal is by identity, for the classes define no `equals`.
- *Calls.* There are no timeouts: a caller waits until it is answered or the
  connection breaks. The answer is only logged, whatever its code. A broken
  call may never have arrived (`Report`, `GiveUp`), may still be carried out by a
  handler nobody waits for (`Break`), or be complete. The state of a process is
  advanced before the report, so it is not sent again.
- *Foreign keys* refuse rows of a deleted order, and refuse to delete an order
  rows refer to. A subquery that returns two orders fails its statement.
- *Deleted orders.* The WorkScheduler then posts an empty body, gets an answer it
  cannot parse, and ends its run (`WorkOrderGone`).
- *`CardKeyGenerated`.* The scripts for SQL Server give `CreditCards.Id` an
  identity; in `db-mysql/dump.sql` it has neither default nor AUTO_INCREMENT, so
  every insertion of a card fails and the order is shipped all the same.
  `cards_progress` runs with that table, the other runs with a key.
- *`Timely`.* TRUE assumes, while no connection breaks, that the WorkScheduler has
  written `card_ordered` before the manufacturer hands the card over
  (`HandOverInTime`). The manufacturer makes a card in one visit and hands it over in
  the next. What could bring the two together is a process added during the walk,
  and until `card_ordered` is written nobody adds one: the WorkScheduler posts
  one order after the other. So there is a sleep of minutes between the two.

### 2.4 The tab of the frontend

`QueryCache` describes an entry of the cache by the value read last, whether it
counts as fresh, and the fetch in flight; a value carries whose it is and which
version of the backend's data it shows. The library is external: its operators
are those of TanStack Query that `contexts/QueryContext` calls, with the default
options set there. `FrontendSession` gives every key such an entry.

- *Fetches.* A fetch is started for the user of the moment (`Request`), answered
  by the backend (`Serve`) and lands later (`Land`); in between the user goes on.
  `invalidateQueries` cancels a fetch only where somebody observes the query and
  there is a value to go on showing; `ensureQueryData` takes any value there is.
  A fetch that lands makes the entry fresh, whatever was invalidated meanwhile.
- *Failures.* `getUser` and `getBalance` throw where their list is empty; the
  other reads answer an empty list for an error, and it is cached as data.
- *Pages* are the queries their loaders await and those their components observe
  (`PageOf`). The loader of `ProtectedLayout` resolves to functions without
  calling them, so nobody waits for the user or the balance; the components
  fetch them. A page the session forbids renders only a redirect (`Misplaced`).
  It may then be older than a call answered since: `outrun` names the queries
  where an answer was on its way while an invalidation did not cancel it, until
  something as new as the call has landed. That is a fact about the code, which
  `ReadYourWrites` and `HoldingsCatchUp` leave out by name.
- *Calls* run from the form to the backend and back (`Submit`, `CarryOut`,
  `Answered`, ...) and outlive their page and their session: a mutation goes on
  when its form is unmounted. A call whose connection is lost may still be
  carried out later (`Orphaned`), or never. A quick trade invalidates the balance, waits until
  it has been read again if somebody observes it, then invalidates the
  instruments (`FollowUp`). `QuickBuyForm` awaits all of that and stays busy, also
  for the instruments; `QuickSellForm` does not await it and is free at once
  (`Patient`).
- *Logout* ends the session and removes the queries of the user; a loader that
  waits for one of them rejects, and the page of errors is shown (`LoaderFails`).
  *Login* sets the user and removes nothing. When its answer arrives over
  another session, or on a page that a logout is about to leave, the data of two
  users can meet: such a tab is `mixed` until the next logout.
- *Left out*: layout, validation, status messages, and the filters of lists.

`FrontendCards` has the credit card pages apart, for a user who stays logged in:
the status and the history of the order are two queries, the layout redirects by
what is cached (`Destination`) and throws on a cached error (`Throws`). The order
service is the order of the account, its id and whether it has been delivered.
A revocation names the account only, and one whose connection is lost may still
arrive. The application may be loaded at any of `Entrances`, the status page
among them.

Three properties of these pages have exceptions which the code does not exclude,
and two history variables name them. `untimely` holds a query that was being read
while a call changed the order, or a history that the loader of the status page
asked for without an order, until something about the present order has landed:
nothing cancels such a read if nobody observes the query, or if it has no data
yet, and it lands as fresh. `causes` says which of the other things has happened
that make a page wrong: a form sent again while its call was out or about a card
already revoked (`"hasty"`), a revocation that deleted an order it was not sent
about (`"astray"`), a failed read, a call whose answer nobody hears, another
client.

### 2.5 Flags and the problem-operator

`flag` counts the changes of one modifiable flag, which is on when the number is
odd, so that a list read earlier can be told from a later one. The registry is
in memory: `ServiceRestarts` gives the flag its initial value. The page observes
the list everywhere, for the header shows how many flags are on; a toggle sets
the flag, invalidates the list, and announces success when it has been read
again or that read was cancelled (`Announce`). One toggle is in flight at a time;
other tabs and the command line are `OthersSet`.

A tick of the operator is `Tick` (read the flag), `Get` (read the deployment),
`Prepare` (compare the annotation; apply the CPU limit, or list the replica sets
and copy the template of the revision before) and `Update`, which the API server
refuses when the deployment has changed since `Get`; then the operator reads it
again. `CatchUp` is the deployment controller of Kubernetes, which gives a
template its replica set and the highest revision. `blurred` records the two
situations in which the revision read is not the one of the problem: a release
was deployed while the problem was applied, or the controller of the cluster had
not caught up. The rollback then restores the wrong template; that is a fact
about the code which the properties leave out by name.

## 3. Runs

Bounds are small because every hazard found needs two actors that overlap, and a
third that comes in between; the runs have at least these.

| Run | Instance | Shows |
|---|---|---|
| `broker_interleaved` | owner, one customer, 2 arbitrary requests, 1 batch, 2 open long trades | types; what a session has prepared is safe to commit; history explains balances; holdings not negative; three rows per trade; closed is for good, and the task that announces it was started |
| `broker_serial` | 2 requests and 1 batch one at a time | refinement of `Ledger`; unbroken chains; one row per holding; only sales overdraw |
| `engine_progress` | 2 batches, 1 fault, fair, from five initial states: 2 starts and 2 stops; 1 start, 1 stop and a long trade; 1 arbitrary request and a long trade; 2 long trades; 1 long trade and one that is not | the status is true however calls overlap; the engine's batches do not overlap by themselves, also with schedules nobody can stop; expired trades are closed; closed trades are received by the engine, unless the POST was lost; the request is answered |
| `cards_reliable` | 2 orders, 1 account, 2 clients, 2 handlers, 2 rows may tie, no faults | refinement of `CardLifecycle`; one card; a shipping id that only a tie can replace |
| `cards_faults` | 1 order, 3 handlers, 1 fault, crisis | types; a recorded status is true |
| `cards_deletes` | 1 account, 3 requests, 2 orders | the only order of an account is not stranded |
| `cards_progress` | 1 order, crisis, cards that cannot be stored, fair | the order is delivered |
| `frontend_sessions` | 2 users, one not yet registered, 2 calls, 1 failure, 2 versions; balance; login, signup and quick buy | types; no data of another user; a user sees what he did, but for a failed read and an older answer on its way; no trade waits for a read nobody makes |
| `frontend_progress` | 1 user, 1 call, changes elsewhere, reloads; balance and instruments; 4 pages, fair | neither a navigation nor a trade waits in vain; guards; what is shown catches up |
| `frontend_cards` | 2 calls, 2 orders, loaded at the index or the status page, 1 fault or act of another client | types; no crash but by an untimely history read or the fault; a page at rest fits the order; forms released; the right card revoked |
| `flags_operator` | 3 changes, 1 fault, 2 releases, fair | types; annotation and template; announcements; the cluster follows the flag |

`MaxFaults` bounds broken connections, lost posts, failed calls and stopped
processes, and on the card pages failed reads, calls nobody hears the answer of and
other clients; `MaxFailures` the reads and answers lost to the tab, `MaxTied` the
rows of an order that share one second, `MaxProcesses` the lists of
the third party, `MaxVersion`, `MaxOrders`, `MaxChanges` and `MaxReleases` how often
the backend's data, the orders, the flag and the deployment change. Each member
of `Requests`, `Clients`, `Starts` or `Stops` is one call; a member of `Slots` is a call
that can be used again. `Keys`, `Visited` and `Reloaded` choose the queries and the
pages of an instance: `balance` is the query a trade waits for, `instruments` the
one it invalidates afterwards and the one whose failure is cached; the pages cover a
loader that awaits and one that does not, protected and public ones. The queries
`user`, which the header reads on every page, and `preset`, which is public and
outlives a session, are in no run, for which they would be too many; the theorems
about the tab hold for all of `Keys`. `MCInit` begins `engine_progress` in several
states, each of which leaves out some of the calls, requests or trades: calls and
requests do not meet in the code, and all of them at once are too many for a
liveness check. `CallsAfterFault` is how many calls of the card pages are explored
in flight together once a fault has occurred; without a fault it is all of them.
These are the only bounds. `CHECK_DEADLOCK FALSE` stands
where the system really stops: every request has been served and no batch runs.

One run ends in a violation of what the unit tests of the broker assert:
`broker_lost_fee`, where two trades read the owner's balance before either saves,
and one fee is lost. Other things that the code lets happen, that its documents do
not mention and that are in the modules, though no run is spent on them:

- two overlapping batches execute the same long trade twice (`BatchBegin` with two
  members of `Batches`);
- a trade is announced as closed and then rolled back (`BatchFail`), or closed and its
  announcement lost (`PostLost`);
- overlapping first purchases add two rows for one holding (`Acquire`), and a stale
  read breaks the chain of the history (`Save`);
- two requests find no order of an account and each insert one (`CountOrders`,
  `InsertNewOrder`);
- an order is shipped though no card could be stored (`CardKeyGenerated`);
- the id of a second parcel replaces the one shown, where status rows tie (`MayTie`);
- a read that an invalidation does not cancel lands as fresh with the data from before
  (`Outlives`);
- a history read under way when a card is revoked, or sent by the loader of the status
  page without an order, caches a 404 on which the page of the next order throws; a
  status read under way then shows the revoked card as fresh again (`untimely`);
- a revocation sent again by a form that was left and entered again deletes the order
  that is there by then (`causes`, `"hasty"` and `"astray"`);
- a login answered over another session mixes the data of two users (`mixed`);
- a rollback restores the wrong template (`blurred`).

Refinement. `BrokerLedger` maps the tables to the ledger: a commit appends a group
of entries that chain, pay each trade, give the fee to the owner, and change
the holdings by the quantities traded. It holds when sessions run one at a time
and fails as soon as two overlap, which is the point: `broker_interleaved` checks
what survives, and the proofs extend it to any number of sessions.
With overlapping purchases, for one, an account can have two rows for an
instrument, on which `GetInstruments` throws (`OneRowPerHolding` is checked in
`broker_serial` only). `CardFlow` maps an order to the furthest status it has reached;
while nothing breaks it climbs the stages one by one, although `card_ordered`
may be recorded late: the WorkScheduler writes it without looking at the newest
status, which then reads as if the card were still to be made. The card is
inserted once; the shipping id is there before the order is said to be shipped, and a
second parcel may replace it where rows tie. When an answer is lost besides, so that
the card is ordered again, a second card can follow; `OneCardPerOrder` is claimed
only while nothing breaks.

Fairness. `LiveSpec` of `EngineBroker` is weak fairness of the ticks (the pool runs
what is due), of their answers and of the steps of a request (threads of the
runtime), and strong fairness of `Save` and of the steps of a batch, because
InnoDB grants row locks in order of arrival: who is blocked again and again is
served in between. A task that posts a closing is run (`Notify`, weakly fair), unless
its POST is lost. Nobody has to call start or stop, and `ExpiredIsClosed` promises
nothing once every schedule is cancelled. `LiveSpec` of
`CardFlow` is weak fairness of the schedulers (fixed rates) and of Spring's
requests, strong fairness of a card being made without a failure (four in five
succeed, independently), and the assumption that a crisis is ended. Both leave
out repeated failures: nothing promises progress when every call may break.
`FairSpec` of `FrontendSession` is weak fairness of the reads and their answers, of
the backend, of the answers being handled, and of redirects and arrivals, which
are effects that React runs; the user owes nothing. `FairSpec` of `ProblemOperator`
is weak fairness of the steps of the operator, whose ticker goes on after any
error, and of the controller of the cluster; the flag may change for ever, and
`FlagReachesCluster` then promises nothing.

## 4. Proofs

`Broker_proofs` proves for all accounts, instruments, requests, batches, prices
and opening tables that satisfy `BrokerAssumption`:

- `TypeCorrect`: `Spec => []TypeOK`
- `HoldingsNeverNegative`: `Spec => []NoNegativeHolding`
- `HistoryExplainsBalance`: `Spec => []LastEntryMatchesBalance`
- `PreparedWorkIsSound`: `Spec => []UnitsSound`
- `ClosingsAreAnnounced`: `Spec => []ClosedIsAnnounced`

The inductive invariant is `IInv`, the conjunction of the first four. The two
properties of the tables are not inductive by themselves: a save writes what was
computed earlier from values that may be stale by now. `UnitsSound` is what makes
it work: every unit of work, at every moment, carries quantities that are not
negative and, for each balance it will write, rows ending in that very value. So
whatever else has been committed since the read, this commit restores the two
properties for the rows it touches. This is why lost updates, which are in the
model, cannot break them. The proof has lemmas for each operator that changes a
unit of work (`UpdateBalance`, `Acquire`, ...), one for `Commit`, one for each
action, and `Invariance` puts them together. `ClosingsAreAnnounced` says that the task
which posts a closing was started before the closing is committed. It needs `AllPromised`
besides: of the long trades that a unit of work is about to close the tasks have been
started, and those that it creates are open. That the POST arrives is a liveness
property (`ClosedIsTold`), and only model-checked.

`BrokerSerial_proofs` builds on `IInv` and proves what depends on how sessions
overlap. Its assumptions are those under which the code can promise it:

- Assumed `Serial` (one session at a time): `ChainsAreUnbroken`
  (`Spec => []ChainUnbroken`), `OverdraftsAreSales` (`Spec => OnlySalesOverdraw`) and, if
  `OneRow(OpeningOwned)`, `HoldingsStayUnique` (`Spec => []OneRowPerHolding`). The
  inductive invariant is `IInv /\ SInv`: whatever the session at work has read and
  not changed is still what the tables say (`Faithful`, `SameRows`), the rows it has
  prepared go on where the history ends (`Follows`), and each balance it leaves
  negative belongs to an account that sells (`Covered`). None of the three
  properties is inductive alone, for a commit writes what was read long before.
- Assumed `OneBatch` (serial, or at most one batch; any number of requests
  interleave with it): `ClosedTradesStayClosed` (`Spec => ClosedForGood`) and, if
  `OpeningClosed`, `TradesArePaidOnce` (`Spec => []ThreeEntriesPerTrade`). The inductive
  invariant is `IInv /\ CInv`: what a batch is about to close, or has still to look
  at, is open, and a unit of work has, for each trade it executes, one row of
  each kind (`Counted`). That batches do not overlap is `OneBatchAtATime` below, as long
  as nothing breaks; with two of them both properties are false.

`OneRow(OpeningOwned)` and `OpeningClosed` hold of the sample data that the database
is created with (`sql-ownedinstruments.sql`: no account has two of the 1575 rows for
an instrument; `sql-trades.sql`: all 11690 trades are closed), and of the instances that
TLC checks.

`Engine_proofs` proves for all calls, schedules and batches:

- `StatusRunningIsTrue`: `EngineSpec => []RunningIsTrue`. Its inductive invariant
  `EngineInv` (`EngineInvariance`) says that a cancelled schedule still in the field is about to be
  cleared by the stop that cancelled it, and that nobody knows a schedule before
  it is assigned; so no call can cancel it earlier.
- `ComposedBehaviour`: `EngineBrokerSpec => EngineSpec /\ Spec`, by which the theorems
  of both modules hold of the composition.
- `OneBatchAtATime`: `EngineBrokerSpec => []BatchesExplained`, for any number of
  leaked schedules; two calls of each kind leave some in `engine_progress`. Its inductive
  invariant counts the batches no tick waits for: each has cost a fault.

`FrontendSession_proofs` proves for all users, keys, pages, calls and versions:

- `TypeCorrect`: `Spec => []TypeOK`. Its invariant `IInv` is the type of the cache, of
  the calls, of the navigation and of the rest; each action only touches an
  entry by an operator of `QueryCache` (`Moved`, `Touched`), and these lemmas serve
  the other theorems too.
- `SessionsAreSeparate`: `Spec => []NoForeignData`, which is inductive together with
  `IInv`: without a session no step that keeps it so starts to read a user's data
  (`QuietWithoutSession`), and with one whatever is started is started for it
  (`MovedConcerns`).
- `NavigationsAreFed`: `Spec => []AwaitedIsRead`: a step that
  ends or replaces a fetch either starts another or tells the loader.
- `TradesAreReleased`: `Spec => []RefreshIsRead`: wherever the fetch of the balance, or
  of the instruments, ends or is replaced, those who wait for it are released in the
  same step (`WaitsForRead`).
- `WritesAreRead`: `Spec => []ReadYourWrites`. The property speaks of what is shown
  and is not inductive: a read that was served before a call may land after its
  answer, as fresh. The invariant `WritesSeen` follows reads in flight too: unless the
  key is in `outrun`, what has been served for the user is no older than what he is
  owed (`Reflects`), for the answer of a call cancels the read or, where it does not,
  names the key; and nobody is owed more than the backend holds (`Owes`), whose
  versions only grow (`VersionsGrow`). What the property leaves out is what the code
  does not provide: a key stays in `outrun` until something as new has landed.

`FrontendCards_proofs` proves for all entrances, slots, orders and faults:

- `TypeCorrect`: `Spec => []TypeOK`.
- `FormsReleased`: `Spec => []FormsAreReleased`.
- `CardShownIsRevoked`: `Spec => RevokesWhatItShows`. The invariant `RInv` says that,
  unless a form was hasty or another client has acted (`Sober`), at most one revocation
  is out, and one that can still delete something is about the order there is
  (`Revoking`): nobody else deletes it, so nobody can create another.
- `SettledPagesAreCurrent`: `Spec => []SettledIsCurrent`. The invariant `CInv` says that,
  as long as every answer is heard (`Heard`) and the query is not untimely, what is
  about to land is about the present order or an error (`Coming`), and so is what is
  fresh (`Current`), unless a call has been carried out whose answer is yet to
  invalidate the queries.
- `PagesNeverCrash`: `Spec => NoCrash`. Its invariant `HInv` has two parts. `SInv`, which
  needs no exemption at all, says that what the query of the status has shown, is about to
  show, and what the service holds are one sequence of orders (`InSequence`), and
  that a revocation that is out was sent about an order delivered by then
  (`Delivering`). The other part holds in `Calm` histories (no failed read, no other
  client, no revocation astray): the status is no error, an order said to be on its way
  is the one there is (`OnItsWay`), and, unless it is untimely, the history is only read
  while there is an order and is no error (`HistoryFits`). The status page is rendered
  only for an order on its way, and throws only on an error of the history.

None of these needs an assumption about `Entrances`: loading the status page without an
order, which makes its loader read the history of none, is one of the ways to an
untimely history.

`CardFlow_proofs` proves for all accounts, orders, requests and updates in progress:

- `StatusesAreBacked`: `Spec => []StatusIsBacked`, assumed `~Deletable`: an order
  that is deleted takes its card along, and an update on its way may still write
  its status. Whatever breaks or stops, the invariant `BInv` says that what an update is
  about to write is true already (`Backing`) and that no order and no card is ever removed.
- `OrdersAreAttended`: `Spec => []NoOrderStranded`, assumed `MaxFaults = 0`, for a
  stop between the two statements that create an order does strand it. The
  invariant `AInv` says who is at work on an order without a status: the request that
  creates it, an update that has been recorded, or a request that is deleting the orders
  of its account (`Attended`). The last may fail, because a card still
  refers to the order; but then its card has an update at work (`Carded`).

In these two, the processes of the third party take part as any sequence of
reports, of which the proofs only use that a parcel has a shipping id and an order.

`CardLifecycle_proofs` adds the processes and the threads that walk their lists:

- `FlowTypes`: `Spec => []TypeOK`, whatever breaks. The lemma `KeptList` says what
  a thread leaves in its list at the end of a walk: the processes not removed, each
  once and in their order.
- `OneCardEach` (`Spec => []OneCardPerOrder`), `ShippingIdKept`
  (`Spec => ShippingIdStable`) and `LifecycleImplemented` (`Spec => ImplementsLifecycle`)
  are assumed `Reliable`, the assumption under which `CardLifecycle` is promised:
  `MaxFaults = 0`, `Timely`, `~Deletable` and `CardKeyGenerated`. Without the first a
  broken call can be followed by a second card, without `Timely` a late `card_ordered`
  becomes the newest row of a shipped order, a deletion takes the card along, and with a
  table that cannot store cards, as the one of `db-mysql/dump.sql`, an order is shipped
  without one. Rows may tie all the same: `ShippingIdKept` says that the id stays while
  the newest row of the order is alone in its second. How many orders,
  requests and updates in progress there are, and how often a card fails or a walk
  is disturbed, is left open.

The inductive invariant of these three is `LInv`: the types, `BInv`, and `Lasting`, which
follows an order through both services. `CardFits` says that the card of an order
has one process at the manufacturer, one row, and one update that writes it;
`ParcelFits` that a parcel exists only for a card that is recorded and, once one is said
to be shipped, that the newest row is of that kind or of the delivery, so that the
sequence check refuses every second parcel unless rows tie; `OrderFits` that what
the WorkScheduler has listed has not been posted before. `OneProcess`, `Called` (a
thread waits for the one update it has reported) and `Creators` (nobody else is about to
write the first status) connect them. None of the three properties is
inductive: that a card is inserted once depends on the list of another
service holding its order once, and on an update on its way in between. For the
refinement, the stage of an order is the furthest of its statuses, and
`LifeNextStep` shows for each statement that the stage stays or climbs to the
next one (`Furthest`), that a card is inserted at stage 1 or 2 and a shipping id
set at stage 3 or replaced later.

`ProblemOperator_proofs` proves for any number of changes, faults and releases:

- `ToggleIsShown`: `Spec => []AnnouncedIsShown`. Its invariant `PageInv` says that
  while a toggle waits, the list is being read and no answer on its way is
  older than the toggle.
- `RollbackRestores`: `Spec => []ClusterMatches`. Its invariant `ClusterInv` describes
  the replica sets (one for each template and revision, the highest that of the
  deployment once the controller has caught up) and says that, unless `blurred`,
  the revision before an applied problem is the release without it
  (`Restorable`), and that a copy the operator still may write is one of the
  deployment as it is (`OpInv`).
- `OperatorTypes`: `Spec => []TypeOK`, by the two invariants above and a third, `Shape`,
  for what they do not mention.

Only model-checked: liveness (no backend handles fairness or ENABLED), the
refinement of `Ledger` (it sums changes over sets, a recursion whose value no
installed prover can derive), and `OwnerReceivesFees`, which the code violates.

## 5. Not modelled

- *aggregator-service*: a goroutine per platform that counts its own failures and
  pauses; platforms share nothing, and the clock is stopped by its tests only.
- *loginservice, accountservice, manager*: an account is saved and then its
  balance; a stop in between leaves an account without one, which the broker
  modules exclude by their opening tables.
- *pricing-service, RabbitMQ, calculationservice, contentcreator*: they produce
  prices and nothing reads them back; prices are chosen freely in `Broker`.
- *offerservice, reverse proxy, loadgen*: without state of the system.
- *plug-ins of the services* (delays, refusals): they lengthen a call or refuse it,
  which the modules allow at any time.
- *database scripts, fraud detection, manifests*: data and configuration. Keys and
  column types are modelled where they matter.

What could be proved next: the refinement of `Ledger`, if its sums are stated as a
history that every movement extends; and how the services that are not modelled
keep their accounts.

# Verification project for mariadb++

TLA+ modules that model the C++ client library `mariadb++` (`src/src`, `src/include/mariadb++`),
TLC configurations that check them on small instances, and TLAPS proofs about
every state machine of the project: the command queue, connections, transactions, result sets, the time classes and the data buffer. All paths below are relative to the repository's
parent, as in `PROJECT.json`.

## 1. The system

| component | state it keeps | operations | interacts with |
|---|---|---|---|
| `concurrency` (concurrency.cpp) | `g_querys_in`, `g_querys_out`, `g_next_handle`, `g_thread_running`, `g_mutex` | `execute`, `insert`, `query` (all through `add`), `worker_status`, `wait_handle`, the `get_*_result` calls, `release_handle`, `set_account` | spawns detached threads running `worker_thread()`; owns `worker` objects |
| `worker` (worker.cpp) | `m_status`, `m_result`, `m_result_set`, `m_keep_handle` | `execute()` on a thread, getters on the clients' threads | a `connection`, its own or that of a statement |
| `connection` | `m_mysql`, cached `m_auto_commit`, `m_schema`, `m_charset` | `connect`, `disconnect`, setters, `query`, `execute`, `insert`, `create_statement`, `create_transaction` | the server's session, which can vanish at any time |
| `transaction`, `save_point` | `m_connection`, `m_save_points`; `m_transaction`, `m_name` | constructor, `commit`, `create_save_point`, destructors | raw pointers to each other; commands through the connection |
| `statement`, `bind` | `MYSQL_STMT`, bind buffers | setters, `execute`, `insert`, `query` | shared with the `result_set` it returns |
| `result_set` | the row, buffers, `m_was_fetched` | `next`, `set_row_index`, typed getters | the result of a connection or the `MYSQL_STMT` of a statement |
| `time`, `date_time`, `time_span` | broken-down fields | checked setters, `add_*`, `subtract`, differences, text | each other |
| `data`, `decimal`, `account`, exceptions | values | getters, setters, conversions | - |

The hard behaviours, and the properties that matter:

- *concurrency*: a flag that is set by the spawned thread and reset outside the mutex;
  `worker` objects deleted by a thread or by a client; fields read without the mutex.
  A queued command must be executed, once, and its worker deleted, once, after the
  last use; a caller must be told the truth.
- *connection*: every operation reconnects silently. What the object caches must
  describe the new session too, and the recursion of `connect()` through the setters must end.
- *transaction / save_point*: silently reconnecting means silently leaving the
  transaction; destruction in any order; the server keeps save points as a stack.
- *result_set*: two result sets of one statement share the `MYSQL_STMT`; a NULL column
  leaves the buffers of the previous row; row indices at the ends. Those of plain queries may lie on the link of
  the connection, which they block, and which may be lost or closed under them.
- *time classes*: carries and borrows, leap years, negative amounts; the ways to the server and back.
- *data*: positions and sizes as unsigned numbers.

## 2. Modules

| module | models | kind |
|---|---|---|
| `CommandQueue` | what the namespace `concurrency` promises a caller | abstract specification |
| `Concurrency` | concurrency.cpp and worker.cpp | detailed specification; implements `CommandQueue` |
| `MCConcurrency` | - | constants for TLC |
| `ConcurrencyProofs` | - | theorems about `Concurrency`, whatever the clients do |
| `DisciplineProofs` | - | theorems about `Concurrency` for disciplined clients, with the refinement of `CommandQueue` |
| `Connection`, `MCConnection` | connection.cpp, the set-up part of `worker::execute()` | state machine with a call stack |
| `ConnectionProofs` | - | theorems about `Connection` |
| `Transaction` | transaction.cpp, save_point.cpp | state machine, client objects against the server's session |
| `TransactionProofs` | - | theorems about `Transaction` |
| `TimeOfDay` | time.cpp, time_span.cpp | operators |
| `Calendar`, `MCCalendar` | date_time.cpp | operators, and a caller who strings them together |
| `CalendarProofs`, `ArithmeticProofs` | - | lemmas about `TimeOfDay`, theorems about `Calendar` |
| `Conversion` | integers in conversion_helper.hpp, the union of bind.hpp, the getters of result_set.cpp | operators |
| `ResultSet`, `MCResultSet` | statement.cpp, bind.cpp, result_set.cpp | state machine, result sets over one `MYSQL_STMT` |
| `ResultSetProofs` | - | lemmas about `Conversion`, theorems about `ResultSet` |
| `RowCursor` | what a result set promises its user | abstract specification |
| `QueryResult`, `MCQueryResult` | the plain queries of result_set.cpp and connection.cpp | state machine, result sets over one link; implements `RowCursor`; extends `DataStream` |
| `DataStream` | data.hpp | state machine |
| `QueryResultProofs` | - | theorems about `DataStream` and `QueryResult`, with the refinement of `RowCursor` |

Definitions named as mutants in a comment are deliberate bugs, one per checked property;
replacing the definition that follows by its mutant makes TLC report the property.

### Concurrency

A thread is identified by the number of the `add()` that spawned it. One action is one
critical section, or one access to shared memory outside the mutex:
`Add` (from `new worker` to the `std::thread` constructor, with `SpawnMayFail` the
constructor throws after both containers were filled), `ThreadStart` (line 40), `Take`
and `FindEmpty` (the critical section of the loop), `Begin`, `StoreResult`, `Publish`,
`Fail` (the plain stores of `worker::execute()`; with `WeakStores` the store of `m_status` may be
seen first: `PublishEarly`, `StoreLate`), `Retire` (the unlocked read of `keep_handle()` and the
`delete`), `Leave` (line 63). A client is in a `call`: `GetWorker` takes the mutex and
leaves with a reference `ref`, and `ReturnStatus`, `WaitLoop`/`Proceed`/`WaitReturn`, `ReturnResult` read
through it later, so a release in between is visible. A read through a
deleted worker (`ExecuteFreed`, `RetireFreed`, `ReturnFreedResult`) sets `corrupted`, after which nothing more is claimed.
`MayUse` and `MayRelease` are the application's discipline, a parameter: `"anytime"`,
or `"finished"` (release after being told the outcome, as GeneralTest.cpp does).

### Connection

`todo` is the call stack of the operation in progress, innermost call first. `connect()`
expands to `Open` and then to `Setup`: `set_auto_commit`, `set_schema`, the options, each of which
calls `connect()` again. The server can end the session (`Lose`) between any two
steps, and refuse a request (`Refuse`); both throw, which empties the stack. The cached settings and the
session's are separate variables. `unread` are the results a `query()` or `insert()` of several statements has left
on the link, with which `mysql_ping()` fails and `mysql_real_connect()` refuses the handle. `account` is chosen in `Init` and never changes.

### Transaction

`session` is the server's side: live, in a transaction, isolation level pending, and
`log`, its uncommitted writes and save points in order. `Reached` is the session a command finds after
`connect()`: the same one, or a fresh one. `mysql_commit()` and `mysql_rollback()` do not reconnect. `made` remembers in which
transaction and after which save points the user made each write. A save point that is released at the server leaves no trace in `log` but may leave gaps in the
list of a transaction. `remove_save_point()` erases what `std::remove` leaves behind, which is one element, as `PointersValid` has each save point listed once: `RemoveFirst`. `crashed` is undefined behaviour
(`erase(end())` in `remove_save_point`, a null or freed `MYSQL`, a freed connection) or an exception leaving a destructor. `handle` is `m_mysql`:
null before the first `connect()` and after `disconnect()`, gone with the connection object; every command makes it anew (`Executes`), but
`mysql_commit()` and `mysql_rollback()` take it as it is (`EndOnNoHandle`). `hit`, `ordered`, `ending` and `left` are history variables that state the conditions under which the weaker properties hold:
a session ended under a transaction, save points were ended out of order, which transactions the user has ended, and which he had not when he closed the connection.

### TimeOfDay and Calendar

An operation that may throw is a set of results: empty when it throws, one member otherwise. The checked
setters are `SetHour`, `SetMonth`, ... with their integer parameter cut to its width (`U8`, `U16`);
every addition is built from them in the code's order, with C++'s division (`Quot`, `Rem`).
A `time_span` is a sign and a magnitude. The caller of `Calendar` owns a `date_time` and
a `time` that starts at the same time of day and applies the same operation to both; `date'` is what it keeps
when the call throws or returns. The constructors and `set(...)` take any fields (`Init`, `Assign`, `AssignDate`); of a date that does not exist `Uncountable`, `CountOfDays` and
`LengthsRead` say what reading beyond `g_month_lengths` (date_time.cpp:479, 491) can yield. `DayNumber`, `Instant` and `Later` are the reference: the closed formula for leap
days, which shares no code with the loops of the model. The loops over months and years (`DaysBefore`, `RollYears`, `DaysOfYears`) are recursive functions, and a difference
(`Span`, `TimeBetween`) is again a set, empty when a setter of `time_span` refuses a part, which only leap seconds and dates that do not exist bring about. `MysqlTime`, `DateOfMysql` and their like are the way of a prepared statement, `DateParse` of
a column's text that of a plain query; the column keeps 0, 3 or 6 decimals of a second, no leap second and no year after 9999 (`Stored`).

### ResultSet

One statement with one parameter, executed up to `MaxExecutions` times by `query()` (which makes the next of the result sets `sets`) or by
`execute()` and `insert()`. A result set is its bind of a text column (`data`, `length`, `error`, and `room`, the capacity in the copy the connector took at
`mysql_stmt_bind_result()`) and its union for an integer column. `moved` counts the allocations
`resize()` made, so that a fetch through the connector's copy into the replaced buffer (`damaged`) and a stale `m_row` are
visible. `rows`, `at` and `spoiled` are history: what the user of that result set is entitled to expect. A call of `next()` is a `Fetch`, a `FetchFails` (an error of `mysql_stmt_fetch()` while rows are on the server: told as the end, and the rows are `spoiled`) or a
`FetchCutShort` (a row that was cut off is not fetched again: `new` throws out of `resize()`, or `mysql_stmt_fetch_column()` fails; the result set is then `touched`). `store` is
`account::store_result()`, chosen in `Init`. Texts are short sequences of bytes; integers have fewer bits than in C++ but
keep the order of their widths (`Bits`), and every mask, cast and wrap is relative to them.

`stmt.bound` is the result set whose binds the connector copied last. Any result set may be fetched from: `FetchRow` fills the buffers of the bound one,
and the result set that was asked looks at its own error flags. One that is asked after the statement was executed again is `outdated`, and the bound one `touched`; of these no rows are promised, and
`FetchTouchesOwn`, `BuffersSound` and `NextHonest` say what such a call cannot do.
`set_row_index()` is used with stored rows only, as the C API demands. Setters that return at once for an empty pointer (`set_blob`, `set_data`) change nothing and have no action.

### QueryResult and DataStream

The link of a connection holds at most one unread result (`reader`) and results of further statements (`more`); with either, any other command is refused
(`Refused`). `connect()` and the command are one step here, since `Connection` has their nesting: `Command` makes a new handle after `disconnect()`.
A stored result is copied to the client, another is read off the link row by row: `holds` is the row in the receive buffer, which the next one
overwrites. `mysql` and `handles` number the `MYSQL` objects, so that a result set that goes to a freed one is seen (`UseFreed`); `UseNothing` are the calls that do not ask
whether there is a result. After either nothing more is claimed.
A loss while rows are stored (`QueryCutOff`) or read (`NextEnds` of a link that is not alive) looks like no result and like the end. The refinement mapping of `ImplementsCursor` shows a result set as
a cursor: its rows, the row in memory, the row that was asked for last, and whether the link was lost or closed by the user.

`DataStream` is the object `get_data()` returns: allocated bytes, `m_size`, `m_position`, and unsigned arithmetic modulo `Width`. `misplaced` is history: the position was left
uninitialised by `data()`, or the size shrank below, and neither `create()` nor `seek()` has set it since.

## 3. Runs

| run | what it shows | bounds |
|---|---|---|
| `threads` | Under any use of the API, including two clients releasing each other's handles, unordered stores and failing thread creation: the queue keeps its order, a worker has one executor, the flag is honest, the output map holds live workers only, nothing leaks, an outcome is final | 2 commands, 2 clients, 2 threads |
| `disciplined` | With the discipline, and unordered stores: no unfinished worker is deleted, references stay valid, the caller is told the truth and reads the answer unless its store is outstanding, the whole implements `CommandQueue`, and (liveness) a command queued while a thread will still look at the queue is executed and its waiter returns, also when later threads fail to start | 2 commands, 1 client, 2 threads |
| `lost_wakeup` | *violation*: a waiter that never returns | 2 commands |
| `statement` | *violation*: two threads in one prepared statement | 2 commands |
| `release` | *violation*: the thread's last read of a worker after its release | 1 command |
| `reconnect` | The cached settings, that a connected session has the account's schema, which operations throw, and that every operation ends | 8 accounts, 2 schemas, 2 losses, 1 refusal |
| `worker` | *violation*: a worker's command without auto commit | none needed |
| `kept` | Transactions and save points in any order with a loss or `disconnect()` | 2 transactions, 3 save points, 2 writes, 1 loss or disconnect |
| `lost_commit` | *violation*: `commit()` after a loss | 1 of each |
| `calendar` | Results of valid dates stay valid whether or not a call throws; additions meet the reference calendar; differences and comparison fit them; dates and times survive the way to the server and back | 5 starts at the ends of months, leap years and a century, 3 whose fields are no date, 2 operations in a row, 4 to 8 amounts of each unit |
| `rows` | Each result set shows the row that is due, complete, from sound buffers; NULL and end are told, with fetches that fail or run out of memory; a fetch leaves the others alone; integers mean the same in both protocols; the parameter set is sent | 3 executions (1 with a parameter set), 2 result sets, 1 outdated call, 2 results with up to 3 rows, 2 settings of the parameter, 3 integer types |
| `plain` | Each result set of a plain query is a `RowCursor`; one with unread rows has the link to itself; the data object stays within its array | 2 result sets at a time, 3 results, 2 handles, 1 loss, sizes up to 2 modulo 3 |

Why the bounds are enough: two commands give two threads, the second spawned before the first
has set the flag, after it has taken the second command, or between its last look and its reset; two clients give a
release inside another's call. In `Connection` two losses hit both
the outer and a nested `connect()`. Two transactions let one outlive its session
while the next is open; three save points give one below and one above the one that is ended.
Two calendar operations put every kind of result (clamped, carried, thrown) before every operation, and the amounts cross each base once
and several times in both directions. In `rows` two executions give an older and a newer result set, a third one without a result set between or after them; the results have a text that grows beyond the buffer, one that shrinks,
an empty one, and NULL before and after a value, and the least and greatest number of each type; three types differ in width and sign, and `NumbersAreRead` covers the others. In `disciplined` one client suffices, as
clients that keep their handles to themselves meet only in the queue, where the second command of one is as good as that of another; `threads` has two,
and the proofs of `DisciplineProofs` cover any number.
In `plain` two handles let a result set of the first meet a reconnection to the second, and one loss hits a
stored query, an unread result, or neither.

`CHECK_DEADLOCK FALSE` is given where the bounded users stop adding commands, or the program has crashed.

**Fairness.** `Concurrency!FairSpec` has weak fairness on each thread's steps and on each call in progress: the
operating system schedules threads, and no step blocks for ever (the mutex is held for finite
sections; each command is answered or fails). It assumes nothing of the clients' choices. `Connection!FairSpec` has weak fairness on the
steps of the call in progress: the C connector answers or fails. `Transaction` states no liveness.

**What the violations say.** `WaitReturns` fails because `worker_thread()` gives up the mutex before it resets
`g_thread_running`; `Served` is the part that holds. `ReleaseIsSafe` fails in the line after `execute()`. `StatementNotShared` fails because the
flag is set by the spawned thread, not by `start_thread()`. `WorkerCommits` fails for accounts without auto commit, since the setter returns early
for the cached value of a new object, and the `connect()` that follows it applies the account's setting.
`CommitsAll` fails as `commit()` ignores the result of `mysql_commit()`.

The code also contradicts these docs, without a run of its own; the models follow the code, and the properties are stated around it:

| doc | code |
|---|---|
| concurrency.hpp:76 "Query executed, result ready to be used" | `m_result` and `m_status` are plain fields read outside the mutex (worker.cpp:105, concurrency.cpp:139-152): after "succeed" the initial `m_result` may be read. `ToldTruth` is the part that holds |
| date_time.hpp:152, 162 "Invalid dates will throw an exception", :23 "An exception will be thrown on invalid data" | `set(...)` and the constructors assign the fields unchecked (date_time.cpp:113-126, time.cpp:107-113). `FieldsValid` is about everything else |
| date_time.hpp:366 "Precision is limited to seconds", :66 "No milliseconds will be set", time.hpp:279 "with no milliseconds" | milliseconds are sent (date_time.cpp:534, time.cpp:319) and read back (date_time.cpp:55, time.cpp:46). `RoundTrips` says that they survive |
| date_time.hpp:193 "Add months to current date with year wrapping" | a sum of 12 months leaves month 0 (date_time.cpp:211): reaching a December throws. `AdditionIsExact` excepts it |
| date_time.hpp:254 `subtract`, :265 "Substract a mariadb::time from the date_time" | a field that borrows is left at `base - x` with a negative `x` (date_time.cpp:263, 288), and the larger field does not go back (:291). `AdditionIsExact` is about steps without a borrow |
| result_set.hpp:146 "True if next row exists" | every error of `mysql_stmt_fetch()` is told as the end (result_set.cpp:213), with rows left on the server when the link is lost or the query killed. `NextHonest` allows it after a failed fetch only |
| result_set.cpp:219 "make sure no access to results is possible until a result is successfully fetched" | `m_was_fetched` is assigned after `fetch_truncated()` (:212), out of which `new` throws when there is no memory for a longer text: it keeps its value. (`resize()` never returns false.) `Undisturbed` excepts such result sets |

Conditions in the passing properties that are needed, with what happens without them (each was seen as a counterexample of TLC):

- `AutoCommitHonest` needs `account.auto_commit`: the early return (connection.cpp:73) is wrong after a reconnect when the
  account has it off. `SchemaHonest` needs a schema in the account: `set_schema()` is not repeated. Both
  need a server that refuses nothing: a failing set-up throws before it closes the link, and the next `connect()` finds it up.
- `ThrowsOnlyOnFault` excludes accounts with named options: `connect()` demands one affected row of a `SET` (connection.cpp:132).
- `HeldBack`, `IsolationKept`, `RollbackOwn` need `~hit`: a write after a loss is durable at once; the
  isolation level and `START TRANSACTION` are two commands; a destructor rolls back a later transaction.
- `EndIsSafe` excepts the transactions left behind when the user closes the connection: their `commit()` and destructor pass a null or freed
  `m_mysql` to the client library (transaction.cpp:40, 54).
- `ListMirrorsServer` needs `ordered`: releasing a save point releases the later ones at the server, whose destructors then throw.
- `ToldTruth` lets a caller read the initial `m_result` while the store of the answer is outstanding (`StoreOutstanding`): C++ promises no order of plain stores.
- `Served` ends with a corrupted program: its thread may read a worker the client has released (the finding of `release`).
- `ImplementsCursor` lets the rows end early after a lost link, and a query cut off look like one without result: `mysql_fetch_row()` and `mysql_store_result()` return null for
  both, and neither `next()` (result_set.cpp:216) nor the constructor (result_set.cpp:22) asks `mysql_errno()`.
- `ReaderOwnsLink` excepts result sets the user closed the connection under: `next()` and the destructor then use a freed `MYSQL`.
- `StreamInBounds` needs a position that was set: `data()` leaves it uninitialised (data.hpp:27), and after `resize()` to less than the position the
  bytes left wrap around to almost 2^32 (data.hpp:137), so that `read()` and `write()` leave the array.

Weaker than one would hope are also the properties of the time classes and of the result sets. What the code does instead:

- `FieldsValid` and all that follows is about dates of the calendar: `set(...)` and the constructors make others (ParameterizedQueryTest.cpp:63 has `date_time(0, 0, 0)`), from which nothing is claimed.
- `AdditionIsExact` is about amounts that are not negative, and days, and hours that borrow no day, back within the year. Backwards, a borrow leaves `base - x` with `x`
  negative (date_time.cpp:261): an hour, minute or millisecond is then refused and the call throws, and a second of 61 is accepted as a leap second. A negative
  carry is dropped (`if (hours > 0)`, date_time.cpp:291). `add_days()` backwards subtracts the length of the year it leaves, and hands day 0 to a setter that refuses it (date_time.cpp:237).
- In `AdditionIsExact` months may also throw: a sum of 12, 24, ... leaves month 0 (date_time.cpp:211), so adding months to reach a December throws,
  although date_time.hpp:193 speaks of year wrapping. And the day becomes the first not only in a month too short for it: the year is moved before the month, so 29 February 2000 and 13 months is 1 March 2001 (date_time.cpp:137, 219);
  `DayIsKept` is that rule.
- `ClockIsExact` lets `time` throw for more than a day backwards: `(hours + hour() + 24) % 24` is then negative (time.cpp:172).
- `time::add()` and `subtract()` with a `time_span` drop the results of their additions and return the time unchanged (time.cpp:254; time.hpp:227 says "Time containing sum").
- `RoundTrips` through text is about columns of 0 or 3 decimals: with 6, `time::set()` takes the microseconds for milliseconds (time.cpp:391) and throws, or reads
  .000500 as half a second. As `MYSQL_TIME`, a TIME of more than a day is cut to 8 bits of hours, and a negative one loses its sign (time.cpp:46); times this library sends are neither. Leap seconds and years after 9999, which the fields of a `date_time` hold and a column does not, are excepted.
- `DifferenceCounts` excludes, for the comparison, two negative spans: `compare()` compares their magnitudes (time_span.cpp:32).
- Both stop at the year 65535: the year is a `u16` (date_time.cpp:197), and beyond it an addition starts again from 0 or throws. The amounts stay `MaxAmount` away from the ends of `s32`,
  where the sum of an amount and a field would overflow.
- `NoLeapSecond`: the fields admit seconds of 60 and 61, additions and differences do not count them. The difference of a date with a leap second may even be refused by the setters of `time_span`,
  or, where the date at which the count stops falls into the next year (date_time.cpp:407), count some 364 days.
- `BuffersSound` says of an outdated result set only that its getters stay in the buffer. Its fetches do not: when the statement is executed again by `execute()` with a longer text, the first fetch has to
  grow the buffer (bind.cpp:51), and the next one goes through the connector's copy of the bind, made once at result_set.cpp:67, to the allocation that was replaced. A run with two outdated calls showed it.
- `RowShown` and `NextHonest` exclude result sets fetched from after another execution, the newest one they took a row from, and those with a row that was cut off and not fetched again (`Undisturbed`).
- `NextHonest` allows the end after a fetch that failed: the two are not told apart.
- `NextHonest` excludes result sets another of which was destroyed: the destructor frees the rows of the statement, whosever they are (result_set.cpp:88). In
  `rs = stmt->query()` with `rs` holding the result set before, the new rows are gone before the first `next()`.
- `RowShown` says nothing of a NULL's text: `get_string()` then returns the text of the row before (or unwritten bytes); a plain query's returns an
  empty string, as ParameterizedQueryTest.cpp:72 expects of a single row.
- `NumbersRead`: a statement's `get_signed8()` and `get_signed16()` return 0 for negative numbers (result_set.cpp:362), a plain query's do not.
- `ParamIsSent` excludes a number set after a date or a text, since `bind::set()` leaves the buffer there (bind.cpp:63).

## 4. Proofs

`ConcurrencyProofs` proves, for any number of clients, statements and commands, any discipline and with every fault enabled:
`TypeCorrect`, `QueueOrdered`, `OneExecutorEach`, `FlagIsHonest`, `OutAlwaysLive`, `NothingLeaks` and `OutcomeStands`. The assumption is
`ConcurrencyAssumption`, which TLC evaluates in every run.

The argument is one inductive invariant, `IInv`. `SingleExecutor` alone is not inductive: a thread could take from the queue a handle that another holds. Hence
`QueueInOrder` (the queue is exactly the interval of handles after the last taken), `HeldIsTaken` (held handles
are below that interval), `HeldOnce`, and with them `Fresh` (no worker exists above `next_handle`), `QueuedIsWaiting` and `HeldIsUnfinished`
(so `Begin` never overwrites an outcome, which gives `OutcomeIsFinal`), `OutIsKept` (a worker in the map has `keep` set, so no thread deletes it), and `LiveIsReachable`. `FlagHonest` needs
no help. The step lemma has one case per action and under it one step per conjunct.

`DisciplineProofs` proves `HandlesStayLive`, `ToldTruth` and the refinement `ImplementsPromise` for clients that keep their handles to themselves and release
one only when told its outcome (`Disciplined`), again for any number of them and of commands, with failing thread creation and unordered stores. On top of `IInv`, `DInv` says who may delete a worker: one that is kept only its owner, who was told its outcome, so no other call of a
client refers to it (`KnownApart`, `CallIsSound`); one that is not kept only its thread, after the outcome was published (`RetiredIsFinished`). So a
lookup that finds no worker any more, and the second lookup of `wait_handle()`, concern a worker that is finished or was never kept (`Settled`), and what is told
is its outcome, or "failed" of a command that cannot be looked up (`ReadIsSound`). `SInv` says that the answer is there before "succeed", or its store is outstanding.
Each step maps to a step of `CommandQueue` or to a stutter: `PromiseStep`.

`CalendarProofs` proves `FieldsStayValid`, `ClockStaysExact` and `WaysThereAndBack`, for all starts, amounts and numbers of calls, from `CalendarAssumption`. Validity
needs no arithmetic: `FieldsValid` is an action property, and every result leaves through a checked setter, so each operation but `Assign` and `AssignDate` maps valid dates to sets of valid dates; no invariant
is needed. Exactness of the clock needs the division: lemmas on `TimeOfDay` show that `Quot` and `Rem` split an amount, that `Carry` and the setter split each sum of fields,
and that each addition, in milliseconds, moves the time by the amount modulo a day; one lemma each for hours, minutes, seconds and milliseconds, from the larger unit to the smaller.
`RoundTrips` is about one state and follows from the validity it assumes: no field is cut on the way (`NarrowFields`), the column keeps the milliseconds or drops them (`KeptParts`), and the fields of a text are
found again where they were written (`Followed`, `AfterDate`), so that what is read is `Kept`, field by field.

`ArithmeticProofs` proves `AdditionStaysExact` and `DifferenceAlwaysCounts`, again for all starts, amounts and numbers of calls. Both speak of valid dates, so neither needs an invariant; the work is in the operators. A recursive sum is shown to be the closed formula
by its least counterexample (`LeastMember`): `MonthsSummed` and `YearsSummed`, with `LeapDays` and `YearLength` for the centuries; that such a function exists at all follows from the formula, which is a witness of its definition. The loop of `add_days()` need not end, so
`RollYears` has no value to compute: `RollsForward` is a descent on the years still to cross, and reaches the year and day that `YearStart` assigns to the day number. On top of it each unit adds exactly (`DaysExact`, `DateHoursExact`, ..., `MonthsExact`),
and an instant without a leap second is one number, `MillisecondNumber`, that the additions move (`DaysReach`, `HoursReach`, ...). For the differences, `DatesInOrder` says that `compare()` is the order of these numbers and that equal numbers are the same date,
`BetweenLasts` that `time_between()` yields one `time_span` which lasts their difference (`Lasts`), `SpansInOrder` that `compare()` of two of one sign is the order of what they last, and `SpanReaches` that adding one, part by part, arrives at the later date.

`ConnectionProofs` proves `TypeCorrect`, `AutoCommitIsHonest`, `SchemaIsHonest` and `ThrowsFromFault` for any accounts, schemas and character sets and any number of losses and
refusals, from `ConnectionAssumption`. `AutoCommitHonest` speaks of a connection between operations, so it is not inductive: in the middle of an operation a new session differs from what
is cached, and what makes that good is still on the call stack. `AutoCommitSound` therefore says of every state that the two agree or that the stack owes it: `AutoCommitPending`, a step that sets auto commit, is at its `apply` or will not
return early for the cached value, and no other stands before it. `SchemaSound` says the like, where any step that sets a schema will do, as `set_schema()` never returns early. `StackShape` is where `open` and the user's command can stand,
which the lemmas on `Continue` need; when `connect()` reconnects in the middle, `SetupSteps` gives the steps that are owed. `ThrowsOnlyOnFault` follows from `RequestsOnLink`: unless the link is up or the server was at fault in this operation, each
request on the stack has a `connect` or `open` above it.

`TransactionProofs` proves `TypeCorrect`, `PointersAreValid`, `EndsAreSafe`, `IsolationIsKept`, `SavePointsUndo`, `ChangesAreHeldBack`, `RollsBackOwn` and `ListsMirrorServer`, for any number of transactions, save points, writes and losses, with no
assumption but that the bounds are numbers. The invariant has four parts beside the types. `PointsInv`: the lists of the transactions hold live save points, each once, in the transaction it points to.
`SessionInv`: which transaction the session is in, and that with no loss at most one is open. `MadeInv` and `LogInv` follow each write from the statement to the log and the database: a write is logged while its transaction is open and the save points before it
are not undone, a save point stands in the log before exactly the writes made after it, and a durable write was made after no save point that is still in the log, so a later
`ROLLBACK TO` cannot touch it (`LogInv`; without it neither `SavePointUndoes` nor `HeldBack` is inductive). `ListMirrorsServer` has an invariant of its own on top, `MirrorInv`, for users who end save points in reverse order; it needs that the log holds each save point once (`PointsOnce`).

`QueryResultProofs` proves `StreamStaysInBounds` from `DataAssumption`, for every width and all sizes. `StreamInBounds` alone is not inductive: a
`resize()` that grows from a size that had shrunk needs that the size never exceeds the bytes allocated, also while the position is misplaced; `StreamInv` adds that. `RowDataInBounds` carries it over to the rows of result sets: each step of
`QueryResult` is a step of `DataStream` or leaves the buffer alone.
Of the result sets of plain queries it proves `ResultTypes`, `OwnedByReader` and the refinement `ResultSetsAreCursors`, for any results whose texts fit the counters of `data` (`QueryResultAssumption`) and any number of result sets, handles and losses. `ReaderOwnsLink`
is not inductive, as it says nothing of what has been read: `SetInv` adds, for each result set, where its cursor is, that one with a handle is the reader of the link unless the user closed the connection, that one without has come to its end, and that the
row it shows is the one in the receive buffer; `ReaderInv` that the reader of the link is a live result set with the handle of the connection. Each step then maps to a step of the cursor of each result set, or to a stutter, with one lemma per action.

`ResultSetProofs` proves all that the run `rows` checks, `RowsAreShown`, `NextIsHonest`, `BuffersAreSound`, `FetchesTouchOwn`, `NumbersAreRead`, `ParametersAreSent` and `TypeCorrect`, for any results of texts and numbers, any number of executions, result sets, outdated
calls and settings, and integers of any widths that keep the order of C++'s. The invariant says of each live result set that it is `Sound` (the connector's copy of the bind promises what `max_length` was, and no more than the buffer has, so with stored rows an up-to-date one
is never reallocated; without, the capacity is zero, so the connector writes nothing and `FetchTruncated` does), `Showing` (the row it shows is the one at `at`, and the low bytes of its union are those of the number), `Placed` (only the one bound last can belong
to the last execution) and `InStep` (the cursor of the statement is then where its user expects it, or the rows were freed). `FetchesTouchOwn` needs `Placed`: a result set that is not bound is outdated by its own call. The fetch itself is a chain of
lemmas, one per function: `FetchText`, `FetchNumber`, `Resize`, `Enlarged`, `FetchColumn`, `FetchTruncated`; a fetch that fails or is cut short has lemmas of its own (`FetchFailsDoes`, `FetchCutShortDoes`), which keep `Sound` and `Placed` and
leave the rest to `spoiled` and `touched`. That `WriteLow` replaces the low bytes and no others needs that the number of patterns of a shorter integer divides that of a longer one; the provers know nothing of
exponents, so `2 ^ n` is taken as the number of subsets of `1 .. n`, and `2 ^ (n + m) = 2 ^ n * 2 ^ m` as a bijection between sets of subsets (`PowerCounts`, `PowerAdds`).

The assumptions (`ConcurrencyAssumption`, `ConnectionAssumption`, `TransactionAssumption`, `CalendarAssumption`, `ConversionAssumption`, `ResultSetAssumption`, `DataAssumption`, `QueryResultAssumption`) say what kind of values the constants have, and are evaluated by TLC in the
runs; the limits on calls, losses and objects are any natural numbers.

Only model-checked: liveness (`Served`, and `OperationEnds` of `Connection`), which needs fairness and ENABLED, out of the prover's reach; and the violations, which are single behaviours.

## 5. Plan

1. Models: `Concurrency` with `CommandQueue`, `Connection`, `Transaction`, `Calendar`, `ResultSet`, `QueryResult` with `RowCursor` and `DataStream` - done.
2. Proofs: every safety property of the passing runs, and both refinements - done.
3. Models that remain: a transaction whose connection is also used by a worker, and the errors a loss leaves in `mysql_errno()`.

## 6. Not modelled

`set_account()` (a torn `shared_ptr` has no state to name), the destruction of static objects at process exit while the detached thread runs, `account`'s
getters, exceptions' texts, `decimal` and the floating point conversions (standard library), build files and tests.
In the time classes, the system clock and time zone (`now()`, `mktime()`, `diff_time()`), and `set()` from a string on an existing object (a time part
that is refused leaves the date changed, date_time.cpp:605).
In `ResultSet` and `QueryResult`, `column_*()` and the values of row counts, floating point, dates as columns (they are in `RoundTrips`), BIT columns, and the stream of `get_blob()`.
In `Transaction`, deadlock victims (the server undoes the transaction but keeps the session; for the objects this is the effect of `Lose`), and other commands on the
connection that leave results unread (`QueryResult`).

# A TLA+ verification of libklio

libklio stores time series. A *store* keeps *sensors* and, for each sensor, a
map from timestamps to values. The library has one abstract class, `Store`,
with the logic all backends share, and six backends: SQLite3, PostgreSQL,
Redis, RocksDB, text files, and the remote mySmartGrid (mSG) service. A handful
of command line tools open SQLite3 stores.

This directory models

* the store over SQLite3, the backend the factory, the tools and most tests use,
  in detail: what it keeps in memory, what it has written to the file, and what
  happens between the two when calls fail, transactions roll back, stores are
  synchronised or the process dies;
* the same public methods over each of the other five backends, with what the
  records of each do differently;
* two mechanisms below them: the cut of a flush into bulks and the cache of
  prepared statements;
* the command line tools as processes that share files, with schema creation,
  upgrades, and the Octave exporter.

## 1. The system

### Components, their state and their operations

| component | state | operations | correct when | modelled by |
|---|---|---|---|---|
| `Store` (`libklio/store.cpp`) | `_sensors_buffer`, `_external_ids_buffer`, `_reading_operations_buffer`, `_last_flush` | `start/commit/rollback_transaction`, `add/remove/update_sensor`, `add_reading(s)`, `update_readings`, the queries, `flush`, `sync`, `sync_readings`, `sync_sensors` | the three maps agree with each other and with the backend; buffering cannot be observed; no reading disappears | `StoreBuffers`, `Store`, `Flushing`, `BackendStore` |
| SQLite3 records (`libklio/sqlite3/sqlite3-store.cpp`) | table `sensors` with a unique external id, one table per sensor, a statement cache, the schema's version | record operations, `open`, `close`, `rotate`, `initialize`, `upgrade`, `check_integrity` | a refused record changes nothing; a restart finds what was committed; no statement is used after its end; an old file is refused or upgraded | `StoreBuffers`, `Store`, `Statements`, `Tools` |
| Transactions (`transaction.hpp`, `sqlite3-`, `postgresql-`, `redis-transaction.cpp`) | `_pending`, the connection's transaction | `start`, `commit`, `rollback`, the rollback of the destructor | nothing is kept before the commit; a handler ends only what it began | `Store`, `PostgreSQLRecords`, `RedisRecords`, against `TransactionalFile` |
| PostgreSQL store | tables `sensors` and `readings`, prepared statements | record statements, COPY for bulks | as SQLite3 | `PostgreSQLRecords` |
| Redis store | hashes and sets per sensor | commands, queued between MULTI and EXEC | as SQLite3 | `RedisRecords` |
| RocksDB store | a database of properties and one of readings per sensor | record operations | every sensor on disk is found again | `RocksDBRecords` |
| TXT store | two files per sensor | record operations that append lines | every sensor on disk is found again | `TXTRecords` |
| mSG store | a remote device, `_last_heartbeat` | HTTP requests, heartbeat | lost requests and answers do not lose data | `MSGRecords` |
| Store factory | – | create and open each kind of store | a store is prepared before it is used | `Create`, `Open`, `CheckIntegrity` in the above |
| Sensor, device types | a sensor's fields, changeable through any `Sensor::Ptr` | setters, comparison | – | `StoreBuffers` (one value), `UpdateSensorRefused` |
| CSV importer, Octave exporter | – | functions of lines and readings | nothing is lost or shifted | `Tools`, `OctaveScript` |
| JSON exporter, `collate`, time zones | – | formatting, tables | – | not modelled (section 7) |
| Command line tools (`src/src`) | an open store each | create, upgrade, check, sync; create and list sensors, add, dump, import, export readings | no tool destroys what another wrote; success means success | `Tools` |

### How they interact

A public method of `Store` asks the backend for a transaction handler
(`get_transaction_handler`), calls the backend's record operations, commits, and
then changes its buffers. With automatic commits every call has a handler of its
own, whose destructor rolls back what was not committed; with manual commits
there is one handler, the client's transaction, and methods refuse to run
outside it. Readings are not written when they are added: they wait in
`_reading_operations_buffer` until a flush, which happens when an addition finds
the flush timeout elapsed, before every query of the sensor, in
`commit_transaction`, or on request. `sync` calls the public queries of another
store and, inside one transaction, the same record operations and buffers. The
sensor objects are shared: the object a client gets from `get_sensor` is the one
in the buffer, and its setters change the buffer.

The library is single threaded. What makes it hard is the order of calls,
exceptions in the middle of a call, rollbacks that undo the database and not the
memory, and crashes. Concurrency comes from outside: tools are processes, they
share files through SQLite's locks, and nobody waits for a lock.

### Hard behaviours

`PROJECT.json` lists them as hazards, each at its line, with the properties that
would notice. The main ones: `set_buffers` moves and erases entries by external
id, from a map that is not always up to date; an exception half way through
`flush_all` or `sync`; a flush that falls due inside a sync and nests a handler,
which SQLite refuses, PostgreSQL warns about and Redis takes for success; a
`COMMIT` or `COPY` whose failure nobody looks at; queries that write; rollbacks
that have to rebuild the buffers; `rotate`, which refills a new file by two
committed statements per sensor; backends that keep fewer properties of a sensor
than memory has; statements that outlive their connection; a schema created one
statement at a time; lists that come out short because another process holds a
lock; requests lost before or after the server acted on them.

## 2. Modules

| module | what it is |
|---|---|
| `StoreBuffers` | the data and the pure functions: readings, tables, the three buffers, `set_buffers`, `clear_buffers`, `prepare`, and every outcome of `flush_all` |
| `Store` | the state machine of one store over one SQLite3 file: one action per public method, and the end of the process |
| `TransactionalFile` | abstract specification: what a transaction promises of what it writes to |
| `StoreProperties`, `MCStore` | properties of `Store`; constants and sources for TLC |
| `Flushing` | the loop of `Store::flush(sensor, ...)`: single insertions, bulks, exceptions |
| `Statements` | the statement cache of `SQLite3Store`, its members and connections |
| `SQLite3Connection` | the two together: flushes that need a cached statement, between `open`, `prepare`, `rotate`, `rollback_transaction` and `close` |
| `BackendData` | what the other five media have in common |
| `PostgreSQLRecords`, `RedisRecords`, `RocksDBRecords`, `TXTRecords`, `MSGRecords` | record methods, handlers and life cycle of one backend each, as operators from a medium to its possible successors |
| `BackendStore` | the public methods over any of the five: the dispatch of `Store`'s virtual methods |
| `BackendProperties`, `MCBackends` | properties; constants for TLC |
| `OctaveScript` | the Octave exporter's matrix, and a reference definition of it |
| `Tools`, `MCTools` | the tools as processes on shared files; scenarios for TLC |
| `NumberLemmas` | induction and least numbers, which the proofs about loops share |
| `StoreProofs`, `StoreContentsProofs` | theorems about `Store`: types, buffers and the file; and what the buffers and a store's answers hold |
| `SQLite3ConnectionProofs` | theorems about the mechanisms |
| `BackendProofs`, `BackendContentsProofs` | theorems about `BackendStore`: types, handlers and servers; and what is in memory and on the medium |
| `OctaveScriptProofs`, `ToolsProofs` | the exporter's loop writes the reference matrix; theorems about `Tools` |

Composition: `BackendStore` uses one instance of each records module and the
buffers of `StoreBuffers`; `SQLite3Connection` extends `Flushing` and
`Statements` and synchronises their actions; `Tools` extends `OctaveScript`.
`Store` and `BackendStore` are two state machines of the same methods, not one,
because SQLite3's is the detailed one (outcomes of a flush that fails half way,
crashes inside calls) and proofs are about it, while the others' media differ so
much that their records need operators of their own.

Definitions commented as *Mutant* are faulty variants of the definition that
follows them. No specification uses them: they show that a property would notice
such a fault.

### State of `Store`

| variable | in the code |
|---|---|
| `disk` | the committed content of the SQLite3 file: sensors with their tables |
| `conn` | what the connection reads: `disk` with the uncommitted writes of its transaction |
| `inTxn` | between `BEGIN` and `COMMIT` or `ROLLBACK`; with manual commits `_transaction->pending()` |
| `buf.sensors`, `buf.ids`, `buf.ops` | `_sensors_buffer`, `_external_ids_buffer`, `_reading_operations_buffer` |
| `due` | `now - _last_flush >= _flush_timeout` |
| `status` | `_db` is set; or the store is closed or its process gone; or so, and its file is one `check_integrity` refuses |
| `syncing` | the sensors a running `sync` has yet to visit, and whether it copies readings |

The code's options are constants: `AutoCommit`, `AutoFlush`. So is the
environment: `Clients` says what clients do besides adding and removing sensors
and readings ("redefine" sensors with `update_sensor`, "rename" their external
ids, update sensors "unknown" to the store), `Faults` what may fail outside the
library (a "commit" that SQLite refuses because another process holds the file;
a "source" that throws during a sync; the process itself in the middle of a
"rotation", between the two statements of a sensor), `Sources` the stores to
synchronise with,
`HomeExt` the external id each sensor is created with.

### Actions of `Store`

A method is one action with every change it makes; nothing can run between its
steps, except that the process can die, and then SQLite recovers either what was
committed before or, outside a transaction, what the statements so far wrote:
`CrashWhileWriting` in a flush, and in a rotation `CrashBeforeInitialized` (a file
`Open` refuses and only `Create` repairs), `CrashWhileRotating` (between two
sensors) and `CrashBeforeTable` (after the INSERT of a sensor and before its CREATE
TABLE). A row without its table has `readings = None`; `HasTable` is the guard of
what needs the table, and `RemoveSensorWithoutTable` the `remove_sensor` that has
deleted the row when DROP TABLE throws. `sync` alone is split, one action
per sensor (`SyncBegin`, `SyncSensor`, `SyncSourceFails`, `SyncEnd`), so that the
clock can run, a source can fail and the process can die between sensors while
its transaction is open. A call that throws before it changed anything is a
stuttering step and has no disjunct; a call that throws after it changed
something has one: `UpdateSensorRefused` (the client changed the shared object),
the second disjunct of `FlushAllOutcomes` (an insertion failed after others had
been written and cleared), the failing branches of `SyncSensor`.

`Finish` is the end of every call with a handler: with automatic commits it
commits, or, when the call throws or `COMMIT` is refused, the handler's
destructor rolls back; with manual commits the writes stay in the client's
transaction. `AddReadings` includes its `auto_flush`, `RollbackTransaction` its
`clear_buffers` and `prepare`, `Open` its `prepare`.

### `BackendStore` and the records

`srv` is the medium: `disk` is what a restart finds, `view` what the connection
will have made of it, `txn` the server's transaction ("aborted" once a statement
of PostgreSQL failed in it). `store` is chosen in `Init` and never changes, so
that one run covers all backends; `pending` is `_pending` of the handler; `beat`
says that the next mSG flush sends a heartbeat. Every record method is an
operator from a medium to the set of its outcomes, `[srv, ok]`, and
`BackendStore` threads the medium through the calls a method makes:
`Call` wraps a method in a handler that begins, commits or is destroyed as in
`Store::add_sensor`, and `FlushAll` runs through the sensors in every order,
insertions before updates, until one throws.

What differs: PostgreSQL's `BEGIN` inside a transaction warns and makes the inner
handler pending, so its `COMMIT` ends the outer one; a failed statement aborts the
transaction and later ones fail; `COPY` and `COMMIT` results are misread; the
table of readings outlives its sensors. Redis answers nothing while it queues; an
EXEC whose reply holds a 0 is taken for a failure although it was carried out.
RocksDB has no transaction, keeps readings in a memtable until it writes them out
or is closed (`PersistReadings`, `Crash`), and orders timestamps as text. TXT only
appends lines, of which the first for a key is read, and a reopened store knows
no sensor. mSG requests may be lost before or after the server acted on them
(`store.faulty`), and a heartbeat that fails keeps the readings; its queries answer
values the server derives from those it was sent, for all times but the first, as
the tests against it expect.

What a medium makes of a sensor's properties is a function: Redis, RocksDB and TXT
have no place for the device type (`WithoutDevice`: `Hash`, `Keys`, `Line`), and mSG
has none for the time zone either and takes Europe/Berlin (`AsPosted`: `Config`).

### `Flushing`, `Statements`, `SQLite3Connection`

`Flushing` numbers the readings one sensor has in memory and counts how often each
was handed to the backend in this flush; `BulksFor` is the `ceil` of the code. A
backend may throw after any hand-over. `Statements` names each prepared statement
by its connection and a number; `cache` is `_statements`, `own` the eight members,
`live` what was prepared and not finalized, `missing` the members
`prepare_statements` has not got to, so that a `prepare` that throws half way is a
behaviour. In `SQLite3Connection` each insertion of a flush takes its statement
from the cache, and the store's life cycle runs between flushes.

### `Tools`

A process has a command, goes through the phases of its tool (`pc`), and holds the
sensors it loaded when it opened each file (`known`). A file is its schema, its
version, its sensors and its readings; a statement is data, and `Refused` and
`Applied` say what it does to a file. `lock[f]` is the process whose transaction
has written to `f`. In a sync the first readings find a flush due, and later ones may:
600 seconds are over, and everything kept in memory until then is written. No tool sets
a busy timeout: a statement that meets another process' lock fails at once, readings'
insertions ignore that, other statements throw, a loop over rows takes it for the end of the rows, and a `COMMIT` that
meets a reader is only logged. A process can be killed at every point.
`Scenarios` lists files and up to three commands; one is chosen in `Init`.

### Abstractions

* A sensor's name, description, unit, timezone and device type are one value, which
  `WithoutDevice` and `AsPosted` map to the value without what a backend drops.
* The database engines and servers are external: SQLite3 (tables with a unique
  index, atomic and durable transactions, the locks of a rollback journal),
  PostgreSQL, Redis, RocksDB, the file system, the mSG service. Each is modelled by
  what the code's statements do to it. A `c_str()` of a temporary keeps its
  characters until it is used.
* In `Store` the statement cache only matters for a flush to a table that is gone:
  a cached statement fails when it is executed (an error a flush may ignore), a new
  one when it is prepared (an error no flush ignores). Which of the two happens is
  a nondeterministic choice there; `Statements` has the cache itself.
* In `Store` bulk and single insertions are one, because the SQLite3 records
  execute the same statements for both. They differ in `BackendStore`, and
  `Flushing` has the loop itself.
* In `BackendStore` clients keep a sensor's external id, redefine sensors they got,
  and make a new `Sensor` object for it; `Store` has the others.
* A crash outside a transaction is modelled within one sensor's statements; the
  other states a crash inside `flush_all` can leave are reached by a query of the
  sensors already flushed, followed by a crash.
* In `Tools` an insertion of readings is one statement per reading, as in the code;
  what a tool prints is left out, except the matrix of a script.

## 3. Runs

| run | instance | what it shows |
|---|---|---|
| `StoreAutoCommit` | automatic commits and flushes, 2 sensors, 2 external ids, 2 timestamps, orderly clients | the properties of `Store` for the factory's default store |
| `StoreManualCommit` | manual commits and flushes, 2 sensors, 1 timestamp | the same across transactions, rollbacks, closes and crashes |
| `StoreSharedId` | 2 uuids for 1 external id, 2 definitions, 2 values, 2 timestamps | `sync` maps sensors by external id, not by uuid, and the source's values win |
| `StoreFaults` | manual commits, automatic flushes, all clients, all faults, 2 sensors, a source that swapped their names | what holds even then: agreement of the buffers, nothing stored is lost, the file is transactional |
| `StoreLogger` | automatic commits and flushes, 2 sensors, 2 timestamps, rotations killed anywhere, with the fairness below | while every sensor has its table, pending readings leave memory, flushes are invisible and additions add, also in stores opened after the crash |
| `Backends` | the five other backends, with automatic and manual commits where there are transactions, with and without failing sources and requests: 10 stores, 2 sensors | what each backend keeps of the same promises |
| `Connection` | 5 readings, bulks of 2, 2 members, 2 other statements, 3 connections, 8 statements | flushes hand over each reading once; statements are used on their own connection |
| `Tools` | about 200 scenarios (files of every age, every pair of writers, syncs beside writers), and a script for each of the 4096 series with readings in a window of twelve times | what tools do to files they share |
| `DroppedReadings`, `FailedFlush`, `WriteOutsideTransaction` | small instances of `Store` | section 6 |
| `Queries` | the five other backends, with automatic commits and without failures | section 6 |

Bounds. *Stores:* two sensors are enough for every interaction in the code: the
functions on buffers touch one sensor and at most one other (the holder of the
external id), and a flush that fails distinguishes sensors flushed before the
failing one from the failing one. Two timestamps are needed for a failing insertion
to have a predecessor that succeeded; one is enough where flushes ignore errors.
One value suffices where only the presence of a reading matters, and two where it
matters which one wins. There are no counters: these runs explore the complete
state space of their instance. *Backends:* the timestamps are 2 and 10, whose order
as text is the other one; three values of properties tell apart what each conversion
drops; `MinBulk = 1` makes one reading a single insertion and two
a bulk; `MaxPending = 2` bounds the readings in memory, so that an addition to a
full buffer is left out until a flush. *Connection:* five readings are two full bulks
and a remainder. `MaxOpened` and `MaxPrepared` bound the connections and statements
of a behaviour; three connections are a rotation and a reopening, and eight
statements prepare all four on two of them. *Tools:* a day of the model has 4
seconds and 2 minutes, so that every pattern of missing days, shared minutes and
last seconds occurs in three days.

Two runs disable the deadlock check: the counters of `Connection` run out, and the
processes of `Tools` end. In the others an open store can always be closed, and a
closed one opened.

## 4. Properties

Of `Store`:

* `BuffersAgree`: a sensor has operations exactly while the sensor buffer holds
  it. Otherwise a flush throws and an addition dereferences a null pointer.
* `BuffersMirrorDatabase`: with orderly clients and without faults, the sensors an
  open store answers for are those of its database, at every point of a sync and
  after every rollback, rotation and restart. *Orderly* clients keep a sensor's
  external id and update only sensors the store has; the code does not keep the
  mirror for others (section 6).
* `ExternalIdsLeadToSensors`: under the same conditions the external id map leads
  to every buffered sensor and to nothing else.
* `FlushIsInvisible`: no flush, of whatever trigger, changes what the store answers,
  while every buffered sensor has its table (`Whole`). `BuffersMirrorDatabase` implies
  that; it ends when a rotation is killed between the two statements of a sensor, when
  a sync fails, or with what else `StoreFaults` has: disorderly clients, refused commits.
* `AddAppends`: under the same condition an addition adds the timestamps the sensor
  does not have and touches nothing else, with or without the flush it causes.
* `NewSensorHasNoReadings`: an added sensor inherits nothing from an earlier one
  with its uuid or external id.
* `SyncCopies`: an iteration of `sync` leaves the source's sensor under its external
  id with the source's definition and the source's readings, and other sensors as
  they were.
* `ReadingsStay`: a stored reading disappears only with its sensor, by a rotation,
  or because its transaction was not committed.
* `FileIsTransactional`: `disk`, `conn` and `inTxn` implement `TransactionalFile`.
* `PendingReadingsLeaveMemory`: under `LoggerSpec`, every pending reading
  eventually leaves memory, or the store is one of those with a missing table, on
  which every flush throws.

Of `BackendStore`, each with the backends it excludes and why:

* `SensorsAreBuffered`: Redis, RocksDB and mSG stores know the very sensors of their
  medium, and define them as it does but for the properties it drops (`AsStored`);
  PostgreSQL and TXT keep one direction.
* `HandlersAgreeWithServer`: no call with automatic commits leaves a transaction
  open; with manual commits the handler is pending exactly (PostgreSQL), or at
  least (Redis), while the server is in one.
* `QueriesSeePending`: the readings, their number and each single one, as a query finds
  them after its own flush, are what was stored merged with what was pending before it:
  through single insertions and bulks, updates after insertions, inside transactions and
  out, in the order that decides which value of a time wins on each kind of medium
  (`Answer`). For mSG it is about times, the first of which it never answers. Left out
  are Redis between MULTI and EXEC, where it answers nothing, and readings PostgreSQL
  refuses.
* `FlushStores`: a reading leaves memory only when the backend has it.
* `DiskKeepsReadings`: a reading on disk goes only with its sensor or its store.
* `NewSensorStartsEmpty`: as `NewSensorHasNoReadings`.
* `SyncCopiesSensor`: as `SyncCopies`, as far as each backend goes; the definition is
  the source's as the medium keeps it.
* `ServerIsTransactional`: PostgreSQL's and Redis' servers, under the code's nested
  handlers, implement `TransactionalFile`.

Of the mechanisms:

* `FlushHandsOverEachOnce`: when a flush clears a buffer, each of its readings was
  handed over exactly once; no bulk is empty or too large.
* `StatementsAreUsable`: what the cache or a member holds was prepared on the open
  connection and not finalized.
* `OnlyRollbacksLeak`: only `rollback_transaction` makes a statement unreachable
  that was not finalized.

Of `Tools`:

* `UpgradesComplete`: a create or upgrade that met no lock leaves a file every tool
  opens, whoever was killed in the middle before it or runs beside it, or reports
  sensors that share an external id. No file that opens has such sensors.
* `ToolsKeepReadings`: no tool takes a stored reading or a sensor away or gives a
  sensor another external id; a value is replaced only by the commit of an import or a
  sync, and only for a sensor and a time its input has (`InputOf`: the lines of the csv
  file, or the readings of the source).
* `SyncToolCopies`: a sync that reports success, met no lock and had no writer beside
  it copied what the code promises.
* `ScriptsShowReadings`: an Octave script shows each reading in the minute of the row
  of its day, and nothing else.

Fairness. The store has no thread and no timer, so nothing is fair by itself.
`LoggerSpec` assumes that the clock runs (weak fairness of `TimeoutElapses`), that
a sync that was begun goes through its loop (weak fairness of its iterations: the
loop does not wait for anyone), and that the client goes on adding readings to
*some* sensor whenever the store accepts them. The last one is strong fairness,
because closing, reopening and synchronising interrupt it; it is an assumption
about a logger, not about the library. Nothing is assumed of `Flush`, of queries
or of `Open`. The tools neither wait nor retry: there is nothing they eventually
achieve beside another process, so no liveness is claimed of them.

## 5. Theorems

### `Store`

For all values of the constants that satisfy the assumptions of `StoreBuffers` and
`Store`: any sets of sensors, ids, times and values, both commit and both flush
modes. The assumptions: timestamps are integers; `None` and `NullPtr` are no data;
the options are Booleans; sources are stores (unique external ids, a table for each
sensor), which agree on external ids between orderly clients. TLC evaluates all of them
in every run.

* `TypeCorrect` (`StoreProofs`): `Spec => []TypeOK`. `TypeOK` is not inductive: a
  flush reads the operations of every buffered sensor, so it can be typed only if
  all of them have operations. The inductive invariant is `GoodState`, `TypeOK`
  with `BuffersAgree`; `FlushAllGood` is the lemma about `flush_all` both need.
* `BuffersStayInAgreement`: `Spec => []BuffersAgree`, from the same invariant.
* `FileTheorem`: `Spec => FileIsTransactional`. The invariant is
  `FileInv`: outside a transaction `conn = disk`, an automatic transaction is open
  exactly during a sync, and a closed store has none. Each call is then a `Write`,
  a `WriteThrough`, a `Commit` or an `Abort`, or leaves the file alone; the case
  that needs care is a sync iteration whose flush opens a nested handler.
* `ReadingsStayTheorem`: `Spec => ReadingsStay`, from
  `GoodState`. Every step but a rotation and `remove_sensor` is a `KeepingStep`: the
  connection goes back to the file, or it keeps every reading it had and the file
  stays or becomes what the connection is. The lemmas say that each operator a call
  is built from, `flush_all` that throws half-way included, keeps every reading.
* `MirrorTheorem`, `ExternalIdsTheorem` (`StoreContentsProofs`): `BuffersMirrorDatabase` and
  `ExternalIdsLeadToSensors`, whose own text says "orderly and without faults". The
  invariant, `StoreInv`, adds to the two above `MirrorInv`: the open store's buffers
  mirror `conn` (`Mirrors`), every sensor on `disk`, in `conn` and still to be
  synchronised is *at home* (has the external id its uuid is created with), and the
  external ids of `disk` are unique, so that whatever a rollback, a restart or a
  rotation goes back to can be loaded again. The two lemmas that matter:
  `SyncSensorMirrors` (an iteration of a sync always fits, because the holder of
  the external id in the buffers is its holder in the table) and `FlushAllSucceeds`
  (a flush that ignores errors runs to its end, because every buffered sensor has
  operations and a table); without them a sync could fail half way and leave
  sensors in the buffers that are rolled back.
* `FlushTheorem`, `AddTheorem`: `FlushIsInvisible` and `AddAppends`, for any clients and
  any faults but refused commits (`"commit" \notin Faults`), killed rotations included:
  what they need of the store is `Whole`, which the properties say themselves.
  `NewSensorTheorem`: `NewSensorHasNoReadings`, assuming `Lawful` (orderly clients, no
  faults) as its runs do. `SeriesOf` is what a store answers; the lemmas say that a
  flush moves readings from memory to the table and leaves their sum
  (`SeriesFlushed`), also one that throws in the middle of a sensor
  (`FlushUntilFailureSeries`), since what was written and stays in memory is
  inserted again in vain.
* `SyncTheorem`: `SyncCopies`, assuming also `AutoCommit`. It needs one more
  invariant, `DefinedInv`: the buffered sensors carry the definitions of the table,
  or an iteration would take a sensor for up to date that is not. With manual
  commits that is false: `update_sensor` outside a transaction is refused after the
  client has changed the shared object, and a sync that brings the same definition
  then skips the `UPDATE`.

### The mechanisms

For any bulk sizes, numbers of readings, SQL texts, connections and statements.

* `EachOnceTheorem`, `BulksTheorem`: `FlushHandsOverEachOnce`. The
  invariant `BulksFit` relates the readings the iterator has not passed to the bulks
  left, both ways: not too few, so that none is left out, and not one too many, so
  that no bulk is empty. It rests on `BulksForIsLeast`: the quotient rounded up is
  the least number of bulks that is enough.
* `StatementsTheorem`, `LeakTheorem`: `StatementsAreUsable` and `OnlyRollbacksLeak`. With the type the former is its own inductive invariant:
  every method that finalizes statements or leaves the connection also forgets the
  cache and the members.
* `ConnectionImplementsParts`: the composed store
  implements the specification of each part, so that both results carry over to it
  (`ConnectionFlushesEachOnce`, `ConnectionStatements`).

### `BackendStore`

For any sets of sensors, external ids, values and readings, any batches, sources and
stores of the five kinds, any order of timestamps as strings and any conversions of
properties: every property the run `Backends` checks but `QueriesSeePending` is a
theorem. The assumptions, which TLC evaluates in that run:
`UuidsAssumption` and `FiniteTimesAssumption` (a `std::map` holds finitely many
sensors, and a timestamp has 64 bits), `StoresAssumption` (kinds without
transactions commit by themselves), `ClientsAssumption` (clients keep a sensor's external
id, and two sensors do not share one), `SourcesAssumption` (sources come from such
clients), `TextOrderAssumption` (two timestamps differ as strings),
`ConversionsAssumption` (what a medium dropped once is not dropped again), and
`NoSyncAssumption` (`None` is not a sync).

`flush_all` goes through any number of sensors in any order, and the library's
induction theorems take an operator as a parameter, which no installed prover
instantiates. So induction takes another form: a set of numbers that is not empty has a
least one (`LeastNumber`), because the intervals up to its members have a minimal one in
the well-founded order of strict subsets. `FlushAllStaysIn` is the one lemma about the
loop that rests on it: a set of outcomes that holds the start and that no flush of a
single sensor leaves holds every outcome. Everything a proof says of `flush_all` is then
a statement about the flush of one sensor (`FlushSensorIs`: the insertions fail, or
succeed and nothing is left, or the updates follow, and these fail or not).

* `HandlersInvariant` (`BackendProofs`), the inductive invariant `HandlersInv`:
  types, who may have a transaction open, and that what is to be seen is on disk while
  no server is in a transaction. From it `BackendsWellTyped` (`BackendTypeOK`),
  `HandlersFollowServer` (`HandlersAgreeWithServer`) and `ServersAreTransactional`: the
  store over PostgreSQL and Redis implements `TransactionalFile`, where a call is a
  begin, some writes and a commit or an abort in one step, and a flush that falls due
  inside a sync commits what the sync has open. The type says too little: a
  commit with automatic commits is a step of `TransactionalFile` only because no
  transaction is open when the call begins.
* `SensorsInvariant` (`BackendContentsProofs`), the inductive invariant `SensorsInv`:
  `HandlersInv`, definitions in view, on disk and in a sync only under their own external
  ids (`Defined`, `TodoInv`), the three maps of the buffers in agreement (`BufferInv`), and for
  each kind which sensors memory and medium share (`Known`). `Known` speaks of the disk
  where PostgreSQL's rollbacks go back to it, and of RocksDB in every state, faulty or not.
  `AnswersFor` compares the medium with memory through the conversion of its kind, and
  `Own` and `Storable` let either hold definitions a conversion has been through, which
  come back to memory by a restart and need not be among those clients give.
  From it `SensorsStayBuffered` (`SensorsAreBuffered`).
* `ReadingsOutliveFailures` (`DiskKeepsReadings`), from `SensorsInv`: the relation
  `ReadingsKept` between two media is reflexive and transitive and holds across each
  operator a call is built from, aborted transactions and misread results included.
* `FlushesStore` (`FlushStores`). `Held` is a reading in memory or on the medium, and
  `Receptive` what the medium has to satisfy so that it refuses nothing; `HoldsOn` says
  that both survive the flush of a sensor, so that they survive the flush of all. A
  rolled back transaction would take back what was flushed, so the proof needs that a
  handler that was started can commit (`EndedView`). Of a store that is not open the
  invariant `ClosedIsEmpty` says there is nothing in memory.
* `SensorsStartEmpty` (`NewSensorStartsEmpty`). Its invariant is `TidyInv`
  (`ReadingsHaveSensors`): neither the view nor the disk has readings of a sensor it
  does not have, for any store but PostgreSQL's and faulty Redis stores, and no sensor
  the medium lacks has readings in memory. The disk is part of it because rollbacks and
  crashes go back to it.
* `SyncsCopySensors` (`SyncCopiesSensor`), from `SensorsInv`. The iteration is taken
  apart into the record (`RecordsRedefine`), the buffers (`SyncedBuffers`) and the
  flush that may be due (`FlushIfDueHolds`); for Redis and RocksDB `Replies` follows
  the value of one reading through that flush.

### `Tools`

For any processes, files and scenarios, in which any number of tools run at once and
are killed anywhere. `NoProcAssumption` says that no process is called `NoProc`.
`ScenariosAssumption` is about the files there are at first (`FileSound`): readings
belong to sensors, a series is finite, no two sensors share an external id where the
unique index is, and a file of the current version has the index, because `initialize`
creates the index first and `upgrade` runs after it. Files of releases without devices
and files of creations and upgrades that were killed at any point are like that; TLC
evaluates the assumption for all of them in the run `Tools`. Of sensors and commands
it says that a sensor is an external id and a definition, that series are functions on
integers, and that the lines of an import are finitely many and their times integers.

The inductive invariant is `ToolsInv` (`ToolsInvariant`). `UpgradesComplete` says
nothing of a process that is still running, and `ToolsKeepReadings` nothing of a
transaction that is not committed, so it has, for each process:

* the statements still to execute. A create or upgrade has exactly a rest of its list, and
  the file what the statements before have made of it (`Initializing`, `Upgrading`); of
  the other tools each statement is one its command may execute (`Permitted`): an
  insertion, a replacement of a reading of its input, or an update that keeps the
  external id of a sensor.
* what it relies on while others write: a sensor it has loaded is in the file with the
  same external id, or its insertion is the next statement (`Mirrored`). A sync enters a
  sensor in its buffers before the statement has run, so without the exception it would
  be false.
* a transaction it is in: its view of the file has everything that the file has, and
  other values only where its command replaces them (`Writing`).

All of it survives the steps of others because these only let a file grow (`Grown`;
`AroundProcOK`), and leave it alone while a process has it locked. `MovesKeepsInv` splits a step so:
what it does to its own process, shown action by action, and what it does to files and
locks, which is enough for all the others. What a statement does to a file is a lemma per
statement (`SchemaApplied` to `ReadingApplied`).

* `UpgradesAlwaysComplete` (`UpgradesComplete`): a create or upgrade fails without a lock
  only at the index (`InitializingNext`), and an upgrade never: initialization has
  committed the index before (`UpgradingNext`).
* `ReadingsAreKept` (`ToolsKeepReadings`): only a step of `initialize` and a commit change
  what is in a file; the former replaces nothing and the latter makes the view the file,
  which has other values only for the sensors and times of the command's input
  (`Writing`, `Permitted`): a sync's source may change while it runs, but only grow.

* `MatrixIsWritten` (`OctaveScriptProofs`): for days and minutes of any length and any
  finite series that is `Plain`, the exporter's loop computes the reference matrix. The
  loop is a recursive function of the number of rounds (`Rounds`), and the proof is an
  induction over its rounds in the form of a least round after which the invariant
  `Written` does not hold: the rows before the current one are those of the days that are
  over, the current one shows the readings so far, and the next day begins where the
  current one ends. The three cases are the first reading (`FirstRound`), one of
  the same day (`NextRoundOfDay`) and the first of another (`FirstRoundOfDay`), where days
  without readings are skipped. Each half of `Plain` is used at one place: no two readings
  in a minute where a value is written (`WriteValue` would move it), and no first reading
  in the last second where the row is set up (`NextRow` would take the following day).
* `ScriptsAlwaysShowReadings` (`ScriptsShowReadings`): a process has a script only from
  readings it has shown (`Scripted`), which are a series because those of a file are.
* `SyncsCopy` (`SyncToolCopies`): the property is about the last step of a sync, so
  the proof has an invariant for all of its steps, `SyncsInv`, as long as it has met no
  lock and nobody has written beside it. While it opens its files, it knows the sensors
  of those it has opened, and they have the current version (`Opening`). While it
  writes (`StoreComes`, `SensorComes`), every sensor of the source is a job or known, what
  is known is in the target but for the one sensor whose statement comes next (`Settled`),
  and each reading of the sensor that found the flush due is in the target, with its
  value, or among the statements (`Bringing`). Each action keeps this (`StoreTakes` and
  `SensorTakes` begin a job, `StoreGoesOn` and `SensorGoesOn` execute a statement), and
  the steps of others do, because they leave both files alone (`AlikeSyncOK`). A success
  is a commit with no job and no statement left (`SyncEndsByCommit`). Two things keep
  the invariant from being simpler. The target may have the uuid of a job under another
  external id; the insertion is then refused, and the sync cannot end as a success
  (`Doomed`, `SyncRefused`). And of two sensors with one external id in the source the
  second would take the place of the first; that there are none takes the unique index,
  which a file of the current version has.

### Only model-checked

* `SyncCopies` with manual commits, where it can fail as said (no run claims it).
* `QueriesSeePending`.
* `PendingReadingsLeaveMemory`: liveness and `ENABLED` are beyond the prover.

## 6. Where the code does not do what one would expect

### Refuted by a run

Each is a run that TLC refutes, with the trace as the evidence.

* `DroppedReadings`: `set_buffers` erases the pending readings of a sensor that
  already holds its own external id, so `update_sensor`, or a second sync before
  the next flush, drops them (`store.cpp:431-440`).
* `FailedFlush`: `flush(false)` in an automatic transaction clears each buffer as it
  goes; when a later sensor's insertion throws, the rollback undoes the written
  part, and the readings are nowhere (`store.cpp:420`). The same property fails for
  `flush(true)`, in as many steps, after a rotation that was killed between the INSERT and
  the CREATE TABLE of a sensor (`sqlite3-store.cpp:394`, `:404`) and left a row without a
  table: the store opens, and every flush that has readings of that sensor throws, errors
  ignored or not (`:625`).
* `WriteOutsideTransaction`: with manual commits queries, and `commit_transaction`
  without a transaction, write pending readings directly to the file.
* `Queries`: the last reading of a Redis store is read from the end iterator of the map
  (`redis-store.cpp:164`). `QueriesAgree` fails likewise for TXT (`txt-store.cpp:243`),
  for RocksDB, whose last reading is the last in the order of strings
  (`rocksdb-store.cpp:207`), and for mSG, whose timeframe query inserts what it selects
  through a null pointer, and returns it when nothing qualifies (`msg-store.cpp:307-316`);
  only of PostgreSQL it holds.

### In the models, and stated around by the properties

SQLite3 store:

* The external id map keeps the ids sensors gave up. A new sensor with such an id takes
  the pending readings of the sensor that had it, and that sensor leaves the buffers
  although it is in the database (`store.cpp:431-440`); `NewSensorHasNoReadings` is
  about clients that do not rename sensors.
* A rotation that is killed before the new file has its version leaves one that
  `open_sqlite3_store` refuses; `create_sqlite3_store` repairs it.
* A refused `COMMIT` loses the readings of the flush it ends, as in `FailedFlush`.
* A sync that fails leaves sensors in the buffers whose rows are rolled back, and
  later flushes that have readings for them throw; `update_sensor` of a sensor the
  store does not have files it in the buffers with the same effect.
* `get_sensors_by_external_id` of an id that was given up returns the renamed
  sensor, or, after that was removed, files a null pointer.
* Of two pending updates of one timestamp the first is written.
* A rollback leaves the statements it forgets open until the process ends.

Other backends:

* Redis, RocksDB and TXT store no device type, and mSG neither that nor the time zone
  (`redis-store.cpp:238-265`, `rocksdb-store.cpp:318-328`, `txt-store.cpp:260-269`,
  `msg-store.cpp:412`): after a restart a sensor is another one than before.
* PostgreSQL: the update of a reading has no timestamp in its condition
  (`postgresql-store.cpp:377-378`), so a sync stores no readings for a sensor without
  any, and for one with several violates the key and aborts the sync's transaction.
  The results of `COPY` are not looked at (`:311-324`) and `COMMIT` of an aborted
  transaction succeeds: one reading the server already has loses the whole flush.
  `rollback_transaction` always throws, with empty buffers, because it prepares
  statements the session has (`:354-408`). Results are cleared twice on error paths
  (`:396-408`, `:440-452`, `:492`), and `has_table` is true for any result
  (`:141-156`).
* Redis: an EXEC that was carried out can be taken for a failure and leave the handler
  pending. After a sync that failed, a flush stores readings of sensors that do not
  exist.
* RocksDB: a store that has a sensor cannot be reopened.
* TXT: a reopened store knows no sensor, and refuses to add those that have a file;
  updates are appended and never read.
* mSG: a request whose answer is lost was carried out.

Tools:

* Insertions that meet a lock are lost without a message, and a `COMMIT` that meets a
  reader is only logged: an upgrade can report success and be rolled back, after
  `initialize` has written the current version, and the file then claims a version
  whose column it lacks until an upgrade is repeated. A killed upgrade leaves the same.
* `klio-store upgrade` turns a newer version into the current one.
* `klio-store sync` loses the readings of all sensors but the first that has any, unless
  it runs for ten minutes: only the first finds a flush due, and `close` drops what is
  in memory at the end.
* `klio-sensor change-description` writes back what it loaded and can undo a sync that
  ran beside it; a sync with such buffers may skip a redefinition.
* A read that meets another process' commit comes out short without an error.
* `klio-sensor sync` creates its source when there is none.
* The Octave exporter takes a day that begins with its last second for the next day,
  lets a second reading of a minute overwrite the next minute or, in the last minute,
  memory beyond the row (`octave-exporter.cpp:55-65`), and dereferences the end of an
  empty series. A value 0 counts as no value.

This is why the invariants about databases are stated for orderly clients, and why
the properties of the backends name the backends they are about.

## 7. Not modelled

* Time zones (a table of Boost's) and the JSON exporter (it only formats).
* `collate`: it compares sizes and times and returns an empty table.
* The 32-bit binding of timestamps in `add_reading_record`
  (`sqlite3-store.cpp:628`), and casts of times elsewhere: times are distinct
  integers. Two times 2^32 seconds apart are one to SQLite3.
* PostgreSQL's asynchronous commits, and losing the connection to a PostgreSQL or
  Redis server.
* The JSON and HTTP of an mSG request, which is one step; its keys and signatures.
* What tools print, their options, and the statistics of `klio-store check`.
* Two stores over the same file in one process, other than as two processes of
  `Tools`; a source of a sync is a fixed content in `Store` and `BackendStore`, and a
  file other processes write to in `Tools`.
* Everything under `contrib/`, `share/` and `Dashboards/`.

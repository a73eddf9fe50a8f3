# A formal model of sqlite-reflection

sqlite-reflection is a C++ library that stores structs in SQLite tables. A struct
declared with `REFLECTABLE` and `FIELDS` registers itself before `main`; the
`Database` singleton creates a table per registered struct and saves, fetches,
updates and deletes records without the caller writing SQL. This directory holds
TLA+ modules for it, TLC runs, and proofs checked by TLAPS. Paths below are those of
the repository with `src/` in front, as in `PROJECT.json`.

## 1. Inventory

| Component | State it keeps | Operations | Correct when |
|---|---|---|---|
| `Database` (`src/src/database.cc`, `src/include/database.h`) | `instance_`, `db_` (one connection) | `Initialize`, `Finalize`, `Instance`, `FetchAll`, `Fetch` (predicate, id), `GetMaxId`, `Save`, `SaveAutoIncrement` (one, vector), `Update`, `Delete`, `Sql` | an instance has all its tables; a call that returns has done all it was asked, one that throws has done a prefix of it and nothing later |
| Execution queries (`src/src/queries.cc` 41-207) | none; SQLite's transaction | `Execute`: BEGIN, the statement, ROLLBACK or COMMIT; `PrepareSql` of CREATE, INSERT, UPDATE, DELETE, raw SQL | what is committed is the effect of the statement on the file as it is; no lock survives a call, except the one a failed COMMIT is bound to leave |
| Fetch queries (`src/src/queries.cc` 209-360) | the prepared statement, rows read so far | `GetResults`, `Hydrate`, `GetColumnValue`, `GetMaxId` | the rows are those of one state of the table, each once; members read are the members saved |
| Predicates (`src/src/query_predicates.cc`, `.h`) | an immutable tree | comparisons, `And`, `Or`, `Clone`, `Evaluate` | the text selects what the tree says; a comparison is about the member it was made from |
| Reflection register (`src/src/reflection.cc`, `src/include/reflection.h`) | `records`, by type id | registration by static initialisers, `GetRecordFromTypeId`, `OffsetFromStart`, `GetMemberAddress` | each struct is there once and whole before `main`; a predicate is on the member it was made from |
| String utilities, `TimePoint` | none | conversions of integers, reals, text, dates | a value survives the way through text; a date is that of the calendar |
| SQLite (vendored `src/src/sqlite3.c`) | the file, its locks, transactions | as called by the queries | assumed; modelled from the code where the library depends on it |
| `date.h` (vendored) | none | days to dates and back, writing and parsing | modelled where `TimePoint` uses it |
| tests, build files | | | not modelled |

How they interact: the header of a struct calls into the register; `Database` asks the
register for a record, hands it with a type-erased pointer to a query object, the query
asks `GetMemberAddress` and the conversions for text, and a predicate for its
condition. Predicates go to the register themselves. Everything is called
synchronously. Concurrency comes from outside: other processes with their own connection
to the same file, and other threads of the program, which use the one connection of the
singleton. Both are interleaved with a call of the library at every call of the SQLite
API that it makes; SQLite is built in its serialised mode, so that its own calls are
atomic for threads. The library installs no busy handler and no mutex, so a lock that is
not free makes the call return `SQLITE_BUSY` at once.

What is hard here, and hardly reached by the tests (which use one in-memory connection):
the steps of two processes, or of two threads on one connection, between BEGIN, statement
and COMMIT; COMMIT refused because of a reader; `SQLITE_BUSY` in the middle of a fetch; a
failure half way through a vector or through the constructor's tables; raw SQL that ends
the transaction it runs in; a crash anywhere; ids and members at the limit of an `int`;
offsets at the limit of a byte; tables made by another version of the program; dates
before the epoch and beyond a 16-bit year; values that do not survive as text.
`PROJECT.json` lists these hazards at their lines.

## 2. Modules

| Module | Content |
|---|---|
| `Statements` | SQL statements as data: what compiles, what writes, what violates the primary key, what a statement does to the tables; predicates by what they select |
| `FileLocks` | the lock levels of rollback-journal mode (`unixLock`): when a connection may read, write, write back |
| `Database` | the singleton of several processes that share one file; extends the two above |
| `RecordStore` | abstract specification of writing calls: a queue of statements applied to one store |
| `Threads` | the singleton of one process whose threads share it; uses `Statements` and an instance of `FileLocks` over connections |
| `Reflection` | the register: static initialisers of several units, lookups, offsets |
| `Predicates` | And/Or trees, their text, and how SQL reads that text back |
| `TimePoints` | dates and their text: the day arithmetic of `date.h` as `TimePoint` uses it |
| `Calendar` | the reference for `TimePoints`: the Gregorian calendar, a day at a time |
| `Rows` | values between struct and column for every storage class; several versions of a program on one table; extends `TimePoints` |
| `MCDatabase`, `MCRegisters`, `MCThreads`, `MCReflection`, `MCCalendar`, `MCRows` | instances for TLC (`Predicates` is its own) |
| `StatementsProofs`, `DatabaseProofs`, `ThreadsProofs`, `ReflectionProofs`, `PredicatesProofs`, `TimePointsProofs`, `CalendarProofs`, `RowsProofs` | theorems about the module with that name; `DatabaseProofs` and `ThreadsProofs` use the lemmas of `StatementsProofs`, `CalendarProofs` and `RowsProofs` those of `TimePointsProofs` |

### Database

One step is one call of the SQLite API, because that is where other processes come in.
`pc[p]` is the call that comes next:

| `pc` | Next call | Actions |
|---|---|---|
| `idle` | the program calls the library | `Initialize`, `InitializeThrows`, `Finalize`, `Save`, `SaveAutoIncrement`, `UpdateRecords`, `DeleteRecords`, `Sql`, `Fetch`, `GetMaxId` |
| `begin` | BEGIN (`queries.cc:64`) | `Begin`, which throws inside a transaction that an earlier call left open |
| `exec` | the statement (`:67`) | `ExecStatement`, `ExecFails` |
| `rollback` | ROLLBACK (`:68`) | `Rollback` |
| `commit` | COMMIT (`:71`), up to its lock | `CommitRead`, `CommitLocks`, `CommitBusy` |
| `write` | COMMIT, writing the file | `CommitWrites`, `CommitIoError` |
| `step` | `sqlite3_step` of a fetch (`:268`) | `StepRow`, `StepBusy`, `StepDone` |
| `maxstep`, `maxfinalize` | `sqlite3_step` and `sqlite3_finalize` of `GetMaxId` | `MaxStep`, `MaxFinalize` |

`Exit` ends a process at any of these points. `todo[p]` holds the statements that a
vector, or the constructor, has still to execute: each has a transaction of its own, and
an exception drops the rest. `file` is the committed contents, `work[p]` what an open
write transaction has made of them. `conn[p] = "closed"` is the handle that a failed
`prepare` has closed under the singleton; later calls find misuse. `leaked` holds the
connections that were lost, with the lock of their refused COMMIT, in a constructor that
threw.

COMMIT is refused in two ways (`CommitBusy`). If another process is reading, the
connection has got PENDING and keeps it. If another process is inside the call that takes
its SHARED lock (`TakesShared`), `unixLock` there holds the PENDING byte for a moment;
a COMMIT that meets it keeps only RESERVED. The transaction stays open in both.

Data is abstract: a row is an id and one value; a text that breaks the statement it is
put into is `BadText`; a condition selects by id, by value, everything, or does not
compile. Ids are integers, and `sqlite3_column_int` reduces them to the width of `int`
(`IntHalf`).

### Threads

The same operations, of threads that share the connection `instance`: `lock`, `txn` and
`work` belong to connections, `pc`, `call`, `todo` and `rows` to threads. A step is one
call of the SQLite API again, and `db[t]` is the connection that the call of t uses.
`Initialize` (the null check), `Open` (the constructor's `sqlite3_open`) and
`StoreInstance` (the assignment) are separate steps, so that two threads can both pass the
check; each then has a connection named after it, and the object stored first is lost.

`Exec` is `sqlite3_exec`: a text is a sequence of parts, statements as well as BEGIN,
COMMIT and ROLLBACK, that are executed one after the other until one fails. `Execute` is
`Begin`, `ExecText`, `Rollback`, `Commit`, each a text of its own, and `Sql` may be given
any of `Scripts`. Outside a transaction a statement commits by itself.

A fetch that does not compile closes the connection under every thread (`Close`): their
transaction is rolled back and their next call finds misuse, unless some thread has a
prepared statement, in which case `sqlite3_close` refuses. `Finalize` deletes the object;
a program may call it only when no other thread is using it, which is its guard. The
history variables are `steady[t]`, the matching rows that have stood unchanged in the view
of a fetch since it began, and `meddled`, whether some text given to `Sql` controls
transactions.

### Reflection, Predicates, TimePoints, Rows

`Reflection` keeps sizes and alignments of the members of a 64-bit Linux build
(`std::wstring` has 32 bytes) and treats the pointer to member as its bytes, so that
`strlen` can do to it what it does. An action of a unit is one static initialiser;
predicates may be made before, between and after them. The initialisers of different units
run in any order, so that one may call code that names a struct before any unit has
registered it: the lookup (`operator[]`) then adds an empty record, `Register` finds the
key and stores nothing, the predicate finds no member, and `Initialize` throws.

`Predicates` writes trees as sequences of tokens and parses them with SQL's
precedences; the reference is the tree's own meaning. Trees, their text and the parser
are recursive functions, over the trees of `MaxConditions` comparisons and over texts.
An `EmptyPredicate` alone selects everything; as an operand it leaves an operator without
its left or right side, which does not compile, though the tree describes something.

`TimePoints` has the formulas of `floor<days>`, `from_days` and `to_days` with the
division of C++, which rounds towards zero, and the year cut to the 16 bits of
`date::year`. A text is the six numbers that are written; parsing accepts a year of at
most four digits and a date that exists, and a text that does not parse leaves the epoch.
Hours, minutes and seconds are parameters. `Calendar` does not use any of this: it counts
days, months and years, and its invariants compare.

`Rows` treats an operation as one step (its transaction is `Database`'s subject) and
models every conversion: text is cut at NUL by `ToUtf8`, two quotes are read as one, reals have six decimals with ties to even, infinity is a word that a
column keeps but a condition cannot contain, integers are read through `int`, dates go
through `TimePoints`, the pattern of `Like` is matched as SQLite does, wildcards in the
value included, NULL leaves a member as it was constructed, and
`Hydrate` goes by the index of the column. The history variable `saved` remembers what
the last successful writer gave each member. A member filled from a column of another
class, or read when the table has more columns than the struct has members (which reads
past the metadata), is `Garbled`: no property says anything about it.

Nothing escapes the quotes in a text. One that does not stand next to another ends the
literal (`Ends`), and the rest of the text is part of the statement. What SQLite makes of
such a statement is the parameter `Beyond` of `Rows`: from the statement and the table, the
columns and rows it leaves, or those that a SELECT returns, or `NoSql`. A writing statement
of that kind sets `strayed`: from then on the table may hold anything, and the invariants of
`Rows` are about the time before. Nothing is assumed about `Beyond` in the proofs. `MCRows`
gives it the meaning of a fragment of SQL: the rest of the text joins a second literal
(`a' || 'b` is stored as `ab`) or is a comment (`b' --` takes the columns that follow and the
WHERE of an UPDATE with it, and leaves the parenthesis of an INSERT open); anything else does
not compile.

## 3. Runs

| Run | Instance | What it shows |
|---|---|---|
| `sharing` | 2 processes with 1 and 2 types, 2 values, caller ids {1}, auto-increment up to id 1 | the locks (`OneWriter`, `HoldsOnlyWhatItNeeds`), what is about to be committed (`UncommittedIsEffect`), what fetches see (`FetchReadsOneState`, `FetchComplete`), the constructor failing half way (`TablesExist`), the aftermath of a refused COMMIT (`FrozenWhileRefused`), and that writing calls implement `RecordStore` |
| `autoincrement` | 1 process, vectors of 0 to 2, ids -2 and 2 and those computed | `AutoIdsNext`; vectors that fail in the middle still implement `RecordStore` |
| `progress` | 2 processes, 1 type, 2 rows, fairness | `WritesEnd`, `FetchEndsIfUnlocked`; `CallsAdvance`, that each SQLite call is one less to make; `FetchReadsOneState` and `FetchComplete` with several rows |
| `structs` | 2 units, 2 types, 33 struct shapes of up to 232 bytes and a used struct that is not registered | `RegisteredWhole`, `PredicateOnMember`, in any order of initialisers and predicates |
| `predicates` | trees of up to 4 comparisons over 2 conditions, a malformed one and the empty one | `SelectsMeant` |
| `values` | 3 programs, 2 rows, 7 texts of which 2 are SQL; ends when one is executed (`BeforeStraying`) | `ReadAsSaved`, `SelectedAsMeant` |
| `dates` | 400 years day by day, and the neighbourhoods of the years -32768, -10000, 0, 10000, 32768, 67506 | `CalendarRight`; `TextReadBack` for every second of each day |
| `threads` | 2 threads, 1 type, vectors of 1 and 2, 8 texts for `Sql` | the locks of the shared or the lost connection (`LocksAreUsed`), `TablesExist` after a raced `Initialize`, what `Execute` applies (`AppliesWhole`), what a fetch returns (`FetchMissesNothing`) |

Four runs state what a comment or the README says and TLC finds a counterexample:

| Run | Documentation | Code |
|---|---|---|
| `wideids` | `README.md:125`: auto-increment uses "the next available value" | `GetMaxId` reads a 64-bit id as `int` |
| `badpredicate` | `database.h:52`: the singleton is "for further operations"; `query_predicates.h:106`: an `EmptyPredicate` fetches all elements | a SELECT that does not compile closes its connection; `And` or `Or` with an `EmptyPredicate` is one |
| `lockedfetch` | `database.h:69`: fetch retrieves the entries that match | each `SQLITE_BUSY` adds a record nobody saved |
| `largestructs` | `reflection.h:101`: "the offset in bytes of a reflectable struct member" | an offset of 256 is read as 0 |

More was met while modelling and has no run of its own: a program that lists the same
members in another order than the columns of the existing table reads one member's value
into another, because `Hydrate` goes by index (`queries.cc:284`; `ReadAsSaved` speaks of
programs whose members are the columns). `int64_t` members are read through `int` like the
greatest id, though `README.md:76` gives them the whole type (`Plain` in `Rows` says which
values survive). A time in a year of more than four digits is written but does not parse, so
that `FromSystemTime` makes the epoch from a text that `SystemTime` wrote, against
`time_point.h:54` (`TextReadBack` says which times are read back and what is read instead).
`And` and `Or` with an `EmptyPredicate` do not compile, although `query_predicates.h:46-52`
and `:106` except nothing; `SelectsMeant` promises nothing of that case. A text whose quote
ends the literal and that goes on as SQL is executed (`strayed`); an UPDATE may then change
other rows, against `database.h:243`. A predicate that a static initialiser makes before its
struct is registered, against `reflection.h:227`, leaves a record empty for good, and one
on a struct without any metadata adds an empty record; on either a later `Initialize` throws
(`MakePredicate`, `UsePlain` and `Initialize` in `Reflection`; `README.md:73` says "no
runtime errors due to forgotten records"). With threads: a fetch sees what other threads have not committed, and may
return rows that are then rolled back; a second BEGIN fails, so that of two threads that
write at the same time one gets an exception; a text such as `INSERT ...; COMMIT` is
durable though `Sql` throws, since the COMMIT of `Execute` finds no transaction; and a
text that ends a transaction it did not begin can make a `Save` of another thread that
returned be lost. That is why `AppliesWhole` stops at the first such text, while
`LocksAreUsed` does not. When two threads race through `Initialize`, the connection that
is lost stays open, and if its COMMIT was refused it keeps PENDING until the process ends.

Bounds. Two processes suffice for every pairwise conflict of locks, and the theorems
cover any number. In `sharing` a table has one row, with two values; in `progress` two rows
(auto-increment makes the second), so that a write may fall between the rows of a fetch.
`MaxBatch` = 2 puts a failure before, between and
after. `MaxId` stops auto-increment, `MaxBusy` bounds how many rows read under a lock are
kept: `SQLITE_BUSY` can only be met at the first step, before the connection has SHARED,
so one such row shows all there is. `IntHalf` = 8 is wide enough for every id of its run,
2 (in `wideids`) is not. In `values` an `int` has three bits and 10^-6 is four units, so
that overflow, rounding and ties are among few values; the sixth decimal and the last
four-digit year are otherwise just boundaries. `values` is not continued from a state in which
a text has been executed, since its invariants say nothing of what follows. The structs go to the 256th byte, where
`largestructs` begins. A walk of 400 years meets every day of the Gregorian cycle; the
other walks begin a cycle before the years where a boundary of the code lies. A day of
2 hours, 3 minutes and 4 seconds has all carries. In `threads` a thread opens a second
connection only when its first is closed; the texts have a failing statement after one
that succeeds, two statements, and every way to end, begin or nest a transaction.

Fairness. `FairSpec` gives each process weak fairness for the steps inside a call: a
thread inside the library goes on running until the call ends. No call to the library,
no `Exit`, and no I/O error is ever required to happen. `FetchEndsIfUnlocked` needs the
hypothesis that the file does not stay locked against the process: a process that keeps
PENDING after a failed COMMIT makes another's fetch spin for ever, as the code does.

Deadlock is checked in every run but `dates`, where a walk ends, and `threads`, where the
bound on connections stops a process both of whose connections are lost. Every property of a passing run has a mutant in
`PROJECT.json`, a plausible slip in the code under which TLC finds it violated.

## 4. Proofs

All of these hold for every number of processes, threads, units and programs, every
register and all data, and for any `Beyond`; the assumptions are the named `ASSUME`s of `Statements`,
`Database`, `Threads`, `Reflection`, `Predicates`, `TimePoints`, `Calendar` and `Rows`, which TLC
evaluates on the instances of the runs, and the hypotheses named below.

`Database` (`DatabaseProofs`, with the lemmas on `Effect` and `Greatest` of
`StatementsProofs`)

* `Locking` and `Holding`: `OneWriter` and `HoldsOnlyWhatItNeeds`. Together with the types
  of `lock`, `leaked` and `pc` they are inductive (`LockInv`); each needs the other, since
  what a lock excludes depends on the phases in which it is held.
* `TypesHold`, `Tables` and `Consistency`: `TypeOK`, `TablesExist` and
  `UncommittedIsEffect`. None is inductive alone. A row that is read, or an id computed
  from `MAX(id)`, has its type only because the table exists, which rests on how far the
  constructor's loop has come; what a transaction holds is the effect on the *current*
  file only because the locks kept others from committing. The inductive invariant `IInv`
  conjoins `TypeOK`, `LockInv`, `PhasesOfCalls` (which operation is in which phase),
  `TablesMade` (which tables exist, or are still to be made) and `UncommittedIsEffect`.
  The lemma `Locality` says that a step of p leaves the variables of others alone and
  that only `CommitWrites` changes the file; the lemma `CommitApplies` that a commit then
  applies its statement.
* `FetchConsistent` and `FetchWhole`: `FetchReadsOneState` and `FetchComplete`. The
  invariant says of every fetch that the rows it has are the answer's rows up to the last
  id it read; a step of another process keeps it because its SHARED lock keeps commits
  out, its own because the next row is the least of those that are left.
* `AutoIncrements`: `AutoIdsNext`, under two hypotheses. `OneProcess`: another process may
  take an id in between, and then the INSERT fails. `IdsFitInt`: the run `wideids` shows
  what happens without it. The invariant `AutoInv` says what the queue of statements still
  holds, relative to the greatest id in the table, or in the transaction that is open.
* `FetchesOnlyRecords`: `FetchedRowsAreRecords` under `OneProcess`. A connection that a
  refused COMMIT leaves locked, or loses, would make a later fetch of the same process spin
  too; the lemma `AlwaysUndisturbed` says that a lone process never has one. `lockedfetch`
  shows that a second process is enough to break it.
* `CallsComeToAnEnd`: the action property `CallsAdvance`. `CallsLeft` is a natural number
  (`LeftIsNat`), each SQLite call of a writing call makes it less (`WorksLess`), whether it
  succeeds or fails, and a step of another process does not make it more (`Locality`). For a
  fetch the same holds from its first row on, because its lock keeps the table as it is
  (`ViewStays`). Of `WritesEnd` only the fairness is then left to TLC.
* `Frozen`: the action property `FrozenWhileRefused`.
* `Implements`: `Spec => ImplementsStore`, by step simulation under `IInv`, with store,
  queue and outcome mapped to `file`, `todo` and `out`. A commit is `Apply`; exceptions,
  crashes and failed commits are `Abandon`; calls that execute nothing are `Return` or
  stutter.

`Threads` (`ThreadsProofs`)

* `ThreadsTyped`, `LocksAreUsedByThreads`, `StoredHasTables`: its three invariants;
  `ExecuteAppliesWhole` and `FetchReturnsSteadyRows`: its action properties. The inductive
  invariant `Inv` says which locks a connection may hold in which state (`Storage`), what
  a thread inside a call has (`Calls`), whose transaction is open (`Owned`), which tables
  exist (`Tables`), what the open transaction has made of the file as long as no text
  controls transactions (`Whole`, `Unfailed`), and which rows a fetch has (`Fetching`).
  What `Exec` does with a text of any length is shown by induction over its parts: each
  part keeps `Good`, and inside a transaction each that succeeds applies its statement.

`Reflection` (`ReflectionProofs`)

* `Registration` and `RegisterTyped`: `RegisteredWhole` and `TypeOK` for any units and
  headers. No order of the initialisers is assumed: a record is whole, or empty if it was
  looked up first, and since `Initialize` throws on an empty one, a program that has its
  database has every struct whole.
* `PredicatesOnMembers`: `PredicateOnMember` under the hypothesis `FindableMembers`, that
  no member begins at a positive multiple of 256 bytes or beyond the second byte of an
  offset (a predicate made too early is on no column, and its record stays empty), which `largestructs` shows to be needed; it rests on `OffsetExact`, that
  `OffsetFromStart` is right below 256.

`Predicates` (`PredicatesProofs`)

* `PredicatesSelectMeant`: `SelectsMeant` for any comparisons and predicates of any size.
  `EvaluateEncloses` says that in the text of a tree every operator stands inside
  parentheses, so that the only operator outside of them in `l op r` is its own
  (`ReadInfix`), and a compound predicate is read as what is between its parentheses
  (`ReadBracketed`). `ReadAsMeant` puts them together by induction over trees
  (`TreeInduction`): the text compiles exactly if every part does and none is empty, and
  then selects what `Described` says, from which `SelectsMeant` follows. A text is shorter than the one it was taken from,
  so that the parser's recursion is shown to be well founded first (`TruthIs`). The inductive
  invariant is that what a program keeps is nested less deep than it has comparisons
  (`Nested`), without which `And` and `Or` might leave the domain of the functions.

`TimePoints` and `Calendar` (`TimePointsProofs`, `CalendarProofs`)

* `CalendarIsRight`: `CalendarRight` from any cycle on and for any number of days.
  The inductive invariant is that `today` is a date and `ToDays(today) = number`: the
  first day of a month follows the last one of the month before (`MonthEnds`), and a year
  has 365 or 366 days (`YearLength`). That `FromDays` takes the number apart again
  (`FromDaysRight`) needs the correction terms of the code (`YoeRight`): a day of an era
  lies c centuries, b times four years and a years after its beginning.
* `TimesReadBack`: `TextReadBack` for a day with any hours, minutes and seconds.

`Rows` (`RowsProofs`)

* `RowsTyped`, `SavedIsRead`, `MeantIsSelected`: its three invariants, for any programs,
  layouts, values and `Beyond`. They speak of the time before a text that left its quotes is
  executed; statements that fail, and SELECTs that left theirs, are part of that time. The
  inductive invariant `RowsInv` says that until then (`Sane`) the rows have their cells
  (`Typed`), the columns are those of a program (`Created`), a cell is what is written for
  the value that was saved (`Stored`) and a fetch whose condition is no SQL of its own
  returned the rows that are there (`Fetched`). `StrayedStays` says that a text that was
  executed was so for good.
  The conversions are lemmas: an `int` of its width (`IntsFit`), rounding twice
  (`Rounded`), text without quotes and NUL (`TextSurvives`, `PlainIsContained`), and times (`TimeSurvives`,
  for which every day is shown to have a date, by induction from the beginning of its
  cycle, and dates to be ordered by their years). `ValueSurvives` and `CellsDiffer` put
  them together. `LikeIsContains` says that a pattern between two `%` is found exactly
  where the text contains it, by induction over the pattern.

Induction over data (texts of `Sql`, records, patterns, days) goes through the lemma
`SetInduction`, which takes a set where the library's theorems take an operator; it
follows from the well-foundedness of `<` and is repeated in the modules that begin with it
(`StatementsProofs`, `ReflectionProofs`, `PredicatesProofs`, `TimePointsProofs`). A recursive function is first shown
to exist for every bound, then its property at every argument.

Only model-checked: liveness (`WritesEnd`, `FetchEndsIfUnlocked`), which rests on fairness
and ENABLED and is out of the prover's reach. Every invariant and every other property of a
passing run is a theorem, `AutoIdsNext` and `PredicateOnMember` under the hypotheses named
above.

## 5. Simplifications and what is not modelled

* Threads and other processes together: `Threads` has one process, `Database` one thread
  in each. Within one process `unixLock` runs under a mutex, so that `Threads` has no
  transient PENDING.
* In `Threads` an empty vector, which does nothing, `GetMaxId` on its own and the use of a
  freed handle after `Finalize` (excluded by its guard) are left out, and the address of a
  closed handle is not given to a new connection.
* A statement that fails or is empty holds SHARED for a moment inside its call. A COMMIT of
  another process that meets it is refused with PENDING, where `CommitBusy` gives RESERVED;
  the state is the same as after a COMMIT that meets a reader, which the model has.
* `floor<days>` counts days in an `int`: a time more than 2^31 days from the epoch loses the
  high bits of the day, and `TimePoints` does not cut them.
* SQL that a text adds to a statement: in the proofs any (`Beyond`), in the runs two texts
  without blanks, in a record with one text member. `Like` removes the quotes of its value.
* Static initialisers that throw, and a call of `Initialize` before `main`.
* A process that finds its schema out of date prepares its statement again inside the same
  call; this is part of that call's step.
* In-memory databases (an empty path) are the case of one process.
* Journal pages, hot-journal recovery and I/O inside SQLite: a commit is one step, and
  what a crash leaves is rolled back before anybody reads.
* `Like` on members that are not text; text that is not valid UTF-8, which throws before
  anything is executed; `StringUtilities::Join`. The other formats, durations and time
  zones of `date.h`, which the library does not use.
* A member that has the same name and another storage class in another version.
* An operation on a struct that is not registered throws in `GetRecord`
  (`records.at`) before it does anything; it is not an action.

* The vendored `sqlite3.c`, `sqlite3.h` and `date.h` are 99 % of the lines under
  `src/src`. Of them only what the library's behaviour depends on is modelled; a parser, a
  query planner, a pager and a B-tree are projects of their own, and the library's promises
  do not turn on their insides. The library's own sources (about 1900 lines with headers)
  are mapped, but for includes, declarations and build switches.

## 6. Plan

Done: all modules and runs of section 2, and the theorems of section 4. Left:

1. The liveness properties stay with TLC. `CallsComeToAnEnd` gives their measure; what
   is missing is that a step is possible at each point of a call, which needs ENABLED.
2. Threads of several processes in one module (section 5), and the theorem that `Database`
   is `Threads` with one thread in each process.

------------------------------ MODULE Threads -------------------------------
(***************************************************************************)
(* One process whose threads share the Database singleton.  SQLite         *)
(* serialises its calls on one connection, so a step is one call: threads  *)
(* interleave between the sqlite3_exec calls of ExecutionQuery::Execute,   *)
(* between the sqlite3_step calls of a fetch, and between the null check   *)
(* and the assignment of Database::Initialize, which two threads may pass  *)
(* together: each then opens a connection of its own, named here after the *)
(* thread, and all but the last one stored are lost.                       *)
(***************************************************************************)
EXTENDS Statements

CONSTANTS
    Threads,
    Records,    \* the register, in map order
    Ids,        \* ids that callers put in records and predicates
    Scripts,    \* texts given to Sql: sequences of statements and of Control
    NoThread,   \* instance_ is null
    NullRow,    \* a row of empty strings, read while no row was available
    IntHalf,    \* 2^(w-1) for the width w of int, which sqlite3_column_int returns
    MaxBatch,   \* bound: records in one vector
    MaxBusy,    \* bound: rows kept of those read while the file was locked
    MaxId       \* bound: auto-increment is not called above this id

ASSUME NoThreadAssumption == NoThread \notin Threads
ASSUME RecordsAssumption  == Records \in Seq(Types) /\ Records # <<>>
ASSUME IdsAssumption      == Ids \subseteq Int
ASSUME NullRowAssumption  == NullRow \notin Int \X Vals
ASSUME IntHalfAssumption  == IntHalf \in Nat \ {0}
ASSUME BoundsAssumption   == MaxBatch \in Nat /\ MaxBusy \in Nat /\ MaxId \in Int

VARIABLES
    file,       \* committed contents of the database file
    conn,       \* conn[c]: the connection is not there, open, or closed and freed
    lock,       \* lock[c]: its lock on the file
    txn,        \* txn[c]: an explicit transaction is open (autocommit off)
    work,       \* work[c]: contents as changed by its open write transaction
    instance,   \* connection of the object that instance_ points to, or NoThread
    pc,         \* pc[t]: the step that thread t takes next
    db,         \* db[t]: the connection that its call uses
    call,       \* call[t]: the operation under way
    todo,       \* todo[t]: texts it has still to execute
    rows,       \* rows[t]: FetchQueryResults::row_values so far
    out,        \* out[t]: "failed" if the last operation threw
    steady,     \* history: steady[t]: the matching rows that have stood
                \* unchanged in the view of the fetch of t since its start
    meddled     \* history: some text given to Sql controls transactions

vars == <<file, conn, lock, txn, work, instance, pc, db, call, todo, rows, out, steady, meddled>>

(* The file locks of the connections of one process; none is unreachable   *)
(* here, a lost connection keeps its name.                                 *)
INSTANCE FileLocks WITH Procs <- Threads, leaked <- {}

NoWork == NewFile
NoCall == [op |-> "none"]
View(c) == IF Writing(c) THEN work[c] ELSE file

BEGIN    == [op |-> "begin"]
COMMIT   == [op |-> "commit"]
ROLLBACK == [op |-> "rollback"]
Control  == {BEGIN, COMMIT, ROLLBACK}

ASSUME ScriptsAssumption == Scripts \subseteq Seq(Stmts \cup Control)

(* A thread has a prepared statement, or one that is reading. *)
Prepared(t) == pc[t] \in {"step", "maxstep", "maxfinalize"}
Read(t)     == {k \in DOMAIN rows[t] : rows[t][k] # NullRow}
Reading(t)  == pc[t] = "maxfinalize" \/ (pc[t] = "step" /\ Read(t) # {})

-----------------------------------------------------------------------------
Init ==
    /\ file = NewFile
    /\ conn = [c \in Threads |-> "none"]
    /\ lock = [c \in Threads |-> "none"]
    /\ txn = [c \in Threads |-> FALSE]
    /\ work = [c \in Threads |-> NoWork]
    /\ instance = NoThread
    /\ pc = [t \in Threads |-> "idle"]
    /\ db = [t \in Threads |-> NoThread]
    /\ call = [t \in Threads |-> NoCall]
    /\ todo = [t \in Threads |-> <<>>]
    /\ rows = [t \in Threads |-> <<>>]
    /\ out = [t \in Threads |-> "ok"]
    /\ steady = [t \in Threads |-> {}]
    /\ meddled = FALSE

-----------------------------------------------------------------------------
(* sqlite3_exec.  A text is a sequence of parts that are executed one      *)
(* after the other until one fails; d is the state of the connection c.    *)

DbOf(c) == [ok |-> TRUE, data |-> file, level |-> lock[c], open |-> txn[c], draft |-> work[c]]

Contents(d) == IF d.level \in WriteLocks THEN d.draft ELSE d.data
Fails(d)    == [d EXCEPT !.ok = FALSE]

(* The transaction ends; statements that are reading keep SHARED. *)
Ended(c, d) ==
    [d EXCEPT !.level = IF \E t \in Threads : db[t] = c /\ Reading(t)
                        THEN "shared" ELSE "none",
              !.open = FALSE, !.draft = NoWork]

CanRead(c, d)  == d.level # "none" \/ ~Blocked(c)
CanWrite(c, d) == CanRead(c, d) /\ \A e \in Threads \ {c} : ~Writing(e)

(* Mutant: BEGIN inside a transaction joins it. *)
BeginPart_Joins(d) == [d EXCEPT !.open = TRUE]

BeginPart(d) == IF d.open THEN Fails(d) ELSE [d EXCEPT !.open = TRUE]

RollbackPart(c, d) == IF d.open THEN Ended(c, d) ELSE Fails(d)

(* A COMMIT that finds a reader on another connection keeps PENDING. *)
CommitPart(c, d) ==
    IF ~d.open THEN Fails(d)
    ELSE IF d.level \in WriteLocks /\ ~MayExclude(c) THEN Fails([d EXCEPT !.level = "pending"])
    ELSE Ended(c, [d EXCEPT !.data = Contents(d)])

(* A statement, in a transaction or, if none is open, in one of its own. *)
StatementPart(c, s, d) ==
    IF ~Compiles(s, Contents(d)) THEN Fails(d)
    ELSE IF Writes(s, Contents(d)) THEN
        IF ~CanWrite(c, d) THEN Fails(d)
        ELSE LET reserved == [d EXCEPT !.level = IF @ \in WriteLocks THEN @ ELSE "reserved",
                                       !.draft = Contents(d)]
                 failed   == Violates(s, Contents(d))
                 written  == [reserved EXCEPT !.draft = Effect(s, @)]
             IN  IF d.open THEN IF failed THEN Fails(reserved) ELSE written
                 ELSE IF failed \/ ~MayExclude(c) THEN Fails(Ended(c, d))
                 ELSE Ended(c, [written EXCEPT !.data = written.draft])
    ELSE IF ~ReadsOnly(s, Contents(d)) THEN d
    ELSE IF ~CanRead(c, d) THEN Fails(d)
    ELSE IF d.open /\ d.level = "none" THEN [d EXCEPT !.level = "shared"]
    ELSE d

Part(c, part, d) ==
    CASE part = BEGIN    -> BeginPart(d)
      [] part = COMMIT   -> CommitPart(c, d)
      [] part = ROLLBACK -> RollbackPart(c, d)
      [] OTHER           -> StatementPart(c, part, d)

Exec(c, text) ==
    LET after[n \in 0..Len(text)] ==
            IF n = 0 THEN DbOf(c)
            ELSE IF after[n - 1].ok THEN Part(c, text[n], after[n - 1])
            ELSE after[n - 1]
    IN  IF conn[c] = "open" THEN after[Len(text)] ELSE Fails(DbOf(c))

Becomes(c, d) ==
    /\ file' = d.data
    /\ lock' = [lock EXCEPT ![c] = d.level]
    /\ txn' = [txn EXCEPT ![c] = d.open]
    /\ work' = [work EXCEPT ![c] = d.draft]

-----------------------------------------------------------------------------
(* Control of a call. *)

Goto(t, label) == pc' = [pc EXCEPT ![t] = label]

End(t, how) ==
    /\ Goto(t, "idle")
    /\ db' = [db EXCEPT ![t] = NoThread]
    /\ call' = [call EXCEPT ![t] = NoCall]
    /\ todo' = [todo EXCEPT ![t] = <<>>]
    /\ rows' = [rows EXCEPT ![t] = <<>>]
    /\ out' = [out EXCEPT ![t] = how]

(* The loops of the constructor, Save and Update: one Execute per text.    *)
(* After the constructor's loop Initialize has still to store instance_.   *)
Proceed(t, list) ==
    \/ list = <<>> /\ call[t].op # "init" /\ End(t, "ok")
    \/ /\ list # <<>> \/ call[t].op = "init"
       /\ Goto(t, IF list = <<>> THEN "store" ELSE "begin")
       /\ todo' = [todo EXCEPT ![t] = list]
       /\ UNCHANGED <<db, call, rows, out>>

Enter(t, c, label, list) ==
    /\ call' = [call EXCEPT ![t] = c]
    /\ Goto(t, label)
    /\ todo' = [todo EXCEPT ![t] = list]
    /\ out' = [out EXCEPT ![t] = "ok"]
    /\ UNCHANGED rows

-----------------------------------------------------------------------------
(* Life cycle. *)

(* The null check.  Bound: a thread opens a second connection only when    *)
(* its first one is closed.                                                *)
Initialize(t) ==
    /\ pc[t] = "idle"
    /\ \/ /\ instance = NoThread
          /\ conn[t] = "none"
          /\ Enter(t, [op |-> "init"], "open", <<>>)
          /\ UNCHANGED db
       \/ instance # NoThread /\ End(t, "failed")
    /\ UNCHANGED <<file, conn, lock, txn, work, instance>>

(* Mutant: instance_ is stored before the tables are created. *)
Open_StoresFirst(t) ==
    /\ pc[t] = "open"
    /\ conn' = [conn EXCEPT ![t] = "open"]
    /\ db' = [db EXCEPT ![t] = t]
    /\ instance' = t
    /\ Goto(t, "begin")
    /\ todo' = [todo EXCEPT ![t] = [k \in DOMAIN Records |-> <<CreateTable(Records[k])>>]]
    /\ UNCHANGED <<call, rows, out, file, lock, txn, work>>

(* The constructor opens a connection and starts to create the tables, or  *)
(* cannot open it.                                                         *)
Open(t) ==
    /\ pc[t] = "open"
    /\ \/ /\ conn' = [conn EXCEPT ![t] = "open"]
          /\ db' = [db EXCEPT ![t] = t]
          /\ Goto(t, "begin")
          /\ todo' = [todo EXCEPT ![t] = [k \in DOMAIN Records |-> <<CreateTable(Records[k])>>]]
          /\ UNCHANGED <<call, rows, out>>
       \/ End(t, "failed") /\ UNCHANGED conn
    /\ UNCHANGED <<file, lock, txn, work, instance>>

(* instance_ = new Database(...): whatever another thread has stored in    *)
(* the meantime is overwritten.                                            *)
StoreInstance(t) ==
    /\ pc[t] = "store"
    /\ instance' = t
    /\ End(t, "ok")
    /\ UNCHANGED <<file, conn, lock, txn, work>>

(* Finalize deletes the object, so that a program may only call it when no *)
(* other thread is using it.                                               *)
Finalize(t) ==
    /\ pc[t] = "idle"
    /\ instance # NoThread
    /\ \A u \in Threads : db[u] # instance
    /\ Becomes(instance, Ended(instance, DbOf(instance)))
    /\ conn' = [conn EXCEPT ![instance] = "none"]
    /\ instance' = NoThread
    /\ End(t, "ok")

-----------------------------------------------------------------------------
(* Operations of Database::Instance(). *)

Ready(t) == pc[t] = "idle" /\ instance # NoThread

Registered == {Records[k] : k \in DOMAIN Records}
Models     == [id : Ids, val : Vals]
Vectors(S) == UNION {[1..n -> S] : n \in 1..MaxBatch}

StartExec(t, texts) ==
    /\ Ready(t)
    /\ db' = [db EXCEPT ![t] = instance]
    /\ Enter(t, [op |-> "exec"], "begin", texts)
    /\ UNCHANGED <<file, conn, lock, txn, work, instance>>

(* One record or a vector of them; an empty vector does nothing. *)
Save(t) == \E r \in Registered, ms \in Vectors(Models) :
    StartExec(t, [k \in DOMAIN ms |-> <<Insert(r, ms[k])>>])

UpdateRecords(t) == \E r \in Registered, ms \in Vectors(Models) :
    StartExec(t, [k \in DOMAIN ms |-> <<Update(r, ms[k])>>])

DeleteRecords(t) == \E r \in Registered, i \in Ids :
    StartExec(t, <<<<Delete(r, EqualId(i))>>>>)

Sql(t) == \E text \in Scripts : StartExec(t, <<text>>)

(* Mutant: closing also drops the handle. *)
Close_Forgets(c) ==
    \/ /\ \E u \in Threads : db[u] = c /\ Prepared(u)
       /\ UNCHANGED <<file, conn, lock, txn, work>>
    \/ /\ \A u \in Threads : ~(db[u] = c /\ Prepared(u))
       /\ Becomes(c, Ended(c, DbOf(c)))
       /\ conn' = [conn EXCEPT ![c] = "none"]

(* sqlite3_close of a connection on which some thread has a prepared       *)
(* statement returns SQLITE_BUSY and does nothing.                         *)
Close(c) ==
    \/ /\ \E u \in Threads : db[u] = c /\ Prepared(u)
       /\ UNCHANGED <<file, conn, lock, txn, work>>
    \/ /\ \A u \in Threads : ~(db[u] = c /\ Prepared(u))
       /\ Becomes(c, Ended(c, DbOf(c)))
       /\ conn' = [conn EXCEPT ![c] = "closed"]

(* A SELECT is prepared; if it does not compile the connection is closed   *)
(* under the singleton and under the other threads.                        *)
Fetch(t) == \E r \in Registered, w \in {EmptyPredicate, BadPredicate} :
    /\ Ready(t)
    /\ \/ /\ conn[instance] = "open" /\ w # BadPredicate
          /\ db' = [db EXCEPT ![t] = instance]
          /\ Enter(t, [op |-> "fetch", type |-> r, where |-> w], "step", <<>>)
          /\ UNCHANGED <<file, conn, lock, txn, work>>
       \/ conn[instance] = "open" /\ w = BadPredicate /\ Close(instance) /\ End(t, "failed")
       \/ /\ conn[instance] # "open"
          /\ End(t, "failed")
          /\ UNCHANGED <<file, conn, lock, txn, work>>
    /\ UNCHANGED instance

(* Bound: no id above MaxId is stored or on its way into the file. *)
IdsBounded(r) ==
    /\ \A i \in DOMAIN View(instance)[r] : i <= MaxId
    /\ \A u \in Threads : \A k \in DOMAIN todo[u] : \A j \in DOMAIN todo[u][k] :
          todo[u][k][j].op = "insert" => todo[u][k][j].id <= MaxId

(* GetMaxId, and Save with auto-increment, which starts with it. *)
StartMax(t, c) ==
    /\ Ready(t)
    /\ \/ /\ conn[instance] = "open"
          /\ db' = [db EXCEPT ![t] = instance]
          /\ Enter(t, c, "maxstep", <<>>)
       \/ conn[instance] # "open" /\ End(t, "failed")
    /\ UNCHANGED <<file, conn, lock, txn, work, instance>>

SaveAutoIncrement(t) == \E r \in Registered, vs \in Vectors(Vals) :
    /\ Ready(t)
    /\ IdsBounded(r)
    /\ StartMax(t, [op |-> "autosave", type |-> r, vals |-> vs])

-----------------------------------------------------------------------------
(* ExecutionQuery::Execute: four calls of sqlite3_exec. *)

Begin(t) == LET d == Exec(db[t], <<BEGIN>>) IN
    /\ pc[t] = "begin"
    /\ Becomes(db[t], d)
    /\ \/ d.ok /\ Goto(t, "exec") /\ UNCHANGED <<db, call, todo, rows, out>>
       \/ ~d.ok /\ End(t, "failed")
    /\ UNCHANGED <<conn, instance>>

ExecText(t) == LET d == Exec(db[t], Head(todo[t])) IN
    /\ pc[t] = "exec"
    /\ Becomes(db[t], d)
    /\ Goto(t, IF d.ok THEN "commit" ELSE "rollback")
    /\ UNCHANGED <<conn, instance, db, call, todo, rows, out>>

(* Mutant: no ROLLBACK after a text that failed. *)
Rollback_Missing(t) ==
    /\ pc[t] = "rollback"
    /\ End(t, "failed")
    /\ UNCHANGED <<file, conn, lock, txn, work, instance>>

(* Its result is not looked at. *)
Rollback(t) ==
    /\ pc[t] = "rollback"
    /\ Becomes(db[t], Exec(db[t], <<ROLLBACK>>))
    /\ End(t, "failed")
    /\ UNCHANGED <<conn, instance>>

Commit(t) == LET d == Exec(db[t], <<COMMIT>>) IN
    /\ pc[t] = "commit"
    /\ Becomes(db[t], d)
    /\ \/ d.ok /\ Proceed(t, Tail(todo[t]))
       \/ ~d.ok /\ End(t, "failed")
    /\ UNCHANGED <<conn, instance>>

-----------------------------------------------------------------------------
(* FetchRecordsQuery::GetResults. *)

Last(t) == rows[t][Len(rows[t])]

(* Mutant: the position in the table is the number of rows read. *)
Unread_ByCount(t) ==
    {i \in Selected(call[t].where, View(db[t])[call[t].type]) :
        Cardinality({j \in DOMAIN View(db[t])[call[t].type] : j < i}) >= Cardinality(Read(t))}

Unread(t) ==
    {i \in Selected(call[t].where, View(db[t])[call[t].type]) :
        Read(t) = {} \/ Last(t)[1] < i}

MayStep(t) == pc[t] = "step" /\ MayRead(db[t])

StepRow(t) ==
    /\ MayStep(t)
    /\ \E i \in Unread(t) :
          /\ \A j \in Unread(t) : i <= j
          /\ rows' = [rows EXCEPT ![t] = Append(@, <<i, View(db[t])[call[t].type][i]>>)]
    /\ lock' = [lock EXCEPT ![db[t]] = IF @ = "none" THEN "shared" ELSE @]
    /\ UNCHANGED <<file, conn, txn, work, instance, pc, db, call, todo, out>>

StepBusy(t) ==
    /\ pc[t] = "step" /\ ~MayRead(db[t])
    /\ rows' = [rows EXCEPT ![t] = IF Len(@) < MaxBusy THEN Append(@, NullRow) ELSE @]
    /\ UNCHANGED <<file, conn, lock, txn, work, instance, pc, db, call, todo, out>>

(* A statement stops reading: SHARED goes with the last one, unless a      *)
(* transaction is open.                                                    *)
StopsReading(t) ==
    lock' = [lock EXCEPT ![db[t]] =
        IF txn[db[t]] \/ (\E u \in Threads \ {t} : db[u] = db[t] /\ Reading(u))
        THEN @ ELSE "none"]

StepDone(t) ==
    /\ MayStep(t)
    /\ Unread(t) = {}
    /\ StopsReading(t)
    /\ End(t, "ok")
    /\ UNCHANGED <<file, conn, txn, work, instance>>

-----------------------------------------------------------------------------
(* FetchMaxIdQuery::GetMaxId and the auto-increment branch of Save. *)

AutoInserts(r, vs, base) ==
    [k \in DOMAIN vs |-> <<Insert(r, [id |-> base + k, val |-> vs[k]])>>]

(* sqlite3_column_int keeps the low bits of the 64-bit id. *)
ColumnInt(n) == ((n + IntHalf) % (2 * IntHalf)) - IntHalf

MaxStep(t) ==
    /\ pc[t] = "maxstep"
    /\ \/ /\ MayRead(db[t])
          /\ lock' = [lock EXCEPT ![db[t]] = IF @ = "none" THEN "shared" ELSE @]
          /\ todo' = [todo EXCEPT ![t] =
                AutoInserts(call[t].type, call[t].vals,
                            ColumnInt(Greatest(View(db[t])[call[t].type])))]
          /\ Goto(t, "maxfinalize")
          /\ UNCHANGED <<db, call, rows, out>>
       \/ ~MayRead(db[t]) /\ End(t, "failed") /\ UNCHANGED lock
    /\ UNCHANGED <<file, conn, txn, work, instance>>

MaxFinalize(t) ==
    /\ pc[t] = "maxfinalize"
    /\ StopsReading(t)
    /\ Proceed(t, todo[t])
    /\ UNCHANGED <<file, conn, txn, work, instance>>

-----------------------------------------------------------------------------
(* History: what the fetch of t, if one is under way, can rely on. *)
Matching(t) == LET table == View(db[t])[call[t].type] IN
    {<<i, table[i]>> : i \in Selected(call[t].where, table)}

Controls(t) == \E k \in DOMAIN todo[t] : \E j \in DOMAIN todo[t][k] : todo[t][k][j] \in Control

Watch ==
    /\ steady' = [t \in Threads |->
          IF pc'[t] # "step" THEN {}
          ELSE IF pc[t] # "step" THEN Matching(t)'
          ELSE steady[t] \cap Matching(t)']
    /\ meddled' = (meddled \/ \E t \in Threads : Controls(t)')

Step(t) ==
    \/ Initialize(t) \/ Open(t) \/ StoreInstance(t) \/ Finalize(t)
    \/ Save(t) \/ UpdateRecords(t) \/ DeleteRecords(t) \/ Sql(t)
    \/ Fetch(t) \/ SaveAutoIncrement(t)
    \/ Begin(t) \/ ExecText(t) \/ Rollback(t) \/ Commit(t)
    \/ StepRow(t) \/ StepBusy(t) \/ StepDone(t) \/ MaxStep(t) \/ MaxFinalize(t)

Next == \E t \in Threads : Step(t) /\ Watch

Spec == Init /\ [][Next]_vars

-----------------------------------------------------------------------------
(* Types. *)

Labels == {"idle", "open", "store", "begin", "exec", "rollback", "commit",
           "step", "maxstep", "maxfinalize"}

CallRecords ==
    {NoCall, [op |-> "init"], [op |-> "exec"]}
        \cup [op : {"fetch"}, type : Types, where : {EmptyPredicate}]
        \cup [op : {"autosave"}, type : Types, vals : Seq(Vals)]

(* The type of every variable.  In particular a thread inside an operation *)
(* uses a connection that was opened, though maybe closed by now.          *)
TypeOK ==
    /\ IsContents(file)
    /\ conn \in [Threads -> {"none", "open", "closed"}]
    /\ lock \in [Threads -> LockLevels]
    /\ txn \in [Threads -> BOOLEAN]
    /\ \A c \in Threads : IF Writing(c) THEN IsContents(work[c]) ELSE work[c] = NoWork
    /\ instance \in Threads \cup {NoThread}
    /\ instance # NoThread => conn[instance] # "none"
    /\ pc \in [Threads -> Labels]
    /\ db \in [Threads -> Threads \cup {NoThread}]
    /\ \A t \in Threads : db[t] = NoThread <=> pc[t] \in {"idle", "open"}
    /\ \A t \in Threads : db[t] # NoThread => conn[db[t]] # "none"
    /\ call \in [Threads -> CallRecords]
    /\ todo \in [Threads -> Seq(Seq(Stmts \cup Control))]
    /\ rows \in [Threads -> Seq((Int \X Vals) \cup {NullRow})]
    /\ out \in [Threads -> {"ok", "failed"}]
    /\ \A t \in Threads : steady[t] \subseteq Int \X Vals
    /\ meddled \in BOOLEAN

-----------------------------------------------------------------------------
(* Safety. *)

(* A connection holds a transaction only while a thread is between BEGIN   *)
(* and COMMIT on it, and a lock only for that or for a statement that is   *)
(* reading, whatever text the threads give to Sql and whichever connection *)
(* Initialize has lost; the one exception is PENDING, left by a refused    *)
(* COMMIT.                                                                 *)
LocksAreUsed ==
    \A c \in Threads :
        \/ lock[c] = "pending" /\ txn[c]
        \/ /\ txn[c] => \E t \in Threads :
                 db[t] = c /\ pc[t] \in {"exec", "rollback", "commit"}
           /\ Writing(c) => txn[c]
           /\ lock[c] = "shared" =>
                 txn[c] \/ \E t \in Threads : db[t] = c /\ Reading(t)

(* What a text without transaction control does, from its first statement  *)
(* to its last.                                                            *)
TextEffect(text, c) ==
    LET after[n \in 0..Len(text)] ==
            IF n = 0 THEN c ELSE Effect(text[n], after[n - 1])
    IN  after[Len(text)]

Returns(t) == pc[t] = "commit" /\ pc'[t] # "commit" /\ out'[t] = "ok"

(* Until some text given to Sql controls transactions: an Execute that     *)
(* returns has applied its text, whole, to the file as it is then, though  *)
(* other threads use the same connection, and the file changes in no other *)
(* way: what an Execute that throws had begun never gets there.            *)
AppliesWhole ==
    [][~meddled =>
          /\ \A t \in Threads : Returns(t) => file' = TextEffect(Head(todo[t]), file)
          /\ file' # file => \E t \in Threads : Returns(t)]_vars

(* A fetch sees what other threads write on its connection while it runs,  *)
(* committed or not, but it returns every matching row that stood there    *)
(* unchanged all the time, and each id at most once, in order.             *)
FetchMissesNothing ==
    [][\A t \in Threads :
          pc[t] = "step" /\ pc'[t] = "idle" /\ out'[t] = "ok" =>
              /\ steady[t] \subseteq {rows[t][k] : k \in Read(t)}
              /\ \A j, k \in Read(t) : j < k => rows[t][j][1] < rows[t][k][1]]_vars

(* The instance that Initialize has stored, be it the second one that two  *)
(* threads have made, has all its tables in the committed file.            *)
TablesExist == instance # NoThread => Registered \subseteq DOMAIN file
=============================================================================

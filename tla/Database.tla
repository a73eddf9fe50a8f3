------------------------------ MODULE Database ------------------------------
(***************************************************************************)
(* The Database singleton of several processes that share one database     *)
(* file.  A step is one call of the SQLite API: processes interleave       *)
(* between the BEGIN, the statement and the COMMIT of                      *)
(* ExecutionQuery::Execute, between two sqlite3_step calls of              *)
(* FetchRecordsQuery::GetResults, and between the SELECT MAX(id) and the   *)
(* INSERT of SaveAutoIncrement.                                            *)
(***************************************************************************)
EXTENDS Statements, FileLocks

CONSTANTS
    Records,    \* Records[p]: the register of program p, in map order
    Ids,        \* ids that callers put in records and predicates
    NullRow,    \* a row of empty strings, read while no row was available
    IntHalf,    \* 2^(w-1) for the width w of int, which sqlite3_column_int returns
    MaxBatch,   \* bound: records in one vector
    MaxId,      \* bound: auto-increment is not called above this id
    MaxBusy     \* bound: rows kept of those read while the file was locked

ASSUME RecordsAssumption == Records \in [Procs -> Seq(Types)]
ASSUME IdsAssumption     == Ids \subseteq Int
ASSUME IntHalfAssumption == IntHalf \in Nat \ {0}
ASSUME NullRowAssumption == NullRow \notin Int \X Vals
ASSUME BoundsAssumption  == MaxBatch \in Nat /\ MaxId \in Int /\ MaxBusy \in Nat

VARIABLES
    file,       \* committed contents of the database file
    txn,        \* txn[p]: an explicit transaction is open (autocommit off)
    work,       \* work[p]: contents as changed by the open write transaction
    conn,       \* conn[p]: what db_ points to: nothing, open, or closed and freed
    instance,   \* instance[p]: Database::instance_ is not null
    pc,         \* pc[p]: the SQLite call that process p makes next
    call,       \* call[p]: the operation under way
    todo,       \* todo[p]: statements it has still to execute
    rows,       \* rows[p]: FetchQueryResults::row_values so far
    out         \* out[p]: "failed" if the last operation did not return

sqlite == <<file, lock, leaked, txn, work>>
vars   == <<file, lock, leaked, txn, work, conn, instance, pc, call, todo, rows, out>>

NoWork == [op |-> "none"]
NoCall == [op |-> "none"]
Texts  == Vals \cup {BadText}

(* Operations, with what they need to know in their later phases. *)
CallRecords ==
    {NoCall, [op |-> "init"], [op |-> "exec"]}
        \cup [op : {"fetch", "fetchid"}, type : Types, where : Predicates]
        \cup [op : {"max"}, type : Types]
        \cup [op : {"autosave"}, type : Types, vals : Seq(Texts)]

Models == [id : Ids, val : Texts]

Batches(S) == UNION {[1..n -> S] : n \in 0..MaxBatch}
Registered(p) == {Records[p][k] : k \in DOMAIN Records[p]}
View(p) == IF Writing(p) THEN work[p] ELSE file

-----------------------------------------------------------------------------
Init ==
    /\ file = NewFile
    /\ lock = [p \in Procs |-> "none"]
    /\ leaked = {}
    /\ txn = [p \in Procs |-> FALSE]
    /\ work = [p \in Procs |-> NoWork]
    /\ conn = [p \in Procs |-> "none"]
    /\ instance = [p \in Procs |-> FALSE]
    /\ pc = [p \in Procs |-> "idle"]
    /\ call = [p \in Procs |-> NoCall]
    /\ todo = [p \in Procs |-> <<>>]
    /\ rows = [p \in Procs |-> <<>>]
    /\ out = [p \in Procs |-> "ok"]

(* Control of a call: it ends by returning, by throwing, or goes on. *)
End(p, how) ==
    /\ pc' = [pc EXCEPT ![p] = "idle"]
    /\ call' = [call EXCEPT ![p] = NoCall]
    /\ todo' = [todo EXCEPT ![p] = <<>>]
    /\ rows' = [rows EXCEPT ![p] = <<>>]
    /\ out' = [out EXCEPT ![p] = how]

Goto(p, label) == pc' = [pc EXCEPT ![p] = label]

(* The loops of the constructor, Save and Update: one Execute per record.  *)
(* When the constructor's loop ends, Initialize stores the instance.       *)
Proceed(p, c, list) ==
    \/ /\ list = <<>>
       /\ End(p, "ok")
       /\ instance' = [instance EXCEPT ![p] = @ \/ c.op = "init"]
    \/ /\ list # <<>>
       /\ Goto(p, "begin")
       /\ call' = [call EXCEPT ![p] = c]
       /\ todo' = [todo EXCEPT ![p] = list]
       /\ out' = [out EXCEPT ![p] = "ok"]
       /\ UNCHANGED <<instance, rows>>

(* An exception that leaves the constructor loses the connection: instance_ *)
(* is still null and no destructor closes db_.                              *)
LoseConnection(p) ==
    conn' = [conn EXCEPT ![p] = IF call[p].op = "init" THEN "none" ELSE @]

(* The transaction ends, by COMMIT, ROLLBACK or sqlite3_close. *)
EndTransaction(p) ==
    /\ lock' = [lock EXCEPT ![p] = "none"]
    /\ txn' = [txn EXCEPT ![p] = FALSE]
    /\ work' = [work EXCEPT ![p] = NoWork]

-----------------------------------------------------------------------------
(* Life cycle. *)

(* Mutant: instance_ is stored before the tables are created. *)
Initialize_StoresFirst(p) ==
    /\ pc[p] = "idle"
    /\ ~instance[p]
    /\ conn' = [conn EXCEPT ![p] = "open"]
    /\ instance' = [instance EXCEPT ![p] = TRUE]
    /\ Goto(p, "begin")
    /\ call' = [call EXCEPT ![p] = [op |-> "init"]]
    /\ todo' = [todo EXCEPT ![p] =
                   [k \in DOMAIN Records[p] |-> CreateTable(Records[p][k])]]
    /\ UNCHANGED <<file, lock, leaked, txn, work, rows, out>>

Initialize(p) ==
    /\ pc[p] = "idle"
    /\ ~instance[p]
    /\ conn' = [conn EXCEPT ![p] = "open"]
    /\ Proceed(p, [op |-> "init"],
               [k \in DOMAIN Records[p] |-> CreateTable(Records[p][k])])
    /\ UNCHANGED sqlite

(* A second Initialize, or a path that sqlite3_open cannot open. *)
InitializeThrows(p) ==
    /\ pc[p] = "idle"
    /\ End(p, "failed")
    /\ UNCHANGED <<file, lock, leaked, txn, work, conn, instance>>

(* sqlite3_close rolls back an open transaction; its result is ignored, so *)
(* closing a handle that a failed fetch has closed already goes unnoticed. *)
Finalize(p) ==
    /\ pc[p] = "idle"
    /\ instance[p]
    /\ EndTransaction(p)
    /\ conn' = [conn EXCEPT ![p] = "none"]
    /\ instance' = [instance EXCEPT ![p] = FALSE]
    /\ End(p, "ok")
    /\ UNCHANGED <<file, leaked>>

(* The process ends, normally or by a crash (a use of a freed handle       *)
(* included): the operating system drops its locks and the next reader     *)
(* rolls back its journal.                                                 *)
Exit(p) ==
    /\ pc[p] # "idle" \/ conn[p] # "none" \/ \E c \in leaked : c[1] = p
    /\ EndTransaction(p)
    /\ leaked' = {c \in leaked : c[1] # p}
    /\ conn' = [conn EXCEPT ![p] = "none"]
    /\ instance' = [instance EXCEPT ![p] = FALSE]
    /\ End(p, "failed")
    /\ UNCHANGED file

-----------------------------------------------------------------------------
(* Operations of Database::Instance(), which dereferences instance_: a     *)
(* program may call it only after Initialize.                              *)

Ready(p) == pc[p] = "idle" /\ instance[p]

StartExec(p, list) ==
    /\ Ready(p)
    /\ Proceed(p, [op |-> "exec"], list)
    /\ UNCHANGED <<file, lock, leaked, txn, work, conn>>

Save(p) == \E t \in Registered(p), ms \in Batches(Models) :
    StartExec(p, [k \in DOMAIN ms |-> Insert(t, ms[k])])

UpdateRecords(p) == \E t \in Registered(p), ms \in Batches(Models) :
    StartExec(p, [k \in DOMAIN ms |-> Update(t, ms[k])])

DeleteRecords(p) == \E t \in Registered(p) :
    \/ \E i \in Ids : StartExec(p, <<Delete(t, EqualId(i))>>)
    \/ \E v \in Vals : StartExec(p, <<Delete(t, EqualVal(v))>>)
    \/ \E w \in {EmptyPredicate, BadPredicate} : StartExec(p, <<Delete(t, w)>>)

(* Raw SQL: text that does not compile, no text, or a row deletion. *)
Sql(p) ==
    \/ \E s \in {Malformed, NoSql} : StartExec(p, <<s>>)
    \/ \E t \in Registered(p), v \in Vals : StartExec(p, <<Delete(t, EqualVal(v))>>)

(* A query is prepared, which concerns nobody but its own connection, and  *)
(* its first sqlite3_step comes next.                                      *)
StartQuery(p, c, label) ==
    /\ call' = [call EXCEPT ![p] = c]
    /\ out' = [out EXCEPT ![p] = "ok"]
    /\ Goto(p, label)
    /\ UNCHANGED <<lock, txn, work, conn, todo, rows>>

(* FetchRecordsQuery: a SELECT that cannot be prepared closes the          *)
(* connection under the singleton, which keeps its pointer.                *)
StartFetch(p, c) ==
    /\ Ready(p)
    /\ \/ /\ conn[p] = "open" /\ c.where.by # "bad"
          /\ StartQuery(p, c, "step")
       \/ /\ conn[p] # "open" \/ c.where.by = "bad"
          /\ conn' = [conn EXCEPT ![p] = "closed"]
          /\ EndTransaction(p)
          /\ End(p, "failed")
    /\ UNCHANGED <<file, leaked, instance>>

Fetch(p) == \E t \in Registered(p) :
    \/ \E w \in {EmptyPredicate, BadPredicate} \cup {EqualVal(v) : v \in Vals} :
          StartFetch(p, [op |-> "fetch", type |-> t, where |-> w])
    \/ \E i \in Ids :
          StartFetch(p, [op |-> "fetchid", type |-> t, where |-> EqualId(i)])

(* FetchMaxIdQuery: its SELECT compiles if the handle is still open. *)
StartMax(p, c) ==
    /\ Ready(p)
    /\ \/ conn[p] = "open" /\ StartQuery(p, c, "maxstep")
       \/ /\ conn[p] # "open"
          /\ End(p, "failed")
          /\ UNCHANGED <<lock, txn, work, conn>>
    /\ UNCHANGED <<file, leaked, instance>>

GetMaxId(p) == \E t \in Registered(p) : StartMax(p, [op |-> "max", type |-> t])

(* sqlite3_column_int keeps the low bits of the 64-bit id. *)
ColumnInt(n) == ((n + IntHalf) % (2 * IntHalf)) - IntHalf

(* Bound: no id above MaxId is stored or on its way into the file. *)
IdsBounded(t) ==
    /\ \A i \in DOMAIN file[t] : i <= MaxId
    /\ \A q \in Procs : \A k \in DOMAIN todo[q] :
          todo[q][k].op = "insert" => todo[q][k].id <= MaxId

SaveAutoIncrement(p) == \E t \in Registered(p), vs \in Batches(Texts) :
    /\ Ready(p)
    /\ IdsBounded(t)
    /\ StartMax(p, [op |-> "autosave", type |-> t, vals |-> vs])

-----------------------------------------------------------------------------
(* ExecutionQuery::Execute. *)

(* Mutant: a BEGIN that fails inside an open transaction is ignored. *)
Begin_Ignored(p) ==
    /\ pc[p] = "begin"
    /\ conn[p] = "open"
    /\ txn' = [txn EXCEPT ![p] = TRUE]
    /\ Goto(p, "exec")
    /\ UNCHANGED <<file, lock, leaked, work, conn, instance, call, todo, rows, out>>

Begin(p) ==
    /\ pc[p] = "begin"
    /\ \/ /\ conn[p] = "open" /\ ~txn[p]
          /\ txn' = [txn EXCEPT ![p] = TRUE]
          /\ Goto(p, "exec")
          /\ UNCHANGED <<call, todo, rows, out>>
       \/ /\ conn[p] # "open" \/ txn[p]     \* misuse, or a nested transaction
          /\ End(p, "failed")
          /\ UNCHANGED txn
    /\ UNCHANGED <<file, lock, leaked, work, conn, instance>>

(* sqlite3_exec of the statement: it writes, only reads, or does neither. *)
ExecStatement(p) ==
    LET s == Head(todo[p]) IN
    /\ pc[p] = "exec"
    /\ Compiles(s, View(p))
    /\ \/ /\ Writes(s, View(p)) /\ MayWrite(p) /\ ~Violates(s, View(p))
          /\ lock' = [lock EXCEPT ![p] = "reserved"]
          /\ work' = [work EXCEPT ![p] = Effect(s, View(p))]
       \/ /\ ReadsOnly(s, View(p)) /\ MayRead(p)
          /\ lock' = [lock EXCEPT ![p] = "shared"]
          /\ UNCHANGED work
       \/ /\ ~Writes(s, View(p)) /\ ~ReadsOnly(s, View(p))
          /\ UNCHANGED <<lock, work>>
    /\ Goto(p, "commit")
    /\ UNCHANGED <<file, leaked, txn, conn, instance, call, todo, rows, out>>

(* Mutant: a statement waits for its lock. *)
ExecFails_Waits(p) ==
    LET s == Head(todo[p]) IN
    /\ pc[p] = "exec"
    /\ ~Compiles(s, View(p)) \/ (MayWrite(p) /\ Violates(s, View(p)))
    /\ Goto(p, "rollback")
    /\ UNCHANGED <<file, lock, leaked, txn, work, conn, instance, call, todo, rows, out>>

(* It fails: a syntax error, SQLITE_BUSY, or the primary key, which is     *)
(* found out with the RESERVED lock in hand.                               *)
ExecFails(p) ==
    LET s == Head(todo[p]) IN
    /\ pc[p] = "exec"
    /\ \/ /\ \/ ~Compiles(s, View(p))
             \/ Writes(s, View(p)) /\ ~MayWrite(p)
             \/ ReadsOnly(s, View(p)) /\ ~MayRead(p)
          /\ UNCHANGED <<lock, work>>
       \/ /\ Compiles(s, View(p)) /\ Writes(s, View(p))
          /\ MayWrite(p) /\ Violates(s, View(p))
          /\ lock' = [lock EXCEPT ![p] = "reserved"]
          /\ work' = [work EXCEPT ![p] = View(p)]
    /\ Goto(p, "rollback")
    /\ UNCHANGED <<file, leaked, txn, conn, instance, call, todo, rows, out>>

(* Mutant: no ROLLBACK after a statement that failed. *)
Rollback_Missing(p) ==
    /\ pc[p] = "rollback"
    /\ LoseConnection(p)
    /\ End(p, "failed")
    /\ UNCHANGED <<file, lock, txn, work, leaked, instance>>

(* Mutant: the loop over a vector goes on after a record that failed. *)
Rollback_Continues(p) ==
    /\ pc[p] = "rollback"
    /\ EndTransaction(p)
    /\ Proceed(p, call[p], Tail(todo[p]))
    /\ UNCHANGED <<file, leaked, conn>>

Rollback(p) ==
    /\ pc[p] = "rollback"
    /\ EndTransaction(p)
    /\ LoseConnection(p)
    /\ End(p, "failed")
    /\ UNCHANGED <<file, leaked, instance>>

(* COMMIT with nothing to write. *)
CommitRead(p) ==
    /\ pc[p] = "commit"
    /\ ~Writing(p)
    /\ EndTransaction(p)
    /\ Proceed(p, call[p], Tail(todo[p]))
    /\ UNCHANGED <<file, leaked, conn>>

(* COMMIT of a write transaction first takes the EXCLUSIVE lock ... *)
CommitLocks(p) ==
    /\ pc[p] = "commit"
    /\ Writing(p)
    /\ MayExclude(p)
    /\ lock' = [lock EXCEPT ![p] = "exclusive"]
    /\ Goto(p, "write")
    /\ UNCHANGED <<file, leaked, txn, work, conn, instance, call, todo, rows, out>>

(* Mutant: the result of COMMIT is not looked at. *)
CommitBusy_Ignored(p) ==
    /\ pc[p] = "commit"
    /\ Writing(p)
    /\ ~MayExclude(p)
    /\ lock' = [lock EXCEPT ![p] = "pending"]
    /\ Proceed(p, call[p], Tail(todo[p]))
    /\ UNCHANGED <<file, leaked, txn, work, conn>>

(* Mutant: a busy COMMIT is tried again and again. *)
CommitBusy_Retries(p) ==
    /\ pc[p] = "commit"
    /\ Writing(p)
    /\ ~MayExclude(p)
    /\ lock' = [lock EXCEPT ![p] = "pending"]
    /\ UNCHANGED <<file, leaked, txn, work, conn, instance, pc, call, todo, rows, out>>

(* A process inside the call that takes its SHARED lock: unixLock holds    *)
(* the PENDING byte for reading until it has it.                           *)
TakesShared(q) ==
    /\ lock[q] = "none"
    /\ \/ pc[q] \in {"step", "maxstep"}
       \/ /\ pc[q] = "exec"
          /\ \/ Writes(Head(todo[q]), View(q))
             \/ ReadsOnly(Head(todo[q]), View(q))

(* COMMIT returned SQLITE_BUSY and the transaction is open, with its lock  *)
(* at this level.  Execute throws without a ROLLBACK.                      *)
CommitRefused(p, level) ==
    /\ \/ /\ call[p].op = "init"
          /\ leaked' = leaked \cup {<<p, level>>}
          /\ EndTransaction(p)
       \/ /\ call[p].op # "init"
          /\ lock' = [lock EXCEPT ![p] = level]
          /\ UNCHANGED <<leaked, txn, work>>
    /\ LoseConnection(p)
    /\ End(p, "failed")
    /\ UNCHANGED <<file, instance>>

(* ... and is refused when somebody is reading, with PENDING in hand, or   *)
(* when somebody is just about to read, without it.                        *)
CommitBusy(p) ==
    /\ pc[p] = "commit"
    /\ Writing(p)
    /\ \/ ~MayExclude(p) /\ CommitRefused(p, "pending")
       \/ (\E q \in Procs \ {p} : TakesShared(q)) /\ CommitRefused(p, "reserved")

CommitWrites(p) ==
    /\ pc[p] = "write"
    /\ file' = work[p]
    /\ EndTransaction(p)
    /\ Proceed(p, call[p], Tail(todo[p]))
    /\ UNCHANGED <<leaked, conn>>

(* An I/O error while writing: SQLite rolls back and leaves the            *)
(* transaction.                                                            *)
CommitIoError(p) ==
    /\ pc[p] = "write"
    /\ EndTransaction(p)
    /\ LoseConnection(p)
    /\ End(p, "failed")
    /\ UNCHANGED <<file, leaked, instance>>

-----------------------------------------------------------------------------
(* FetchRecordsQuery::GetResults and Database::Fetch. *)

(* Rows come in id order; the cursor stands after the last row read. *)
Unread(p) ==
    LET last == IF rows[p] = <<>> THEN NullRow ELSE rows[p][Len(rows[p])]
    IN  {i \in Selected(call[p].where, View(p)[call[p].type]) :
            last = NullRow \/ last[1] < i}

StepRow(p) ==
    /\ pc[p] = "step"
    /\ MayRead(p)
    /\ \E i \in Unread(p) :
          /\ \A j \in Unread(p) : i <= j
          /\ rows' = [rows EXCEPT ![p] =
                        Append(@, <<i, View(p)[call[p].type][i]>>)]
    /\ lock' = [lock EXCEPT ![p] = IF @ = "none" THEN "shared" ELSE @]
    /\ UNCHANGED <<file, leaked, txn, work, conn, instance, pc, call, todo, out>>

(* Mutant: the loop ends at the first step that yields no row. *)
StepBusy_Ends(p) ==
    /\ pc[p] = "step"
    /\ ~MayRead(p)
    /\ End(p, "ok")
    /\ UNCHANGED <<file, lock, leaked, txn, work, conn, instance>>

(* SQLITE_BUSY is not SQLITE_DONE: a row of empty strings is stored and    *)
(* the loop goes on.                                                       *)
StepBusy(p) ==
    /\ pc[p] = "step"
    /\ ~MayRead(p)
    /\ Len(rows[p]) < MaxBusy
    /\ rows' = [rows EXCEPT ![p] = Append(@, NullRow)]
    /\ UNCHANGED <<file, lock, leaked, txn, work, conn, instance, pc, call, todo, out>>

(* Mutant: the loop ends only after a row. *)
StepDone_NeedsRow(p) ==
    /\ pc[p] = "step"
    /\ MayRead(p)
    /\ Unread(p) = {}
    /\ rows[p] # <<>>
    /\ lock' = [lock EXCEPT ![p] = IF txn[p] THEN @ ELSE "none"]
    /\ End(p, "ok")
    /\ UNCHANGED <<file, leaked, txn, work, conn, instance>>

(* SQLITE_DONE; Fetch by id then insists on exactly one row. *)
StepDone(p) ==
    /\ pc[p] = "step"
    /\ MayRead(p)
    /\ Unread(p) = {}
    /\ lock' = [lock EXCEPT ![p] = IF txn[p] THEN @ ELSE "none"]
    /\ End(p, IF call[p].op = "fetchid" /\ Len(rows[p]) # 1 THEN "failed" ELSE "ok")
    /\ UNCHANGED <<file, leaked, txn, work, conn, instance>>

-----------------------------------------------------------------------------
(* FetchMaxIdQuery::GetMaxId and the auto-increment branch of Save. *)

(* Mutant: the first record of a vector gets the greatest id itself. *)
AutoInserts_OffByOne(t, vs, base) ==
    [k \in DOMAIN vs |-> Insert(t, [id |-> base + k - 1, val |-> vs[k]])]

AutoInserts(t, vs, base) ==
    [k \in DOMAIN vs |-> Insert(t, [id |-> base + k, val |-> vs[k]])]

MaxStep(p) ==
    /\ pc[p] = "maxstep"
    /\ \/ /\ MayRead(p)
          /\ lock' = [lock EXCEPT ![p] = IF @ = "none" THEN "shared" ELSE @]
          /\ todo' = [todo EXCEPT ![p] =
                IF call[p].op = "max" THEN <<>>
                ELSE AutoInserts(call[p].type, call[p].vals,
                                 ColumnInt(Greatest(View(p)[call[p].type])))]
          /\ Goto(p, "maxfinalize")
          /\ UNCHANGED <<call, rows, out>>
       \/ /\ ~MayRead(p)
          /\ End(p, "failed")
          /\ UNCHANGED lock
    /\ UNCHANGED <<file, leaked, txn, work, conn, instance>>

(* The destructor finalizes the statement and so gives up its SHARED lock. *)
MaxFinalize(p) ==
    /\ pc[p] = "maxfinalize"
    /\ lock' = [lock EXCEPT ![p] = IF txn[p] THEN @ ELSE "none"]
    /\ Proceed(p, call[p], todo[p])
    /\ UNCHANGED <<file, leaked, txn, work, conn>>

-----------------------------------------------------------------------------
Calls(p) ==
    \/ Initialize(p) \/ InitializeThrows(p) \/ Finalize(p)
    \/ Save(p) \/ SaveAutoIncrement(p) \/ UpdateRecords(p) \/ DeleteRecords(p)
    \/ Sql(p) \/ Fetch(p) \/ GetMaxId(p)

(* The steps of a process inside a call. *)
Works(p) ==
    \/ Begin(p) \/ ExecStatement(p) \/ ExecFails(p) \/ Rollback(p)
    \/ CommitRead(p) \/ CommitLocks(p) \/ CommitBusy(p) \/ CommitWrites(p)
    \/ StepRow(p) \/ StepBusy(p) \/ StepDone(p)
    \/ MaxStep(p) \/ MaxFinalize(p)

Next == \E p \in Procs : Calls(p) \/ Works(p) \/ CommitIoError(p) \/ Exit(p)

Spec == Init /\ [][Next]_vars

(* A program that has called the library goes on running until the call    *)
(* ends; whether it makes a further call, or exits, is its own affair.     *)
FairSpec == Spec /\ \A p \in Procs : WF_vars(Works(p))

-----------------------------------------------------------------------------
(* Types. *)

Rows == (Int \X Vals) \cup {NullRow}

Labels == {"idle", "begin", "exec", "rollback", "commit", "write",
           "step", "maxstep", "maxfinalize"}

(* The type of every variable. *)
TypeOK ==
    /\ IsContents(file)
    /\ lock \in [Procs -> LockLevels]
    /\ leaked \subseteq Procs \X {"reserved", "pending"}
    /\ txn \in [Procs -> BOOLEAN]
    /\ work = [p \in Procs |-> work[p]]
    /\ \A p \in Procs : IF Writing(p) THEN IsContents(work[p]) ELSE work[p] = NoWork
    /\ conn \in [Procs -> {"none", "open", "closed"}]
    /\ instance \in [Procs -> BOOLEAN]
    /\ pc \in [Procs -> Labels]
    /\ call \in [Procs -> CallRecords]
    /\ todo \in [Procs -> Seq(Stmts)]
    /\ rows \in [Procs -> Seq(Rows)]
    /\ out \in [Procs -> {"ok", "failed"}]

-----------------------------------------------------------------------------
(* Safety. *)

(* What a connection holds of the file between two SQLite calls of the     *)
(* library.  In particular a process that is between two operations holds  *)
(* nothing, unless a commit of its own was refused: then it holds RESERVED *)
(* or PENDING.                                                             *)
HoldsOnlyWhatItNeeds ==
    \A p \in Procs :
        \/ /\ pc[p] \notin {"exec", "rollback", "commit", "write"}
           /\ txn[p]
           /\ lock[p] \in {"reserved", "pending"}
        \/ /\ pc[p] \notin {"exec", "rollback", "commit", "write"}
           /\ ~txn[p]
           /\ \/ lock[p] = "none"
              \/ pc[p] \in {"step", "maxfinalize"} /\ lock[p] = "shared"
        \/ pc[p] = "exec" /\ txn[p] /\ lock[p] = "none"
        \/ pc[p] = "rollback" /\ txn[p] /\ lock[p] \in {"none", "reserved"}
        \/ pc[p] = "commit" /\ txn[p] /\ lock[p] \in {"none", "shared", "reserved"}
        \/ pc[p] = "write" /\ txn[p] /\ lock[p] = "exclusive"

(* What a process is about to commit is the effect of the statement that   *)
(* it executes on the file as it is now, not on an older state of it:      *)
(* between the statement and the COMMIT of Execute no other process gets   *)
(* to change the file.                                                     *)
UncommittedIsEffect ==
    \A p \in Procs : pc[p] \in {"commit", "write"} =>
        LET s == Head(todo[p]) IN
        /\ Compiles(s, file)
        /\ ~Violates(s, file)
        /\ Writing(p) <=> Writes(s, file)
        /\ Writing(p) => work[p] = Effect(s, file)
        /\ lock[p] = "none" => s = NoSql

(* The rows that GetResults has collected so far are the first rows of the *)
(* answer on the state of the file as it is now, in id order, each once:   *)
(* no write of another process falls between two sqlite3_step calls.       *)
Read(p) == {k \in DOMAIN rows[p] : rows[p][k] # NullRow}

FetchReadsOneState ==
    \A p \in Procs : pc[p] = "step" /\ Read(p) # {} =>
        LET table == View(p)[call[p].type]
            ids   == {rows[p][k][1] : k \in Read(p)}
        IN  /\ ids \subseteq Selected(call[p].where, table)
            /\ \A k \in Read(p) : rows[p][k][2] = table[rows[p][k][1]]
            /\ \A k, m \in Read(p) : k < m => rows[p][k][1] < rows[p][m][1]
            /\ \A i \in Selected(call[p].where, table) :
                  (\E j \in ids : i <= j) => i \in ids

(* A fetch that returns, of a process with no failed commit, has every     *)
(* committed row that matches, unchanged, and no other row but NullRow.    *)
FetchComplete ==
    [][\A p \in Procs :
          pc[p] = "step" /\ ~txn[p] /\ pc'[p] = "idle" /\ out'[p] = "ok" =>
              LET table == file[call[p].type] IN
              {rows[p][k] : k \in Read(p)}
                  = {<<i, table[i]>> : i \in Selected(call[p].where, table)}]_vars

(* Database::Instance() hands out a singleton all of whose tables exist in *)
(* the committed file: the constructor's loop has made every one of them,  *)
(* or Initialize has thrown and there is no instance.                      *)
TablesExist ==
    \A p \in Procs : instance[p] => Registered(p) \subseteq DOMAIN file

(* The transaction of a refused COMMIT is still open.  Until that process  *)
(* finalizes or exits, nobody's statements reach the file any more, and    *)
(* what it had written is then discarded: no later call of it commits it.  *)
Refused(p) == txn[p] /\ pc[p] \notin {"exec", "rollback", "commit", "write"}

FrozenStep ==
    /\ leaked # {} => file' = file
    /\ \A p \in Procs : Refused(p) =>
          /\ file' = file
          /\ \/ Refused(p)' /\ UNCHANGED <<lock[p], work[p]>>
             \/ lock'[p] = "none" /\ ~txn'[p]

FrozenWhileRefused == [][FrozenStep]_vars

(* A bound on the SQLite calls that a call of the library has still to     *)
(* make: four for each record to write, one for each row to read.          *)
CallsLeft(p) ==
    CASE pc[p] = "maxstep"     -> 2 + 4 * (IF call[p].op = "max" THEN 0 ELSE Len(call[p].vals))
      [] pc[p] = "maxfinalize" -> 1 + 4 * Len(todo[p])
      [] pc[p] = "begin"       -> 4 * Len(todo[p])
      [] pc[p] = "exec"        -> 4 * Len(todo[p]) - 1
      [] pc[p] \in {"rollback", "commit"} -> 4 * Len(todo[p]) - 2
      [] pc[p] = "write"       -> 4 * Len(todo[p]) - 3
      [] pc[p] = "step"        -> 1 + Cardinality(Unread(p))
      [] OTHER                 -> 0

(* Whatever other processes hold or do, each SQLite call of a writing call *)
(* or of GetMaxId is one less to make, failures included: Execute never    *)
(* tries again, and no step of another process sends it back.  So is each  *)
(* of a fetch once it has its lock; before, it tries again.                *)
AdvanceStep ==
    \A p \in Procs : pc[p] # "idle" /\ (pc[p] = "step" => lock[p] # "none") =>
        /\ 0 <= CallsLeft(p)'
        /\ CallsLeft(p)' <= CallsLeft(p)
        /\ Works(p) => CallsLeft(p)' < CallsLeft(p)

CallsAdvance == [][AdvanceStep]_vars

(* Which operation is under way in which phase, and what it keeps there. *)
Executing(p) == pc[p] \in {"begin", "exec", "rollback", "commit", "write"}

PhaseOfCall(p) ==
    /\ Executing(p) => todo[p] # <<>> /\ call[p].op \in {"init", "exec", "autosave"}
    /\ ~Executing(p) /\ pc[p] # "maxfinalize" => todo[p] = <<>>
    /\ pc[p] = "idle" => call[p] = NoCall
    /\ pc[p] = "step" => call[p].op \in {"fetch", "fetchid"}
    /\ pc[p] \in {"maxstep", "maxfinalize"} => call[p].op \in {"max", "autosave"}
    /\ pc[p] = "maxfinalize" /\ todo[p] # <<>> => call[p].op = "autosave"
    /\ pc[p] # "step" => rows[p] = <<>>
    /\ pc[p] # "idle" => out[p] = "ok"

PhasesOfCalls == \A p \in Procs : PhaseOfCall(p)

(* Every table that an operation needs exists: in the file, once the       *)
(* constructor is past it, and in what an open transaction has written.    *)
TablesMadeFor(p) ==
    /\ call[p].op \notin {"none", "init"} => instance[p]
    /\ call[p].op \notin {"none", "init", "exec"} => call[p].type \in Registered(p)
    /\ instance[p] => Registered(p) \subseteq DOMAIN file
    /\ call[p].op = "init" =>
          \A t \in Registered(p) :
              \/ \E k \in DOMAIN todo[p] : todo[p][k] = CreateTable(t)
              \/ t \in DOMAIN file
    /\ Writing(p) => DOMAIN file \subseteq DOMAIN work[p]

TablesMade == \A p \in Procs : TablesMadeFor(p)

(* Execute, with its locks and its failures, does what RecordStore says.   *)
Store == INSTANCE RecordStore WITH store <- file, queue <- todo, outcome <- out

(* Calls that return have applied every statement once and in order; calls *)
(* that throw apply nothing later, not even when Finalize, a later call or *)
(* another process ends the transaction that they left open.               *)
ImplementsStore == Store!Spec

(* SaveAutoIncrement of a process that has the file to itself inserts each *)
(* record under the id after the greatest one in the table.                *)
AutoIdsNext ==
    \A p \in Procs :
        call[p].op = "autosave" /\ pc[p] \in {"begin", "exec"}
            /\ Head(todo[p]) # Malformed =>
                Head(todo[p]).id = Greatest(file[call[p].type]) + 1

-----------------------------------------------------------------------------
(* What the documentation says and the code does not do. *)

(* The instance handed out "for further operations" has a connection. *)
InstanceUsable == \A p \in Procs : instance[p] => conn[p] = "open"

(* A fetch "retrieves all entries of a given record from the database,     *)
(* which match a given predicate", and nothing else.                       *)
FetchedRowsAreRecords == \A p \in Procs : Read(p) = DOMAIN rows[p]

-----------------------------------------------------------------------------
(* Liveness, under FairSpec. *)

(* Every writing call ends, whatever the others hold: no SQLite call of    *)
(* Execute waits for a lock.                                               *)
WritesEnd ==
    \A p \in Procs :
        pc[p] \in {"begin", "maxstep"} ~> pc[p] = "idle"

(* A fetch ends if the file does not stay locked against it. *)
FetchEndsIfUnlocked ==
    \A p \in Procs :
        <>[]~Blocked(p) => (pc[p] = "step" ~> pc[p] = "idle")
=============================================================================

--------------------------- MODULE DatabaseProofs ---------------------------
(***************************************************************************)
(* Proofs about Database, for every set of processes, of record types, of  *)
(* values and ids, and every bound.                                        *)
(***************************************************************************)
EXTENDS Database, StatementsProofs

(* The part of TypeOK that locking rests on. *)
LockTypes ==
    /\ lock \in [Procs -> LockLevels]
    /\ leaked \subseteq Procs \X {"reserved", "pending"}
    /\ txn \in [Procs -> BOOLEAN]
    /\ pc \in [Procs -> Labels]

LockInv == LockTypes /\ OneWriter /\ HoldsOnlyWhatItNeeds

LEMMA LocksInit == Init => LockInv
BY DEF Init, LockInv, LockTypes, OneWriter, HoldsOnlyWhatItNeeds, Writing,
       WriteLocks, LockLevels, Labels

LEMMA LocksNext == LockInv /\ [Next]_vars => LockInv'
<1> SUFFICES ASSUME LockInv, [Next]_vars PROVE LockInv'
  OBVIOUS
<1> USE DEF LockInv, LockTypes, OneWriter, HoldsOnlyWhatItNeeds, Writing,
            WriteLocks, LockLevels, Labels, MayRead, MayWrite, MayExclude, Blocked
<1> USE DEF End, Goto, EndTransaction, Proceed, LoseConnection
<1>1. CASE UNCHANGED vars
  BY <1>1 DEF vars
<1>2. ASSUME NEW p \in Procs, Initialize(p) PROVE LockInv'
  BY <1>2 DEF Initialize, sqlite
<1>3. ASSUME NEW p \in Procs, InitializeThrows(p) PROVE LockInv'
  BY <1>3 DEF InitializeThrows
<1>4. ASSUME NEW p \in Procs, Finalize(p) PROVE LockInv'
  BY <1>4 DEF Finalize
<1>5. ASSUME NEW p \in Procs, Exit(p) PROVE LockInv'
  BY <1>5 DEF Exit
<1>6. ASSUME NEW p \in Procs, NEW list, StartExec(p, list) PROVE LockInv'
  BY <1>6 DEF StartExec, Ready
<1>7. ASSUME NEW p \in Procs, NEW c, StartFetch(p, c) PROVE LockInv'
  <2>1. CASE StartQuery(p, c, "step") /\ leaked' = leaked
    BY <1>7, <2>1 DEF StartFetch, StartQuery, Ready
  <2>2. CASE EndTransaction(p) /\ End(p, "failed") /\ leaked' = leaked
    BY <1>7, <2>2
  <2>3. QED
    BY <1>7, <2>1, <2>2 DEF StartFetch
<1>8. ASSUME NEW p \in Procs, NEW c, StartMax(p, c) PROVE LockInv'
  BY <1>8 DEF StartMax, StartQuery, Ready
<1>9. ASSUME NEW p \in Procs, Begin(p) PROVE LockInv'
  <2>1. CASE ~txn[p]
    <3>1. CASE conn[p] = "open"
      <4>1. /\ pc' = [pc EXCEPT ![p] = "exec"]
            /\ txn' = [txn EXCEPT ![p] = TRUE]
            /\ UNCHANGED <<lock, leaked>>
        BY <1>9, <2>1, <3>1 DEF Begin
      <4>2. lock[p] = "none"
        BY <1>9, <2>1 DEF Begin
      <4>3. LockTypes' /\ OneWriter'
        BY <4>1
      <4>4. HoldsOnlyWhatItNeeds'
        BY <4>1, <4>2
      <4>5. QED
        BY <4>3, <4>4
    <3>2. CASE conn[p] # "open"
      BY <1>9, <2>1, <3>2 DEF Begin
    <3>3. QED
      BY <3>1, <3>2
  <2>2. CASE txn[p]
    BY <1>9, <2>2 DEF Begin
  <2>3. QED
    BY <2>1, <2>2
<1>10. ASSUME NEW p \in Procs, ExecStatement(p) PROVE LockInv'
  BY <1>10 DEF ExecStatement
<1>11. ASSUME NEW p \in Procs, ExecFails(p) PROVE LockInv'
  BY <1>11 DEF ExecFails
<1>12. ASSUME NEW p \in Procs, Rollback(p) PROVE LockInv'
  BY <1>12 DEF Rollback
<1>13. ASSUME NEW p \in Procs, CommitRead(p) PROVE LockInv'
  BY <1>13 DEF CommitRead
<1>14. ASSUME NEW p \in Procs, CommitLocks(p) PROVE LockInv'
  BY <1>14 DEF CommitLocks
<1>15. ASSUME NEW p \in Procs, CommitBusy(p) PROVE LockInv'
  <2>1. PICK level \in {"reserved", "pending"} : CommitRefused(p, level)
    BY <1>15 DEF CommitBusy
  <2>2. lock[p] = "reserved" /\ txn[p] /\ leaked = {}
    BY <1>15 DEF CommitBusy
  <2>3. \A q \in Procs \ {p} : ~Writing(q)
    BY <2>2
  <2>4. CASE call[p].op = "init"
    <3>1. /\ pc' = [pc EXCEPT ![p] = "idle"]
          /\ lock' = [lock EXCEPT ![p] = "none"]
          /\ txn' = [txn EXCEPT ![p] = FALSE]
          /\ leaked' = {<<p, level>>}
      BY <2>1, <2>2, <2>4 DEF CommitRefused
    <3>2. LockTypes'
      BY <3>1
    <3>3. OneWriter'
      BY <2>3, <3>1
    <3>4. HoldsOnlyWhatItNeeds'
      BY <3>1
    <3>5. QED
      BY <3>2, <3>3, <3>4
  <2>5. CASE call[p].op # "init"
    <3>1. /\ pc' = [pc EXCEPT ![p] = "idle"]
          /\ lock' = [lock EXCEPT ![p] = level]
          /\ UNCHANGED <<leaked, txn>>
      BY <2>1, <2>5 DEF CommitRefused
    <3>2. LockTypes'
      BY <3>1
    <3>3. OneWriter'
      BY <2>2, <2>3, <3>1
    <3>4. HoldsOnlyWhatItNeeds'
      BY <2>2, <3>1
    <3>5. QED
      BY <3>2, <3>3, <3>4
  <2>6. QED
    BY <2>4, <2>5
<1>16. ASSUME NEW p \in Procs, CommitWrites(p) PROVE LockInv'
  BY <1>16 DEF CommitWrites
<1>17. ASSUME NEW p \in Procs, CommitIoError(p) PROVE LockInv'
  BY <1>17 DEF CommitIoError
<1>18. ASSUME NEW p \in Procs, StepRow(p) PROVE LockInv'
  BY <1>18 DEF StepRow
<1>19. ASSUME NEW p \in Procs, StepBusy(p) PROVE LockInv'
  BY <1>19 DEF StepBusy
<1>20. ASSUME NEW p \in Procs, StepDone(p) PROVE LockInv'
  BY <1>20 DEF StepDone
<1>21. ASSUME NEW p \in Procs, MaxStep(p) PROVE LockInv'
  BY <1>21 DEF MaxStep
<1>22. ASSUME NEW p \in Procs, MaxFinalize(p) PROVE LockInv'
  BY <1>22 DEF MaxFinalize
<1>23. QED
  BY <1>1, <1>2, <1>3, <1>4, <1>5, <1>6, <1>7, <1>8, <1>9, <1>10, <1>11, <1>12,
     <1>13, <1>14, <1>15, <1>16, <1>17, <1>18, <1>19, <1>20, <1>21, <1>22
     DEF Next, Calls, Works, Save, UpdateRecords, DeleteRecords, Sql, Fetch,
         GetMaxId, SaveAutoIncrement

LEMMA AlwaysLockInv == Spec => []LockInv
BY LocksInit, LocksNext, PTL DEF Spec

(* At most one process has written anything that it has not committed, and *)
(* nobody reads the file while a commit writes it.                         *)
THEOREM Locking == Spec => []OneWriter
<1>1. LockInv => OneWriter
  BY DEF LockInv
<1>2. QED
  BY <1>1, AlwaysLockInv, PTL

(* A connection holds the lock that its phase needs; between two           *)
(* operations none, unless its last COMMIT was refused.                    *)
THEOREM Holding == Spec => []HoldsOnlyWhatItNeeds
<1>1. LockInv => HoldsOnlyWhatItNeeds
  BY DEF LockInv
<1>2. QED
  BY <1>1, AlwaysLockInv, PTL

-----------------------------------------------------------------------------
(* The inductive invariant.  Types cannot be shown alone: a row that is    *)
(* read, or an id that is computed from MAX(id), has its type only because *)
(* the table exists, which rests on the phases of the constructor, and the *)
(* table of an open transaction only because nobody else writes.           *)
IInv ==
    /\ TypeOK
    /\ LockInv
    /\ PhasesOfCalls
    /\ TablesMade
    /\ UncommittedIsEffect

LEMMA IInvInit == Init => IInv
<1> SUFFICES ASSUME Init PROVE IInv
  OBVIOUS
<1>1. TypeOK
  BY DEF Init, TypeOK, IsContents, NewFile, LockLevels, Labels, CallRecords, NoCall,
         Writing, WriteLocks
<1>2. PhasesOfCalls
  BY DEF Init, PhasesOfCalls, PhaseOfCall, Executing
<1>3. TablesMade
  BY DEF Init, TablesMade, TablesMadeFor, NoCall, Writing, WriteLocks
<1>4. UncommittedIsEffect
  BY DEF Init, UncommittedIsEffect
<1>5. QED
  BY <1>1, <1>2, <1>3, <1>4, LocksInit DEF IInv

(* The calls of a program, by the three ways in which they start. *)
LEMMA CallCases ==
    ASSUME NEW p \in Procs, Calls(p)
    PROVE  \/ Initialize(p) \/ InitializeThrows(p) \/ Finalize(p)
           \/ \E list \in Seq(Stmts) : StartExec(p, list)
           \/ \E t \in Registered(p), w \in Predicates, op \in {"fetch", "fetchid"} :
                 StartFetch(p, [op |-> op, type |-> t, where |-> w])
           \/ \E t \in Registered(p) : StartMax(p, [op |-> "max", type |-> t])
           \/ \E t \in Registered(p), vs \in Seq(Texts) :
                 StartMax(p, [op |-> "autosave", type |-> t, vals |-> vs])
<1> USE RecordsAssumption, IdsAssumption
<1>0. Registered(p) \subseteq Types
  BY DEF Registered
<1>1. \A S : Batches(S) \subseteq Seq(S)
  BY BoundsAssumption DEF Batches
<1>2. \A t \in Types, m \in Models : Insert(t, m) \in Stmts /\ Update(t, m) \in Stmts
  BY DEF Models, Texts, Insert, Update, Stmts, Malformed
<1>3. CASE Save(p)
  <2>1. PICK t \in Registered(p), ms \in Batches(Models) :
            StartExec(p, [k \in DOMAIN ms |-> Insert(t, ms[k])])
    BY <1>3 DEF Save
  <2>2. ms \in Seq(Models)
    BY <1>1
  <2>3. [k \in DOMAIN ms |-> Insert(t, ms[k])] \in Seq(Stmts)
    BY <1>0, <1>2, <2>2
  <2>4. QED
    BY <2>1, <2>3
<1>4. CASE UpdateRecords(p)
  <2>1. PICK t \in Registered(p), ms \in Batches(Models) :
            StartExec(p, [k \in DOMAIN ms |-> Update(t, ms[k])])
    BY <1>4 DEF UpdateRecords
  <2>2. ms \in Seq(Models)
    BY <1>1
  <2>3. [k \in DOMAIN ms |-> Update(t, ms[k])] \in Seq(Stmts)
    BY <1>0, <1>2, <2>2
  <2>4. QED
    BY <2>1, <2>3
<1>5. \A t \in Types, w \in Predicates : <<Delete(t, w)>> \in Seq(Stmts)
  BY DEF Delete, Stmts
<1>6. /\ \A i \in Ids : EqualId(i) \in Predicates
      /\ \A v \in Vals : EqualVal(v) \in Predicates
      /\ EmptyPredicate \in Predicates /\ BadPredicate \in Predicates
  BY DEF Predicates, EqualId
<1>7. CASE DeleteRecords(p)
  BY <1>0, <1>5, <1>6, <1>7 DEF DeleteRecords
<1>8. CASE Sql(p)
  <2>1. <<Malformed>> \in Seq(Stmts) /\ <<NoSql>> \in Seq(Stmts)
    BY DEF Stmts
  <2>2. QED
    BY <1>0, <1>5, <1>6, <1>8, <2>1 DEF Sql
<1>9. CASE Fetch(p)
  BY <1>6, <1>9 DEF Fetch
<1>10. CASE GetMaxId(p)
  BY <1>10 DEF GetMaxId
<1>11. CASE SaveAutoIncrement(p)
  BY <1>1, <1>11 DEF SaveAutoIncrement
<1>12. QED
  BY <1>3, <1>4, <1>7, <1>8, <1>9, <1>10, <1>11 DEF Calls

(* A step of one process leaves everything of the others alone, but for    *)
(* the file, which only a commit changes.                                  *)
Same(q) ==
    /\ lock'[q] = lock[q] /\ txn'[q] = txn[q] /\ work'[q] = work[q]
    /\ conn'[q] = conn[q] /\ instance'[q] = instance[q]
    /\ pc'[q] = pc[q] /\ call'[q] = call[q] /\ todo'[q] = todo[q]
    /\ rows'[q] = rows[q] /\ out'[q] = out[q]

Act(p) == Calls(p) \/ Works(p) \/ CommitIoError(p) \/ Exit(p)

LEMMA Locality ==
    ASSUME TypeOK, NEW p \in Procs, Act(p)
    PROVE  /\ \A q \in Procs \ {p} : Same(q)
           /\ file' = file \/ CommitWrites(p)
           /\ pc'[p] \in {"commit", "write"} => ExecStatement(p) \/ CommitLocks(p)
<1> DEFINE Goal == /\ \A q \in Procs \ {p} : Same(q)
                   /\ file' = file \/ CommitWrites(p)
                   /\ pc'[p] \in {"commit", "write"} => ExecStatement(p) \/ CommitLocks(p)
<1>0. /\ lock = [q \in Procs |-> lock[q]] /\ txn = [q \in Procs |-> txn[q]]
      /\ work = [q \in Procs |-> work[q]] /\ conn = [q \in Procs |-> conn[q]]
      /\ instance = [q \in Procs |-> instance[q]] /\ pc = [q \in Procs |-> pc[q]]
      /\ call = [q \in Procs |-> call[q]] /\ todo = [q \in Procs |-> todo[q]]
      /\ rows = [q \in Procs |-> rows[q]] /\ out = [q \in Procs |-> out[q]]
  BY DEF TypeOK
<1> USE <1>0 DEF Same, End, Goto, Proceed, LoseConnection, EndTransaction
<1>1. CASE Initialize(p)
  BY <1>1 DEF Initialize, sqlite
<1>2. CASE InitializeThrows(p)
  BY <1>2 DEF InitializeThrows
<1>3. CASE Finalize(p)
  BY <1>3 DEF Finalize
<1>4. CASE Exit(p)
  BY <1>4 DEF Exit
<1>5. CASE Begin(p)
  BY <1>5 DEF Begin
<1>6. CASE ExecStatement(p)
  BY <1>6 DEF ExecStatement
<1>7. CASE ExecFails(p)
  BY <1>7 DEF ExecFails
<1>8. CASE Rollback(p)
  BY <1>8 DEF Rollback
<1>9. CASE CommitRead(p)
  BY <1>9 DEF CommitRead
<1>10. CASE CommitLocks(p)
  BY <1>10 DEF CommitLocks
<1>11. CASE CommitBusy(p)
  BY <1>11 DEF CommitBusy, CommitRefused
<1>12. CASE CommitWrites(p)
  BY <1>12 DEF CommitWrites
<1>13. CASE CommitIoError(p)
  BY <1>13 DEF CommitIoError
<1>14. CASE StepRow(p)
  BY <1>14 DEF StepRow
<1>15. CASE StepBusy(p)
  BY <1>15 DEF StepBusy
<1>16. CASE StepDone(p)
  BY <1>16 DEF StepDone
<1>17. CASE MaxStep(p)
  BY <1>17 DEF MaxStep
<1>18. CASE MaxFinalize(p)
  BY <1>18 DEF MaxFinalize
<1>19. ASSUME NEW list, StartExec(p, list) PROVE Goal
  BY <1>19 DEF StartExec
<1>20. ASSUME NEW c, StartFetch(p, c) PROVE Goal
  BY <1>20 DEF StartFetch, StartQuery
<1>21. ASSUME NEW c, StartMax(p, c) PROVE Goal
  BY <1>21 DEF StartMax, StartQuery
<1>22. QED
  BY <1>1, <1>2, <1>3, <1>4, <1>5, <1>6, <1>7, <1>8, <1>9, <1>10, <1>11,
     <1>12, <1>13, <1>14, <1>15, <1>16, <1>17, <1>18, <1>19, <1>20, <1>21,
     CallCases DEF Act, Works

LEMMA PhasesNext == IInv /\ [Next]_vars => PhasesOfCalls'
<1> SUFFICES ASSUME IInv, [Next]_vars PROVE PhasesOfCalls'
  OBVIOUS
<1>0. TypeOK /\ PhasesOfCalls
  BY DEF IInv
<1>1. CASE UNCHANGED vars
  BY <1>0, <1>1 DEF vars, PhasesOfCalls, PhaseOfCall, Executing
<1>2. ASSUME NEW p \in Procs, Act(p) PROVE \A q \in Procs \ {p} : PhaseOfCall(q)'
  BY <1>0, <1>2, Locality DEF Same, PhasesOfCalls, PhaseOfCall, Executing
<1>3. ASSUME NEW p \in Procs, Act(p) PROVE PhaseOfCall(p)'
  <2>1. /\ pc \in [Procs -> Labels] /\ call = [q \in Procs |-> call[q]]
        /\ todo \in [Procs -> Seq(Stmts)] /\ rows = [q \in Procs |-> rows[q]]
        /\ out = [q \in Procs |-> out[q]] /\ PhaseOfCall(p)
    BY <1>0 DEF TypeOK, PhasesOfCalls
  <2> USE <2>1 DEF PhaseOfCall, Executing, NoCall, End, Goto, Proceed
  <2>2. CASE Initialize(p)
    BY <2>2 DEF Initialize, sqlite
  <2>3. CASE InitializeThrows(p)
    BY <2>3 DEF InitializeThrows
  <2>4. CASE Finalize(p)
    BY <2>4 DEF Finalize
  <2>5. CASE Exit(p)
    BY <2>5 DEF Exit
  <2>6. CASE Begin(p)
    BY <2>6 DEF Begin
  <2>7. CASE ExecStatement(p)
    BY <2>7 DEF ExecStatement
  <2>8. CASE ExecFails(p)
    BY <2>8 DEF ExecFails
  <2>9. CASE Rollback(p)
    BY <2>9 DEF Rollback
  <2>10. CASE CommitRead(p)
    BY <2>10 DEF CommitRead
  <2>11. CASE CommitLocks(p)
    BY <2>11 DEF CommitLocks
  <2>12. CASE CommitBusy(p)
    BY <2>12 DEF CommitBusy, CommitRefused
  <2>13. CASE CommitWrites(p)
    BY <2>13 DEF CommitWrites
  <2>14. CASE CommitIoError(p)
    BY <2>14 DEF CommitIoError
  <2>15. CASE StepRow(p)
    BY <2>15 DEF StepRow
  <2>16. CASE StepBusy(p)
    BY <2>16 DEF StepBusy
  <2>17. CASE StepDone(p)
    BY <2>17 DEF StepDone
  <2>18. CASE MaxStep(p)
    BY <2>18 DEF MaxStep
  <2>19. CASE MaxFinalize(p)
    BY <2>19 DEF MaxFinalize
  <2>20. ASSUME NEW list, StartExec(p, list) PROVE PhaseOfCall(p)'
    BY <2>20 DEF StartExec, Ready
  <2>21. ASSUME NEW t, NEW w, NEW op \in {"fetch", "fetchid"},
               StartFetch(p, [op |-> op, type |-> t, where |-> w])
        PROVE  PhaseOfCall(p)'
    BY <2>21 DEF StartFetch, StartQuery, Ready
  <2>22. ASSUME NEW t, StartMax(p, [op |-> "max", type |-> t]) PROVE PhaseOfCall(p)'
    BY <2>22 DEF StartMax, StartQuery, Ready
  <2>23. ASSUME NEW t, NEW vs, StartMax(p, [op |-> "autosave", type |-> t, vals |-> vs])
         PROVE  PhaseOfCall(p)'
    BY <2>23 DEF StartMax, StartQuery, Ready
  <2> HIDE DEF PhaseOfCall
  <2>24. QED
    BY <1>3, <2>2, <2>3, <2>4, <2>5, <2>6, <2>7, <2>8, <2>9, <2>10, <2>11,
       <2>12, <2>13, <2>14, <2>15, <2>16, <2>17, <2>18, <2>19, <2>20,
       <2>21, <2>22, <2>23, CallCases DEF Act, Works
<1>4. CASE Next
  BY <1>2, <1>3, <1>4 DEF Next, Act, PhasesOfCalls
<1>5. QED
  BY <1>1, <1>4

(* What a process is about to commit stays the effect of its statement on  *)
(* the file: another process can commit only with EXCLUSIVE, and then the  *)
(* statement of this one neither read nor wrote.                           *)
LEMMA EffectNext == IInv /\ [Next]_vars => UncommittedIsEffect'
<1> SUFFICES ASSUME IInv, [Next]_vars PROVE UncommittedIsEffect'
  OBVIOUS
<1>1. CASE UNCHANGED vars
  BY <1>1 DEF vars, IInv, UncommittedIsEffect, Writing
<1>2. ASSUME NEW p \in Procs, Act(p), NEW q \in Procs, pc'[q] \in {"commit", "write"}
      PROVE  LET s == Head(todo'[q]) IN
             /\ Compiles(s, file')
             /\ ~Violates(s, file')
             /\ Writing(q)' <=> Writes(s, file')
             /\ Writing(q)' => work'[q] = Effect(s, file')
             /\ lock'[q] = "none" => s = NoSql
  <2>1. TypeOK
    BY DEF IInv
  <2>2. CASE q # p
    <3>1. Same(q) /\ (file' = file \/ CommitWrites(p))
      BY <1>2, <2>1, <2>2, Locality
    <3>2. CASE file' = file
      BY <1>2, <3>1, <3>2 DEF IInv, UncommittedIsEffect, Same, Writing
    <3>3. CASE CommitWrites(p)
      <4>1. lock[q] = "none"
        BY <2>2, <3>3 DEF CommitWrites, IInv, LockInv, OneWriter, HoldsOnlyWhatItNeeds
      <4>2. Head(todo[q]) = NoSql
        BY <1>2, <3>1, <4>1 DEF IInv, UncommittedIsEffect, Same
      <4>3. Compiles(NoSql, file') /\ ~Violates(NoSql, file') /\ ~Writes(NoSql, file')
        BY DEF NoSql, Compiles, Violates, Writes
      <4>4. QED
        BY <3>1, <4>1, <4>2, <4>3 DEF Same, Writing, WriteLocks
    <3>4. QED
      BY <3>1, <3>2, <3>3
  <2>3. CASE q = p
    <3>1. ExecStatement(p) \/ CommitLocks(p)
      BY <1>2, <2>1, <2>3, Locality
    <3>2. CASE ExecStatement(p)
      <4> DEFINE s == Head(todo[p])
      <4>1. pc[p] = "exec" /\ todo' = todo /\ file' = file
        BY <3>2 DEF ExecStatement
      <4>2. lock[p] = "none"
        BY <4>1 DEF IInv, LockInv, HoldsOnlyWhatItNeeds
      <4>3. View(p) = file
        BY <4>2 DEF View, Writing, WriteLocks
      <4>4. s \in Stmts
        BY <2>1, <4>1 DEF IInv, PhasesOfCalls, PhaseOfCall, Executing, TypeOK
      <4>5. Compiles(s, file)
        BY <3>2, <4>3 DEF ExecStatement
      <4>6. CASE /\ Writes(s, file) /\ ~Violates(s, file)
                 /\ lock' = [lock EXCEPT ![p] = "reserved"]
                 /\ work' = [work EXCEPT ![p] = Effect(s, file)]
        BY <2>1, <2>3, <4>1, <4>5, <4>6 DEF TypeOK, Writing, WriteLocks
      <4>7. CASE ReadsOnly(s, file) /\ lock' = [lock EXCEPT ![p] = "shared"]
        BY <2>1, <2>3, <4>1, <4>5, <4>7
           DEF TypeOK, Writing, WriteLocks, ReadsOnly, Writes, Violates
      <4>8. CASE ~Writes(s, file) /\ ~ReadsOnly(s, file) /\ lock' = lock
        <5>1. s = NoSql
          BY <4>4, <4>5, <4>8 DEF Stmts, Writes, ReadsOnly, Compiles, Malformed
        <5>2. QED
          BY <2>3, <4>1, <4>2, <4>5, <4>8, <5>1 DEF Writing, WriteLocks, Violates, NoSql
      <4>9. QED
        BY <3>2, <4>3, <4>6, <4>7, <4>8 DEF ExecStatement
    <3>3. CASE CommitLocks(p)
      <4>1. /\ pc[p] = "commit" /\ Writing(p)
            /\ todo' = todo /\ file' = file /\ work' = work
            /\ lock'[p] = "exclusive"
        BY <2>1, <3>3 DEF CommitLocks, TypeOK
      <4>2. QED
        BY <2>3, <4>1 DEF IInv, UncommittedIsEffect, Writing, WriteLocks
    <3>4. QED
      BY <3>1, <3>2, <3>3
  <2>4. QED
    BY <2>2, <2>3
<1>3. CASE Next
  BY <1>2, <1>3 DEF Next, Act, UncommittedIsEffect, Writing
<1>4. QED
  BY <1>1, <1>3

-----------------------------------------------------------------------------
(* Tables. *)

LEMMA RegisteredTypes == \A p \in Procs : Registered(p) \subseteq Types
BY RecordsAssumption DEF Registered

(* What a commit writes: the effect of its statement on the file. *)
LEMMA CommitApplies ==
    ASSUME IInv, NEW p \in Procs, CommitWrites(p)
    PROVE  LET s == Head(todo[p]) IN
           /\ s \in Stmts /\ Compiles(s, file) /\ ~Violates(s, file)
           /\ file' = Effect(s, file)
<1>1. pc[p] = "write" /\ file' = work[p]
  BY DEF CommitWrites
<1>2. Writing(p)
  BY <1>1 DEF IInv, LockInv, HoldsOnlyWhatItNeeds, Writing, WriteLocks
<1>3. Head(todo[p]) \in Stmts
  BY <1>1 DEF IInv, TypeOK, PhasesOfCalls, PhaseOfCall, Executing
<1>4. QED
  BY <1>1, <1>2, <1>3 DEF IInv, UncommittedIsEffect

(* No step drops a table. *)
LEMMA TablesStay ==
    ASSUME IInv, NEW p \in Procs, Act(p)
    PROVE  /\ IsContents(file')
           /\ DOMAIN file \subseteq DOMAIN file'
<1>1. TypeOK /\ IsContents(file)
  BY DEF IInv, TypeOK
<1>2. CASE file' = file
  BY <1>1, <1>2
<1>3. CASE CommitWrites(p)
  BY <1>1, <1>3, CommitApplies, EffectType
<1>4. QED
  BY <1>1, <1>2, <1>3, Locality

(* When a CREATE TABLE has been committed the table is there. *)
LEMMA HeadMade ==
    ASSUME IInv, NEW p \in Procs, CommitRead(p) \/ CommitWrites(p),
           NEW t \in Types, Head(todo[p]) = CreateTable(t)
    PROVE  t \in DOMAIN file'
<1>1. CASE CommitWrites(p)
  <2> DEFINE s == Head(todo[p])
  <2>1. s \in Stmts /\ Compiles(s, file) /\ file' = Effect(s, file)
    BY <1>1, CommitApplies
  <2>2. s.op = "create" /\ s.type = t
    BY DEF CreateTable
  <2>3. IsContents(file)
    BY DEF IInv, TypeOK
  <2> HIDE DEF s
  <2>4. QED
    BY <2>1, <2>2, <2>3, EffectType
<1>2. CASE CommitRead(p)
  <2>1. ~Writes(Head(todo[p]), file) /\ file' = file
    BY <1>2 DEF CommitRead, IInv, UncommittedIsEffect
  <2>2. QED
    BY <2>1 DEF Writes, CreateTable
<1>3. QED
  BY <1>1, <1>2

(* The constructor, after a commit: what is left to do makes the tables    *)
(* that are not there yet.                                                 *)
LEMMA InitLoop ==
    ASSUME IInv, NEW p \in Procs, CommitRead(p) \/ CommitWrites(p),
           call[p].op = "init", NEW t \in Registered(p)
    PROVE  \/ \E k \in DOMAIN Tail(todo[p]) : Tail(todo[p])[k] = CreateTable(t)
           \/ t \in DOMAIN file'
<1>1. /\ todo[p] \in Seq(Stmts) /\ todo[p] # <<>> /\ t \in Types
  <2>1. Executing(p)
    BY DEF CommitRead, CommitWrites, Executing
  <2>2. QED
    BY <2>1, RegisteredTypes DEF IInv, TypeOK, PhasesOfCalls, PhaseOfCall
<1>2. Act(p)
  BY DEF Act, Works
<1>3. CASE t \in DOMAIN file
  BY <1>1, <1>2, <1>3, TablesStay
<1>4. ASSUME NEW k \in DOMAIN todo[p], todo[p][k] = CreateTable(t)
      PROVE  \/ \E j \in DOMAIN Tail(todo[p]) : Tail(todo[p])[j] = CreateTable(t)
             \/ t \in DOMAIN file'
  <2>1. CASE k = 1
    BY <1>1, <1>4, <2>1, HeadMade
  <2>2. CASE k # 1
    <3>1. k - 1 \in DOMAIN Tail(todo[p]) /\ Tail(todo[p])[k - 1] = todo[p][k]
      BY <1>1, <1>4, <2>2
    <3>2. QED
      BY <1>4, <3>1
  <2>3. QED
    BY <2>1, <2>2
<1>5. QED
  BY <1>3, <1>4 DEF IInv, TablesMade, TablesMadeFor

(* The table that a query reads exists in what its connection sees. *)
LEMMA ViewedTable ==
    ASSUME IInv, NEW p \in Procs, call[p].op \notin {"none", "init", "exec"}
    PROVE  call[p].type \in Types /\ IsTable(View(p)[call[p].type])
<1> DEFINE t == call[p].type
<1>1. t \in Types /\ t \in DOMAIN file /\ IsContents(file)
  BY RegisteredTypes DEF IInv, TypeOK, TablesMade, TablesMadeFor
<1>2. CASE Writing(p)
  <2>1. IsContents(work[p])
    BY <1>2 DEF IInv, TypeOK
  <2>2. QED
    BY <1>1, <1>2, <2>1 DEF IInv, TablesMade, TablesMadeFor, View, IsContents
<1>3. CASE ~Writing(p)
  BY <1>1, <1>3 DEF View, IsContents
<1>4. QED
  BY <1>1, <1>2, <1>3

LEMMA TablesNext == IInv /\ [Next]_vars => TablesMade'
<1> SUFFICES ASSUME IInv, [Next]_vars PROVE TablesMade'
  OBVIOUS
<1>0. TypeOK /\ TablesMade /\ PhasesOfCalls /\ IsContents(file)
  BY DEF IInv, TypeOK
<1>1. CASE UNCHANGED vars
  BY <1>0, <1>1 DEF vars, TablesMade, TablesMadeFor, Writing
<1>2. ASSUME NEW p \in Procs, Act(p), NEW q \in Procs \ {p} PROVE TablesMadeFor(q)'
  <2>1. Same(q) /\ (file' = file \/ CommitWrites(p))
    BY <1>0, <1>2, Locality
  <2>2. DOMAIN file \subseteq DOMAIN file'
    BY <1>2, TablesStay
  <2>3. Writing(q) => file' = file
    BY <2>1 DEF IInv, LockInv, OneWriter, HoldsOnlyWhatItNeeds, CommitWrites, Writing, WriteLocks
  <2>4. TablesMadeFor(q) /\ Registered(q) \subseteq Types
    BY <1>0, RegisteredTypes DEF TablesMade
  <2>5. QED
    BY <2>1, <2>2, <2>3, <2>4 DEF Same, TablesMadeFor, Writing
<1>3. ASSUME NEW p \in Procs, Act(p) PROVE TablesMadeFor(p)'
  <2>1. /\ call = [q \in Procs |-> call[q]] /\ todo = [q \in Procs |-> todo[q]]
        /\ lock = [q \in Procs |-> lock[q]] /\ work = [q \in Procs |-> work[q]]
        /\ instance = [q \in Procs |-> instance[q]]
        /\ TablesMadeFor(p) /\ PhaseOfCall(p)
    BY <1>0 DEF TypeOK, TablesMade, PhasesOfCalls
  <2>2. Registered(p) \subseteq Types
    BY RegisteredTypes
  <2>3. ASSUME file' = file, call'[p] = call[p] \/ call'[p] = NoCall, instance'[p] = instance[p],
               todo'[p] = todo[p] \/ call[p].op # "init" \/ call'[p] = NoCall,
               Writing(p)' => Writing(p) /\ work'[p] = work[p]
        PROVE  TablesMadeFor(p)'
    BY <2>1, <2>3 DEF TablesMadeFor, NoCall, Writing
  <2>4. ASSUME file' = file, call'[p] = NoCall, ~instance'[p],
               Writing(p)' => Writing(p) /\ work'[p] = work[p]
        PROVE  TablesMadeFor(p)'
    BY <2>1, <2>4 DEF TablesMadeFor, NoCall, Writing
  <2> USE <2>1 DEF NoCall, Writing, WriteLocks, End, Goto, EndTransaction, PhaseOfCall, Executing
  <2>5. CASE InitializeThrows(p)
    BY <2>3, <2>5 DEF InitializeThrows, LoseConnection
  <2>6. CASE Begin(p)
    BY <2>3, <2>6 DEF Begin, LoseConnection
  <2>7. CASE Rollback(p)
    BY <2>3, <2>7 DEF Rollback, LoseConnection
  <2>8. CASE CommitLocks(p)
    BY <2>3, <2>8 DEF CommitLocks, LoseConnection
  <2>9. CASE CommitBusy(p)
    BY <2>3, <2>9 DEF CommitBusy, CommitRefused, LoseConnection
  <2>10. CASE CommitIoError(p)
    BY <2>3, <2>10 DEF CommitIoError, LoseConnection
  <2>11. CASE StepRow(p)
    BY <2>3, <2>11 DEF StepRow, LoseConnection
  <2>12. CASE StepBusy(p)
    BY <2>3, <2>12 DEF StepBusy, LoseConnection
  <2>13. CASE StepDone(p)
    BY <2>3, <2>13 DEF StepDone, LoseConnection
  <2>14. CASE MaxStep(p)
    BY <2>3, <2>14 DEF MaxStep, LoseConnection
  <2>15. CASE Finalize(p)
    BY <2>4, <2>15 DEF Finalize
  <2>16. CASE Exit(p)
    BY <2>4, <2>16 DEF Exit
  <2>17. CASE Initialize(p)
    <3>1. CASE Records[p] = <<>>
      <4>1. Registered(p) = {}
        BY <3>1 DEF Registered
      <4>2. QED
        BY <2>17, <3>1, <4>1, RecordsAssumption DEF Initialize, sqlite, Proceed, TablesMadeFor
    <3>2. CASE Records[p] # <<>>
      <4> DEFINE list == [k \in DOMAIN Records[p] |-> CreateTable(Records[p][k])]
      <4>0. list # <<>>
        <5>1. 1 \in DOMAIN Records[p]
          BY <3>2, RecordsAssumption, EmptySeq
        <5>2. DOMAIN list = DOMAIN Records[p]
          OBVIOUS
        <5>3. DOMAIN <<>> = {}
          OBVIOUS
        <5>4. QED
          BY <5>1, <5>2, <5>3
      <4> HIDE DEF list
      <4>1. /\ call'[p] = [op |-> "init"] /\ ~instance'[p] /\ lock' = lock /\ work' = work
            /\ todo'[p] = list /\ file' = file
        BY <2>17, <4>0 DEF Initialize, sqlite, Proceed, list
      <4>2. \A t \in Registered(p) : \E k \in DOMAIN todo'[p] : todo'[p][k] = CreateTable(t)
        BY <4>1 DEF Registered, list
      <4>3. call'[p].op = "init"
        BY <4>1
      <4>4. QED
        BY <4>1, <4>2, <4>3 DEF TablesMadeFor
    <3>3. QED
      BY <3>1, <3>2
  <2>18. ASSUME NEW list, StartExec(p, list) PROVE TablesMadeFor(p)'
    <3>1. CASE list = <<>>
      BY <2>3, <2>18, <3>1 DEF StartExec, Proceed, Ready
    <3>2. CASE list # <<>>
      BY <2>18, <3>2 DEF StartExec, Proceed, Ready, TablesMadeFor
    <3>3. QED
      BY <3>1, <3>2
  <2>19. ASSUME NEW t \in Registered(p), NEW w, NEW op \in {"fetch", "fetchid"},
               StartFetch(p, [op |-> op, type |-> t, where |-> w])
        PROVE  TablesMadeFor(p)'
    <3>1. CASE StartQuery(p, [op |-> op, type |-> t, where |-> w], "step")
      BY <2>19, <3>1 DEF StartFetch, StartQuery, Ready, TablesMadeFor
    <3>2. CASE End(p, "failed")
      BY <2>3, <2>19, <3>2 DEF StartFetch, StartQuery, Ready
    <3>3. QED
      BY <2>19, <3>1, <3>2 DEF StartFetch
  <2>20. ASSUME NEW t \in Registered(p),
               StartMax(p, [op |-> "max", type |-> t])
        PROVE  TablesMadeFor(p)'
    <3>1. CASE StartQuery(p, [op |-> "max", type |-> t], "maxstep")
      BY <2>20, <3>1 DEF StartMax, StartQuery, Ready, TablesMadeFor
    <3>2. CASE End(p, "failed")
      BY <2>3, <2>20, <3>2 DEF StartMax, StartQuery, Ready
    <3>3. QED
      BY <2>20, <3>1, <3>2 DEF StartMax
  <2>21. ASSUME NEW t \in Registered(p), NEW vs,
               StartMax(p, [op |-> "autosave", type |-> t, vals |-> vs])
        PROVE  TablesMadeFor(p)'
    <3>1. CASE StartQuery(p, [op |-> "autosave", type |-> t, vals |-> vs], "maxstep")
      BY <2>21, <3>1 DEF StartMax, StartQuery, Ready, TablesMadeFor
    <3>2. CASE End(p, "failed")
      BY <2>3, <2>21, <3>2 DEF StartMax, StartQuery, Ready
    <3>3. QED
      BY <2>21, <3>1, <3>2 DEF StartMax
  <2>22. CASE ExecStatement(p)
    <3> DEFINE s == Head(todo[p])
    <3>1. /\ file' = file /\ call' = call /\ todo' = todo /\ instance' = instance
          /\ pc[p] = "exec" /\ Compiles(s, View(p))
      BY <2>22 DEF ExecStatement
    <3>2. View(p) = file /\ s \in Stmts /\ ~Writing(p)
      <4>1. lock[p] = "none"
        BY <3>1 DEF IInv, LockInv, HoldsOnlyWhatItNeeds
      <4>2. s \in Stmts
        BY <1>0, <3>1 DEF TypeOK
      <4>3. QED
        BY <4>1, <4>2 DEF View
    <3>3. CASE lock'[p] = "reserved" /\ work'[p] = Effect(s, file)
      <4>1. DOMAIN file \subseteq DOMAIN work'[p]
        BY <1>0, <3>1, <3>2, <3>3, EffectType
      <4>2. QED
        BY <3>1, <4>1 DEF TablesMadeFor
    <3>4. CASE lock'[p] \in {"none", "shared"}
      BY <2>3, <3>1, <3>4
    <3>5. QED
      BY <2>22, <3>2, <3>3, <3>4 DEF ExecStatement, IInv, LockInv, HoldsOnlyWhatItNeeds
  <2>23. CASE ExecFails(p)
    <3>1. /\ file' = file /\ call' = call /\ todo' = todo /\ instance' = instance
          /\ pc[p] = "exec"
      BY <2>23 DEF ExecFails
    <3>2. View(p) = file
      BY <3>1 DEF IInv, LockInv, HoldsOnlyWhatItNeeds, View
    <3>3. CASE work'[p] = file
      BY <1>0, <3>1, <3>3 DEF TablesMadeFor, IsContents
    <3>4. CASE lock' = lock /\ work' = work
      BY <2>3, <3>1, <3>4
    <3>5. QED
      BY <2>23, <3>2, <3>3, <3>4 DEF ExecFails
  <2>24. ASSUME CommitRead(p) \/ CommitWrites(p) PROVE TablesMadeFor(p)'
    <3>1. /\ lock'[p] = "none" /\ Executing(p) /\ Proceed(p, call[p], Tail(todo[p]))
      BY <2>24 DEF CommitRead, CommitWrites
    <3>2. DOMAIN file \subseteq DOMAIN file'
      BY <1>3, TablesStay
    <3>3. CASE call[p].op = "init"
      <4>1. CASE Tail(todo[p]) = <<>>
        <5>1. Registered(p) \subseteq DOMAIN file'
          BY <2>24, <3>3, <4>1, InitLoop
        <5>2. QED
          BY <3>1, <4>1, <5>1 DEF Proceed, TablesMadeFor
      <4>2. CASE Tail(todo[p]) # <<>>
        <5>1. \A t \in Registered(p) :
                 \/ \E k \in DOMAIN Tail(todo[p]) : Tail(todo[p])[k] = CreateTable(t)
                 \/ t \in DOMAIN file'
          BY <2>24, <3>3, InitLoop
        <5>2. call'[p] = call[p] /\ todo'[p] = Tail(todo[p]) /\ instance'[p] = instance[p]
          BY <3>1, <4>2 DEF Proceed
        <5>3. QED
          BY <2>2, <3>1, <3>2, <3>3, <5>1, <5>2 DEF TablesMadeFor
      <4>3. QED
        BY <4>1, <4>2
    <3>4. CASE call[p].op # "init"
      BY <2>2, <3>1, <3>2, <3>4 DEF Proceed, TablesMadeFor
    <3>5. QED
      BY <3>3, <3>4
  <2>25. CASE MaxFinalize(p)
    <3>1. /\ file' = file /\ work' = work /\ (Writing(p)' => Writing(p))
          /\ call[p].op # "init" /\ Proceed(p, call[p], todo[p])
      BY <2>25 DEF MaxFinalize
    <3>2. instance'[p] = instance[p]
      <4>1. instance[p] \in BOOLEAN
        BY <1>0 DEF TypeOK
      <4>2. CASE instance' = instance
        BY <4>2
      <4>3. CASE instance' = [instance EXCEPT ![p] = @ \/ call[p].op = "init"]
        BY <3>1, <4>1, <4>3
      <4>4. QED
        BY <3>1, <4>2, <4>3 DEF Proceed
    <3>3. call'[p] = call[p] \/ call'[p] = NoCall
      BY <3>1 DEF Proceed
    <3>4. QED
      BY <2>3, <3>1, <3>2, <3>3
  <2> HIDE DEF TablesMadeFor
  <2>26. QED
    BY <1>3, <2>5, <2>6, <2>7, <2>8, <2>9, <2>10, <2>11, <2>12, <2>13,
       <2>14, <2>15, <2>16, <2>17, <2>18, <2>19, <2>20, <2>21, <2>22,
       <2>23, <2>24, <2>25, CallCases DEF Act, Works
<1>4. CASE Next
  BY <1>2, <1>3, <1>4 DEF Next, Act, TablesMade
<1>5. QED
  BY <1>1, <1>4

-----------------------------------------------------------------------------
(* Types. *)

LEMMA ColumnIntType == \A n \in Int : ColumnInt(n) \in Int
<1>1. \A n \in Int : (n + IntHalf) % (2 * IntHalf) \in Int
  BY IntHalfAssumption
<1>2. QED
  BY <1>1, IntHalfAssumption DEF ColumnInt

(* What SaveAutoIncrement hands to Execute: statements, on integer ids. *)
LEMMA AutoInsertsType ==
    ASSUME IInv, NEW p \in Procs, call[p].op = "autosave"
    PROVE  AutoInserts(call[p].type, call[p].vals,
                       ColumnInt(Greatest(View(p)[call[p].type]))) \in Seq(Stmts)
<1> DEFINE t == call[p].type
           base == ColumnInt(Greatest(View(p)[t]))
<1>1. t \in Types /\ base \in Int
  BY ViewedTable, GreatestType, ColumnIntType
<1>2. call[p].vals \in Seq(Texts)
  <2>1. call[p] \in CallRecords
    BY DEF IInv, TypeOK
  <2>2. QED
    BY <2>1 DEF CallRecords, NoCall
<1> HIDE DEF t, base
<1>3. \A k \in DOMAIN call[p].vals :
         Insert(t, [id |-> base + k, val |-> call[p].vals[k]]) \in Stmts
  BY <1>1, <1>2 DEF Insert, Stmts, Texts, Malformed
<1>4. AutoInserts(t, call[p].vals, base) \in Seq(Stmts)
  <2>1. AutoInserts(t, call[p].vals, base) \in [DOMAIN call[p].vals -> Stmts]
    BY <1>3 DEF AutoInserts
  <2>2. DOMAIN call[p].vals = 1..Len(call[p].vals) /\ Len(call[p].vals) \in Nat
    BY <1>2
  <2>3. QED
    BY <2>1, <2>2, SeqDef
<1>5. QED
  BY <1>4 DEF t, base

(* The part of TypeOK that is about calls. *)
CallTypes ==
    /\ conn \in [Procs -> {"none", "open", "closed"}]
    /\ instance \in [Procs -> BOOLEAN]
    /\ call \in [Procs -> CallRecords]
    /\ todo \in [Procs -> Seq(Stmts)]
    /\ rows \in [Procs -> Seq(Rows)]
    /\ out \in [Procs -> {"ok", "failed"}]

LEMMA CallTypesNext == IInv /\ [Next]_vars => CallTypes'
<1> SUFFICES ASSUME IInv, [Next]_vars PROVE CallTypes'
  OBVIOUS
<1>0. CallTypes /\ PhasesOfCalls
  BY DEF IInv, TypeOK, CallTypes
<1>1. CASE UNCHANGED vars
  BY <1>0, <1>1 DEF vars, CallTypes
<1>2. NoCall \in CallRecords /\ [op |-> "init"] \in CallRecords
      /\ [op |-> "exec"] \in CallRecords
  BY DEF CallRecords
<1>3. ASSUME NEW p \in Procs, NEW how \in {"ok", "failed"}, End(p, how),
             conn' \in [Procs -> {"none", "open", "closed"}],
             instance' \in [Procs -> BOOLEAN]
      PROVE  CallTypes'
  BY <1>0, <1>2, <1>3 DEF CallTypes, End
<1>4. ASSUME NEW p \in Procs, NEW c \in CallRecords, NEW list \in Seq(Stmts),
             Proceed(p, c, list),
             conn' \in [Procs -> {"none", "open", "closed"}]
      PROVE  CallTypes'
  <2>1. CASE /\ End(p, "ok")
             /\ instance' = [instance EXCEPT ![p] = @ \/ c.op = "init"]
    <3>1. instance' \in [Procs -> BOOLEAN]
      BY <1>0, <2>1 DEF CallTypes
    <3>2. QED
      BY <1>3, <1>4, <2>1, <3>1
  <2>2. CASE /\ call' = [call EXCEPT ![p] = c]
             /\ todo' = [todo EXCEPT ![p] = list]
             /\ out' = [out EXCEPT ![p] = "ok"]
             /\ UNCHANGED <<instance, rows>>
    BY <1>0, <1>4, <2>2 DEF CallTypes
  <2>3. QED
    BY <1>4, <2>1, <2>2 DEF Proceed
<1>5. ASSUME NEW p \in Procs, Act(p) PROVE CallTypes'
  <2>0. PhaseOfCall(p)
    BY <1>0 DEF PhasesOfCalls
  <2>1. CASE UNCHANGED <<conn, instance, call, todo, rows, out>>
    BY <1>0, <2>1 DEF CallTypes
  <2>2. ASSUME NEW how \in {"ok", "failed"}, End(p, how), UNCHANGED <<conn, instance>>
        PROVE  CallTypes'
    BY <1>0, <1>3, <2>2 DEF CallTypes
  <2>3. ASSUME NEW how \in {"ok", "failed"}, End(p, how), LoseConnection(p),
               UNCHANGED instance
        PROVE  CallTypes'
    BY <1>0, <1>3, <2>3 DEF CallTypes, LoseConnection
  <2>4. CASE Initialize(p)
    <3>1. [k \in DOMAIN Records[p] |-> CreateTable(Records[p][k])] \in Seq(Stmts)
      BY RecordsAssumption DEF Stmts, CreateTable
    <3>2. conn' \in [Procs -> {"none", "open", "closed"}]
      BY <1>0, <2>4 DEF Initialize, CallTypes
    <3>3. QED
      BY <1>2, <1>4, <2>4, <3>1, <3>2 DEF Initialize
  <2>5. CASE InitializeThrows(p)
    BY <2>2, <2>5 DEF InitializeThrows
  <2>6. ASSUME Finalize(p) \/ Exit(p) PROVE CallTypes'
    <3>1. /\ conn' = [conn EXCEPT ![p] = "none"]
          /\ instance' = [instance EXCEPT ![p] = FALSE]
          /\ End(p, "ok") \/ End(p, "failed")
      BY <2>6 DEF Finalize, Exit
    <3>2. QED
      BY <1>0, <1>3, <3>1 DEF CallTypes
  <2>7. ASSUME NEW list \in Seq(Stmts), StartExec(p, list) PROVE CallTypes'
    BY <1>0, <1>2, <1>4, <2>7 DEF StartExec, CallTypes
  <2>8. ASSUME NEW c \in CallRecords, NEW label, StartQuery(p, c, label), UNCHANGED instance
        PROVE  CallTypes'
    BY <1>0, <2>8 DEF StartQuery, CallTypes
  <2>9. ASSUME NEW c \in CallRecords, StartFetch(p, c) PROVE CallTypes'
    <3>1. CASE StartQuery(p, c, "step")
      BY <2>8, <2>9, <3>1 DEF StartFetch
    <3>2. CASE conn' = [conn EXCEPT ![p] = "closed"] /\ End(p, "failed")
      BY <1>0, <1>3, <2>9, <3>2 DEF StartFetch, CallTypes
    <3>3. QED
      BY <2>9, <3>1, <3>2 DEF StartFetch
  <2>10. ASSUME NEW c \in CallRecords, StartMax(p, c) PROVE CallTypes'
    BY <2>2, <2>8, <2>10 DEF StartMax
  <2>11. CASE Begin(p)
    BY <2>1, <2>2, <2>11 DEF Begin
  <2>12. ASSUME Rollback(p) \/ CommitIoError(p) \/ CommitBusy(p) PROVE CallTypes'
    BY <2>3, <2>12 DEF Rollback, CommitIoError, CommitBusy, CommitRefused
  <2>13. ASSUME CommitRead(p) \/ CommitWrites(p) PROVE CallTypes'
    <3>1. /\ todo[p] # <<>> /\ Proceed(p, call[p], Tail(todo[p])) /\ UNCHANGED conn
      BY <2>0, <2>13 DEF CommitRead, CommitWrites, PhaseOfCall, Executing
    <3>2. Tail(todo[p]) \in Seq(Stmts) /\ call[p] \in CallRecords
      BY <1>0, <3>1 DEF CallTypes
    <3>3. QED
      BY <1>0, <1>4, <3>1, <3>2 DEF CallTypes
  <2>14. CASE StepRow(p)
    <3>1. call[p].op \in {"fetch", "fetchid"}
      BY <2>0, <2>14 DEF StepRow, PhaseOfCall
    <3>2. PICK i \in Unread(p) : rows' = [rows EXCEPT ![p] =
                        Append(@, <<i, View(p)[call[p].type][i]>>)]
      BY <2>14 DEF StepRow
    <3>3. IsTable(View(p)[call[p].type]) /\ i \in DOMAIN View(p)[call[p].type]
      BY <3>1, ViewedTable DEF Unread, Selected
    <3>4. <<i, View(p)[call[p].type][i]>> \in Rows
      BY <3>3 DEF IsTable, Rows
    <3>5. rows' \in [Procs -> Seq(Rows)]
      BY <1>0, <3>2, <3>4 DEF CallTypes
    <3>6. QED
      BY <1>0, <2>14, <3>5 DEF StepRow, CallTypes
  <2>15. CASE StepBusy(p)
    <3>1. rows' \in [Procs -> Seq(Rows)]
      BY <1>0, <2>15 DEF StepBusy, CallTypes, Rows
    <3>2. QED
      BY <1>0, <2>15, <3>1 DEF StepBusy, CallTypes
  <2>16. CASE StepDone(p)
    BY <2>2, <2>16 DEF StepDone
  <2>17. CASE MaxStep(p)
    <3>1. call[p].op \in {"max", "autosave"}
      BY <2>0, <2>17 DEF MaxStep, PhaseOfCall
    <3>2. CASE End(p, "failed")
      BY <2>2, <2>17, <3>2 DEF MaxStep
    <3>3. CASE /\ UNCHANGED <<call, rows, out>>
               /\ todo' = [todo EXCEPT ![p] =
                    IF call[p].op = "max" THEN <<>>
                    ELSE AutoInserts(call[p].type, call[p].vals,
                                     ColumnInt(Greatest(View(p)[call[p].type])))]
      <4>1. todo' \in [Procs -> Seq(Stmts)]
        BY <1>0, <3>1, <3>3, AutoInsertsType DEF CallTypes
      <4>2. QED
        BY <1>0, <2>17, <3>3, <4>1 DEF MaxStep, CallTypes
    <3>4. QED
      BY <2>17, <3>2, <3>3 DEF MaxStep
  <2>18. CASE MaxFinalize(p)
    BY <1>0, <1>4, <2>18 DEF MaxFinalize, CallTypes
  <2>19. ASSUME ExecStatement(p) \/ ExecFails(p) \/ CommitLocks(p) PROVE CallTypes'
    BY <2>1, <2>19 DEF ExecStatement, ExecFails, CommitLocks
  <2>20. \A t \in Types : /\ \A w \in Predicates, op \in {"fetch", "fetchid"} :
                               [op |-> op, type |-> t, where |-> w] \in CallRecords
                          /\ [op |-> "max", type |-> t] \in CallRecords
                          /\ \A vs \in Seq(Texts) :
                               [op |-> "autosave", type |-> t, vals |-> vs] \in CallRecords
    BY DEF CallRecords
  <2>21. CASE Calls(p)
    BY <2>4, <2>5, <2>6, <2>7, <2>9, <2>10, <2>20, <2>21, CallCases, RegisteredTypes
  <2>22. QED
    BY <1>5, <2>6, <2>11, <2>12, <2>13, <2>14, <2>15, <2>16, <2>17, <2>18, <2>19,
       <2>21 DEF Act, Works
<1>6. QED
  BY <1>1, <1>5 DEF Next, Act

(* The part of TypeOK that is about what an open transaction has written. *)
WorkType(p) == IF Writing(p) THEN IsContents(work[p]) ELSE work[p] = NoWork

LEMMA WorkTypesNext ==
    IInv /\ [Next]_vars =>
        work' = [p \in Procs |-> work'[p]] /\ \A p \in Procs : WorkType(p)'
<1> SUFFICES ASSUME IInv, [Next]_vars
             PROVE  work' = [p \in Procs |-> work'[p]] /\ \A p \in Procs : WorkType(p)'
  OBVIOUS
<1>0. /\ TypeOK /\ IsContents(file) /\ work = [p \in Procs |-> work[p]]
      /\ lock \in [Procs -> LockLevels]
      /\ \A p \in Procs : WorkType(p)
  BY DEF IInv, TypeOK, WorkType
<1>1. CASE UNCHANGED vars
  BY <1>0, <1>1 DEF vars, WorkType, Writing
<1>2. ASSUME NEW p \in Procs, Act(p) PROVE \A q \in Procs \ {p} : WorkType(q)'
  BY <1>0, <1>2, Locality DEF Same, WorkType, Writing
<1>3. ASSUME NEW p \in Procs, Act(p) PROVE work' = [q \in Procs |-> work'[q]] /\ WorkType(p)'
  <2> DEFINE Goal == work' = [q \in Procs |-> work'[q]] /\ WorkType(p)'
  <2>0. HoldsOnlyWhatItNeeds /\ WorkType(p)
    BY <1>0 DEF IInv, LockInv
  <2>1. CASE EndTransaction(p)
    BY <1>0, <2>1 DEF EndTransaction, WorkType, Writing, WriteLocks
  <2>2. ASSUME work' = work, Writing(p)' <=> Writing(p) PROVE Goal
    BY <1>0, <2>2 DEF WorkType
  <2>3. CASE UNCHANGED <<lock, work>>
    BY <2>2, <2>3 DEF Writing
  <2>4. ASSUME NEW c, StartFetch(p, c) PROVE Goal
    BY <2>1, <2>3, <2>4 DEF StartFetch, StartQuery
  <2>5. ASSUME NEW c, StartMax(p, c) PROVE Goal
    BY <2>3, <2>5 DEF StartMax, StartQuery
  <2>6. CASE Calls(p)
    <3>1. CASE Initialize(p) \/ InitializeThrows(p) \/ Finalize(p)
      BY <2>1, <2>3, <3>1 DEF Initialize, InitializeThrows, Finalize, sqlite
    <3>2. ASSUME NEW list, StartExec(p, list) PROVE Goal
      BY <2>3, <3>2 DEF StartExec
    <3>3. QED
      BY <2>4, <2>5, <2>6, <3>1, <3>2, CallCases
  <2>7. ASSUME ExecStatement(p) \/ ExecFails(p) PROVE Goal
    <3> DEFINE s == Head(todo[p])
    <3>1. pc[p] = "exec"
      BY <2>7 DEF ExecStatement, ExecFails
    <3>2. lock[p] = "none" /\ ~Writing(p) /\ View(p) = file
      BY <2>0, <3>1 DEF HoldsOnlyWhatItNeeds, Writing, WriteLocks, View
    <3>3. s \in Stmts
      BY <3>1 DEF IInv, TypeOK, PhasesOfCalls, PhaseOfCall, Executing
    <3>4. IsContents(View(p))
      BY <1>0, <3>2
    <3> HIDE DEF s
    <3>5. Compiles(s, View(p)) => IsContents(Effect(s, View(p)))
      BY <3>3, <3>4, EffectType
    <3>6. ASSUME NEW c, IsContents(c), work' = [work EXCEPT ![p] = c],
                 lock' = [lock EXCEPT ![p] = "reserved"]
          PROVE  Goal
      BY <1>0, <3>6 DEF WorkType, Writing, WriteLocks
    <3>7. ASSUME lock' = [lock EXCEPT ![p] = "shared"], UNCHANGED work PROVE Goal
      BY <1>0, <2>2, <3>2, <3>7 DEF Writing, WriteLocks
    <3>8. CASE ExecStatement(p)
      BY <2>3, <3>5, <3>6, <3>7, <3>8 DEF ExecStatement, s
    <3>9. CASE ExecFails(p)
      BY <2>3, <3>4, <3>6, <3>9 DEF ExecFails, s
    <3>10. QED
      BY <2>7, <3>8, <3>9
  <2>8. ASSUME Rollback(p) \/ CommitRead(p) \/ CommitWrites(p) \/ CommitIoError(p) \/ Exit(p)
        PROVE  Goal
    BY <2>1, <2>8 DEF Rollback, CommitRead, CommitWrites, CommitIoError, Exit
  <2>9. ASSUME Begin(p) \/ StepBusy(p) PROVE Goal
    BY <2>3, <2>9 DEF Begin, StepBusy
  <2>10. CASE CommitLocks(p)
    BY <1>0, <2>2, <2>10 DEF CommitLocks, Writing, WriteLocks
  <2>11. CASE CommitBusy(p)
    BY <1>0, <2>1, <2>2, <2>11 DEF CommitBusy, CommitRefused, Writing, WriteLocks
  <2>12. ASSUME StepRow(p) \/ MaxStep(p) PROVE Goal
    BY <1>0, <2>2, <2>12 DEF StepRow, MaxStep, Writing, WriteLocks
  <2>13. ASSUME StepDone(p) \/ MaxFinalize(p) PROVE Goal
    <3>1. /\ pc[p] \in {"step", "maxfinalize"} /\ work' = work
          /\ lock' = [lock EXCEPT ![p] = IF txn[p] THEN @ ELSE "none"]
      BY <2>13 DEF StepDone, MaxFinalize
    <3>2. Writing(p) => txn[p]
      BY <2>0, <3>1 DEF HoldsOnlyWhatItNeeds, Writing, WriteLocks
    <3>3. QED
      BY <1>0, <2>2, <3>1, <3>2 DEF Writing, WriteLocks
  <2>14. QED
    BY <1>3, <2>6, <2>7, <2>8, <2>9, <2>10, <2>11, <2>12, <2>13 DEF Act, Works
<1>4. QED
  BY <1>0, <1>1, <1>2, <1>3 DEF Next, Act

LEMMA IInvNext == IInv /\ [Next]_vars => IInv'
<1> SUFFICES ASSUME IInv, [Next]_vars PROVE IInv'
  OBVIOUS
<1>1. IsContents(file')
  BY TablesStay DEF Next, Act, vars, IInv, TypeOK
<1>2. LockInv'
  BY LocksNext DEF IInv
<1>3. TypeOK'
  BY <1>1, <1>2, CallTypesNext, WorkTypesNext
     DEF TypeOK, LockInv, LockTypes, CallTypes, WorkType
<1>4. QED
  BY <1>2, <1>3, PhasesNext, TablesNext, EffectNext DEF IInv

LEMMA AlwaysIInv == Spec => []IInv
BY IInvInit, IInvNext, PTL DEF Spec

(* The variables have their types; in particular every value that is read  *)
(* is read from a table that exists.                                       *)
THEOREM TypesHold == Spec => []TypeOK
<1>1. IInv => TypeOK
  BY DEF IInv
<1>2. QED
  BY <1>1, AlwaysIInv, PTL

(* Every table of an instance that Initialize has stored exists in the     *)
(* committed file, whatever its constructor has met.                       *)
THEOREM Tables == Spec => []TablesExist
<1>1. IInv => TablesExist
  BY DEF IInv, TablesMade, TablesMadeFor, TablesExist
<1>2. QED
  BY <1>1, AlwaysIInv, PTL

(* What a process is about to commit is the effect of its statement on the *)
(* file as it is now.                                                      *)
THEOREM Consistency == Spec => []UncommittedIsEffect
<1>1. IInv => UncommittedIsEffect
  BY DEF IInv
<1>2. QED
  BY <1>1, AlwaysIInv, PTL


-----------------------------------------------------------------------------
(* FetchRecordsQuery::GetResults: what a fetch reads row by row, while     *)
(* other processes write, is one state of the file.                        *)

(* The rows that process p has read are the first rows of the answer. *)
ReadsFirst(p) ==
    LET table == View(p)[call[p].type]
        ids   == {rows[p][k][1] : k \in Read(p)}
    IN  /\ ids \subseteq Selected(call[p].where, table)
        /\ \A k \in Read(p) : rows[p][k][2] = table[rows[p][k][1]]
        /\ \A k, m \in Read(p) : k < m => rows[p][k][1] < rows[p][m][1]
        /\ \A i \in Selected(call[p].where, table) :
              (\E j \in ids : i <= j) => i \in ids

(* The inductive form of FetchReadsOneState: from its first row on a fetch *)
(* holds a lock, which keeps every commit away, and it gets no empty row   *)
(* any more, so that the cursor stands after the last row read.            *)
Cursor(p) ==
    pc[p] = "step" /\ Read(p) # {} =>
        /\ lock[p] # "none"
        /\ rows[p][Len(rows[p])] # NullRow
        /\ ReadsFirst(p)

Cursors == \A p \in Procs : Cursor(p)

LEMMA CursorsInit == Init => Cursors
BY DEF Init, Cursors, Cursor

(* A process in the loop of GetResults has just begun it, or has made a    *)
(* sqlite3_step that did not end it.                                       *)
LEMMA StepCases ==
    ASSUME TypeOK, PhasesOfCalls, NEW p \in Procs, Act(p), pc'[p] = "step"
    PROVE  \/ StepRow(p) \/ StepBusy(p)
           \/ rows'[p] = <<>>
<1>0. pc \in [Procs -> Labels] /\ rows = [q \in Procs |-> rows[q]] /\ PhaseOfCall(p)
  BY DEF TypeOK, PhasesOfCalls
<1>1. pc[p] # "step" => rows[p] = <<>>
  BY <1>0 DEF PhaseOfCall
<1> USE <1>0 DEF End, Goto, Proceed, LoseConnection, EndTransaction
<1>2. CASE \/ Initialize(p) \/ InitializeThrows(p) \/ Finalize(p) \/ Exit(p)
  BY <1>2 DEF Initialize, InitializeThrows, Finalize, Exit
<1>3. CASE Begin(p) \/ ExecStatement(p) \/ ExecFails(p) \/ Rollback(p)
  BY <1>3 DEF Begin, ExecStatement, ExecFails, Rollback
<1>4. CASE CommitRead(p) \/ CommitLocks(p) \/ CommitWrites(p) \/ CommitIoError(p)
  BY <1>4 DEF CommitRead, CommitLocks, CommitWrites, CommitIoError
<1>5. CASE CommitBusy(p)
  BY <1>5 DEF CommitBusy, CommitRefused
<1>6. CASE StepDone(p) \/ MaxStep(p) \/ MaxFinalize(p)
  BY <1>6 DEF StepDone, MaxStep, MaxFinalize
<1>7. ASSUME NEW list, StartExec(p, list) PROVE FALSE
  BY <1>7 DEF StartExec, Ready
<1>8. ASSUME NEW c, StartFetch(p, c) PROVE rows'[p] = <<>>
  BY <1>1, <1>8 DEF StartFetch, StartQuery, Ready
<1>9. ASSUME NEW c, StartMax(p, c) PROVE FALSE
  BY <1>9 DEF StartMax, StartQuery, Ready
<1>10. QED
  BY <1>2, <1>3, <1>4, <1>5, <1>6, <1>7, <1>8, <1>9, CallCases DEF Act, Works

(* A process that keeps a lock keeps the state of the file that it sees: a *)
(* commit of another one needs EXCLUSIVE.                                  *)
LEMMA ViewStays ==
    ASSUME IInv, NEW p \in Procs, Act(p), NEW q \in Procs \ {p}, lock[q] # "none"
    PROVE  View(q)' = View(q)
<1>1. Same(q) /\ (file' = file \/ CommitWrites(p))
  BY Locality DEF IInv
<1>2. ~CommitWrites(p)
  BY DEF CommitWrites, IInv, LockInv, OneWriter, HoldsOnlyWhatItNeeds
<1>3. QED
  BY <1>1, <1>2 DEF Same, View, Writing

(* The rows of a fetch, and where its cursor stands. *)
LEMMA CursorFacts ==
    ASSUME IInv, NEW p \in Procs, pc[p] = "step"
    PROVE  /\ rows[p] \in Seq(Rows)
           /\ DOMAIN rows[p] = 1..Len(rows[p]) /\ Len(rows[p]) \in Nat
           /\ \A k \in Read(p) : rows[p][k] \in Int \X Vals
           /\ IsTable(View(p)[call[p].type])
           /\ Selected(call[p].where, View(p)[call[p].type])
                 \subseteq DOMAIN View(p)[call[p].type]
<1>1. rows[p] \in Seq(Rows) /\ call[p].op \in {"fetch", "fetchid"}
  BY DEF IInv, TypeOK, PhasesOfCalls, PhaseOfCall
<1>2. IsTable(View(p)[call[p].type])
  BY <1>1, ViewedTable
<1>3. \A k \in Read(p) : rows[p][k] \in Int \X Vals
  BY <1>1 DEF Read, Rows
<1>4. QED
  BY <1>1, <1>2, <1>3 DEF Selected

(* A sqlite3_step that yields a row: it is the least one that was not read, *)
(* and the lock is in hand from now on.                                     *)
LEMMA RowRead ==
    ASSUME IInv, NEW p \in Procs, Cursor(p), StepRow(p)
    PROVE  Cursor(p)'
<1> DEFINE table == View(p)[call[p].type]
           sel   == Selected(call[p].where, table)
           n     == Len(rows[p])
<1>1. pc[p] = "step" /\ call' = call /\ file' = file /\ work' = work
  BY DEF StepRow
<1>2. lock' = [lock EXCEPT ![p] = IF @ = "none" THEN "shared" ELSE @]
      /\ lock \in [Procs -> LockLevels]
  BY DEF StepRow, IInv, TypeOK
<1>3. lock'[p] # "none" /\ View(p)' = View(p)
  BY <1>1, <1>2 DEF View, Writing, WriteLocks
<1>4. PICK i \in Unread(p) : /\ \A j \in Unread(p) : i <= j
                            /\ rows' = [rows EXCEPT ![p] = Append(@, <<i, table[i]>>)]
  BY DEF StepRow
<1>5. /\ rows[p] \in Seq(Rows) /\ DOMAIN rows[p] = 1..n /\ n \in Nat
      /\ \A k \in Read(p) : rows[p][k] \in Int \X Vals
      /\ IsTable(table) /\ sel \subseteq DOMAIN table
  BY <1>1, CursorFacts
<1>6. i \in sel /\ i \in Int /\ table[i] \in Vals
  BY <1>4, <1>5 DEF Unread, IsTable
<1>7. <<i, table[i]>> \in Int \X Vals /\ <<i, table[i]>> # NullRow
  BY <1>6, NullRowAssumption
<1>8. rows'[p] = Append(rows[p], <<i, table[i]>>)
  BY <1>4 DEF IInv, TypeOK
<1>9. /\ Len(rows'[p]) = n + 1 /\ DOMAIN rows'[p] = 1..(n + 1)
      /\ rows'[p][n + 1] = <<i, table[i]>>
      /\ \A k \in 1..n : rows'[p][k] = rows[p][k]
  BY <1>5, <1>7, <1>8 DEF Rows
<1>10. Read(p)' = Read(p) \cup {n + 1} /\ Read(p) \subseteq 1..n
  BY <1>5, <1>7, <1>9 DEF Read
<1> DEFINE ids == {rows[p][k][1] : k \in Read(p)}
<1>11. Read(p) = {} => Unread(p) = sel
  <2> SUFFICES ASSUME Read(p) = {} PROVE Unread(p) = sel
    OBVIOUS
  <2>1. rows[p] = <<>> \/ rows[p][n] = NullRow
    BY <1>5 DEF Read
  <2>2. QED
    BY <2>1 DEF Unread
<1>12. Read(p) # {} => /\ n \in Read(p) /\ ReadsFirst(p)
                      /\ Unread(p) = {j \in sel : rows[p][n][1] < j}
  <2> SUFFICES ASSUME Read(p) # {}
               PROVE  /\ n \in Read(p) /\ ReadsFirst(p)
                      /\ Unread(p) = {j \in sel : rows[p][n][1] < j}
    OBVIOUS
  <2>1. rows[p][n] # NullRow /\ ReadsFirst(p)
    BY <1>1 DEF Cursor
  <2>2. n \in Read(p) /\ rows[p] # <<>>
    BY <1>5, <2>1 DEF Read
  <2>3. QED
    BY <2>1, <2>2 DEF Unread
<1> HIDE DEF table, sel, n
<1>13. \A k \in Read(p) : rows[p][k][1] \in Int /\ rows[p][k][1] < i
  <2> SUFFICES ASSUME NEW k \in Read(p) PROVE rows[p][k][1] \in Int /\ rows[p][k][1] < i
    OBVIOUS
  <2>1. n \in Read(p) /\ ReadsFirst(p) /\ rows[p][n][1] < i
    BY <1>4, <1>12
  <2>2. rows[p][k][1] \in Int /\ rows[p][n][1] \in Int /\ k \in 1..n
    BY <1>5, <1>10, <2>1
  <2>3. k = n \/ rows[p][k][1] < rows[p][n][1]
    BY <1>5, <2>1, <2>2 DEF ReadsFirst
  <2>4. QED
    BY <1>6, <2>1, <2>2, <2>3
<1>14. {rows'[p][k][1] : k \in Read(p)'} = ids \cup {i}
  BY <1>9, <1>10
<1>15. ids \subseteq sel
  BY <1>12 DEF ReadsFirst, sel, table
<1>16. \A k \in Read(p)' : rows'[p][k][2] = table[rows'[p][k][1]]
  <2>1. \A k \in Read(p) : rows[p][k][2] = table[rows[p][k][1]]
    BY <1>12 DEF ReadsFirst, table
  <2>2. \A k \in Read(p) : rows'[p][k] = rows[p][k]
    BY <1>9, <1>10
  <2>3. rows'[p][n + 1][2] = table[rows'[p][n + 1][1]]
    BY <1>9
  <2>4. QED
    BY <1>10, <2>1, <2>2, <2>3
<1>17. \A k, m \in Read(p)' : k < m => rows'[p][k][1] < rows'[p][m][1]
  <2> SUFFICES ASSUME NEW k \in Read(p)', NEW m \in Read(p)', k < m
               PROVE  rows'[p][k][1] < rows'[p][m][1]
    OBVIOUS
  <2>1. k \in Read(p) /\ k \in 1..n
    BY <1>5, <1>10
  <2>2. CASE m = n + 1
    BY <1>9, <1>13, <2>1, <2>2
  <2>3. CASE m # n + 1
    BY <1>9, <1>10, <1>12, <2>1, <2>3 DEF ReadsFirst
  <2>4. QED
    BY <2>2, <2>3
<1>18. \A x \in sel : (\E j \in ids \cup {i} : x <= j) => x \in ids \cup {i}
  <2> SUFFICES ASSUME NEW x \in sel, NEW j \in ids \cup {i}, x <= j, x \notin ids
               PROVE  x = i
    OBVIOUS
  <2>1. x \in Int
    BY <1>5 DEF IsTable
  <2>2. CASE Read(p) = {}
    <3>1. j = i /\ i <= x
      BY <1>4, <1>11, <2>2
    <3>2. QED
      BY <1>6, <2>1, <3>1
  <2>3. CASE Read(p) # {}
    <3>1. j \notin ids
      BY <1>12, <2>3 DEF ReadsFirst, sel, table
    <3>2. x <= i
      BY <3>1
    <3>3. rows[p][n][1] \in Int /\ rows[p][n][1] \in ids
      BY <1>12, <1>13, <2>3
    <3>4. ~(x <= rows[p][n][1])
      BY <1>12, <2>3, <3>3 DEF ReadsFirst, sel, table
    <3>5. x \in Unread(p)
      BY <1>12, <2>1, <2>3, <3>3, <3>4
    <3>6. QED
      BY <1>4, <1>6, <2>1, <3>2, <3>5
  <2>4. QED
    BY <2>2, <2>3
<1>19. ReadsFirst(p)'
  <2>1. (View(p)[call[p].type])' = table /\ call' = call
    BY <1>1, <1>3 DEF table
  <2>2. {rows'[p][k][1] : k \in Read(p)'} \subseteq sel
    BY <1>6, <1>14, <1>15
  <2> HIDE DEF ids
  <2>3. QED
    BY <1>14, <1>16, <1>17, <1>18, <2>1, <2>2 DEF ReadsFirst, sel
<1>20. rows'[p][Len(rows'[p])] # NullRow
  BY <1>7, <1>9
<1>21. QED
  BY <1>3, <1>19, <1>20 DEF Cursor

LEMMA CursorsNext == IInv /\ Cursors /\ [Next]_vars => Cursors'
<1> SUFFICES ASSUME IInv, Cursors, [Next]_vars PROVE Cursors'
  OBVIOUS
<1>0. TypeOK /\ PhasesOfCalls
  BY DEF IInv
<1>1. CASE UNCHANGED vars
  <2>1. /\ pc' = pc /\ lock' = lock /\ rows' = rows /\ call' = call
        /\ \A p \in Procs : Read(p)' = Read(p) /\ View(p)' = View(p)
    BY <1>1 DEF vars, Read, View, Writing
  <2>2. \A p \in Procs : ReadsFirst(p) => ReadsFirst(p)'
    BY <2>1 DEF ReadsFirst
  <2>3. QED
    BY <2>1, <2>2 DEF Cursors, Cursor
<1>2. ASSUME NEW p \in Procs, Act(p), NEW q \in Procs \ {p} PROVE Cursor(q)'
  <2>1. Same(q)
    BY <1>0, <1>2, Locality
  <2>2. SUFFICES ASSUME pc[q] = "step", Read(q) # {} PROVE Cursor(q)'
    BY <2>1 DEF Same, Cursor, Read
  <2>3. lock[q] # "none" /\ rows[q][Len(rows[q])] # NullRow /\ ReadsFirst(q)
    BY <2>2 DEF Cursors, Cursor
  <2>4. View(q)' = View(q)
    BY <1>2, <2>3, ViewStays
  <2>5. QED
    BY <2>1, <2>3, <2>4 DEF Same, Cursor, ReadsFirst, Read
<1>3. ASSUME NEW p \in Procs, Act(p) PROVE Cursor(p)'
  <2>1. SUFFICES ASSUME pc'[p] = "step" PROVE Cursor(p)'
    BY DEF Cursor
  <2>2. CASE rows'[p] = <<>>
    BY <2>2 DEF Cursor, Read
  <2>3. CASE StepRow(p)
    BY <2>3, RowRead DEF Cursors
  <2>4. CASE StepBusy(p)
    <3>1. pc[p] = "step" /\ lock[p] = "none" /\ rows' = [rows EXCEPT ![p] = Append(@, NullRow)]
      BY <2>4 DEF StepBusy, MayRead
    <3>2. Read(p) = {}
      BY <3>1 DEF Cursors, Cursor
    <3>3. rows[p] \in Seq(Rows) /\ rows'[p] = Append(rows[p], NullRow)
      BY <1>0, <3>1 DEF TypeOK
    <3>4. Read(p)' = {}
      BY <3>2, <3>3 DEF Read, Rows
    <3>5. QED
      BY <3>4 DEF Cursor
  <2>5. QED
    BY <1>0, <1>3, <2>1, <2>2, <2>3, <2>4, StepCases
<1>4. CASE Next
  BY <1>2, <1>3, <1>4 DEF Next, Act, Cursors
<1>5. QED
  BY <1>1, <1>4

LEMMA AlwaysCursors == Spec => [](IInv /\ Cursors)
<1>1. Init => Cursors
  BY CursorsInit
<1>2. Spec => []IInv
  BY AlwaysIInv
<1>3. QED
  BY <1>1, <1>2, CursorsNext, PTL DEF Spec

(* Whatever other processes do between two sqlite3_step calls of           *)
(* GetResults, the rows that it has collected are the first rows, in id    *)
(* order, of the answer on the file as it is now.                          *)
THEOREM FetchConsistent == Spec => []FetchReadsOneState
<1>1. Cursors => FetchReadsOneState
  BY DEF Cursors, Cursor, ReadsFirst, FetchReadsOneState
<1>2. QED
  BY <1>1, AlwaysCursors, PTL

(* The step that ends the loop of GetResults: nothing is left to read. *)
LEMMA LastStep ==
    ASSUME IInv, Cursors, NEW p \in Procs, StepDone(p), ~txn[p]
    PROVE  LET table == file[call[p].type] IN
           {rows[p][k] : k \in Read(p)}
               = {<<i, table[i]>> : i \in Selected(call[p].where, table)}
<1> DEFINE table == file[call[p].type]
           sel   == Selected(call[p].where, table)
           n     == Len(rows[p])
<1>1. pc[p] = "step" /\ Unread(p) = {}
  BY DEF StepDone
<1>2. View(p) = file
  BY <1>1 DEF IInv, LockInv, HoldsOnlyWhatItNeeds, View, Writing, WriteLocks
<1>3. /\ rows[p] \in Seq(Rows) /\ DOMAIN rows[p] = 1..n /\ n \in Nat
      /\ \A k \in Read(p) : rows[p][k] \in Int \X Vals
      /\ IsTable(table) /\ sel \subseteq DOMAIN table
  BY <1>1, <1>2, CursorFacts
<1>4. CASE Read(p) = {}
  <2>1. rows[p] = <<>> \/ rows[p][n] = NullRow
    BY <1>3, <1>4 DEF Read
  <2>2. sel = {}
    BY <1>1, <1>2, <2>1 DEF Unread
  <2>3. QED
    BY <1>4, <2>2
<1>5. CASE Read(p) # {}
  <2>1. rows[p][n] # NullRow /\ ReadsFirst(p)
    BY <1>1, <1>5 DEF Cursors, Cursor
  <2>2. n \in Read(p) /\ rows[p] # <<>> /\ rows[p][n][1] \in Int
    BY <1>3, <1>5, <2>1 DEF Read
  <2>3. \A i \in sel : i \in Int /\ ~(rows[p][n][1] < i)
    BY <1>1, <1>2, <1>3, <2>1, <2>2 DEF Unread, IsTable
  <2>4. \A i \in sel : i <= rows[p][n][1]
    BY <2>2, <2>3
  <2> DEFINE ids == {rows[p][k][1] : k \in Read(p)}
  <2>5. /\ ids \subseteq sel
        /\ \A k \in Read(p) : rows[p][k][2] = table[rows[p][k][1]]
        /\ \A i \in sel : (\E j \in ids : i <= j) => i \in ids
    BY <1>2, <2>1 DEF ReadsFirst
  <2>6. rows[p][n][1] \in ids
    BY <2>2
  <2>7. sel = ids
    BY <2>4, <2>5, <2>6
  <2>8. \A k \in Read(p) : rows[p][k] = <<rows[p][k][1], table[rows[p][k][1]]>>
    BY <1>3, <2>5
  <2> HIDE DEF table, sel
  <2>9. {rows[p][k] : k \in Read(p)} = {<<i, table[i]>> : i \in sel}
    BY <2>7, <2>8
  <2>10. QED
    BY <2>9 DEF table, sel
<1>6. QED
  BY <1>4, <1>5

(* A fetch that returns has the whole answer, on one state of the file.    *)
THEOREM FetchWhole == Spec => FetchComplete
<1> DEFINE Whole(p) ==
             pc[p] = "step" /\ ~txn[p] /\ pc'[p] = "idle" /\ out'[p] = "ok" =>
                 LET table == file[call[p].type] IN
                 {rows[p][k] : k \in Read(p)}
                     = {<<i, table[i]>> : i \in Selected(call[p].where, table)}
<1>1. ASSUME IInv, Cursors, [Next]_vars
      PROVE  [\A p \in Procs : Whole(p)]_vars
  <2>1. SUFFICES ASSUME NEW q \in Procs, Act(q), NEW p \in Procs,
                        pc[p] = "step", ~txn[p], pc'[p] = "idle", out'[p] = "ok"
                 PROVE  LET table == file[call[p].type] IN
                        {rows[p][k] : k \in Read(p)}
                            = {<<i, table[i]>> : i \in Selected(call[p].where, table)}
    BY <1>1 DEF Next, Act
  <2>2. TypeOK
    BY <1>1 DEF IInv
  <2>3. q = p
    BY <2>1, <2>2, Locality DEF Same
  <2>4. StepDone(p)
    <3>1. pc \in [Procs -> Labels] /\ out = [r \in Procs |-> out[r]] /\ Act(p)
      BY <2>1, <2>2, <2>3 DEF TypeOK
    <3>2. ~Calls(p)
      BY <2>1, CallCases DEF Initialize, InitializeThrows, Finalize, StartExec,
                             StartFetch, StartMax, Ready
    <3>3. ~Exit(p)
      BY <2>1, <3>1 DEF Exit, End
    <3>4. ~StepRow(p) /\ ~StepBusy(p)
      BY <2>1 DEF StepRow, StepBusy
    <3>5. Works(p) => StepDone(p)
      BY <2>1, <3>4 DEF Works, Begin, ExecStatement, ExecFails, Rollback, CommitRead,
             CommitLocks, CommitBusy, CommitWrites, MaxStep, MaxFinalize
    <3>6. ~CommitIoError(p)
      BY <2>1 DEF CommitIoError
    <3>7. QED
      BY <3>1, <3>2, <3>3, <3>5, <3>6 DEF Act
  <2>5. QED
    BY <1>1, <2>1, <2>4, LastStep
<1>2. QED
  BY <1>1, AlwaysCursors, PTL DEF Spec, FetchComplete

-----------------------------------------------------------------------------
(* SaveAutoIncrement, when there is one process. *)

(* The process has the file to itself, and ids fit the int that            *)
(* sqlite3_column_int returns.                                             *)
OneProcess == \A p, q \in Procs : p = q
IdsFitInt  == MaxId < IntHalf /\ \A i \in Ids : -IntHalf <= i

(* The inductive form of AutoIdsNext, about all the inserts that are still *)
(* to be executed: the k-th one gets the k-th id after the greatest one in *)
(* the file.  That GetMaxId reads that id rests on StoredFit and on what   *)
(* SaveAutoIncrement found, the file's ids being at most MaxId.            *)
StoredFit == \A t \in DOMAIN file : \A i \in DOMAIN file[t] : -IntHalf <= i

QueueFits(list) ==
    \A k \in DOMAIN list : list[k].op = "insert" => -IntHalf <= list[k].id

QueuedFit(p) == QueueFits(todo[p])

Upcoming(p) ==
    call[p].op = "autosave" =>
        /\ pc[p] = "maxstep" => \A i \in DOMAIN file[call[p].type] : i <= MaxId
        /\ \A k \in DOMAIN todo[p] : todo[p][k] # Malformed =>
              /\ todo[p][k].op = "insert"
              /\ todo[p][k].type = call[p].type
              /\ todo[p][k].id = Greatest(file[call[p].type]) + k

(* Nobody else keeps this process from committing, so that no transaction  *)
(* is left open for SELECT MAX(id) to read.                                *)
Undisturbed == leaked = {} /\ \A p \in Procs : ~Refused(p)

AutoInv ==
    /\ Undisturbed
    /\ StoredFit
    /\ \A p \in Procs : QueuedFit(p) /\ Upcoming(p)

LEMMA AutoInit == Init => AutoInv
BY DEF Init, AutoInv, Undisturbed, Refused, StoredFit, QueuedFit, QueueFits, Upcoming, NewFile, NoCall

(* The greatest id of a table, and what is greater than it. *)
LEMMA GreatestIs ==
    ASSUME NEW f, IsTable(f), DOMAIN f # {}
    PROVE  Greatest(f) \in DOMAIN f /\ \A i \in DOMAIN f : i <= Greatest(f)
<1>1. \E m \in DOMAIN f : \A j \in DOMAIN f : j <= m
  BY FiniteSetHasMax DEF IsTable
<1>2. QED
  BY <1>1 DEF Greatest

LEMMA GreatestOf ==
    ASSUME NEW f, IsTable(f), NEW m \in DOMAIN f, \A i \in DOMAIN f : i <= m
    PROVE  Greatest(f) = m
<1>1. Greatest(f) \in DOMAIN f /\ \A i \in DOMAIN f : i <= Greatest(f)
  BY GreatestIs
<1>2. Greatest(f) <= m /\ m <= Greatest(f) /\ m \in Int /\ Greatest(f) \in Int
  BY <1>1 DEF IsTable
<1>3. QED
  BY <1>2

LEMMA ColumnIntFits ==
    ASSUME NEW n \in Int, -IntHalf <= n, n < IntHalf
    PROVE  ColumnInt(n) = n
<1>1. /\ n + IntHalf \in Int /\ 0 <= n + IntHalf /\ n + IntHalf < 2 * IntHalf
      /\ IntHalf \in Int /\ 2 * IntHalf \in Int /\ 2 * IntHalf > 0
  BY IntHalfAssumption
<1>2. \A a, b \in Int : 0 <= a /\ a < b => a % b = a
  BY SMT
<1>3. QED
  BY <1>1, <1>2 DEF ColumnInt

-----------------------------------------------------------------------------
(* With no other connection a COMMIT is not refused. *)
LEMMA NeverBusy ==
    ASSUME OneProcess, NEW p \in Procs
    PROVE  ~CommitBusy(p)
BY DEF OneProcess, CommitBusy, MayExclude

LEMMA UndisturbedNext ==
    ASSUME OneProcess, IInv, Undisturbed, NEW p \in Procs, Act(p)
    PROVE  Undisturbed'
<1>0. /\ txn \in [Procs -> BOOLEAN] /\ pc \in [Procs -> Labels]
      /\ leaked = {} /\ ~Refused(p) /\ \A q \in Procs : q = p
      /\ ~CommitBusy(p)
  BY NeverBusy DEF IInv, TypeOK, Undisturbed, OneProcess
<1>1. SUFFICES leaked' = {} /\ ~Refused(p)'
  BY <1>0 DEF Undisturbed
<1>2. ASSUME leaked' = leaked, EndTransaction(p) PROVE leaked' = {} /\ ~Refused(p)'
  BY <1>0, <1>2 DEF EndTransaction, Refused
<1>3. ASSUME leaked' = leaked, txn' = txn, pc[p] \notin {"exec", "rollback", "commit", "write"}
      PROVE  leaked' = {} /\ ~Refused(p)'
  BY <1>0, <1>3 DEF Refused
<1>4. CASE Initialize(p) \/ InitializeThrows(p)
  BY <1>3, <1>4 DEF Initialize, InitializeThrows, sqlite
<1>5. CASE Finalize(p)
  BY <1>2, <1>5 DEF Finalize
<1>6. ASSUME NEW list, StartExec(p, list) PROVE leaked' = {} /\ ~Refused(p)'
  BY <1>3, <1>6 DEF StartExec, Ready
<1>7. ASSUME NEW c, StartFetch(p, c) PROVE leaked' = {} /\ ~Refused(p)'
  BY <1>2, <1>3, <1>7 DEF StartFetch, StartQuery, Ready
<1>8. ASSUME NEW c, StartMax(p, c) PROVE leaked' = {} /\ ~Refused(p)'
  BY <1>3, <1>8 DEF StartMax, StartQuery, Ready
<1>9. CASE Calls(p)
  BY <1>4, <1>5, <1>6, <1>7, <1>8, <1>9, CallCases
<1>10. CASE Exit(p)
  BY <1>0, <1>10 DEF Exit, EndTransaction, Refused
<1>11. CASE Begin(p)
  BY <1>0, <1>11 DEF Begin, End, Goto, Refused
<1>12. CASE ExecStatement(p) \/ ExecFails(p) \/ CommitLocks(p)
  BY <1>0, <1>12 DEF ExecStatement, ExecFails, CommitLocks, Goto, Refused
<1>13. CASE Rollback(p) \/ CommitRead(p) \/ CommitWrites(p) \/ CommitIoError(p)
  BY <1>2, <1>13 DEF Rollback, CommitRead, CommitWrites, CommitIoError
<1>14. CASE StepRow(p) \/ StepBusy(p) \/ StepDone(p) \/ MaxStep(p) \/ MaxFinalize(p)
  BY <1>3, <1>14 DEF StepRow, StepBusy, StepDone, MaxStep, MaxFinalize
<1>15. QED
  BY <1>0, <1>9, <1>10, <1>11, <1>12, <1>13, <1>14 DEF Act, Works

-----------------------------------------------------------------------------
(* The ids that a statement leaves in a table. *)
LEMMA EffectIds ==
    ASSUME NEW s \in Stmts, NEW c, IsContents(c), Compiles(s, c),
           NEW t \in DOMAIN Effect(s, c), NEW i \in DOMAIN Effect(s, c)[t]
    PROVE  \/ t \in DOMAIN c /\ i \in DOMAIN c[t]
           \/ s.op = "insert" /\ i = s.id
<1>1. CASE ~Writes(s, c)
  BY <1>1 DEF Effect
<1>2. CASE Writes(s, c)
  <2>1. Effect(s, c) = [u \in DOMAIN c \cup {s.type} |->
                          IF u = s.type THEN TableAfter(s, c[u]) ELSE c[u]]
    BY <1>2 DEF Effect
  <2>2. CASE t # s.type
    BY <2>1, <2>2
  <2>3. CASE t = s.type
    <3>1. i \in DOMAIN TableAfter(s, c[t])
      BY <2>1, <2>3
    <3>2. s.op \in {"insert", "update", "delete"} => t \in DOMAIN c
      BY <2>3 DEF Compiles
    <3>3. CASE s.op = "create"
      BY <3>1, <3>3 DEF TableAfter, EmptyTable
    <3>4. CASE s.op = "insert"
      BY <3>1, <3>2, <3>4 DEF TableAfter
    <3>5. CASE s.op = "update"
      BY <3>1, <3>2, <3>5 DEF TableAfter
    <3>6. CASE s.op = "delete"
      BY <3>1, <3>2, <3>6 DEF TableAfter
    <3>7. QED
      BY <1>2, <3>3, <3>4, <3>5, <3>6 DEF Writes
  <2>4. QED
    BY <2>2, <2>3
<1>3. QED
  BY <1>1, <1>2

LEMMA StoredFitNext ==
    ASSUME IInv, StoredFit, NEW p \in Procs, QueuedFit(p), Act(p)
    PROVE  StoredFit'
<1>1. CASE file' = file
  BY <1>1 DEF StoredFit
<1>2. CASE CommitWrites(p)
  <2> DEFINE s == Head(todo[p])
  <2>1. s \in Stmts /\ Compiles(s, file) /\ file' = Effect(s, file) /\ IsContents(file)
    BY <1>2, CommitApplies DEF IInv, TypeOK
  <2>2. todo[p] # <<>> /\ todo[p] \in Seq(Stmts)
    BY <1>2 DEF CommitWrites, IInv, TypeOK, PhasesOfCalls, PhaseOfCall, Executing
  <2>3. s = todo[p][1] /\ 1 \in DOMAIN todo[p]
    BY <2>2
  <2>4. s.op = "insert" => -IntHalf <= s.id
    BY <2>3 DEF QueuedFit, QueueFits
  <2> HIDE DEF s
  <2>5. QED
    BY <2>1, <2>4, EffectIds DEF StoredFit
<1>3. QED
  BY <1>1, <1>2, Locality DEF IInv

-----------------------------------------------------------------------------
(* The queue of a call. *)

(* The statements that a program asks for have ids that fit an int. *)
LEMMA SavesFit ==
    ASSUME IdsFitInt, NEW p \in Procs, Calls(p)
    PROVE  \/ Initialize(p) \/ InitializeThrows(p) \/ Finalize(p)
           \/ \E list : QueueFits(list) /\ StartExec(p, list)
           \/ \E c : StartFetch(p, c) /\ c.op \in {"fetch", "fetchid"}
           \/ \E t \in Registered(p) : StartMax(p, [op |-> "max", type |-> t])
           \/ SaveAutoIncrement(p)
<1> USE IdsAssumption, IntHalfAssumption
<1>1. ASSUME NEW t, NEW ms \in Batches(Models)
      PROVE  QueueFits([k \in DOMAIN ms |-> Insert(t, ms[k])])
  <2>1. \A k \in DOMAIN ms : ms[k].id \in Ids
    BY DEF Batches, Models
  <2>2. \A m : Insert(t, m).op = "insert" => Insert(t, m).id = m.id
    BY DEF Insert, Malformed
  <2>3. QED
    BY <2>1, <2>2 DEF QueueFits, IdsFitInt
<1>2. ASSUME NEW t, NEW ms
      PROVE  QueueFits([k \in DOMAIN ms |-> Update(t, ms[k])])
  BY DEF QueueFits, Update, Malformed
<1>3. ASSUME NEW t, NEW w PROVE QueueFits(<<Delete(t, w)>>)
  BY DEF QueueFits, Delete, Malformed
<1>4. QueueFits(<<Malformed>>) /\ QueueFits(<<NoSql>>)
  BY DEF QueueFits, Malformed, NoSql
<1>5. CASE Save(p)
  BY <1>1, <1>5 DEF Save
<1>6. CASE UpdateRecords(p)
  BY <1>2, <1>6 DEF UpdateRecords
<1>7. CASE DeleteRecords(p)
  BY <1>3, <1>7 DEF DeleteRecords
<1>8. CASE Sql(p)
  BY <1>3, <1>4, <1>8 DEF Sql
<1>9. CASE Fetch(p)
  <2>1. PICK t \in Registered(p) :
            \/ \E w \in {EmptyPredicate, BadPredicate} \cup {EqualVal(v) : v \in Vals} :
                  StartFetch(p, [op |-> "fetch", type |-> t, where |-> w])
            \/ \E i \in Ids :
                  StartFetch(p, [op |-> "fetchid", type |-> t, where |-> EqualId(i)])
    BY <1>9 DEF Fetch
  <2>2. \A w : /\ [op |-> "fetch", type |-> t, where |-> w].op = "fetch"
              /\ [op |-> "fetchid", type |-> t, where |-> w].op = "fetchid"
    OBVIOUS
  <2>3. \E c : StartFetch(p, c) /\ c.op \in {"fetch", "fetchid"}
    BY <2>1, <2>2, Zenon
  <2>4. QED
    BY <2>3
<1>10. CASE GetMaxId(p)
  BY <1>10 DEF GetMaxId
<1>11. QED
  BY <1>5, <1>6, <1>7, <1>8, <1>9, <1>10 DEF Calls

LEMMA CallsQueue ==
    ASSUME IdsFitInt, IInv, NEW p \in Procs, Calls(p)
    PROVE  QueuedFit(p)' /\ Upcoming(p)'
<1> DEFINE Goal == QueuedFit(p)' /\ Upcoming(p)'
<1>0. /\ call = [q \in Procs |-> call[q]] /\ todo = [q \in Procs |-> todo[q]]
      /\ pc = [q \in Procs |-> pc[q]]
      /\ pc[p] = "idle" => todo[p] = <<>> /\ call[p] = NoCall
  BY DEF IInv, TypeOK, PhasesOfCalls, PhaseOfCall, Executing
<1>1. ASSUME todo'[p] = <<>>, call'[p].op # "autosave" PROVE Goal
  BY <1>1 DEF QueuedFit, QueueFits, Upcoming
<1>2. ASSUME QueueFits(todo'[p]), call'[p].op # "autosave" PROVE Goal
  BY <1>2 DEF QueuedFit, Upcoming, QueueFits
<1>3. ASSUME NEW how, End(p, how) PROVE Goal
  BY <1>0, <1>1, <1>3 DEF End, NoCall
<1>4. ASSUME NEW c, c.op # "autosave", NEW list, QueueFits(list), Proceed(p, c, list)
      PROVE  Goal
  BY <1>0, <1>2, <1>3, <1>4 DEF Proceed
<1>5. CASE Initialize(p)
  <2>1. QueueFits([k \in DOMAIN Records[p] |-> CreateTable(Records[p][k])])
    BY DEF QueueFits, CreateTable
  <2>2. QED
    BY <1>4, <1>5, <2>1 DEF Initialize
<1>6. CASE InitializeThrows(p) \/ Finalize(p)
  BY <1>3, <1>6 DEF InitializeThrows, Finalize
<1>7. ASSUME NEW list, QueueFits(list), StartExec(p, list) PROVE Goal
  BY <1>4, <1>7 DEF StartExec
<1>8. ASSUME NEW c, c.op # "autosave", NEW l, Ready(p), StartQuery(p, c, l) PROVE Goal
  BY <1>0, <1>1, <1>8 DEF StartQuery, Ready
<1>9. ASSUME NEW c, StartFetch(p, c), c.op \in {"fetch", "fetchid"} PROVE Goal
  BY <1>3, <1>8, <1>9 DEF StartFetch
<1>10. ASSUME NEW t, StartMax(p, [op |-> "max", type |-> t]) PROVE Goal
  BY <1>3, <1>8, <1>10 DEF StartMax
<1>11. CASE SaveAutoIncrement(p)
  <2>1. PICK t \in Registered(p), vs \in Batches(Texts) :
            /\ Ready(p)
            /\ IdsBounded(t)
            /\ StartMax(p, [op |-> "autosave", type |-> t, vals |-> vs])
    BY <1>11 DEF SaveAutoIncrement
  <2>2. CASE End(p, "failed")
    BY <1>3, <2>2
  <2>3. CASE StartQuery(p, [op |-> "autosave", type |-> t, vals |-> vs], "maxstep")
    <3>1. todo'[p] = <<>> /\ call'[p].type = t
      BY <1>0, <2>1, <2>3 DEF StartQuery, Ready
    <3>2. file' = file /\ \A i \in DOMAIN file[t] : i <= MaxId
      BY <2>1 DEF StartMax, IdsBounded
    <3>3. QED
      BY <3>1, <3>2 DEF QueuedFit, QueueFits, Upcoming
  <2>4. QED
    BY <2>1, <2>2, <2>3 DEF StartMax
<1>12. QED
  BY <1>5, <1>6, <1>7, <1>9, <1>10, <1>11, SavesFit

(* SELECT MAX(id) returns the greatest id of the file, and 0 for an empty  *)
(* table.                                                                  *)
LEMMA MaxStepQueue ==
    ASSUME IdsFitInt, IInv, AutoInv, NEW p \in Procs, MaxStep(p)
    PROVE  QueuedFit(p)' /\ Upcoming(p)'
<1> DEFINE t == call[p].type
           g == Greatest(file[t])
           vs == call[p].vals
<1>0. /\ call = [q \in Procs |-> call[q]] /\ todo \in [Procs -> Seq(Stmts)]
      /\ pc \in [Procs -> Labels] /\ pc[p] = "maxstep"
      /\ call[p] \in CallRecords /\ call[p].op \in {"max", "autosave"}
      /\ IsContents(file)
  BY DEF IInv, TypeOK, PhasesOfCalls, PhaseOfCall, MaxStep
<1>1. CASE End(p, "failed")
  BY <1>0, <1>1 DEF End, NoCall, QueuedFit, QueueFits, Upcoming
<1>2. ASSUME call[p].op = "max", todo'[p] = <<>>, call' = call PROVE QueuedFit(p)' /\ Upcoming(p)'
  BY <1>2 DEF QueuedFit, QueueFits, Upcoming
<1>3. ASSUME call[p].op = "autosave", call' = call, pc'[p] = "maxfinalize", file' = file,
             todo'[p] = AutoInserts(t, vs, ColumnInt(Greatest(View(p)[t])))
      PROVE  QueuedFit(p)' /\ Upcoming(p)'
  <2>1. View(p) = file
    BY <1>0 DEF IInv, LockInv, HoldsOnlyWhatItNeeds, AutoInv, Undisturbed, Refused,
                View, Writing, WriteLocks
  <2>2. t \in Types /\ IsTable(file[t])
    BY <1>3, <2>1, ViewedTable
  <2>3. t \in DOMAIN file
    BY <1>0, <1>3 DEF IInv, TablesMade, TablesMadeFor
  <2>4. g \in Int /\ -IntHalf <= g /\ g < IntHalf
    <3>1. CASE DOMAIN file[t] = {}
      BY <3>1, IntHalfAssumption DEF Greatest
    <3>2. CASE DOMAIN file[t] # {}
      <4>1. g \in DOMAIN file[t] /\ g \in Int
        BY <2>2, <3>2, GreatestIs DEF IsTable
      <4>2. -IntHalf <= g /\ g <= MaxId
        BY <1>0, <1>3, <2>3, <4>1 DEF AutoInv, StoredFit, Upcoming
      <4>3. QED
        BY <4>1, <4>2, BoundsAssumption, IntHalfAssumption DEF IdsFitInt
    <3>3. QED
      BY <3>1, <3>2
  <2>5. ColumnInt(g) = g
    BY <2>4, ColumnIntFits
  <2>6. vs \in Seq(Texts)
    BY <1>0, <1>3 DEF CallRecords, NoCall
  <2> HIDE DEF t, g, vs
  <2>7. todo'[p] = AutoInserts(t, vs, g)
    BY <1>3, <2>1, <2>5 DEF g
  <2>8. /\ DOMAIN todo'[p] = DOMAIN vs
        /\ \A k \in DOMAIN vs : /\ k \in Nat
                                /\ todo'[p][k] = Insert(t, [id |-> g + k, val |-> vs[k]])
    BY <2>6, <2>7 DEF AutoInserts
  <2>9. \A k \in DOMAIN vs :
           \/ todo'[p][k] = Malformed
           \/ /\ todo'[p][k].op = "insert" /\ todo'[p][k].type = t
              /\ todo'[p][k].id = g + k
    <3>1. TAKE k \in DOMAIN vs
    <3> DEFINE m == [id |-> g + k, val |-> vs[k]]
    <3>2. todo'[p][k] = Insert(t, m) /\ m.id = g + k
      BY <2>8
    <3> HIDE DEF m
    <3>3. QED
      BY <3>2 DEF Insert
  <2>10. QueuedFit(p)'
    <3>1. ASSUME NEW k \in DOMAIN todo'[p], todo'[p][k].op = "insert"
          PROVE  -IntHalf <= todo'[p][k].id
      <4>0. Malformed.op # "insert"
        BY DEF Malformed
      <4>1. k \in 1..Len(vs) /\ Len(vs) \in Nat
        BY <2>6, <2>8
      <4>2. todo'[p][k].id = g + k
        BY <2>8, <2>9, <3>1, <4>0
      <4>3. QED
        BY <2>4, <4>1, <4>2, IntHalfAssumption
    <3>2. QED
      BY <3>1 DEF QueuedFit, QueueFits
  <2>11. Upcoming(p)'
    BY <1>3, <2>8, <2>9 DEF Upcoming, t, g
  <2>12. QED
    BY <2>10, <2>11
<1>4. QED
  BY <1>0, <1>1, <1>2, <1>3 DEF MaxStep, Goto

(* The greatest id of a table after an insert under the id that follows it *)
(* is that id.                                                             *)
LEMMA NextGreatest ==
    ASSUME NEW s \in Stmts, NEW c, IsContents(c), Compiles(s, c), s.op = "insert",
           s.id = Greatest(c[s.type]) + 1
    PROVE  Greatest(Effect(s, c)[s.type]) = s.id
<1> DEFINE f == c[s.type]
           g == Effect(s, c)[s.type]
<1>1. s.type \in DOMAIN c /\ IsTable(f)
  BY DEF Compiles, IsContents
<1>2. g = [i \in DOMAIN f \cup {s.id} |-> IF i = s.id THEN s.val ELSE f[i]]
  BY <1>1 DEF Effect, Writes, TableAfter
<1>3. IsTable(g)
  BY <1>1, EffectType DEF IsContents
<1>4. Greatest(f) \in Int /\ \A i \in DOMAIN f : i \in Int /\ i <= Greatest(f)
  BY <1>1, GreatestType, GreatestIs DEF IsTable
<1>5. s.id \in DOMAIN g /\ \A i \in DOMAIN g : i <= s.id
  BY <1>2, <1>4
<1> HIDE DEF f, g
<1>6. QED
  BY <1>3, <1>5, GreatestOf DEF g

LEMMA CommitQueue ==
    ASSUME IInv, AutoInv, NEW p \in Procs, CommitRead(p) \/ CommitWrites(p)
    PROVE  QueuedFit(p)' /\ Upcoming(p)'
<1> DEFINE s == Head(todo[p])
           list == Tail(todo[p])
<1>0. /\ call = [q \in Procs |-> call[q]] /\ todo \in [Procs -> Seq(Stmts)]
      /\ pc \in [Procs -> Labels] /\ pc[p] \in {"commit", "write"}
      /\ todo[p] \in Seq(Stmts) /\ todo[p] # <<>>
      /\ IsContents(file)
  BY DEF IInv, TypeOK, PhasesOfCalls, PhaseOfCall, Executing, CommitRead, CommitWrites
<1>1. /\ s = todo[p][1] /\ 1 \in DOMAIN todo[p] /\ s \in Stmts
      /\ \A k \in DOMAIN list : /\ k \in Nat /\ k + 1 \in DOMAIN todo[p]
                                /\ list[k] = todo[p][k + 1]
  BY <1>0
<1>2. Compiles(s, file)
  BY <1>0 DEF IInv, UncommittedIsEffect
<1> HIDE DEF s, list
<1>3. CASE End(p, "ok")
  BY <1>0, <1>3 DEF End, NoCall, QueuedFit, QueueFits, Upcoming
<1>4. ASSUME call'[p] = call[p], todo'[p] = list, pc'[p] = "begin"
      PROVE  QueuedFit(p)' /\ Upcoming(p)'
  <2>1. QueuedFit(p)'
    BY <1>1, <1>4 DEF AutoInv, QueuedFit, QueueFits
  <2>2. CASE call[p].op # "autosave"
    BY <1>4, <2>1, <2>2 DEF Upcoming
  <2>3. CASE call[p].op = "autosave"
    <3>1. /\ s.op = "insert" /\ s.type = call[p].type
          /\ s.id = Greatest(file[s.type]) + 1
      BY <1>1, <1>2, <2>3 DEF AutoInv, Upcoming, Compiles, Malformed
    <3>2. ~CommitRead(p)
      BY <1>0, <3>1 DEF CommitRead, IInv, UncommittedIsEffect, Writes, s
    <3>3. file' = Effect(s, file)
      BY <3>2, CommitApplies DEF s
    <3>4. Greatest(file'[s.type]) = Greatest(file[s.type]) + 1
      BY <1>0, <1>1, <1>2, <3>1, <3>3, NextGreatest
    <3>5. Greatest(file[s.type]) \in Int
      BY <1>0, <1>2, <3>1, GreatestType DEF Compiles, IsContents
    <3>6. ASSUME NEW k \in DOMAIN list, list[k] # Malformed
          PROVE  /\ list[k].op = "insert" /\ list[k].type = call[p].type
                 /\ list[k].id = Greatest(file'[call[p].type]) + k
      <4>1. /\ list[k].op = "insert" /\ list[k].type = call[p].type
            /\ list[k].id = Greatest(file[s.type]) + (k + 1)
        BY <1>1, <2>3, <3>1, <3>6 DEF AutoInv, Upcoming
      <4>2. QED
        BY <1>1, <3>1, <3>4, <3>5, <4>1
    <3>7. Upcoming(p)'
      BY <1>4, <3>6 DEF Upcoming
    <3>8. QED
      BY <2>1, <3>7
  <2>4. QED
    BY <2>2, <2>3
<1>5. QED
  BY <1>0, <1>3, <1>4 DEF CommitRead, CommitWrites, Proceed, Goto, list

LEMMA QueueNext ==
    ASSUME OneProcess, IdsFitInt, IInv, AutoInv, NEW p \in Procs, Act(p)
    PROVE  QueuedFit(p)' /\ Upcoming(p)'
<1> DEFINE Goal == QueuedFit(p)' /\ Upcoming(p)'
<1>0. /\ call = [q \in Procs |-> call[q]] /\ todo = [q \in Procs |-> todo[q]]
      /\ pc = [q \in Procs |-> pc[q]]
      /\ QueuedFit(p) /\ Upcoming(p)
      /\ pc[p] = "step" => call[p].op # "autosave"
  BY DEF IInv, TypeOK, PhasesOfCalls, PhaseOfCall, AutoInv
<1>1. ASSUME NEW how, End(p, how) PROVE Goal
  BY <1>0, <1>1 DEF End, NoCall, QueuedFit, QueueFits, Upcoming
<1>2. ASSUME call'[p] = call[p], todo'[p] = todo[p], file' = file,
             pc'[p] # "maxstep" \/ pc'[p] = pc[p]
      PROVE  Goal
  BY <1>0, <1>2 DEF QueuedFit, QueueFits, Upcoming
<1>3. CASE Calls(p)
  BY <1>3, CallsQueue
<1>4. CASE CommitRead(p) \/ CommitWrites(p)
  BY <1>4, CommitQueue
<1>5. CASE MaxStep(p)
  BY <1>5, MaxStepQueue
<1>6. CASE Begin(p) \/ ExecStatement(p) \/ ExecFails(p) \/ CommitLocks(p)
  BY <1>0, <1>1, <1>2, <1>6 DEF Begin, ExecStatement, ExecFails, CommitLocks, Goto
<1>7. CASE Rollback(p) \/ CommitIoError(p) \/ Exit(p)
  BY <1>1, <1>7 DEF Rollback, CommitIoError, Exit
<1>8. CASE StepRow(p) \/ StepBusy(p) \/ StepDone(p)
  BY <1>1, <1>2, <1>8 DEF StepRow, StepBusy, StepDone
<1>9. CASE MaxFinalize(p)
  <2>1. file' = file /\ Proceed(p, call[p], todo[p])
    BY <1>9 DEF MaxFinalize
  <2>2. QED
    BY <1>0, <1>1, <1>2, <2>1 DEF Proceed, Goto
<1>10. QED
  BY <1>3, <1>4, <1>5, <1>6, <1>7, <1>8, <1>9, NeverBusy DEF Act, Works

LEMMA AutoNext ==
    ASSUME OneProcess, IdsFitInt
    PROVE  IInv /\ AutoInv /\ [Next]_vars => AutoInv'
<1>1. CASE UNCHANGED vars
  BY <1>1 DEF vars, AutoInv, Undisturbed, Refused, StoredFit, QueuedFit, QueueFits, Upcoming
<1>2. ASSUME IInv, AutoInv, NEW p \in Procs, Act(p) PROVE AutoInv'
  <2>1. Undisturbed' /\ StoredFit' /\ QueuedFit(p)' /\ Upcoming(p)'
    BY <1>2, UndisturbedNext, StoredFitNext, QueueNext DEF AutoInv
  <2>2. \A q \in Procs : q = p
    BY DEF OneProcess
  <2>3. QED
    BY <2>1, <2>2 DEF AutoInv
<1>3. QED
  BY <1>1, <1>2 DEF Next, Act

(* SaveAutoIncrement of a process that has the file to itself inserts each *)
(* record under the id that follows the greatest one, as long as the ids   *)
(* fit an int, whatever fails in between; the run wideids shows that they  *)
(* must.                                                                   *)
THEOREM AutoIncrements ==
    ASSUME OneProcess, IdsFitInt
    PROVE  Spec => []AutoIdsNext
<1>1. Spec => [](IInv /\ AutoInv)
  BY AutoInit, AlwaysIInv, AutoNext, PTL DEF Spec
<1>2. IInv /\ AutoInv => AutoIdsNext
  <2> SUFFICES ASSUME IInv, AutoInv, NEW p \in Procs, call[p].op = "autosave",
                      pc[p] \in {"begin", "exec"}, Head(todo[p]) # Malformed
               PROVE  Head(todo[p]).id = Greatest(file[call[p].type]) + 1
    BY DEF AutoIdsNext
  <2>1. todo[p] \in Seq(Stmts) /\ todo[p] # <<>>
    BY DEF IInv, TypeOK, PhasesOfCalls, PhaseOfCall, Executing
  <2>2. Head(todo[p]) = todo[p][1] /\ 1 \in DOMAIN todo[p]
    BY <2>1
  <2>3. QED
    BY <2>2 DEF AutoInv, Upcoming
<1>3. QED
  BY <1>1, <1>2, PTL

-----------------------------------------------------------------------------
(* A refused COMMIT. *)

(* A transaction that a refused COMMIT left open stays as it is, or ends   *)
(* without a commit.                                                       *)
LEMMA RefusedStays ==
    ASSUME IInv, NEW p \in Procs, Act(p), Refused(p)
    PROVE  \/ Refused(p)' /\ UNCHANGED <<lock[p], work[p]>>
           \/ lock'[p] = "none" /\ ~txn'[p]
<1> DEFINE Goal == \/ Refused(p)' /\ UNCHANGED <<lock[p], work[p]>>
                   \/ lock'[p] = "none" /\ ~txn'[p]
<1>0. /\ txn[p] /\ pc[p] \notin {"exec", "rollback", "commit", "write"}
      /\ lock[p] \in {"reserved", "pending"}
      /\ lock \in [Procs -> LockLevels] /\ txn \in [Procs -> BOOLEAN]
      /\ pc \in [Procs -> Labels]
  BY DEF IInv, LockInv, LockTypes, HoldsOnlyWhatItNeeds, Refused
<1>1. CASE EndTransaction(p)
  BY <1>0, <1>1 DEF EndTransaction
<1>2. ASSUME lock'[p] = lock[p], UNCHANGED <<txn, work>>, NEW l, Goto(p, l) \/ pc' = pc,
             l \notin {"exec", "rollback", "commit", "write"}
      PROVE  Goal
  BY <1>0, <1>2 DEF Goto, Refused
<1>3. ASSUME lock'[p] = lock[p], UNCHANGED <<txn, work>>, NEW how, End(p, how) PROVE Goal
  BY <1>0, <1>3 DEF End, Refused
<1>4. ASSUME lock'[p] = lock[p], UNCHANGED <<txn, work>>, NEW c, NEW list, Proceed(p, c, list)
      PROVE  Goal
  BY <1>2, <1>3, <1>4 DEF Proceed
<1>5. ASSUME NEW list, StartExec(p, list) PROVE Goal
  BY <1>4, <1>5 DEF StartExec
<1>6. ASSUME NEW c, StartFetch(p, c) PROVE Goal
  BY <1>1, <1>2, <1>6 DEF StartFetch, StartQuery
<1>7. ASSUME NEW c, StartMax(p, c) PROVE Goal
  BY <1>2, <1>3, <1>7 DEF StartMax, StartQuery
<1>8. CASE Initialize(p) \/ InitializeThrows(p)
  BY <1>3, <1>4, <1>8 DEF Initialize, InitializeThrows, sqlite
<1>9. CASE Finalize(p) \/ Exit(p)
  BY <1>1, <1>9 DEF Finalize, Exit
<1>10. CASE Begin(p) \/ StepDone(p) \/ MaxFinalize(p)
  BY <1>0, <1>3, <1>4, <1>10 DEF Begin, StepDone, MaxFinalize
<1>11. CASE StepRow(p) \/ StepBusy(p) \/ MaxStep(p)
  BY <1>0, <1>2, <1>3, <1>11 DEF StepRow, StepBusy, MaxStep
<1>12. CASE Calls(p)
  BY <1>5, <1>6, <1>7, <1>8, <1>9, <1>12, CallCases
<1>13. CASE Works(p)
  BY <1>0, <1>10, <1>11, <1>13 DEF Works, ExecStatement, ExecFails, Rollback,
     CommitRead, CommitLocks, CommitBusy, CommitWrites
<1>14. QED
  BY <1>0, <1>9, <1>12, <1>13 DEF Act, CommitIoError

LEMMA FrozenNext == IInv /\ [Next]_vars => [FrozenStep]_vars
<1> SUFFICES ASSUME IInv, NEW p \in Procs, Act(p) PROVE FrozenStep
  BY DEF Next, Act
<1>1. OneWriter /\ HoldsOnlyWhatItNeeds /\ TypeOK
  BY DEF IInv, LockInv
<1>2. ASSUME CommitWrites(p) PROVE lock[p] = "exclusive" /\ pc[p] = "write"
  BY <1>1, <1>2 DEF CommitWrites, HoldsOnlyWhatItNeeds
<1>3. leaked # {} => file' = file
  BY <1>1, <1>2, Locality DEF OneWriter, Writing, WriteLocks
<1>4. ASSUME NEW q \in Procs, Refused(q) PROVE file' = file
  <2>1. lock[q] \in {"reserved", "pending"} /\ pc[q] # "write"
    BY <1>1, <1>4 DEF Refused, HoldsOnlyWhatItNeeds
  <2>2. QED
    BY <1>1, <1>2, <2>1, Locality DEF OneWriter, Writing, WriteLocks
<1>5. ASSUME NEW q \in Procs, Refused(q)
      PROVE  \/ Refused(q)' /\ UNCHANGED <<lock[q], work[q]>>
             \/ lock'[q] = "none" /\ ~txn'[q]
  <2>1. CASE q = p
    BY <1>5, <2>1, RefusedStays
  <2>2. CASE q # p
    BY <1>1, <1>5, <2>2, Locality DEF Same, Refused
  <2>3. QED
    BY <2>1, <2>2
<1>6. QED
  BY <1>3, <1>4, <1>5 DEF FrozenStep

(* While a transaction that a refused COMMIT left open lasts, no step of   *)
(* anybody changes the file, and what it wrote is lost when it ends.       *)
THEOREM Frozen == Spec => FrozenWhileRefused
BY AlwaysIInv, FrozenNext, PTL DEF Spec, FrozenWhileRefused

-----------------------------------------------------------------------------
(* Refinement. *)

(* RecordStore executes the same statements. *)
LEMMA SameStatements ==
    ASSUME NEW s, NEW c
    PROVE  /\ Store!Compiles(s, c) <=> Compiles(s, c)
           /\ Store!Violates(s, c) <=> Violates(s, c)
           /\ Store!Effect(s, c) = Effect(s, c)
<1>1. \A table : Store!TableAfter(s, table) = TableAfter(s, table)
  BY DEF Store!TableAfter, TableAfter, Store!EmptyTable, EmptyTable,
         Store!Selected, Selected, Store!Matches, Matches
<1>2. QED
  BY <1>1 DEF Store!Compiles, Compiles, Store!Violates, Violates,
     Store!Effect, Effect, Store!Writes, Writes

LEMMA StoreInit == Init => Store!Init
BY DEF Init, Store!Init, NewFile, Store!NewFile

(* A statement that is committed is applied, whether it wrote anything or  *)
(* not: one that only read, or did nothing, has no effect.                 *)
LEMMA CommitIsApply ==
    ASSUME IInv, NEW p \in Procs, CommitRead(p) \/ CommitWrites(p)
    PROVE  Store!Apply(p)
<1> DEFINE s == Head(todo[p])
<1>1. /\ pc[p] \in {"commit", "write"} /\ todo[p] # <<>> /\ out[p] = "ok"
  BY DEF CommitRead, CommitWrites, IInv, PhasesOfCalls, PhaseOfCall, Executing
<1>2. Compiles(s, file) /\ ~Violates(s, file)
  BY <1>1 DEF IInv, UncommittedIsEffect
<1>3. file' = Effect(s, file)
  <2>1. CASE CommitWrites(p)
    BY <2>1, CommitApplies
  <2>2. CASE CommitRead(p)
    <3>1. file' = file /\ ~Writes(s, file)
      BY <1>1, <2>2 DEF CommitRead, IInv, UncommittedIsEffect
    <3>2. QED
      BY <3>1 DEF Effect
  <2>3. QED
    BY <2>1, <2>2
<1> HIDE DEF s
<1>4. /\ Store!Compiles(s, file) /\ ~Store!Violates(s, file)
      /\ file' = Store!Effect(s, file)
  BY <1>2, <1>3, SameStatements
<1>5. /\ todo' = [todo EXCEPT ![p] = Tail(@)]
      /\ out' = [out EXCEPT ![p] = "ok"]
  BY DEF CommitRead, CommitWrites, Proceed, End
<1>6. QED
  BY <1>1, <1>4, <1>5 DEF Store!Apply, s

LEMMA StoreNext == IInv /\ [Next]_vars => [Store!Next]_(Store!vars)
<1> SUFFICES ASSUME IInv, [Next]_vars PROVE [Store!Next]_(Store!vars)
  OBVIOUS
<1>1. CASE UNCHANGED vars
  BY <1>1 DEF vars, Store!vars
<1>2. ASSUME NEW p \in Procs, Act(p) PROVE [Store!Next]_(Store!vars)
  <2> DEFINE Goal == [Store!Next]_(Store!vars)
  <2>0. /\ PhaseOfCall(p) /\ todo \in [Procs -> Seq(Stmts)]
        /\ out \in [Procs -> {"ok", "failed"}]
    BY DEF IInv, TypeOK, PhasesOfCalls
  <2>1. ASSUME Store!Submit(p) \/ Store!Apply(p) \/ Store!Abandon(p) \/ Store!Return(p)
        PROVE  Goal
    BY <2>1 DEF Store!Next
  <2>2. ASSUME UNCHANGED <<file, todo, out>> PROVE Goal
    BY <2>2 DEF Store!vars
  <2>3. ASSUME End(p, "failed"), file' = file PROVE Goal
    BY <2>1, <2>3 DEF End, Store!Abandon
  <2>4. ASSUME todo[p] = <<>>, todo' = todo, file' = file, out' = [out EXCEPT ![p] = "ok"]
        PROVE  Goal
    BY <2>1, <2>4 DEF Store!Return
  <2>5. ASSUME todo[p] = <<>>, End(p, "ok"), file' = file PROVE Goal
    BY <2>0, <2>4, <2>5 DEF End
  <2>6. ASSUME todo[p] = <<>>, file' = file, NEW list \in Seq(Stmts),
               todo' = [todo EXCEPT ![p] = list], out' = [out EXCEPT ![p] = "ok"]
        PROVE  Goal
    <3>1. list \in Seq(Store!Stmts)
      <4>1. Store!Stmts = Stmts
        BY DEF Store!Stmts, Stmts, Store!Malformed, Malformed, Store!NoSql, NoSql,
               Store!Predicates, Predicates, Store!EmptyPredicate, EmptyPredicate,
               Store!BadPredicate, BadPredicate, Store!EqualVal, EqualVal
      <4>2. QED
        BY <4>1
    <3>2. todo'[p] = list
      BY <2>0, <2>6
    <3>3. Store!Submit(p)
      BY <2>6, <3>1, <3>2 DEF Store!Submit
    <3>4. QED
      BY <2>1, <3>3
  <2>7. ASSUME todo[p] = <<>>, file' = file, NEW c, NEW list \in Seq(Stmts), Proceed(p, c, list)
        PROVE  Goal
    BY <2>5, <2>6, <2>7 DEF Proceed
  <2>8. pc[p] = "idle" => todo[p] = <<>>
    BY <2>0 DEF PhaseOfCall, Executing
  <2>9. CASE Initialize(p)
    <3>1. [k \in DOMAIN Records[p] |-> CreateTable(Records[p][k])] \in Seq(Stmts)
      BY RecordsAssumption DEF Stmts, CreateTable
    <3>2. QED
      BY <2>7, <2>8, <2>9, <3>1 DEF Initialize, sqlite
  <2>10. ASSUME NEW list \in Seq(Stmts), StartExec(p, list) PROVE Goal
    BY <2>7, <2>8, <2>10 DEF StartExec, Ready
  <2>11. CASE Finalize(p)
    BY <2>5, <2>8, <2>11 DEF Finalize
  <2>12. ASSUME \/ InitializeThrows(p) \/ Exit(p) \/ Rollback(p) \/ CommitBusy(p)
                \/ CommitIoError(p)
         PROVE  Goal
    BY <2>3, <2>12 DEF InitializeThrows, Exit, Rollback, CommitBusy, CommitRefused, CommitIoError
  <2>13. ASSUME NEW c, StartFetch(p, c) PROVE Goal
    BY <2>3, <2>4, <2>8, <2>13 DEF StartFetch, StartQuery, Ready
  <2>14. ASSUME NEW c, StartMax(p, c) PROVE Goal
    BY <2>3, <2>4, <2>8, <2>14 DEF StartMax, StartQuery, Ready
  <2>15. CASE Begin(p)
    BY <2>2, <2>3, <2>15 DEF Begin
  <2>16. ASSUME ExecStatement(p) \/ ExecFails(p) \/ CommitLocks(p) \/ StepRow(p) \/ StepBusy(p)
         PROVE  Goal
    BY <2>2, <2>16 DEF ExecStatement, ExecFails, CommitLocks, StepRow, StepBusy
  <2>17. ASSUME CommitRead(p) \/ CommitWrites(p) PROVE Goal
    BY <2>1, <2>17, CommitIsApply
  <2>18. CASE StepDone(p)
    <3>1. todo[p] = <<>>
      BY <2>0, <2>18 DEF StepDone, PhaseOfCall, Executing
    <3>2. QED
      BY <2>3, <2>5, <2>18, <3>1 DEF StepDone
  <2>19. CASE MaxStep(p)
    <3>1. todo[p] = <<>> /\ out[p] = "ok" /\ call[p].op \in {"max", "autosave"}
      BY <2>0, <2>19 DEF MaxStep, PhaseOfCall, Executing
    <3>2. CASE End(p, "failed")
      BY <2>3, <2>19, <3>2 DEF MaxStep
    <3>3. ASSUME NEW list \in Seq(Stmts), todo' = [todo EXCEPT ![p] = list], out' = out
          PROVE  Goal
      BY <2>0, <2>6, <2>19, <3>1, <3>3 DEF MaxStep
    <3>4. <<>> \in Seq(Stmts)
      OBVIOUS
    <3>5. QED
      BY <2>19, <3>1, <3>2, <3>3, <3>4, AutoInsertsType DEF MaxStep
  <2>20. CASE MaxFinalize(p)
    <3>1. out[p] = "ok" /\ file' = file /\ Proceed(p, call[p], todo[p])
      BY <2>0, <2>20 DEF MaxFinalize, PhaseOfCall
    <3>2. todo' = todo /\ out' = out
      BY <2>0, <3>1 DEF Proceed, End
    <3>3. QED
      BY <2>2, <3>1, <3>2
  <2>21. CASE Calls(p)
    BY <2>9, <2>10, <2>11, <2>12, <2>13, <2>14, <2>21, CallCases
  <2>22. QED
    BY <1>2, <2>12, <2>15, <2>16, <2>17, <2>18, <2>19, <2>20, <2>21 DEF Act, Works
<1>3. QED
  BY <1>1, <1>2 DEF Next, Act

(* Save, Update, Delete, Sql and the constructor, whatever the processes   *)
(* that share the file do and wherever they fail, apply their statements   *)
(* whole, once and in order, all of them if the call returns and a prefix  *)
(* of them if it throws: Database implements RecordStore.                  *)
THEOREM Implements == Spec => ImplementsStore
BY AlwaysIInv, StoreInit, StoreNext, PTL DEF Spec, ImplementsStore, Store!Spec

-----------------------------------------------------------------------------
(* A fetch of a process that has the file to itself. *)

(* No row is read while the file is locked: with one process no other      *)
(* connection holds PENDING or EXCLUSIVE, not even one that was lost.      *)
LEMMA NeverBlocked ==
    ASSUME OneProcess, Undisturbed, NEW p \in Procs
    PROVE  ~StepBusy(p)
BY DEF OneProcess, Undisturbed, StepBusy, MayRead, Blocked

LEMMA OnlyRecordsNext ==
    ASSUME OneProcess
    PROVE  IInv /\ Undisturbed /\ FetchedRowsAreRecords /\ [Next]_vars => FetchedRowsAreRecords'
<1>1. CASE UNCHANGED vars
  BY <1>1 DEF vars, FetchedRowsAreRecords, Read
<1>2. ASSUME IInv, Undisturbed, FetchedRowsAreRecords, NEW p \in Procs, Act(p), PhasesOfCalls'
      PROVE  FetchedRowsAreRecords'
  <2>1. \A q \in Procs : q = p
    BY DEF OneProcess
  <2>2. SUFFICES ASSUME NEW k \in DOMAIN rows'[p] PROVE rows'[p][k] # NullRow
    BY <2>1 DEF FetchedRowsAreRecords, Read
  <2>3. CASE pc'[p] # "step"
    BY <1>2, <2>3 DEF PhasesOfCalls, PhaseOfCall
  <2>4. CASE rows'[p] = <<>>
    BY <2>4
  <2>5. CASE StepRow(p)
    <3> DEFINE table == View(p)[call[p].type]
    <3>1. PICK i \in Unread(p) : rows' = [rows EXCEPT ![p] = Append(@, <<i, table[i]>>)]
      BY <2>5 DEF StepRow
    <3>2. /\ rows[p] \in Seq(Rows) /\ IsTable(table)
          /\ Selected(call[p].where, table) \subseteq DOMAIN table
      BY <1>2, <2>5, CursorFacts DEF StepRow
    <3>3. <<i, table[i]>> \in Int \X Vals
      BY <3>2 DEF Unread, IsTable
    <3>4. rows'[p] = Append(rows[p], <<i, table[i]>>)
      BY <1>2, <3>1 DEF IInv, TypeOK
    <3> HIDE DEF table
    <3>5. CASE k = Len(rows[p]) + 1
      BY <3>2, <3>3, <3>4, <3>5, NullRowAssumption
    <3>6. CASE k # Len(rows[p]) + 1
      <4>1. k \in DOMAIN rows[p] /\ rows'[p][k] = rows[p][k]
        BY <3>2, <3>4, <3>6
      <4>2. QED
        BY <1>2, <4>1 DEF FetchedRowsAreRecords, Read
    <3>7. QED
      BY <3>5, <3>6
  <2>6. QED
    BY <1>2, <2>3, <2>4, <2>5, StepCases, NeverBlocked DEF IInv
<1>3. QED
  BY <1>1, <1>2, IInvNext DEF Next, Act, IInv

LEMMA AlwaysUndisturbed ==
    ASSUME OneProcess
    PROVE  Spec => []Undisturbed
<1>1. Init => Undisturbed
  BY AutoInit DEF AutoInv
<1>2. IInv /\ Undisturbed /\ [Next]_vars => Undisturbed'
  <2>1. CASE UNCHANGED vars
    BY <2>1 DEF vars, Undisturbed, Refused
  <2>2. QED
    BY <2>1, UndisturbedNext DEF Next, Act
<1>3. QED
  BY <1>1, <1>2, AlwaysIInv, PTL DEF Spec

(* A fetch of a process that has the file to itself, with whatever has     *)
(* failed before, returns nothing but records; the run lockedfetch shows   *)
(* that one other process is all that it takes to add empty ones.          *)
THEOREM FetchesOnlyRecords ==
    ASSUME OneProcess
    PROVE  Spec => []FetchedRowsAreRecords
<1>1. Init => FetchedRowsAreRecords
  BY DEF Init, FetchedRowsAreRecords, Read
<1>2. QED
  BY <1>1, AlwaysIInv, AlwaysUndisturbed, OnlyRecordsNext, PTL DEF Spec

-----------------------------------------------------------------------------
(* The SQLite calls that a call of the library has still to make. *)

LeftIsNat == \A p \in Procs : CallsLeft(p) \in Nat

LEMMA UnreadFinite ==
    ASSUME IInv, NEW p \in Procs, pc[p] = "step"
    PROVE  IsFiniteSet(Unread(p))
<1>1. IsFiniteSet(DOMAIN View(p)[call[p].type])
  BY CursorFacts DEF IsTable
<1>2. Unread(p) \subseteq DOMAIN View(p)[call[p].type]
  BY CursorFacts DEF Unread
<1>3. QED
  BY <1>1, <1>2, FS_Subset

LEMMA LeftNat == IInv => LeftIsNat
<1> SUFFICES ASSUME IInv, NEW p \in Procs PROVE CallsLeft(p) \in Nat
  BY DEF LeftIsNat
<1>1. /\ PhaseOfCall(p) /\ Len(todo[p]) \in Nat
      /\ todo[p] # <<>> => Len(todo[p]) > 0
      /\ call[p] \in CallRecords
  BY DEF IInv, TypeOK, PhasesOfCalls
<1>2. CASE pc[p] = "maxstep"
  <2>1. call[p].op # "max" => call[p].vals \in Seq(Texts)
    BY <1>1, <1>2 DEF PhaseOfCall, CallRecords, NoCall
  <2>2. QED
    BY <1>2, <2>1 DEF CallsLeft
<1>3. CASE Executing(p)
  BY <1>1, <1>3 DEF PhaseOfCall, Executing, CallsLeft
<1>4. CASE pc[p] = "step"
  BY <1>4, UnreadFinite, FS_CardinalityType DEF CallsLeft
<1>5. CASE pc[p] \notin {"maxstep", "step"} /\ ~Executing(p)
  BY <1>1, <1>5 DEF Executing, CallsLeft
<1>6. QED
  BY <1>2, <1>3, <1>4, <1>5

(* A fetch that has its lock reads a row that it has not read, or ends. *)
LEMMA FetchLess ==
    ASSUME IInv, NEW p \in Procs, pc[p] = "step", lock[p] # "none",
           StepRow(p) \/ StepBusy(p) \/ StepDone(p)
    PROVE  CallsLeft(p)' < CallsLeft(p)
<1>0. /\ pc \in [Procs -> Labels] /\ rows = [q \in Procs |-> rows[q]]
      /\ lock \in [Procs -> LockLevels]
      /\ IsFiniteSet(Unread(p)) /\ CallsLeft(p) = 1 + Cardinality(Unread(p))
  BY UnreadFinite DEF IInv, TypeOK, CallsLeft
<1>1. CASE StepRow(p)
  <2>1. PICK i \in Unread(p) :
            rows' = [rows EXCEPT ![p] = Append(@, <<i, View(p)[call[p].type][i]>>)]
    BY <1>1 DEF StepRow
  <2> DEFINE row == <<i, View(p)[call[p].type][i]>>
             sel == Selected(call[p].where, View(p)[call[p].type])
             last == IF rows[p] = <<>> THEN NullRow ELSE rows[p][Len(rows[p])]
  <2>2. rows[p] \in Seq(Rows) /\ IsTable(View(p)[call[p].type])
        /\ sel \subseteq DOMAIN View(p)[call[p].type]
    BY CursorFacts
  <2>3. rows'[p] # <<>> /\ rows'[p][Len(rows'[p])] = row /\ row[1] = i /\ row # NullRow
    <3>1. row \in Int \X Vals
      BY <2>1, <2>2 DEF Unread, IsTable
    <3>2. rows'[p] = Append(rows[p], row)
      BY <1>0, <2>1
    <3> HIDE DEF row
    <3>3. rows'[p] # <<>> /\ rows'[p][Len(rows'[p])] = row
      BY <2>2, <3>2
    <3>4. QED
      BY <3>1, <3>3, NullRowAssumption DEF row
  <2>4. call' = call /\ pc' = pc /\ View(p)' = View(p)
    BY <1>0, <1>1 DEF StepRow, View, Writing
  <2>5. Unread(p)' = {j \in sel : i < j}
    <3> HIDE DEF row
    <3>1. Unread(p)' = {j \in sel : row = NullRow \/ row[1] < j}
      <4>1. Selected(call[p].where, View(p)[call[p].type])' = sel
        BY <2>4
      <4>2. (IF rows[p] = <<>> THEN NullRow ELSE rows[p][Len(rows[p])])' = row
        BY <2>3
      <4>3. QED
        BY <4>1, <4>2 DEF Unread
    <3>2. QED
      BY <2>3, <3>1
  <2>6. Unread(p) = {j \in sel : last = NullRow \/ last[1] < j}
    BY DEF Unread
  <2>7. last # NullRow => last[1] \in Int
    BY <2>2 DEF Rows
  <2>8. sel \subseteq Int
    BY <2>2 DEF IsTable
  <2> HIDE DEF sel, last
  <2>9. Unread(p)' \subseteq Unread(p) \ {i}
    <3>1. i \in sel /\ i \in Int /\ (last = NullRow \/ last[1] < i)
      BY <2>1, <2>6, <2>8
    <3>2. SUFFICES ASSUME NEW j \in sel, i < j PROVE j \in Unread(p) /\ j # i
      BY <2>5
    <3>3. j \in Int /\ j # i
      BY <2>8, <3>1, <3>2
    <3>4. last = NullRow \/ last[1] < j
      BY <2>7, <3>1, <3>2, <3>3
    <3>5. QED
      BY <2>6, <3>3, <3>4
  <2>10. /\ IsFiniteSet(Unread(p) \ {i})
         /\ Cardinality(Unread(p) \ {i}) = Cardinality(Unread(p)) - 1
    BY <1>0, <2>1, FS_RemoveElement
  <2>11. /\ Cardinality(Unread(p)') <= Cardinality(Unread(p)) - 1
         /\ Cardinality(Unread(p)') \in Nat /\ Cardinality(Unread(p)) \in Nat
    BY <1>0, <2>9, <2>10, FS_Subset, FS_CardinalityType
  <2>12. CallsLeft(p)' = 1 + Cardinality(Unread(p)')
    BY <2>4 DEF CallsLeft
  <2>13. QED
    BY <1>0, <2>11, <2>12
<1>2. CASE StepDone(p)
  <2>1. CallsLeft(p)' = 0
    BY <1>0, <1>2 DEF StepDone, End, CallsLeft
  <2>2. QED
    BY <1>0, <2>1, FS_CardinalityType
<1>3. ~StepBusy(p)
  BY DEF StepBusy, MayRead
<1>4. QED
  BY <1>1, <1>2, <1>3

(* The inserts of a vector are as many as its records. *)
LEMMA MaxStepLess ==
    ASSUME IInv, NEW p \in Procs, MaxStep(p)
    PROVE  CallsLeft(p)' < CallsLeft(p)
<1>0. /\ pc[p] = "maxstep" /\ pc \in [Procs -> Labels]
      /\ todo \in [Procs -> Seq(Stmts)] /\ CallsLeft(p) \in Nat
      /\ call[p] \in CallRecords /\ call[p].op \in {"max", "autosave"}
      /\ CallsLeft(p) = 2 + 4 * (IF call[p].op = "max" THEN 0 ELSE Len(call[p].vals))
  BY LeftNat DEF IInv, TypeOK, PhasesOfCalls, PhaseOfCall, MaxStep, LeftIsNat, CallsLeft
<1>1. call[p].op # "max" => call[p].vals \in Seq(Texts)
  BY <1>0 DEF CallRecords, NoCall
<1>2. CASE End(p, "failed")
  BY <1>0, <1>1, <1>2 DEF End, CallsLeft
<1>3. ASSUME Goto(p, "maxfinalize"),
             todo'[p] = IF call[p].op = "max" THEN <<>>
                        ELSE AutoInserts(call[p].type, call[p].vals,
                                         ColumnInt(Greatest(View(p)[call[p].type])))
      PROVE  CallsLeft(p)' < CallsLeft(p)
  <2>1. pc'[p] = "maxfinalize"
    BY <1>0, <1>3 DEF Goto
  <2>2. Len(todo'[p]) = IF call[p].op = "max" THEN 0 ELSE Len(call[p].vals)
    BY <1>1, <1>3 DEF AutoInserts
  <2>3. CallsLeft(p)' = 1 + 4 * Len(todo'[p])
    BY <2>1 DEF CallsLeft
  <2>4. QED
    BY <1>0, <1>1, <2>2, <2>3
<1>4. QED
  BY <1>0, <1>2, <1>3 DEF MaxStep

LEMMA WorksLess ==
    ASSUME IInv, NEW p \in Procs, Works(p), pc[p] = "step" => lock[p] # "none"
    PROVE  CallsLeft(p)' < CallsLeft(p)
<1> DEFINE n == Len(todo[p])
<1>0. /\ pc \in [Procs -> Labels] /\ todo \in [Procs -> Seq(Stmts)]
      /\ n \in Nat /\ todo[p] # <<>> => n > 0 /\ Len(Tail(todo[p])) = n - 1
      /\ PhaseOfCall(p) /\ CallsLeft(p) \in Nat
  BY LeftNat DEF IInv, TypeOK, PhasesOfCalls, LeftIsNat
<1>1. Executing(p) => n > 0
  BY <1>0 DEF PhaseOfCall
<1>2. ASSUME NEW how, End(p, how), CallsLeft(p) > 0 PROVE CallsLeft(p)' < CallsLeft(p)
  BY <1>0, <1>2 DEF End, CallsLeft
<1>3. ASSUME NEW c, Proceed(p, c, Tail(todo[p])), pc[p] \in {"commit", "write"}
      PROVE  CallsLeft(p)' < CallsLeft(p)
  <2>1. n > 0 /\ CallsLeft(p) > 4 * (n - 1)
    BY <1>0, <1>1, <1>3 DEF Executing, CallsLeft
  <2>2. CASE pc'[p] = "begin" /\ todo'[p] = Tail(todo[p])
    BY <1>0, <2>1, <2>2 DEF CallsLeft
  <2>3. QED
    BY <1>0, <1>2, <1>3, <2>1, <2>2 DEF Proceed, Goto
<1>4. CASE Begin(p)
  BY <1>0, <1>1, <1>2, <1>4 DEF Begin, Goto, Executing, CallsLeft
<1>5. CASE ExecStatement(p) \/ ExecFails(p) \/ CommitLocks(p)
  BY <1>0, <1>1, <1>5 DEF ExecStatement, ExecFails, CommitLocks, Goto, Executing, CallsLeft
<1>6. CASE Rollback(p) \/ CommitBusy(p)
  BY <1>0, <1>1, <1>2, <1>6 DEF Rollback, CommitBusy, CommitRefused, Executing, CallsLeft
<1>7. CASE CommitRead(p) \/ CommitWrites(p)
  BY <1>3, <1>7 DEF CommitRead, CommitWrites
<1>8. CASE MaxFinalize(p)
  <2>1. pc[p] = "maxfinalize" /\ CallsLeft(p) = 1 + 4 * n /\ Proceed(p, call[p], todo[p])
    BY <1>8 DEF MaxFinalize, CallsLeft
  <2>2. CASE pc'[p] = "begin" /\ todo'[p] = todo[p]
    BY <1>0, <2>1, <2>2 DEF CallsLeft
  <2>3. QED
    BY <1>0, <1>2, <2>1, <2>2 DEF Proceed, Goto
<1>9. CASE StepRow(p) \/ StepBusy(p) \/ StepDone(p)
  BY <1>9, FetchLess DEF StepRow, StepBusy, StepDone
<1>10. QED
  BY <1>4, <1>5, <1>6, <1>7, <1>8, <1>9, MaxStepLess DEF Works

LEMMA AdvanceNext == IInv /\ LeftIsNat /\ LeftIsNat' /\ [Next]_vars => [AdvanceStep]_vars
<1> SUFFICES ASSUME IInv, LeftIsNat, LeftIsNat', Next PROVE AdvanceStep
  OBVIOUS
<1> SUFFICES ASSUME NEW p \in Procs, pc[p] # "idle",
                    pc[p] = "step" => lock[p] # "none"
             PROVE  /\ CallsLeft(p)' <= CallsLeft(p)
                    /\ Works(p) => CallsLeft(p)' < CallsLeft(p)
  BY DEF AdvanceStep, LeftIsNat
<1>0. CallsLeft(p) \in Nat /\ CallsLeft(p)' \in Nat
  BY DEF LeftIsNat
<1>1. CASE Works(p)
  BY <1>0, <1>1, WorksLess
<1>2. ASSUME ~Works(p), NEW q \in Procs, Act(q) PROVE CallsLeft(p)' <= CallsLeft(p)
  <2>1. CASE q # p
    <3>1. Same(p)
      BY <1>2, <2>1, Locality DEF IInv
    <3>2. CASE pc[p] = "step"
      <4>1. View(p)' = View(p)
        BY <1>2, <2>1, <3>2, ViewStays
      <4>2. Unread(p)' = Unread(p)
        BY <3>1, <4>1 DEF Same, Unread
      <4>3. QED
        BY <1>0, <3>1, <3>2, <4>2 DEF Same, CallsLeft
    <3>3. CASE pc[p] # "step"
      BY <1>0, <3>1, <3>3 DEF Same, CallsLeft
    <3>4. QED
      BY <3>2, <3>3
  <2>2. CASE q = p
    <3>1. ~Calls(p)
      BY CallCases DEF Initialize, InitializeThrows, Finalize, StartExec, StartFetch,
                       StartMax, Ready
    <3>2. CommitIoError(p) \/ Exit(p)
      BY <1>2, <2>2, <3>1 DEF Act
    <3>3. pc'[p] = "idle"
      BY <3>2 DEF CommitIoError, Exit, End, IInv, TypeOK
    <3>4. CallsLeft(p)' = 0
      BY <3>3 DEF CallsLeft
    <3>5. QED
      BY <1>0, <3>4
  <2>3. QED
    BY <2>1, <2>2
<1>3. QED
  BY <1>0, <1>1, <1>2 DEF Next, Act

(* A writing call, GetMaxId, and a fetch that has its lock make a bounded  *)
(* number of SQLite calls, for any number of processes and records, and no *)
(* other process makes it more: what is left to fairness is that the       *)
(* program goes on running.                                                *)
THEOREM CallsComeToAnEnd == Spec => CallsAdvance
<1>1. Spec => []LeftIsNat
  BY AlwaysIInv, LeftNat, PTL
<1>2. QED
  BY <1>1, AlwaysIInv, AdvanceNext, PTL DEF Spec, CallsAdvance
=============================================================================

--------------------------- MODULE ThreadsProofs ----------------------------
(***************************************************************************)
(* Proofs about Threads, for any number of threads, any register, any      *)
(* vectors and any texts given to Sql.                                     *)
(***************************************************************************)
EXTENDS Threads, StatementsProofs

-----------------------------------------------------------------------------
(* The inductive invariant. *)

Inside(t)    == pc[t] \in {"exec", "rollback", "commit"}
HasReader(c) == \E t \in Threads : db[t] = c /\ Reading(t)

(* The file and what the connections hold of it. *)
Storage ==
    /\ IsContents(file)
    /\ conn \in [Threads -> {"none", "open", "closed"}]
    /\ lock \in [Threads -> LockLevels]
    /\ txn \in [Threads -> BOOLEAN]
    /\ work = [c \in Threads |-> work[c]]
    /\ \A c \in Threads :
          IF Writing(c)
          THEN /\ txn[c]
               /\ IsContents(work[c])
               /\ DOMAIN file \subseteq DOMAIN work[c]
          ELSE work[c] = NoWork
    /\ \A c, e \in Threads : Writing(c) /\ Writing(e) => c = e
    /\ \A c \in Threads : conn[c] # "open" => lock[c] = "none" /\ ~txn[c]
    /\ \A c \in Threads : lock[c] = "shared" => txn[c] \/ HasReader(c)
    /\ \A c \in Threads : HasReader(c) => lock[c] # "none"

(* The calls: which connection a thread uses and at which step it is.  A   *)
(* thread in the constructor has its connection for itself.                *)
ThreadOK(t) ==
    /\ db[t] = NoThread <=> pc[t] \in {"idle", "open"}
    /\ db[t] # NoThread => conn[db[t]] # "none"
    /\ Prepared(t) => conn[db[t]] = "open"
    /\ call[t] \in CallRecords
    /\ pc[t] = "idle" => call[t].op = "none"
    /\ pc[t] \in {"open", "store"} => call[t].op = "init"
    /\ pc[t] = "step" => call[t].op = "fetch"
    /\ pc[t] \in {"maxstep", "maxfinalize"} => call[t].op = "autosave"
    /\ call[t].op \in {"fetch", "autosave"} => call[t].type \in Registered
    /\ pc[t] = "open" => conn[t] = "none"
    /\ pc[t] = "begin" \/ Inside(t) => todo[t] # <<>>
    /\ pc[t] = "store" => todo[t] = <<>>
    /\ pc[t] # "step" => rows[t] = <<>>
    /\ call[t].op = "init" => /\ pc[t] # "open" => db[t] = t
                              /\ instance # t
                              /\ \A u \in Threads : db[u] = t => u = t

Calls ==
    /\ instance \in Threads \cup {NoThread}
    /\ instance # NoThread => conn[instance] # "none"
    /\ pc \in [Threads -> Labels]
    /\ db \in [Threads -> Threads \cup {NoThread}]
    /\ call = [t \in Threads |-> call[t]]
    /\ todo \in [Threads -> Seq(Seq(Stmts \cup Control))]
    /\ rows \in [Threads -> Seq((Int \X Vals) \cup {NullRow})]
    /\ out \in [Threads -> {"ok", "failed"}]
    /\ \A t \in Threads : ThreadOK(t)

(* A transaction belongs to a thread that is executing, or is stuck. *)
Owned ==
    \A c \in Threads : txn[c] =>
        lock[c] = "pending" \/ \E t \in Threads : db[t] = c /\ Inside(t)

Waits(t, r) == \E j \in DOMAIN todo[t] : todo[t][j] = <<CreateTable(r)>>

(* A thread that uses a connection that was stored finds every table; one  *)
(* in the constructor has still to create those that are missing.          *)
TablesOK(t) ==
    db[t] # NoThread =>
        /\ call[t].op # "init" => Registered \subseteq DOMAIN file
        /\ call[t].op = "init" => \A r \in Registered : r \in DOMAIN file \/ Waits(t, r)
        /\ call[t].op = "init" /\ pc[t] = "commit" =>
              \A r \in Registered : Head(todo[t]) = <<CreateTable(r)>> => r \in DOMAIN View(t)

Tables == TablesExist /\ \A t \in Threads : TablesOK(t)

(* Until some text controls transactions, a thread that executes a text is *)
(* alone in the transaction, and its text is applied whole or not at all.  *)
WholeOK(t) ==
    /\ ~Controls(t)
    /\ Inside(t) /\ conn[db[t]] = "open" =>
          txn[db[t]] /\ \A u \in Threads : Inside(u) /\ db[u] = db[t] => u = t
    /\ pc[t] = "exec" => ~Writing(db[t])
    /\ pc[t] = "commit" /\ conn[db[t]] = "open" =>
          IF Writing(db[t]) THEN work[db[t]] = TextEffect(Head(todo[t]), file)
          ELSE \A k \in DOMAIN Head(todo[t]) : ~Writes(Head(todo[t])[k], file)

Whole == ~meddled => \A t \in Threads : WholeOK(t)

(* No operation under way has failed. *)
Unfailed == \A t \in Threads : pc[t] # "idle" => out[t] = "ok"

(* What a fetch has read so far. *)
FetchOK(t) ==
    /\ pc[t] # "step" => steady[t] = {}
    /\ pc[t] = "step" =>
          /\ Read(t) # {} => Len(rows[t]) \in Read(t)
          /\ \A j, k \in Read(t) : j < k => rows[t][j][1] < rows[t][k][1]
          /\ steady[t] \subseteq Matching(t)
          /\ \A p \in steady[t] : \/ p \in {rows[t][k] : k \in Read(t)}
                                  \/ Read(t) = {} \/ Last(t)[1] < p[1]

Fetching == \A t \in Threads : FetchOK(t)


-----------------------------------------------------------------------------
(* sqlite3_exec. *)

(* What a connection is like between two parts of a text. *)
Good(c, d) ==
    /\ d \in [ok : BOOLEAN, data : {d.data}, level : LockLevels, open : BOOLEAN, draft : {d.draft}]
    /\ IsContents(d.data) /\ DOMAIN file \subseteq DOMAIN d.data
    /\ d.level \in WriteLocks => /\ d.open
                                 /\ IsContents(d.draft)
                                 /\ DOMAIN d.data \subseteq DOMAIN d.draft
                                 /\ \A e \in Threads \ {c} : ~Writing(e)
    /\ d.level \notin WriteLocks => d.draft = NoWork
    /\ d.data # file => \A e \in Threads \ {c} : ~Writing(e)
    /\ d.level = "shared" => d.open \/ HasReader(c)
    /\ HasReader(c) => d.level # "none"

LEMMA GoodNow ==
    ASSUME Storage, NEW c \in Threads
    PROVE  Good(c, DbOf(c))
BY DEF Storage, Good, DbOf, Writing

LEMMA GoodFails ==
    ASSUME NEW c \in Threads, NEW d, Good(c, d)
    PROVE  /\ Good(c, Fails(d)) /\ ~Fails(d).ok
           /\ Fails(d).data = d.data /\ Fails(d).level = d.level
           /\ Fails(d).open = d.open /\ Fails(d).draft = d.draft
BY DEF Good, Fails

LEMMA GoodContents ==
    ASSUME NEW c \in Threads, NEW d, Good(c, d)
    PROVE  IsContents(Contents(d)) /\ DOMAIN file \subseteq DOMAIN Contents(d)
BY DEF Good, Contents

(* The end of a transaction leaves nothing but what statements that are    *)
(* reading need.                                                           *)
LEMMA GoodEnded ==
    ASSUME NEW c \in Threads, NEW d, Good(c, d)
    PROVE  /\ Good(c, Ended(c, d))
           /\ Ended(c, d).ok = d.ok /\ Ended(c, d).data = d.data
           /\ ~Ended(c, d).open /\ Ended(c, d).draft = NoWork
           /\ Ended(c, d).level = IF HasReader(c) THEN "shared" ELSE "none"
<1> DEFINE level == IF HasReader(c) THEN "shared" ELSE "none"
           r == [ok |-> d.ok, data |-> d.data, level |-> level, open |-> FALSE, draft |-> NoWork]
<1>1. Ended(c, d) = r
  <2>1. Ended(c, d) = [d EXCEPT !.level = level, !.open = FALSE, !.draft = NoWork]
    BY DEF Ended, HasReader
  <2> HIDE DEF level
  <2>2. QED
    BY <2>1 DEF Good
<1>2. level \in LockLevels \ WriteLocks
  BY DEF LockLevels, WriteLocks
<1>3. Good(c, r)
  <2>1. (level = "shared" => HasReader(c)) /\ (HasReader(c) => level # "none")
    OBVIOUS
  <2> HIDE DEF level
  <2>2. QED
    BY <1>2, <2>1 DEF Good
<1>4. QED
  BY <1>1, <1>3

LEMMA GoodBegin ==
    ASSUME NEW c \in Threads, NEW d, Good(c, d)
    PROVE  Good(c, BeginPart(d))
<1>1. CASE d.open
  BY <1>1, GoodFails DEF BeginPart
<1>2. CASE ~d.open
  BY <1>2 DEF BeginPart, Good
<1>3. QED
  BY <1>1, <1>2

LEMMA GoodRollback ==
    ASSUME NEW c \in Threads, NEW d, Good(c, d)
    PROVE  Good(c, RollbackPart(c, d))
BY GoodFails, GoodEnded DEF RollbackPart

(* A COMMIT replaces the file by the contents of the connection. *)
LEMMA GoodCommit ==
    ASSUME NEW c \in Threads, NEW d, Good(c, d)
    PROVE  Good(c, CommitPart(c, d))
<1>1. CASE ~d.open
  BY <1>1, GoodFails DEF CommitPart
<1>2. CASE d.open /\ d.level \in WriteLocks /\ ~MayExclude(c)
  <2>1. Good(c, [d EXCEPT !.level = "pending"])
    BY <1>2 DEF Good, LockLevels, WriteLocks
  <2>2. QED
    BY <1>2, <2>1, GoodFails DEF CommitPart
<1>3. CASE d.open /\ ~(d.level \in WriteLocks /\ ~MayExclude(c))
  <2>1. Good(c, [d EXCEPT !.data = Contents(d)])
    BY <1>3 DEF Good, Contents
  <2>2. QED
    BY <1>3, <2>1, GoodEnded DEF CommitPart
<1>4. QED
  BY <1>1, <1>2, <1>3

(* What a statement that writes makes of the connection. *)
Reserved(d) ==
    [d EXCEPT !.level = IF @ \in WriteLocks THEN @ ELSE "reserved", !.draft = Contents(d)]

LEMMA ReservedIs ==
    ASSUME NEW c \in Threads, NEW d, Good(c, d)
    PROVE  LET r == Reserved(d) IN
           /\ r = [ok |-> d.ok, data |-> d.data, level |-> r.level, open |-> d.open,
                   draft |-> Contents(d)]
           /\ r.level \in WriteLocks /\ r.level \in LockLevels
           /\ r.level # "shared" /\ r.level # "none"
<1> DEFINE level == IF d.level \in WriteLocks THEN d.level ELSE "reserved"
<1>1. /\ level \in WriteLocks /\ level \in LockLevels
      /\ level # "shared" /\ level # "none"
  BY DEF WriteLocks, LockLevels
<1>2. Reserved(d) = [d EXCEPT !.level = level, !.draft = Contents(d)]
  BY DEF Reserved, Good
<1> HIDE DEF level
<1>3. Reserved(d) = [ok |-> d.ok, data |-> d.data, level |-> level, open |-> d.open,
                     draft |-> Contents(d)]
  BY <1>2 DEF Good
<1>4. QED
  BY <1>1, <1>3

(* In a transaction the draft changes; the file does not. *)
LEMMA GoodDraft ==
    ASSUME NEW c \in Threads, NEW d, Good(c, d), CanWrite(c, d), d.open,
           NEW x, IsContents(x), DOMAIN Contents(d) \subseteq DOMAIN x
    PROVE  Good(c, [ok |-> d.ok, data |-> d.data, level |-> Reserved(d).level,
                    open |-> d.open, draft |-> x])
<1>1. DOMAIN d.data \subseteq DOMAIN x
  BY DEF Good, Contents
<1>2. QED
  BY <1>1, ReservedIs DEF Good, CanWrite

(* A statement in a transaction of its own changes the file. *)
LEMMA GoodData ==
    ASSUME NEW c \in Threads, NEW d, Good(c, d), CanWrite(c, d), ~d.open,
           NEW x, IsContents(x), DOMAIN d.data \subseteq DOMAIN x
    PROVE  Good(c, [ok |-> d.ok, data |-> x, level |-> d.level,
                    open |-> d.open, draft |-> d.draft])
BY DEF Good, CanWrite

(* What a statement does, in the cases of StatementPart. *)
LEMMA StatementIs ==
    ASSUME NEW c \in Threads, NEW d, Good(c, d), NEW s \in Stmts
    PROVE  LET r == StatementPart(c, s, d) IN
           \/ r = d /\ Compiles(s, Contents(d)) /\ ~Writes(s, Contents(d))
           \/ r = Fails(d)
           \/ /\ r = [ok |-> d.ok, data |-> d.data, level |-> "shared", open |-> d.open, draft |-> d.draft]
              /\ d.open /\ d.level = "none"
              /\ Compiles(s, Contents(d)) /\ ~Writes(s, Contents(d))
           \/ r = Fails(Reserved(d)) /\ d.open /\ CanWrite(c, d)
           \/ /\ r = [ok |-> d.ok, data |-> d.data, level |-> Reserved(d).level,
                       open |-> d.open, draft |-> Effect(s, Contents(d))]
              /\ d.open /\ CanWrite(c, d) /\ Compiles(s, Contents(d))
           \/ r = Fails(Ended(c, d)) /\ ~d.open
           \/ /\ r = Ended(c, [ok |-> d.ok, data |-> Effect(s, Contents(d)), level |-> d.level,
                               open |-> d.open, draft |-> d.draft])
              /\ ~d.open /\ CanWrite(c, d) /\ Compiles(s, Contents(d))
<1> DEFINE e == Effect(s, Contents(d))
           written == [Reserved(d) EXCEPT !.draft = Effect(s, @)]
<1>1. written = [ok |-> d.ok, data |-> d.data, level |-> Reserved(d).level,
                 open |-> d.open, draft |-> e]
  BY ReservedIs
<1>2. ~d.open => Ended(c, [written EXCEPT !.data = written.draft])
                   = Ended(c, [ok |-> d.ok, data |-> e, level |-> d.level,
                               open |-> d.open, draft |-> d.draft])
  <2> DEFINE level == Reserved(d).level
             last == IF \E t \in Threads : db[t] = c /\ Reading(t) THEN "shared" ELSE "none"
  <2> HIDE DEF e, level, last, written
  <2>1. [written EXCEPT !.data = written.draft]
          = [ok |-> d.ok, data |-> e, level |-> level, open |-> d.open, draft |-> e]
    BY <1>1 DEF level
  <2>2. ASSUME NEW l, NEW w
        PROVE  Ended(c, [ok |-> d.ok, data |-> e, level |-> l, open |-> d.open, draft |-> w])
                 = [ok |-> d.ok, data |-> e, level |-> last, open |-> FALSE, draft |-> NoWork]
    <3> DEFINE x == [ok |-> d.ok, data |-> e, level |-> l, open |-> d.open, draft |-> w]
    <3>1. Ended(c, x) = [x EXCEPT !.level = last, !.open = FALSE, !.draft = NoWork]
      BY DEF Ended, last
    <3>2. QED
      BY <3>1
  <2>3. QED
    BY <2>1, <2>2
<1>3. StatementPart(c, s, d) =
        IF ~Compiles(s, Contents(d)) THEN Fails(d)
        ELSE IF Writes(s, Contents(d)) THEN
            IF ~CanWrite(c, d) THEN Fails(d)
            ELSE IF d.open THEN IF Violates(s, Contents(d)) THEN Fails(Reserved(d)) ELSE written
                 ELSE IF Violates(s, Contents(d)) \/ ~MayExclude(c) THEN Fails(Ended(c, d))
                 ELSE Ended(c, [written EXCEPT !.data = written.draft])
        ELSE IF ~ReadsOnly(s, Contents(d)) THEN d
        ELSE IF ~CanRead(c, d) THEN Fails(d)
        ELSE IF d.open /\ d.level = "none" THEN [d EXCEPT !.level = "shared"]
        ELSE d
  BY DEF StatementPart, Reserved
<1>4. [d EXCEPT !.level = "shared"] =
        [ok |-> d.ok, data |-> d.data, level |-> "shared", open |-> d.open, draft |-> d.draft]
  BY DEF Good
<1> HIDE DEF written, e
<1>5. QED
  BY <1>1, <1>2, <1>3, <1>4 DEF e

LEMMA GoodStatement ==
    ASSUME NEW c \in Threads, NEW d, Good(c, d), NEW s \in Stmts
    PROVE  Good(c, StatementPart(c, s, d))
<1> DEFINE r == StatementPart(c, s, d)
           x == Effect(s, Contents(d))
           drafted == [ok |-> d.ok, data |-> d.data, level |-> Reserved(d).level,
                       open |-> d.open, draft |-> x]
           filed == [ok |-> d.ok, data |-> x, level |-> d.level, open |-> d.open, draft |-> d.draft]
           shared == [ok |-> d.ok, data |-> d.data, level |-> "shared", open |-> d.open,
                      draft |-> d.draft]
<1>1. Compiles(s, Contents(d)) => IsContents(x) /\ DOMAIN Contents(d) \subseteq DOMAIN x
  BY GoodContents, EffectType
<1>2. CASE d.open /\ d.level = "none" /\ r = shared
  BY <1>2 DEF Good, LockLevels, WriteLocks
<1>3. CASE r = Fails(Reserved(d)) /\ d.open /\ CanWrite(c, d)
  <2>1. Good(c, Reserved(d))
    BY <1>3, GoodContents, GoodDraft, ReservedIs
  <2>2. QED
    BY <1>3, <2>1, GoodFails
<1>4. CASE r = drafted /\ d.open /\ CanWrite(c, d) /\ Compiles(s, Contents(d))
  BY <1>1, <1>4, GoodDraft
<1>5. CASE r = Fails(Ended(c, d))
  BY <1>5, GoodEnded, GoodFails
<1>6. CASE r = Ended(c, filed) /\ ~d.open /\ CanWrite(c, d) /\ Compiles(s, Contents(d))
  <2>1. Contents(d) = d.data
    BY <1>6 DEF Good, Contents
  <2>2. Good(c, filed)
    BY <1>1, <1>6, <2>1, GoodData
  <2>3. QED
    BY <1>6, <2>2, GoodEnded
<1>7. CASE r = d \/ r = Fails(d)
  BY <1>7, GoodFails
<1> HIDE DEF r, x, drafted, filed, shared
<1>8. QED
  BY <1>2, <1>3, <1>4, <1>5, <1>6, <1>7, StatementIs DEF r, x, drafted, filed, shared

LEMMA PartIs ==
    ASSUME NEW c, NEW d
    PROVE  /\ Part(c, BEGIN, d) = BeginPart(d)
           /\ Part(c, COMMIT, d) = CommitPart(c, d)
           /\ Part(c, ROLLBACK, d) = RollbackPart(c, d)
           /\ \A s \in Stmts : Part(c, s, d) = StatementPart(c, s, d)
<1>1. BEGIN # COMMIT /\ BEGIN # ROLLBACK /\ COMMIT # ROLLBACK
  BY DEF BEGIN, COMMIT, ROLLBACK
<1>2. \A s \in Stmts : s \notin Control
  BY DEF Stmts, Malformed, NoSql, Control, BEGIN, COMMIT, ROLLBACK
<1>3. QED
  BY <1>1, <1>2 DEF Part, Control

LEMMA GoodPart ==
    ASSUME NEW c \in Threads, NEW d, Good(c, d), NEW p \in Stmts \cup Control
    PROVE  Good(c, Part(c, p, d))
<1>1. CASE p \in Stmts
  BY <1>1, PartIs, GoodStatement
<1>2. CASE p = BEGIN
  BY <1>2, PartIs, GoodBegin
<1>3. CASE p = COMMIT
  BY <1>3, PartIs, GoodCommit
<1>4. CASE p = ROLLBACK
  BY <1>4, PartIs, GoodRollback
<1>5. QED
  BY <1>1, <1>2, <1>3, <1>4 DEF Control

(* The state of the connection after the n-th part, if f says what it was  *)
(* before.                                                                 *)
Nth(f, c, text, n) ==
    IF n = 0 THEN DbOf(c)
    ELSE IF f[n - 1].ok THEN Part(c, text[n], f[n - 1])
    ELSE f[n - 1]

(* The recursive definition in Exec has a solution. *)
LEMMA ExecIs ==
    ASSUME NEW c, NEW text, Len(text) \in Nat, conn[c] = "open"
    PROVE  \E f : /\ \A n \in 0..Len(text) : f[n] = Nth(f, c, text, n)
                  /\ Exec(c, text) = f[Len(text)]
<1> DEFINE Is(f, n) == f = [k \in 0..n |-> Nth(f, c, text, k)]
           S == {n \in Nat : \E f : Is(f, n)}
<1>1. 0 \in S
  <2> DEFINE g == [k \in 0..0 |-> DbOf(c)]
  <2>1. Is(g, 0)
    BY DEF Nth
  <2> HIDE DEF Is, g
  <2>2. QED
    BY <2>1
<1>2. ASSUME NEW n \in Nat, n \in S PROVE n + 1 \in S
  <2>1. PICK f : Is(f, n)
    BY <1>2
  <2> DEFINE g == [k \in 0..(n + 1) |-> IF k <= n THEN f[k] ELSE Nth(f, c, text, k)]
  <2>2. \A k \in 0..n : f[k] = Nth(f, c, text, k)
    BY <2>1
  <2>3. \A k \in 0..(n + 1) : g[k] = Nth(g, c, text, k)
    BY <2>2 DEF Nth
  <2>4. Is(g, n + 1)
    BY <2>3
  <2> HIDE DEF Is, g
  <2>5. QED
    BY <2>4
<1>3. \A n \in Nat : \E f : Is(f, n)
  <2> HIDE DEF Is
  <2>1. Nat \subseteq S
    <3> HIDE DEF S
    <3>1. QED
      BY <1>1, <1>2, SetInduction
  <2>2. QED
    BY <2>1
<1> DEFINE f == CHOOSE f : Is(f, Len(text))
<1>4. Exec(c, text) = f[Len(text)]
  BY DEF Exec, Nth
<1>5. Is(f, Len(text))
  <2> HIDE DEF Is
  <2>1. QED
    BY <1>3
<1> HIDE DEF f
<1>6. \A n \in 0..Len(text) : f[n] = Nth(f, c, text, n)
  BY <1>5
<1>7. QED
  BY <1>4, <1>6

LEMMA ExecOne ==
    ASSUME NEW c, NEW p, conn[c] = "open"
    PROVE  Exec(c, <<p>>) = Part(c, p, DbOf(c))
<1>1. Len(<<p>>) = 1 /\ <<p>>[1] = p
  OBVIOUS
<1>2. PICK f : /\ \A n \in 0..1 : f[n] = Nth(f, c, <<p>>, n)
               /\ Exec(c, <<p>>) = f[1]
  BY <1>1, ExecIs
<1>3. f[0] = DbOf(c) /\ f[1] = IF f[0].ok THEN Part(c, p, f[0]) ELSE f[0]
  BY <1>1, <1>2 DEF Nth
<1>4. DbOf(c).ok
  BY DEF DbOf
<1>5. QED
  BY <1>2, <1>3, <1>4

LEMMA ExecClosed ==
    ASSUME NEW c, NEW text, conn[c] # "open"
    PROVE  Exec(c, text) = Fails(DbOf(c))
BY DEF Exec

(* A text of whatever parts, cut off where one fails, leaves the           *)
(* connection in a good state.                                             *)
LEMMA ExecGood ==
    ASSUME Storage, NEW c \in Threads, NEW text \in Seq(Stmts \cup Control)
    PROVE  Good(c, Exec(c, text))
<1>1. CASE conn[c] # "open"
  BY <1>1, ExecClosed, GoodNow, GoodFails
<1>2. CASE conn[c] = "open"
  <2>1. Len(text) \in Nat /\ \A n \in 1..Len(text) : text[n] \in Stmts \cup Control
    OBVIOUS
  <2>2. PICK f : /\ \A n \in 0..Len(text) : f[n] = Nth(f, c, text, n)
                 /\ Exec(c, text) = f[Len(text)]
    BY <1>2, <2>1, ExecIs
  <2> DEFINE S == {n \in Nat : n <= Len(text) => Good(c, f[n])}
  <2>3. 0 \in S
    BY <2>1, <2>2, GoodNow DEF Nth
  <2>4. ASSUME NEW n \in Nat, n \in S PROVE n + 1 \in S
    <3> SUFFICES ASSUME n + 1 <= Len(text) PROVE Good(c, f[n + 1])
      OBVIOUS
    <3>1. Good(c, f[n])
      BY <2>1, <2>4
    <3>2. f[n + 1] = IF f[n].ok THEN Part(c, text[n + 1], f[n]) ELSE f[n]
      BY <2>1, <2>2 DEF Nth
    <3>3. text[n + 1] \in Stmts \cup Control
      BY <2>1
    <3>4. QED
      BY <3>1, <3>2, <3>3, GoodPart
  <2>5. Nat \subseteq S
    <3> HIDE DEF S
    <3>1. QED
      BY <2>3, <2>4, SetInduction
  <2>6. QED
    BY <2>1, <2>2, <2>5
<1>3. QED
  BY <1>1, <1>2

-----------------------------------------------------------------------------
(* What a text does to the contents. *)

LEMMA TextEffectIs ==
    ASSUME NEW x, NEW text, Len(text) \in Nat
    PROVE  \E f : /\ f[0] = x
                  /\ \A n \in 1..Len(text) : f[n] = Effect(text[n], f[n - 1])
                  /\ TextEffect(text, x) = f[Len(text)]
<1> DEFINE Nxt(f, k) == IF k = 0 THEN x ELSE Effect(text[k], f[k - 1])
           Is(f, n) == f = [k \in 0..n |-> Nxt(f, k)]
           S == {n \in Nat : \E f : Is(f, n)}
<1>1. 0 \in S
  <2> DEFINE g == [k \in 0..0 |-> x]
  <2>1. Is(g, 0)
    OBVIOUS
  <2> HIDE DEF Is, g
  <2>2. QED
    BY <2>1
<1>2. ASSUME NEW n \in Nat, n \in S PROVE n + 1 \in S
  <2>1. PICK f : Is(f, n)
    BY <1>2
  <2> DEFINE g == [k \in 0..(n + 1) |-> IF k <= n THEN f[k] ELSE Nxt(f, k)]
  <2>2. \A k \in 0..n : f[k] = Nxt(f, k)
    BY <2>1
  <2>3. \A k \in 0..(n + 1) : g[k] = Nxt(g, k)
    BY <2>2
  <2>4. Is(g, n + 1)
    BY <2>3
  <2> HIDE DEF Is, g
  <2>5. QED
    BY <2>4
<1>3. \A n \in Nat : \E f : Is(f, n)
  <2> HIDE DEF Is
  <2>1. Nat \subseteq S
    <3> HIDE DEF S
    <3>1. QED
      BY <1>1, <1>2, SetInduction
  <2>2. QED
    BY <2>1
<1> DEFINE f == CHOOSE f : Is(f, Len(text))
<1>4. TextEffect(text, x) = f[Len(text)]
  BY DEF TextEffect
<1>5. Is(f, Len(text))
  <2> HIDE DEF Is
  <2>1. QED
    BY <1>3
<1> HIDE DEF f
<1>6. \A n \in 0..Len(text) : f[n] = Nxt(f, n)
  BY <1>5
<1>7. QED
  BY <1>4, <1>6

(* A text without a statement that writes changes nothing. *)
LEMMA IdleText ==
    ASSUME NEW x, NEW text, Len(text) \in Nat, \A k \in 1..Len(text) : ~Writes(text[k], x)
    PROVE  TextEffect(text, x) = x
<1>1. PICK f : /\ f[0] = x
               /\ \A n \in 1..Len(text) : f[n] = Effect(text[n], f[n - 1])
               /\ TextEffect(text, x) = f[Len(text)]
  BY TextEffectIs
<1> DEFINE S == {n \in Nat : n <= Len(text) => f[n] = x}
<1>2. 0 \in S
  BY <1>1
<1>3. ASSUME NEW n \in Nat, n \in S PROVE n + 1 \in S
  <2> SUFFICES ASSUME n + 1 <= Len(text) PROVE f[n + 1] = x
    OBVIOUS
  <2>1. f[n] = x
    BY <1>3
  <2>2. f[n + 1] = Effect(text[n + 1], x) /\ ~Writes(text[n + 1], x)
    BY <1>1, <2>1
  <2>3. QED
    BY <2>2 DEF Effect
<1>4. Nat \subseteq S
  <2> HIDE DEF S
  <2>1. QED
    BY <1>2, <1>3, SetInduction
<1>5. QED
  BY <1>1, <1>4

(* A statement in a transaction leaves the file alone and, unless it       *)
(* fails, has its effect on what the connection sees.                      *)
LEMMA StatementInside ==
    ASSUME NEW c \in Threads, NEW d, Good(c, d), d.open, NEW s \in Stmts
    PROVE  LET r == StatementPart(c, s, d) IN
           /\ r.open /\ r.data = d.data
           /\ r.ok => /\ Contents(r) = Effect(s, Contents(d))
                      /\ r.level \in WriteLocks \/ (d.level \notin WriteLocks /\ ~Writes(s, d.data))
<1> DEFINE r == StatementPart(c, s, d)
           x == Effect(s, Contents(d))
           drafted == [ok |-> d.ok, data |-> d.data, level |-> Reserved(d).level,
                       open |-> d.open, draft |-> x]
           shared == [ok |-> d.ok, data |-> d.data, level |-> "shared", open |-> d.open,
                      draft |-> d.draft]
<1>0. ~Writes(s, Contents(d)) => Contents(d) = x
  BY DEF Effect
<1>1. d.level \notin WriteLocks => Contents(d) = d.data
  BY DEF Contents
<1>2. CASE r = d /\ ~Writes(s, Contents(d))
  BY <1>0, <1>1, <1>2
<1>3. CASE r = Fails(d)
  BY <1>3, GoodFails
<1>4. CASE r = shared /\ d.level = "none" /\ ~Writes(s, Contents(d))
  <2>1. Contents(shared) = d.data /\ d.level \notin WriteLocks
    BY <1>4 DEF Contents, WriteLocks
  <2>2. QED
    BY <1>0, <1>1, <1>4, <2>1
<1>5. CASE r = Fails(Reserved(d)) /\ CanWrite(c, d)
  <2>1. Good(c, Reserved(d))
    BY <1>5, GoodContents, GoodDraft, ReservedIs
  <2>2. Reserved(d).open /\ Reserved(d).data = d.data
    BY ReservedIs
  <2>3. QED
    BY <1>5, <2>1, <2>2, GoodFails
<1>6. CASE r = drafted
  <2>1. Reserved(d).level \in WriteLocks
    BY ReservedIs
  <2>2. Contents(drafted) = x
    BY <2>1 DEF Contents
  <2>3. QED
    BY <1>6, <2>1, <2>2
<1> HIDE DEF r, x, drafted, shared
<1>7. QED
  BY <1>2, <1>3, <1>4, <1>5, <1>6, StatementIs DEF r, x, drafted, shared

(* A text without transaction control, in a transaction that has not       *)
(* written yet.                                                            *)
LEMMA ExecInside ==
    ASSUME Storage, NEW c \in Threads, NEW text \in Seq(Stmts),
           conn[c] = "open", txn[c], ~Writing(c)
    PROVE  LET d == Exec(c, text) IN
           /\ d.open /\ d.data = file
           /\ d.ok => IF d.level \in WriteLocks THEN d.draft = TextEffect(text, file)
                      ELSE \A k \in DOMAIN text : ~Writes(text[k], file)
<1>1. /\ Len(text) \in Nat /\ DOMAIN text = 1..Len(text)
      /\ \A n \in 1..Len(text) : text[n] \in Stmts
  OBVIOUS
<1>2. PICK f : /\ \A n \in 0..Len(text) : f[n] = Nth(f, c, text, n)
               /\ Exec(c, text) = f[Len(text)]
  BY <1>1, ExecIs
<1>3. PICK g : /\ g[0] = file
               /\ \A n \in 1..Len(text) : g[n] = Effect(text[n], g[n - 1])
               /\ TextEffect(text, file) = g[Len(text)]
  BY <1>1, TextEffectIs
<1> DEFINE Idle(n) == \A k \in 1..n : ~Writes(text[k], file)
           Fine(n) == /\ Good(c, f[n]) /\ f[n].open /\ f[n].data = file
                      /\ f[n].ok => /\ Contents(f[n]) = g[n]
                                    /\ f[n].level \in WriteLocks \/ Idle(n)
           S == {n \in Nat : n <= Len(text) => Fine(n)}
<1>4. 0 \in S
  <2>1. f[0] = DbOf(c)
    BY <1>1, <1>2 DEF Nth
  <2>2. Good(c, DbOf(c))
    BY GoodNow
  <2>3. DbOf(c).open /\ DbOf(c).data = file /\ Contents(DbOf(c)) = file
    BY DEF DbOf, Contents, Writing
  <2>4. QED
    BY <1>3, <2>1, <2>2, <2>3
<1>5. ASSUME NEW n \in Nat, n \in S PROVE n + 1 \in S
  <2> SUFFICES ASSUME n + 1 <= Len(text) PROVE Fine(n + 1)
    OBVIOUS
  <2>1. Fine(n)
    BY <1>1, <1>5
  <2>2. f[n + 1] = IF f[n].ok THEN Part(c, text[n + 1], f[n]) ELSE f[n]
    BY <1>1, <1>2 DEF Nth
  <2>3. text[n + 1] \in Stmts /\ g[n + 1] = Effect(text[n + 1], g[n])
    BY <1>1, <1>3
  <2>4. CASE ~f[n].ok
    BY <2>1, <2>2, <2>4
  <2>5. CASE f[n].ok
    <3>1. f[n + 1] = StatementPart(c, text[n + 1], f[n])
      BY <2>2, <2>3, <2>5, PartIs
    <3>2. Good(c, f[n + 1])
      BY <2>1, <2>3, <3>1, GoodStatement
    <3>3. /\ f[n + 1].open /\ f[n + 1].data = file
          /\ f[n + 1].ok => /\ Contents(f[n + 1]) = Effect(text[n + 1], Contents(f[n]))
                            /\ \/ f[n + 1].level \in WriteLocks
                               \/ f[n].level \notin WriteLocks /\ ~Writes(text[n + 1], file)
      BY <2>1, <2>3, <3>1, StatementInside
    <3>4. Contents(f[n]) = g[n] /\ (f[n].level \in WriteLocks \/ Idle(n))
      BY <2>1, <2>5
    <3>5. Idle(n) /\ ~Writes(text[n + 1], file) => Idle(n + 1)
      OBVIOUS
    <3> HIDE DEF Idle
    <3>6. QED
      BY <2>3, <3>2, <3>3, <3>4, <3>5
  <2>6. QED
    BY <2>4, <2>5
<1>6. Nat \subseteq S
  <2> HIDE DEF S
  <2>1. QED
    BY <1>4, <1>5, SetInduction
<1>7. Fine(Len(text))
  BY <1>1, <1>6
<1>8. QED
  BY <1>1, <1>2, <1>3, <1>7 DEF Contents

(* The constructor's text. *)
LEMMA ExecCreate ==
    ASSUME Storage, NEW c \in Threads, NEW r \in Types
    PROVE  LET d == Exec(c, <<CreateTable(r)>>) IN
           d.ok => r \in DOMAIN Contents(d)
<1> DEFINE s == CreateTable(r)
           b == DbOf(c)
           d == Exec(c, <<s>>)
           x == Effect(s, Contents(b))
<1>1. CASE conn[c] # "open"
  BY <1>1, ExecClosed, GoodNow, GoodFails
<1>2. CASE conn[c] = "open"
  <2>1. s \in Stmts /\ s.op = "create" /\ s.type = r
    BY DEF CreateTable, Stmts
  <2>2. Good(c, b) /\ b.ok
    BY GoodNow DEF DbOf
  <2>3. d = StatementPart(c, s, b)
    BY <1>2, <2>1, ExecOne, PartIs
  <2>4. Compiles(s, Contents(b)) => r \in DOMAIN x
    BY <2>1, <2>2, GoodContents, EffectType
  <2> HIDE DEF s, d, b
  <2>5. CASE b.open
    <3>1. d.ok => Contents(d) = x /\ Compiles(s, Contents(b))
      <4>1. Compiles(s, Contents(b))
        BY <2>1 DEF Compiles
      <4>2. QED
        BY <2>1, <2>2, <2>3, <2>5, <4>1, StatementInside
    <3>2. QED
      BY <2>4, <3>1 DEF d, s
  <2>6. CASE ~b.open
    <3> DEFINE filed == [ok |-> b.ok, data |-> x, level |-> b.level, open |-> b.open,
                         draft |-> b.draft]
    <3>1. CASE d = b /\ ~Writes(s, Contents(b))
      BY <2>1, <3>1 DEF Writes, d, s
    <3>2. CASE d = Fails(b) \/ d = Fails(Ended(c, b))
      BY <2>2, <3>2, GoodFails, GoodEnded DEF d, s
    <3>3. CASE d = Ended(c, filed) /\ CanWrite(c, b) /\ Compiles(s, Contents(b))
      <4>1. Contents(b) = b.data
        BY <2>2, <2>6 DEF Good, Contents
      <4>2. IsContents(x) /\ DOMAIN b.data \subseteq DOMAIN x
        BY <2>1, <2>2, <3>3, <4>1, GoodContents, EffectType
      <4>3. Good(c, filed)
        BY <2>2, <2>6, <3>3, <4>2, GoodData
      <4>4. d.data = x /\ d.level \in {"shared", "none"}
        BY <3>3, <4>3, GoodEnded
      <4>5. Contents(d) = x
        BY <4>4 DEF Contents, WriteLocks
      <4>6. QED
        BY <2>4, <3>3, <4>5 DEF d, s
    <3> HIDE DEF filed, x
    <3>4. QED
      BY <2>1, <2>2, <2>3, <2>6, <3>1, <3>2, <3>3, StatementIs DEF filed, x
  <2>7. QED
    BY <2>5, <2>6
<1>3. QED
  BY <1>1, <1>2

-----------------------------------------------------------------------------
(* Steps that change what a connection holds. *)

(* The threads other than t stay where they are. *)
Stays(f, g, t) == g = [u \in Threads |-> g[u]] /\ \A u \in Threads \ {t} : g[u] = f[u]

Only(t) ==
    /\ Stays(pc, pc', t) /\ Stays(db, db', t) /\ Stays(call, call', t)
    /\ Stays(todo, todo', t) /\ Stays(rows, rows', t) /\ Stays(out, out', t)

LEMMA StaysType ==
    ASSUME NEW t \in Threads, NEW f, NEW g, NEW S, f \in [Threads -> S],
           Stays(f, g, t), g[t] \in S
    PROVE  g \in [Threads -> S]
BY DEF Stays

LEMMA StaysExcept ==
    ASSUME NEW t \in Threads, NEW f, f = [u \in Threads |-> f[u]], NEW x
    PROVE  Stays(f, [f EXCEPT ![t] = x], t) /\ [f EXCEPT ![t] = x][t] = x
BY DEF Stays

LEMMA StaysSame ==
    ASSUME NEW t \in Threads, NEW f, f = [u \in Threads |-> f[u]]
    PROVE  Stays(f, f, t)
BY DEF Stays

LEMMA Functions ==
    ASSUME Calls
    PROVE  /\ pc = [u \in Threads |-> pc[u]] /\ db = [u \in Threads |-> db[u]]
           /\ call = [u \in Threads |-> call[u]] /\ todo = [u \in Threads |-> todo[u]]
           /\ rows = [u \in Threads |-> rows[u]] /\ out = [u \in Threads |-> out[u]]
BY DEF Calls

LEMMA OthersStay ==
    ASSUME NEW t \in Threads, Only(t), NEW u \in Threads, u # t
    PROVE  /\ pc'[u] = pc[u] /\ db'[u] = db[u] /\ call'[u] = call[u]
           /\ todo'[u] = todo[u] /\ rows'[u] = rows[u] /\ out'[u] = out[u]
           /\ Reading(u)' <=> Reading(u)
           /\ Prepared(u)' <=> Prepared(u)
           /\ Inside(u)' <=> Inside(u)
<1>1. /\ pc'[u] = pc[u] /\ db'[u] = db[u] /\ call'[u] = call[u]
      /\ todo'[u] = todo[u] /\ rows'[u] = rows[u] /\ out'[u] = out[u]
  BY DEF Only, Stays
<1>2. QED
  BY <1>1 DEF Reading, Read, Prepared, Inside

(* The readers of a connection change only by t. *)
LEMMA ReadersStay ==
    ASSUME Calls, NEW t \in Threads, Only(t), ~Reading(t), ~Reading(t)'
    PROVE  \A c : HasReader(c)' <=> HasReader(c)
BY OthersStay DEF HasReader

LEMMA StoreStep ==
    ASSUME Storage, NEW c \in Threads, NEW d, Good(c, d), Becomes(c, d),
           conn' \in [Threads -> {"none", "open", "closed"}],
           \A e \in Threads \ {c} : conn'[e] = conn[e],
           conn'[c] # "open" => d.level = "none" /\ ~d.open,
           \A e \in Threads : HasReader(e)' <=> HasReader(e)
    PROVE  Storage' /\ DOMAIN file \subseteq DOMAIN file'
<1>1. /\ file' = d.data
      /\ lock' = [lock EXCEPT ![c] = d.level] /\ txn' = [txn EXCEPT ![c] = d.open]
      /\ work' = [work EXCEPT ![c] = d.draft]
  BY DEF Becomes
<1>2. /\ lock'[c] = d.level /\ txn'[c] = d.open /\ work'[c] = d.draft
      /\ lock' \in [Threads -> LockLevels] /\ txn' \in [Threads -> BOOLEAN]
      /\ work' = [e \in Threads |-> work'[e]]
      /\ IsContents(file') /\ DOMAIN file \subseteq DOMAIN file'
  BY <1>1 DEF Storage, Good
<1>3. ASSUME NEW e \in Threads, e # c
      PROVE  lock'[e] = lock[e] /\ txn'[e] = txn[e] /\ work'[e] = work[e]
  BY <1>1, <1>3 DEF Storage
<1>4. ASSUME NEW e \in Threads
      PROVE  IF Writing(e)'
             THEN txn'[e] /\ IsContents(work'[e]) /\ DOMAIN file' \subseteq DOMAIN work'[e]
             ELSE work'[e] = NoWork
  <2>1. CASE e = c
    BY <1>1, <1>2, <2>1 DEF Good, Writing
  <2>2. CASE e # c
    <3>1. Writing(e) => file' = file
      BY <1>1, <2>2 DEF Good
    <3>2. QED
      BY <1>3, <2>2, <3>1 DEF Storage, Writing
  <2>3. QED
    BY <2>1, <2>2
<1>5. \A e \in Threads \ {c} : Writing(c)' => ~Writing(e)'
  BY <1>2, <1>3 DEF Good, Writing
<1>6. \A e, g \in Threads : Writing(e)' /\ Writing(g)' => e = g
  <2>1. \A e \in Threads \ {c} : Writing(e)' <=> Writing(e)
    BY <1>3 DEF Writing
  <2>2. \A e, g \in Threads : Writing(e) /\ Writing(g) => e = g
    BY DEF Storage
  <2>3. QED
    BY <1>5, <2>1, <2>2
<1>7. ASSUME NEW e \in Threads
      PROVE  /\ conn'[e] # "open" => lock'[e] = "none" /\ ~txn'[e]
             /\ lock'[e] = "shared" => txn'[e] \/ HasReader(e)'
             /\ HasReader(e)' => lock'[e] # "none"
  <2>1. CASE e = c
    BY <1>2, <2>1 DEF Good
  <2>2. CASE e # c
    BY <1>3, <2>2 DEF Storage
  <2>3. QED
    BY <2>1, <2>2
<1>8. QED
  BY <1>2, <1>4, <1>6, <1>7 DEF Storage

(* A statement begins or stops to read. *)
LEMMA LockStep ==
    ASSUME Storage, NEW c \in Threads, conn[c] = "open", NEW l \in LockLevels,
           lock' = [lock EXCEPT ![c] = l], UNCHANGED <<file, conn, txn, work>>,
           lock[c] \in WriteLocks \/ l \in WriteLocks => l = lock[c],
           l = "shared" => txn[c] \/ HasReader(c)', HasReader(c)' => l # "none",
           \A e \in Threads \ {c} : HasReader(e)' <=> HasReader(e)
    PROVE  Storage'
<1>1. lock'[c] = l /\ \A e \in Threads \ {c} : lock'[e] = lock[e]
  BY DEF Storage
<1>2. \A e \in Threads : Writing(e)' <=> Writing(e)
  BY <1>1 DEF Writing
<1>3. lock' \in [Threads -> LockLevels]
  BY DEF Storage
<1>4. ASSUME NEW e \in Threads
      PROVE  IF Writing(e)'
             THEN txn'[e] /\ IsContents(work'[e]) /\ DOMAIN file' \subseteq DOMAIN work'[e]
             ELSE work'[e] = NoWork
  BY <1>2 DEF Storage
<1>5. ASSUME NEW e \in Threads
      PROVE  /\ conn'[e] # "open" => lock'[e] = "none" /\ ~txn'[e]
             /\ lock'[e] = "shared" => txn'[e] \/ HasReader(e)'
             /\ HasReader(e)' => lock'[e] # "none"
  BY <1>1 DEF Storage
<1>6. QED
  BY <1>2, <1>3, <1>4, <1>5 DEF Storage

LEMMA StorageStays ==
    ASSUME Storage, UNCHANGED <<file, lock, txn, work>>,
           conn' \in [Threads -> {"none", "open", "closed"}],
           \A c \in Threads : conn[c] = "open" => conn'[c] = "open",
           \A c \in Threads : HasReader(c)' <=> HasReader(c)
    PROVE  Storage'
<1>1. \A e : Writing(e)' <=> Writing(e)
  BY DEF Writing
<1>2. QED
  BY <1>1 DEF Storage

-----------------------------------------------------------------------------
(* Steps of a call. *)

LEMMA CallsKept ==
    ASSUME Calls, NEW t \in Threads, Only(t),
           pc'[t] \in Labels, db'[t] \in Threads \cup {NoThread},
           todo'[t] \in Seq(Seq(Stmts \cup Control)),
           rows'[t] \in Seq((Int \X Vals) \cup {NullRow}),
           out'[t] \in {"ok", "failed"},
           instance' \in Threads \cup {NoThread},
           instance' # NoThread => conn'[instance'] # "none",
           ThreadOK(t)',
           \A u \in Threads \ {t} :
               /\ db[u] # NoThread => conn'[db[u]] # "none"
               /\ Prepared(u) => conn'[db[u]] = "open"
               /\ pc[u] = "open" => conn'[u] = "none"
               /\ call[u].op = "init" => instance' # u /\ db'[t] # u
    PROVE  Calls'
<1>1. pc' \in [Threads -> Labels]
  BY StaysType DEF Calls, Only
<1>2. db' \in [Threads -> Threads \cup {NoThread}]
  BY StaysType DEF Calls, Only
<1>3. call' = [u \in Threads |-> call'[u]]
  BY DEF Only, Stays
<1>4. todo' \in [Threads -> Seq(Seq(Stmts \cup Control))]
  BY StaysType DEF Calls, Only
<1>5. rows' \in [Threads -> Seq((Int \X Vals) \cup {NullRow})]
  BY StaysType DEF Calls, Only
<1>6. out' \in [Threads -> {"ok", "failed"}]
  BY StaysType DEF Calls, Only
<1>7. ASSUME NEW u \in Threads, u # t PROVE ThreadOK(u)'
  <2>1. ThreadOK(u)
    BY DEF Calls
  <2>2. \A v \in Threads : db'[v] = u /\ call[u].op = "init" => v = u
    BY <1>7, <2>1, OthersStay DEF ThreadOK
  <2>3. QED
    BY <1>7, <2>1, <2>2, OthersStay DEF ThreadOK, Prepared, Inside
<1>8. QED
  BY <1>1, <1>2, <1>3, <1>4, <1>5, <1>6, <1>7 DEF Calls

LEMMA EndIs ==
    ASSUME Calls, NEW t \in Threads, NEW how, End(t, how)
    PROVE  /\ Only(t)
           /\ pc'[t] = "idle" /\ db'[t] = NoThread /\ call'[t] = NoCall
           /\ todo'[t] = <<>> /\ rows'[t] = <<>> /\ out'[t] = how
BY Functions, StaysExcept DEF Only, End, Goto

LEMMA EndThread ==
    ASSUME Calls, NEW t \in Threads, NEW how, End(t, how)
    PROVE  /\ ThreadOK(t)' /\ ~Reading(t)' /\ ~Prepared(t)' /\ ~Inside(t)'
           /\ pc'[t] \in Labels
           /\ todo'[t] \in Seq(Seq(Stmts \cup Control))
           /\ rows'[t] \in Seq((Int \X Vals) \cup {NullRow})
<1>1. /\ pc'[t] = "idle" /\ db'[t] = NoThread /\ call'[t] = NoCall
      /\ todo'[t] = <<>> /\ rows'[t] = <<>>
  BY EndIs
<1>2. QED
  BY <1>1 DEF ThreadOK, Prepared, Inside, Reading, NoCall, CallRecords, Labels

(* A call returns or throws, and connections and instance_ stay. *)
LEMMA EndCalls ==
    ASSUME Calls, NEW t \in Threads, NEW how \in {"ok", "failed"}, End(t, how),
           UNCHANGED <<conn, instance>>
    PROVE  Calls'
<1>1. Only(t) /\ db'[t] = NoThread /\ out'[t] = how
  BY EndIs
<1>2. \A u \in Threads \ {t} : ThreadOK(u) /\ u # NoThread
  BY NoThreadAssumption DEF Calls
<1>3. \A u \in Threads \ {t} :
               /\ db[u] # NoThread => conn'[db[u]] # "none"
               /\ Prepared(u) => conn'[db[u]] = "open"
               /\ pc[u] = "open" => conn'[u] = "none"
               /\ call[u].op = "init" => instance' # u /\ db'[t] # u
  BY <1>1, <1>2 DEF ThreadOK
<1>4. instance' \in Threads \cup {NoThread} /\ (instance' # NoThread => conn'[instance'] # "none")
  BY DEF Calls
<1>5. QED
  BY <1>1, <1>3, <1>4, EndThread, CallsKept

LEMMA ProceedIs ==
    ASSUME Calls, NEW t \in Threads, NEW list, Proceed(t, list)
    PROVE  \/ End(t, "ok") /\ list = <<>> /\ call[t].op # "init"
           \/ /\ Only(t) /\ UNCHANGED <<db, call, rows, out>>
              /\ list = <<>> => call[t].op = "init"
              /\ pc'[t] = IF list = <<>> THEN "store" ELSE "begin"
              /\ todo'[t] = list
<1>1. CASE list = <<>> /\ call[t].op # "init" /\ End(t, "ok")
  BY <1>1
<1>2. CASE /\ list # <<>> \/ call[t].op = "init"
           /\ Goto(t, IF list = <<>> THEN "store" ELSE "begin")
           /\ todo' = [todo EXCEPT ![t] = list]
           /\ UNCHANGED <<db, call, rows, out>>
  <2> DEFINE label == IF list = <<>> THEN "store" ELSE "begin"
  <2>1. pc' = [pc EXCEPT ![t] = label]
    BY <1>2 DEF Goto
  <2> HIDE DEF label
  <2>2. Stays(pc, pc', t) /\ Stays(todo, todo', t) /\ pc'[t] = label /\ todo'[t] = list
    BY <1>2, <2>1, Functions, StaysExcept
  <2>3. Stays(db, db', t) /\ Stays(call, call', t) /\ Stays(rows, rows', t) /\ Stays(out, out', t)
    BY <1>2, Functions, StaysSame
  <2>4. QED
    BY <1>2, <2>2, <2>3 DEF Only, label
<1>3. QED
  BY <1>1, <1>2 DEF Proceed

(* A call goes on, on the connection that it uses. *)
LEMMA GoesOn ==
    ASSUME Calls, NEW t \in Threads, Only(t), UNCHANGED <<conn, instance, db, call>>,
           pc'[t] \in Labels, todo'[t] \in Seq(Seq(Stmts \cup Control)),
           rows'[t] \in Seq((Int \X Vals) \cup {NullRow}),
           out'[t] \in {"ok", "failed"}, ThreadOK(t)'
    PROVE  Calls'
<1>1. \A u \in Threads : ThreadOK(u)
  BY DEF Calls
<1>2. \A u \in Threads \ {t} :
               /\ db[u] # NoThread => conn'[db[u]] # "none"
               /\ Prepared(u) => conn'[db[u]] = "open"
               /\ pc[u] = "open" => conn'[u] = "none"
               /\ call[u].op = "init" => instance' # u /\ db'[t] # u
  BY <1>1 DEF ThreadOK
<1>3. /\ instance' \in Threads \cup {NoThread} /\ (instance' # NoThread => conn'[instance'] # "none")
      /\ db'[t] \in Threads \cup {NoThread}
  BY DEF Calls
<1>4. QED
  BY <1>2, <1>3, CallsKept

LEMMA ProceedCalls ==
    ASSUME Calls, NEW t \in Threads, NEW list \in Seq(Seq(Stmts \cup Control)),
           Proceed(t, list), pc[t] \in {"commit", "maxfinalize"}, UNCHANGED <<conn, instance>>
    PROVE  Calls' /\ Only(t) /\ ~Reading(t)' /\ ~Inside(t)'
<1>1. CASE End(t, "ok")
  BY <1>1, EndCalls, EndIs, EndThread
<1>2. CASE ~End(t, "ok")
  <2>1. /\ Only(t) /\ UNCHANGED <<db, call, rows, out>>
        /\ list = <<>> => call[t].op = "init"
        /\ pc'[t] = IF list = <<>> THEN "store" ELSE "begin"
        /\ todo'[t] = list
    BY <1>2, ProceedIs
  <2>2. ThreadOK(t)
    BY DEF Calls
  <2>3. pc'[t] \in {"store", "begin"} /\ (pc'[t] = "begin" <=> list # <<>>)
    BY <2>1
  <2>4. ThreadOK(t)'
    BY <2>1, <2>2, <2>3 DEF ThreadOK, Prepared, Inside
  <2>5. pc'[t] \in Labels /\ ~Reading(t)' /\ ~Inside(t)'
    BY <2>3 DEF Labels, Reading, Inside
  <2>6. rows'[t] \in Seq((Int \X Vals) \cup {NullRow}) /\ out'[t] \in {"ok", "failed"}
    BY <2>1 DEF Calls
  <2>7. QED
    BY <2>1, <2>4, <2>5, <2>6, GoesOn
<1>3. QED
  BY <1>1, <1>2

(* A call of an operation of instance_ starts. *)
LEMMA StartCalls ==
    ASSUME Calls, NEW t \in Threads, Ready(t),
           NEW c \in CallRecords, NEW label \in Labels,
           NEW list \in Seq(Seq(Stmts \cup Control)),
           Enter(t, c, label, list), db' = [db EXCEPT ![t] = instance],
           UNCHANGED <<conn, instance>>,
           \/ label = "begin" /\ c.op = "exec" /\ list # <<>>
           \/ label = "step" /\ c.op = "fetch" /\ conn[instance] = "open" /\ c.type \in Registered
           \/ label = "maxstep" /\ c.op = "autosave" /\ conn[instance] = "open" /\ c.type \in Registered
    PROVE  Calls' /\ Only(t) /\ ~Reading(t) /\ ~Reading(t)' /\ ~Inside(t) /\ ~Inside(t)'
<1>1. /\ Only(t) /\ pc'[t] = label /\ call'[t] = c /\ todo'[t] = list
      /\ rows'[t] = rows[t] /\ out'[t] = "ok" /\ db'[t] = instance
  BY Functions, StaysExcept, StaysSame DEF Only, Enter, Goto
<1>2. pc[t] = "idle" /\ instance # NoThread /\ rows[t] = <<>>
  BY DEF Ready, Calls, ThreadOK
<1>3. instance \in Threads /\ conn[instance] # "none"
  BY <1>2 DEF Calls
<1>4. ThreadOK(t)'
  BY <1>1, <1>2, <1>3 DEF ThreadOK, Prepared, Inside
<1>5. \A u \in Threads : ThreadOK(u)
  BY DEF Calls
<1>6. \A u \in Threads \ {t} :
               /\ db[u] # NoThread => conn'[db[u]] # "none"
               /\ Prepared(u) => conn'[db[u]] = "open"
               /\ pc[u] = "open" => conn'[u] = "none"
               /\ call[u].op = "init" => instance' # u /\ db'[t] # u
  BY <1>1, <1>5 DEF ThreadOK
<1>7. rows'[t] \in Seq((Int \X Vals) \cup {NullRow})
  BY <1>1 DEF Calls
<1>8. Calls'
  <2>1. instance' \in Threads \cup {NoThread} /\ (instance' # NoThread => conn'[instance'] # "none")
    BY DEF Calls
  <2>2. db'[t] \in Threads \cup {NoThread}
    BY <1>1, <1>3
  <2>3. /\ pc'[t] \in Labels /\ out'[t] \in {"ok", "failed"}
        /\ todo'[t] \in Seq(Seq(Stmts \cup Control))
    BY <1>1
  <2>4. QED
    BY <1>1, <1>4, <1>6, <1>7, <2>1, <2>2, <2>3, CallsKept
<1>9. ~Reading(t) /\ ~Reading(t)' /\ ~Inside(t) /\ ~Inside(t)'
  BY <1>1, <1>2 DEF Reading, Read, Inside
<1>10. QED
  BY <1>1, <1>8, <1>9

-----------------------------------------------------------------------------
(* Every step keeps Storage and Calls, and no step drops a table. *)

Core == Storage /\ Calls
Grows == DOMAIN file \subseteq DOMAIN file'

(* The texts of the operations. *)
LEMMA TextsType ==
    ASSUME NEW r \in Registered
    PROVE  /\ r \in Types
           /\ \A m \in [id : Int, val : Vals] : Insert(r, m) \in Stmts /\ Update(r, m) \in Stmts
           /\ \A i \in Int : Delete(r, EqualId(i)) \in Stmts
<1>1. r \in Types
  BY RecordsAssumption DEF Registered
<1>2. ASSUME NEW m \in [id : Int, val : Vals]
      PROVE  Insert(r, m) \in Stmts /\ Update(r, m) \in Stmts
  BY <1>1, BadTextAssumption DEF Insert, Update, Stmts
<1>3. ASSUME NEW i \in Int PROVE Delete(r, EqualId(i)) \in Stmts
  <2>1. EqualId(i) \in Predicates /\ EqualId(i).by = "id"
    BY DEF EqualId, Predicates
  <2>2. QED
    BY <1>1, <2>1 DEF Delete, Stmts
<1>4. QED
  BY <1>1, <1>2, <1>3

LEMMA ThreadDb ==
    ASSUME Calls, NEW t \in Threads, pc[t] \notin {"idle", "open"}
    PROVE  db[t] \in Threads /\ db[t] # NoThread
BY DEF Calls, ThreadOK

LEMMA ExecStep ==
    ASSUME Core, NEW t \in Threads, pc[t] \in {"begin", "exec", "rollback", "commit"},
           NEW text \in Seq(Stmts \cup Control), Becomes(db[t], Exec(db[t], text)),
           UNCHANGED conn, Only(t), ~Reading(t)'
    PROVE  Storage' /\ Grows
<1> DEFINE c == db[t]
           d == Exec(c, text)
<1>1. c \in Threads
  BY ThreadDb DEF Core
<1>2. Good(c, d)
  BY <1>1, ExecGood DEF Core
<1>3. ~Reading(t)
  BY DEF Reading
<1>4. \A e \in Threads : HasReader(e)' <=> HasReader(e)
  BY <1>3, ReadersStay DEF Core
<1>5. conn[c] # "open" => d.level = "none" /\ ~d.open
  <2> SUFFICES ASSUME conn[c] # "open" PROVE d.level = "none" /\ ~d.open
    OBVIOUS
  <2>1. d = Fails(DbOf(c))
    BY ExecClosed
  <2>2. DbOf(c).level = "none" /\ ~DbOf(c).open
    BY <1>1 DEF DbOf, Core, Storage
  <2>3. Fails(DbOf(c)).level = DbOf(c).level /\ Fails(DbOf(c)).open = DbOf(c).open
    BY <1>1, GoodNow, GoodFails DEF Core
  <2>4. QED
    BY <2>1, <2>2, <2>3
<1>6. conn' \in [Threads -> {"none", "open", "closed"}]
  BY DEF Core, Storage
<1> HIDE DEF c, d
<1>7. Becomes(c, d)
  BY DEF c, d
<1>8. QED
  BY <1>1, <1>2, <1>4, <1>5, <1>6, <1>7, StoreStep DEF Core, Grows

LEMMA ControlTexts ==
    /\ <<BEGIN>> \in Seq(Stmts \cup Control)
    /\ <<COMMIT>> \in Seq(Stmts \cup Control)
    /\ <<ROLLBACK>> \in Seq(Stmts \cup Control)
<1>1. {BEGIN, COMMIT, ROLLBACK} \subseteq Stmts \cup Control
  BY DEF Control
<1>2. QED
  BY <1>1

LEMMA BeginCore ==
    ASSUME Core, NEW t \in Threads, Begin(t)
    PROVE  Core' /\ Only(t) /\ Grows
<1> DEFINE d == Exec(db[t], <<BEGIN>>)
<1>1. pc[t] = "begin" /\ Becomes(db[t], d) /\ UNCHANGED <<conn, instance>>
  BY DEF Begin
<1>2. ThreadOK(t)
  BY DEF Core, Calls
<1>3. CASE d.ok /\ Goto(t, "exec") /\ UNCHANGED <<db, call, todo, rows, out>>
  <2>1. Only(t) /\ pc'[t] = "exec"
    BY <1>3, Functions, StaysExcept, StaysSame DEF Core, Only, Goto
  <2>2. ThreadOK(t)'
    BY <1>1, <1>2, <1>3, <2>1 DEF ThreadOK, Prepared, Inside
  <2>3. /\ todo'[t] \in Seq(Seq(Stmts \cup Control))
        /\ rows'[t] \in Seq((Int \X Vals) \cup {NullRow}) /\ out'[t] \in {"ok", "failed"}
    BY <1>3 DEF Core, Calls
  <2>4. Calls'
    BY <1>1, <1>3, <2>1, <2>2, <2>3, GoesOn DEF Core, Labels
  <2>5. ~Reading(t)'
    BY <2>1 DEF Reading
  <2>6. QED
    BY <1>1, <2>1, <2>4, <2>5, ExecStep, ControlTexts DEF Core
<1>4. CASE End(t, "failed")
  <2>1. Calls' /\ Only(t) /\ ~Reading(t)'
    BY <1>1, <1>4, EndCalls, EndIs, EndThread DEF Core
  <2>2. QED
    BY <1>1, <2>1, ExecStep, ControlTexts DEF Core
<1>5. QED
  BY <1>3, <1>4 DEF Begin

LEMMA ExecTextCore ==
    ASSUME Core, NEW t \in Threads, ExecText(t)
    PROVE  Core' /\ Only(t) /\ Grows
<1> DEFINE d == Exec(db[t], Head(todo[t]))
           label == IF d.ok THEN "commit" ELSE "rollback"
<1>1. /\ pc[t] = "exec" /\ Becomes(db[t], d)
      /\ UNCHANGED <<conn, instance, db, call, todo, rows, out>>
      /\ pc' = [pc EXCEPT ![t] = label]
  BY DEF ExecText, Goto
<1>2. ThreadOK(t)
  BY DEF Core, Calls
<1>3. Head(todo[t]) \in Seq(Stmts \cup Control)
  BY <1>1, <1>2 DEF ThreadOK, Inside, Core, Calls
<1>4. label \in {"commit", "rollback"}
  OBVIOUS
<1> HIDE DEF label
<1>5. Only(t) /\ pc'[t] = label
  BY <1>1, Functions, StaysExcept, StaysSame DEF Core, Only
<1>6. ThreadOK(t)'
  BY <1>1, <1>2, <1>4, <1>5 DEF ThreadOK, Prepared, Inside
<1>7. /\ todo'[t] \in Seq(Seq(Stmts \cup Control)) /\ pc'[t] \in Labels
      /\ rows'[t] \in Seq((Int \X Vals) \cup {NullRow}) /\ out'[t] \in {"ok", "failed"}
  BY <1>1, <1>4, <1>5 DEF Core, Calls, Labels
<1>8. Calls'
  BY <1>1, <1>5, <1>6, <1>7, GoesOn DEF Core
<1>9. ~Reading(t)'
  BY <1>4, <1>5 DEF Reading
<1>10. QED
  BY <1>1, <1>3, <1>5, <1>8, <1>9, ExecStep DEF Core

LEMMA RollbackCore ==
    ASSUME Core, NEW t \in Threads, Rollback(t)
    PROVE  Core' /\ Only(t) /\ Grows
<1>1. /\ pc[t] = "rollback" /\ Becomes(db[t], Exec(db[t], <<ROLLBACK>>))
      /\ End(t, "failed") /\ UNCHANGED <<conn, instance>>
  BY DEF Rollback
<1>2. Calls' /\ Only(t) /\ ~Reading(t)'
  BY <1>1, EndCalls, EndIs, EndThread DEF Core
<1>3. QED
  BY <1>1, <1>2, ExecStep, ControlTexts DEF Core

LEMMA CommitCore ==
    ASSUME Core, NEW t \in Threads, Commit(t)
    PROVE  Core' /\ Only(t) /\ Grows
<1> DEFINE d == Exec(db[t], <<COMMIT>>)
<1>1. pc[t] = "commit" /\ Becomes(db[t], d) /\ UNCHANGED <<conn, instance>>
  BY DEF Commit
<1>2. Calls' /\ Only(t) /\ ~Reading(t)'
  <2>1. CASE Proceed(t, Tail(todo[t]))
    <3>1. todo[t] # <<>> /\ todo[t] \in Seq(Seq(Stmts \cup Control))
      BY <1>1 DEF Core, Calls, ThreadOK, Inside
    <3>2. Tail(todo[t]) \in Seq(Seq(Stmts \cup Control))
      BY <3>1
    <3>3. QED
      BY <1>1, <2>1, <3>2, ProceedCalls DEF Core
  <2>2. CASE End(t, "failed")
    BY <1>1, <2>2, EndCalls, EndIs, EndThread DEF Core
  <2>3. QED
    BY <2>1, <2>2 DEF Commit
<1>3. QED
  BY <1>1, <1>2, ExecStep, ControlTexts DEF Core

LEMMA CoreStays ==
    ASSUME Core, NEW t \in Threads, Only(t), Calls', ~Reading(t), ~Reading(t)',
           UNCHANGED <<file, conn, lock, txn, work>>
    PROVE  Core' /\ Grows
<1>1. \A c \in Threads : HasReader(c)' <=> HasReader(c)
  BY ReadersStay DEF Core
<1>2. /\ conn' \in [Threads -> {"none", "open", "closed"}]
      /\ \A c \in Threads : conn[c] = "open" => conn'[c] = "open"
  BY DEF Core, Storage
<1>3. QED
  BY <1>1, <1>2, StorageStays DEF Core, Grows

LEMMA InitializeCore ==
    ASSUME Core, NEW t \in Threads, Initialize(t)
    PROVE  Core' /\ Only(t) /\ Grows
<1>1. pc[t] = "idle" /\ UNCHANGED <<file, conn, lock, txn, work, instance>>
  BY DEF Initialize
<1>2. \A u \in Threads : ThreadOK(u) /\ u # NoThread
  BY NoThreadAssumption DEF Core, Calls
<1>3. ~Reading(t)
  BY <1>1 DEF Reading
<1>4. CASE End(t, "failed")
  BY <1>1, <1>3, <1>4, CoreStays, EndCalls, EndIs, EndThread DEF Core
<1>5. CASE /\ instance = NoThread /\ conn[t] = "none"
           /\ Enter(t, [op |-> "init"], "open", <<>>) /\ UNCHANGED db
  <2>1. /\ Only(t) /\ pc'[t] = "open" /\ call'[t] = [op |-> "init"] /\ todo'[t] = <<>>
        /\ rows'[t] = rows[t] /\ out'[t] = "ok" /\ db'[t] = db[t]
    BY <1>5, Functions, StaysExcept, StaysSame DEF Core, Only, Enter, Goto
  <2>2. db[t] = NoThread /\ rows[t] = <<>> /\ \A u \in Threads : db[u] # t
    BY <1>1, <1>2, <1>5 DEF ThreadOK
  <2>3. [op |-> "init"] \in CallRecords
    BY DEF CallRecords
  <2>4. ThreadOK(t)'
    BY <1>1, <1>2, <1>5, <2>1, <2>2, <2>3 DEF ThreadOK, Prepared, Inside
  <2>5. \A u \in Threads \ {t} :
               /\ db[u] # NoThread => conn'[db[u]] # "none"
               /\ Prepared(u) => conn'[db[u]] = "open"
               /\ pc[u] = "open" => conn'[u] = "none"
               /\ call[u].op = "init" => instance' # u /\ db'[t] # u
    BY <1>1, <1>2, <2>1, <2>2 DEF ThreadOK
  <2>6. /\ pc'[t] \in Labels /\ db'[t] \in Threads \cup {NoThread}
        /\ todo'[t] \in Seq(Seq(Stmts \cup Control))
        /\ rows'[t] \in Seq((Int \X Vals) \cup {NullRow}) /\ out'[t] \in {"ok", "failed"}
        /\ instance' \in Threads \cup {NoThread} /\ (instance' # NoThread => conn'[instance'] # "none")
    BY <1>1, <1>5, <2>1, <2>2 DEF Labels
  <2>7. Calls'
    BY <2>1, <2>4, <2>5, <2>6, CallsKept DEF Core
  <2>8. ~Reading(t)'
    BY <2>1 DEF Reading
  <2>9. QED
    BY <1>1, <1>3, <2>1, <2>7, <2>8, CoreStays
<1>6. QED
  BY <1>4, <1>5 DEF Initialize

(* The texts of the constructor. *)
Creates == [k \in DOMAIN Records |-> <<CreateTable(Records[k])>>]

LEMMA CreatesType == Creates \in Seq(Seq(Stmts \cup Control)) /\ Creates # <<>>
<1>1. /\ Len(Records) \in Nat /\ Len(Records) # 0 /\ DOMAIN Records = 1..Len(Records)
      /\ \A k \in 1..Len(Records) : Records[k] \in Types
  BY RecordsAssumption
<1>2. \A r \in Types : <<CreateTable(r)>> \in Seq(Stmts \cup Control)
  BY DEF CreateTable, Stmts
<1>3. QED
  BY <1>1, <1>2 DEF Creates

LEMMA OpenCore ==
    ASSUME Core, NEW t \in Threads, Open(t)
    PROVE  Core' /\ Only(t) /\ Grows
<1>1. pc[t] = "open" /\ UNCHANGED <<file, lock, txn, work, instance>>
  BY DEF Open
<1>2. \A u \in Threads : ThreadOK(u) /\ u # NoThread
  BY NoThreadAssumption DEF Core, Calls
<1>3. ~Reading(t)
  BY <1>1 DEF Reading
<1>4. CASE End(t, "failed") /\ UNCHANGED conn
  BY <1>1, <1>3, <1>4, CoreStays, EndCalls, EndIs, EndThread DEF Core
<1>5. CASE /\ conn' = [conn EXCEPT ![t] = "open"]
           /\ db' = [db EXCEPT ![t] = t]
           /\ Goto(t, "begin")
           /\ todo' = [todo EXCEPT ![t] = Creates]
           /\ UNCHANGED <<call, rows, out>>
  <2>1. /\ Only(t) /\ pc'[t] = "begin" /\ call'[t] = call[t] /\ todo'[t] = Creates
        /\ rows'[t] = rows[t] /\ out'[t] = out[t] /\ db'[t] = t
    BY <1>5, Functions, StaysExcept, StaysSame DEF Core, Only, Goto
  <2>2. /\ conn' \in [Threads -> {"none", "open", "closed"}] /\ conn'[t] = "open"
        /\ \A u \in Threads \ {t} : conn'[u] = conn[u]
    BY <1>5 DEF Core, Storage
  <2>3. /\ call[t].op = "init" /\ instance # t /\ conn[t] = "none"
        /\ \A u \in Threads : db[u] # t
    BY <1>1, <1>2 DEF ThreadOK
  <2>4. ThreadOK(t)'
    <3>1. \A u \in Threads : db'[u] = t => u = t
      BY <2>1, <2>3, OthersStay
    <3>2. QED
      BY <1>1, <1>2, <2>1, <2>2, <2>3, <3>1, CreatesType DEF ThreadOK, Prepared, Inside
  <2>5. \A u \in Threads \ {t} :
               /\ db[u] # NoThread => conn'[db[u]] # "none"
               /\ Prepared(u) => conn'[db[u]] = "open"
               /\ pc[u] = "open" => conn'[u] = "none"
               /\ call[u].op = "init" => instance' # u /\ db'[t] # u
    <3> SUFFICES ASSUME NEW u \in Threads \ {t}
                 PROVE  /\ db[u] # NoThread => conn'[db[u]] # "none"
                        /\ Prepared(u) => conn'[db[u]] = "open"
                        /\ pc[u] = "open" => conn'[u] = "none"
                        /\ call[u].op = "init" => instance' # u /\ db'[t] # u
      OBVIOUS
    <3>1. db[u] \in Threads \cup {NoThread}
      BY DEF Core, Calls
    <3>2. Prepared(u) => db[u] # NoThread
      BY <1>2 DEF ThreadOK, Prepared
    <3>3. QED
      BY <1>1, <1>2, <2>1, <2>2, <2>3, <3>1, <3>2 DEF ThreadOK
  <2>6. /\ pc'[t] \in Labels /\ db'[t] \in Threads \cup {NoThread}
        /\ todo'[t] \in Seq(Seq(Stmts \cup Control))
        /\ rows'[t] \in Seq((Int \X Vals) \cup {NullRow}) /\ out'[t] \in {"ok", "failed"}
    BY <2>1, CreatesType DEF Labels, Core, Calls
  <2>7. instance' \in Threads \cup {NoThread} /\ (instance' # NoThread => conn'[instance'] # "none")
    BY <1>1, <2>2, <2>3 DEF Core, Calls
  <2>8. Calls'
    BY <2>1, <2>4, <2>5, <2>6, <2>7, CallsKept DEF Core
  <2>9. ~Reading(t)'
    BY <2>1 DEF Reading
  <2>10. \A c \in Threads : HasReader(c)' <=> HasReader(c)
    BY <1>3, <2>1, <2>9, ReadersStay DEF Core
  <2>11. \A c \in Threads : conn[c] = "open" => conn'[c] = "open"
    BY <2>2
  <2>12. QED
    BY <1>1, <2>1, <2>2, <2>8, <2>10, <2>11, StorageStays DEF Core, Grows
<1>6. QED
  BY <1>4, <1>5 DEF Open, Creates

LEMMA StoreInstanceCore ==
    ASSUME Core, NEW t \in Threads, StoreInstance(t)
    PROVE  Core' /\ Only(t) /\ Grows
<1>1. /\ pc[t] = "store" /\ instance' = t /\ End(t, "ok")
      /\ UNCHANGED <<file, conn, lock, txn, work>>
  BY DEF StoreInstance
<1>2. \A u \in Threads : ThreadOK(u) /\ u # NoThread
  BY NoThreadAssumption DEF Core, Calls
<1>3. conn[t] # "none"
  BY <1>1, <1>2 DEF ThreadOK
<1>4. Only(t) /\ db'[t] = NoThread /\ out'[t] = "ok"
  BY <1>1, EndIs DEF Core
<1>5. \A u \in Threads \ {t} :
               /\ db[u] # NoThread => conn'[db[u]] # "none"
               /\ Prepared(u) => conn'[db[u]] = "open"
               /\ pc[u] = "open" => conn'[u] = "none"
               /\ call[u].op = "init" => instance' # u /\ db'[t] # u
  BY <1>1, <1>2, <1>4 DEF ThreadOK
<1>6. ThreadOK(t)' /\ ~Reading(t)' /\ pc'[t] \in Labels
      /\ todo'[t] \in Seq(Seq(Stmts \cup Control))
      /\ rows'[t] \in Seq((Int \X Vals) \cup {NullRow})
  BY <1>1, EndThread DEF Core
<1>7. Calls'
  BY <1>1, <1>3, <1>4, <1>5, <1>6, CallsKept DEF Core
<1>8. ~Reading(t)
  BY <1>1 DEF Reading
<1>9. QED
  BY <1>1, <1>4, <1>6, <1>7, <1>8, CoreStays

(* A connection that no statement needs is closed. *)
LEMMA ClosedStorage ==
    ASSUME Core, NEW t \in Threads, Only(t), ~Reading(t), ~Reading(t)', NEW c \in Threads,
           \A u \in Threads : ~(db[u] = c /\ Prepared(u)),
           Becomes(c, Ended(c, DbOf(c))), NEW s \in {"none", "closed"},
           conn' = [conn EXCEPT ![c] = s]
    PROVE  Storage' /\ Grows
<1> DEFINE d == Ended(c, DbOf(c))
<1>1. ~HasReader(c)
  BY DEF HasReader, Reading, Prepared
<1>2. Good(c, d) /\ d.level = "none" /\ ~d.open
  BY <1>1, GoodNow, GoodEnded DEF Core
<1>3. \A e \in Threads : HasReader(e)' <=> HasReader(e)
  BY ReadersStay DEF Core
<1>4. /\ conn' \in [Threads -> {"none", "open", "closed"}]
      /\ \A e \in Threads \ {c} : conn'[e] = conn[e]
  BY DEF Core, Storage
<1> HIDE DEF d
<1>5. QED
  BY <1>2, <1>3, <1>4, StoreStep DEF Core, Grows, d

LEMMA FinalizeCore ==
    ASSUME Core, NEW t \in Threads, Finalize(t)
    PROVE  Core' /\ Only(t) /\ Grows
<1>1. /\ pc[t] = "idle" /\ instance # NoThread
      /\ \A u \in Threads : db[u] # instance
      /\ Becomes(instance, Ended(instance, DbOf(instance)))
      /\ conn' = [conn EXCEPT ![instance] = "none"]
      /\ instance' = NoThread /\ End(t, "ok")
  BY DEF Finalize
<1>2. \A u \in Threads : ThreadOK(u) /\ u # NoThread
  BY NoThreadAssumption DEF Core, Calls
<1>3. instance \in Threads
  BY <1>1 DEF Core, Calls
<1>4. Only(t) /\ db'[t] = NoThread /\ out'[t] = "ok"
  BY <1>1, EndIs DEF Core
<1>5. /\ conn'[instance] = "none"
      /\ \A e \in Threads : e # instance => conn'[e] = conn[e]
  BY <1>1, <1>3 DEF Core, Storage
<1>6. \A u \in Threads \ {t} :
               /\ db[u] # NoThread => conn'[db[u]] # "none"
               /\ Prepared(u) => conn'[db[u]] = "open"
               /\ pc[u] = "open" => conn'[u] = "none"
               /\ call[u].op = "init" => instance' # u /\ db'[t] # u
  <2> SUFFICES ASSUME NEW u \in Threads \ {t}
               PROVE  /\ db[u] # NoThread => conn'[db[u]] # "none"
                      /\ Prepared(u) => conn'[db[u]] = "open"
                      /\ pc[u] = "open" => conn'[u] = "none"
                      /\ call[u].op = "init" => instance' # u /\ db'[t] # u
    OBVIOUS
  <2>1. db[u] \in Threads \cup {NoThread} /\ db[u] # instance
    BY <1>1 DEF Core, Calls
  <2>2. Prepared(u) => db[u] # NoThread
    BY <1>2 DEF ThreadOK, Prepared
  <2>3. QED
    BY <1>1, <1>2, <1>4, <1>5, <2>1, <2>2 DEF ThreadOK
<1>7. ThreadOK(t)' /\ ~Reading(t)' /\ pc'[t] \in Labels
      /\ todo'[t] \in Seq(Seq(Stmts \cup Control))
      /\ rows'[t] \in Seq((Int \X Vals) \cup {NullRow})
  BY <1>1, EndThread DEF Core
<1>8. Calls'
  BY <1>1, <1>4, <1>6, <1>7, CallsKept DEF Core
<1>9. ~Reading(t)
  BY <1>1 DEF Reading
<1>10. Storage' /\ Grows
  BY <1>1, <1>3, <1>4, <1>7, <1>9, ClosedStorage
<1>11. QED
  BY <1>4, <1>8, <1>10 DEF Core

LEMMA StartExecCore ==
    ASSUME Core, NEW t \in Threads, NEW texts \in Seq(Seq(Stmts \cup Control)), texts # <<>>,
           StartExec(t, texts)
    PROVE  Core' /\ Only(t) /\ Grows
<1>1. /\ Ready(t) /\ db' = [db EXCEPT ![t] = instance]
      /\ Enter(t, [op |-> "exec"], "begin", texts)
      /\ UNCHANGED <<file, conn, lock, txn, work, instance>>
  BY DEF StartExec
<1>2. [op |-> "exec"] \in CallRecords /\ "begin" \in Labels /\ [op |-> "exec"].op = "exec"
  BY DEF CallRecords, Labels
<1>3. Calls' /\ Only(t) /\ ~Reading(t) /\ ~Reading(t)'
  BY <1>1, <1>2, StartCalls DEF Core
<1>4. QED
  BY <1>1, <1>3, CoreStays

(* The texts that the operations hand to Execute. *)
StartTexts(t) ==
    Save(t) \/ UpdateRecords(t) \/ DeleteRecords(t) \/ Sql(t)

LEMMA StartTextsIs ==
    ASSUME NEW t \in Threads, StartTexts(t)
    PROVE  \E texts \in Seq(Seq(Stmts \cup Control)) : texts # <<>> /\ StartExec(t, texts)
<1>1. ASSUME NEW S, NEW ms \in Vectors(S)
      PROVE  /\ Len(ms) \in Nat /\ Len(ms) # 0 /\ DOMAIN ms = 1..Len(ms)
             /\ \A k \in 1..Len(ms) : ms[k] \in S
  <2>1. PICK n \in 1..MaxBatch : ms \in [1..n -> S]
    BY DEF Vectors
  <2>2. n \in Nat /\ n # 0
    BY BoundsAssumption
  <2>3. Len(ms) = n
    BY <2>1, <2>2
  <2>4. QED
    BY <2>1, <2>2, <2>3
<1>2. \A m \in Models : m \in [id : Int, val : Vals]
  BY IdsAssumption DEF Models
<1>3. ASSUME NEW r \in Registered, NEW ms \in Vectors(Models)
      PROVE  /\ [k \in DOMAIN ms |-> <<Insert(r, ms[k])>>] \in Seq(Seq(Stmts \cup Control))
             /\ [k \in DOMAIN ms |-> <<Insert(r, ms[k])>>] # <<>>
             /\ [k \in DOMAIN ms |-> <<Update(r, ms[k])>>] \in Seq(Seq(Stmts \cup Control))
             /\ [k \in DOMAIN ms |-> <<Update(r, ms[k])>>] # <<>>
  <2>1. /\ Len(ms) \in Nat /\ Len(ms) # 0 /\ DOMAIN ms = 1..Len(ms)
        /\ \A k \in 1..Len(ms) : ms[k] \in Models
    BY <1>1
  <2>2. \A k \in 1..Len(ms) : /\ <<Insert(r, ms[k])>> \in Seq(Stmts \cup Control)
                              /\ <<Update(r, ms[k])>> \in Seq(Stmts \cup Control)
    BY <1>2, <2>1, TextsType
  <2>3. QED
    BY <2>1, <2>2
<1>4. ASSUME NEW r \in Registered, NEW i \in Ids
      PROVE  <<<<Delete(r, EqualId(i))>>>> \in Seq(Seq(Stmts \cup Control))
  <2>1. Delete(r, EqualId(i)) \in Stmts \cup Control
    BY TextsType, IdsAssumption
  <2>2. QED
    BY <2>1
<1>5. CASE Save(t)
  BY <1>3, <1>5 DEF Save
<1>6. CASE UpdateRecords(t)
  BY <1>3, <1>6 DEF UpdateRecords
<1>7. CASE DeleteRecords(t)
  <2>1. PICK r \in Registered, i \in Ids : StartExec(t, <<<<Delete(r, EqualId(i))>>>>)
    BY <1>7 DEF DeleteRecords
  <2>2. <<<<Delete(r, EqualId(i))>>>> # <<>>
    OBVIOUS
  <2>3. QED
    BY <1>4, <2>1, <2>2
<1>8. CASE Sql(t)
  <2>1. PICK text \in Scripts : StartExec(t, <<text>>)
    BY <1>8 DEF Sql
  <2>2. <<text>> \in Seq(Seq(Stmts \cup Control)) /\ <<text>> # <<>>
    BY ScriptsAssumption
  <2>3. QED
    BY <2>1, <2>2
<1>9. QED
  BY <1>5, <1>6, <1>7, <1>8 DEF StartTexts

LEMMA StartTextsCore ==
    ASSUME Core, NEW t \in Threads, StartTexts(t)
    PROVE  Core' /\ Only(t) /\ Grows
BY StartTextsIs, StartExecCore

LEMMA FetchCore ==
    ASSUME Core, NEW t \in Threads, Fetch(t)
    PROVE  Core' /\ Only(t) /\ Grows
<1>1. PICK r \in Registered, w \in {EmptyPredicate, BadPredicate} :
         /\ Ready(t)
         /\ \/ /\ conn[instance] = "open" /\ w # BadPredicate
               /\ db' = [db EXCEPT ![t] = instance]
               /\ Enter(t, [op |-> "fetch", type |-> r, where |-> w], "step", <<>>)
               /\ UNCHANGED <<file, conn, lock, txn, work>>
            \/ conn[instance] = "open" /\ w = BadPredicate /\ Close(instance) /\ End(t, "failed")
            \/ /\ conn[instance] # "open"
               /\ End(t, "failed")
               /\ UNCHANGED <<file, conn, lock, txn, work>>
         /\ UNCHANGED instance
  BY DEF Fetch
<1>2. pc[t] = "idle" /\ instance # NoThread /\ ~Reading(t)
  BY <1>1 DEF Ready, Reading
<1>3. CASE /\ conn[instance] = "open" /\ w # BadPredicate
           /\ db' = [db EXCEPT ![t] = instance]
           /\ Enter(t, [op |-> "fetch", type |-> r, where |-> w], "step", <<>>)
           /\ UNCHANGED <<file, conn, lock, txn, work>>
  <2> DEFINE c == [op |-> "fetch", type |-> r, where |-> w]
  <2>1. r \in Types
    BY TextsType
  <2>2. c \in CallRecords /\ c.op = "fetch" /\ c.type \in Registered
    BY <1>3, <2>1 DEF CallRecords
  <2>3. "step" \in Labels /\ <<>> \in Seq(Seq(Stmts \cup Control))
    BY DEF Labels
  <2> HIDE DEF c
  <2>4. Enter(t, c, "step", <<>>)
    BY <1>3 DEF c
  <2>5. Calls' /\ Only(t) /\ ~Reading(t)'
    BY <1>1, <1>3, <2>2, <2>3, <2>4, StartCalls DEF Core
  <2>6. QED
    BY <1>2, <1>3, <2>5, CoreStays
<1>4. CASE End(t, "failed") /\ UNCHANGED <<file, conn, lock, txn, work>>
  BY <1>1, <1>2, <1>4, CoreStays, EndCalls, EndIs, EndThread DEF Core
<1>5. CASE /\ \A u \in Threads : ~(db[u] = instance /\ Prepared(u))
           /\ Becomes(instance, Ended(instance, DbOf(instance)))
           /\ conn' = [conn EXCEPT ![instance] = "closed"]
           /\ conn[instance] = "open"
           /\ End(t, "failed")
  <2>1. \A u \in Threads : ThreadOK(u) /\ u # NoThread
    BY NoThreadAssumption DEF Core, Calls
  <2>2. instance \in Threads
    BY <1>2 DEF Core, Calls
  <2>3. Only(t) /\ db'[t] = NoThread /\ out'[t] = "failed"
    BY <1>5, EndIs DEF Core
  <2>4. /\ conn'[instance] = "closed"
        /\ \A e \in Threads : e # instance => conn'[e] = conn[e]
    BY <1>5, <2>2 DEF Core, Storage
  <2>5. \A u \in Threads \ {t} :
               /\ db[u] # NoThread => conn'[db[u]] # "none"
               /\ Prepared(u) => conn'[db[u]] = "open"
               /\ pc[u] = "open" => conn'[u] = "none"
               /\ call[u].op = "init" => instance' # u /\ db'[t] # u
    <3> SUFFICES ASSUME NEW u \in Threads \ {t}
                 PROVE  /\ db[u] # NoThread => conn'[db[u]] # "none"
                        /\ Prepared(u) => conn'[db[u]] = "open"
                        /\ pc[u] = "open" => conn'[u] = "none"
                        /\ call[u].op = "init" => instance' # u /\ db'[t] # u
      OBVIOUS
    <3>1. db[u] \in Threads \cup {NoThread}
      BY DEF Core, Calls
    <3>2. Prepared(u) => db[u] # NoThread /\ db[u] # instance
      BY <1>5, <2>1 DEF ThreadOK, Prepared
    <3>3. QED
      BY <1>1, <1>5, <2>1, <2>3, <2>4, <3>1, <3>2 DEF ThreadOK
  <2>6. ThreadOK(t)' /\ ~Reading(t)' /\ pc'[t] \in Labels
        /\ todo'[t] \in Seq(Seq(Stmts \cup Control))
        /\ rows'[t] \in Seq((Int \X Vals) \cup {NullRow})
    BY <1>5, EndThread DEF Core
  <2>7. instance' \in Threads \cup {NoThread} /\ (instance' # NoThread => conn'[instance'] # "none")
    BY <1>1, <2>2, <2>4
  <2>8. Calls'
    BY <2>3, <2>5, <2>6, <2>7, CallsKept DEF Core
  <2>9. Storage' /\ Grows
    <3>1. PICK s \in {"none", "closed"} : s = "closed"
      OBVIOUS
    <3>2. conn' = [conn EXCEPT ![instance] = s]
      BY <1>5, <3>1
    <3>3. QED
      BY <1>2, <1>5, <2>2, <2>3, <2>6, <3>2, ClosedStorage
  <2>10. QED
    BY <2>3, <2>8, <2>9 DEF Core
<1>6. QED
  BY <1>1, <1>3, <1>4, <1>5 DEF Close

LEMMA SaveAutoIncrementCore ==
    ASSUME Core, NEW t \in Threads, SaveAutoIncrement(t)
    PROVE  Core' /\ Only(t) /\ Grows
<1>1. PICK r \in Registered, vs \in Vectors(Vals) :
         StartMax(t, [op |-> "autosave", type |-> r, vals |-> vs])
  BY DEF SaveAutoIncrement
<1> DEFINE c == [op |-> "autosave", type |-> r, vals |-> vs]
<1>2. vs \in Seq(Vals)
  <2>1. PICK n \in 1..MaxBatch : vs \in [1..n -> Vals]
    BY DEF Vectors
  <2>2. n \in Nat
    BY BoundsAssumption
  <2>3. QED
    BY <2>1, <2>2
<1>3. r \in Types
  BY TextsType
<1>4. c \in CallRecords /\ c.op = "autosave" /\ c.type \in Registered
  BY <1>2, <1>3 DEF CallRecords
<1>5. "maxstep" \in Labels /\ <<>> \in Seq(Seq(Stmts \cup Control))
  BY DEF Labels
<1> HIDE DEF c
<1>6. StartMax(t, c)
  BY <1>1 DEF c
<1>7. Ready(t) /\ ~Reading(t) /\ UNCHANGED <<file, conn, lock, txn, work, instance>>
  BY <1>6 DEF StartMax, Ready, Reading
<1>8. CASE End(t, "failed")
  BY <1>7, <1>8, CoreStays, EndCalls, EndIs, EndThread DEF Core
<1>9. CASE /\ conn[instance] = "open"
           /\ db' = [db EXCEPT ![t] = instance]
           /\ Enter(t, c, "maxstep", <<>>)
  <2>1. Calls' /\ Only(t) /\ ~Reading(t)'
    BY <1>4, <1>5, <1>7, <1>9, StartCalls DEF Core
  <2>2. QED
    BY <1>7, <2>1, CoreStays
<1>10. QED
  BY <1>6, <1>8, <1>9 DEF StartMax

(* A statement of t reads, or goes on reading. *)
LEMMA ReadsStorage ==
    ASSUME Core, NEW t \in Threads, Prepared(t), Only(t), Reading(t)', db'[t] = db[t],
           lock' = [lock EXCEPT ![db[t]] = IF @ = "none" THEN "shared" ELSE @],
           UNCHANGED <<file, conn, txn, work>>
    PROVE  Storage' /\ Grows
<1>0. PICK c : c = db[t]
  OBVIOUS
<1> DEFINE l == IF lock[c] = "none" THEN "shared" ELSE lock[c]
<1>1. c \in Threads /\ conn[c] = "open"
  BY <1>0, ThreadDb DEF Core, Calls, ThreadOK, Prepared
<1>2. l \in LockLevels /\ l # "none" /\ (lock[c] \in WriteLocks \/ l \in WriteLocks => l = lock[c])
  BY <1>1 DEF Core, Storage, LockLevels, WriteLocks
<1>3. lock' = [lock EXCEPT ![c] = l]
  BY <1>0, <1>1 DEF Core, Storage
<1>4. HasReader(c)'
  BY <1>0 DEF HasReader
<1>5. \A e \in Threads \ {c} : HasReader(e)' <=> HasReader(e)
  BY <1>0, OthersStay DEF HasReader
<1> HIDE DEF l
<1>6. Storage'
  BY <1>1, <1>2, <1>3, <1>4, <1>5, LockStep DEF Core
<1>7. QED
  BY <1>6 DEF Grows

(* A statement of t stops reading. *)
LEMMA StopsStorage ==
    ASSUME Core, NEW t \in Threads, Prepared(t), Only(t), ~Reading(t)', StopsReading(t),
           UNCHANGED <<file, conn, txn, work>>
    PROVE  Storage' /\ Grows
<1>0. PICK c : c = db[t]
  OBVIOUS
<1> DEFINE keeps == txn[c] \/ \E u \in Threads \ {t} : db[u] = c /\ Reading(u)
           l == IF keeps THEN lock[c] ELSE "none"
<1>1. c \in Threads /\ conn[c] = "open"
  BY <1>0, ThreadDb DEF Core, Calls, ThreadOK, Prepared
<1>2. lock' = [lock EXCEPT ![c] = l]
  BY <1>0, <1>1 DEF StopsReading, Core, Storage
<1>3. HasReader(c)' <=> \E u \in Threads \ {t} : db[u] = c /\ Reading(u)
  BY OthersStay DEF HasReader
<1>4. \A e \in Threads \ {c} : HasReader(e)' <=> HasReader(e)
  <2>1. ASSUME NEW e \in Threads \ {c}, HasReader(e) PROVE HasReader(e)'
    <3>1. PICK u \in Threads : db[u] = e /\ Reading(u)
      BY <2>1 DEF HasReader
    <3>2. u # t
      BY <1>0, <2>1, <3>1
    <3>3. QED
      BY <3>1, <3>2, OthersStay DEF HasReader
  <2>2. ASSUME NEW e \in Threads \ {c}, HasReader(e)' PROVE HasReader(e)
    <3>1. PICK u \in Threads : db'[u] = e /\ Reading(u)'
      BY <2>2 DEF HasReader
    <3>2. u # t
      BY <3>1
    <3>3. QED
      BY <3>1, <3>2, OthersStay DEF HasReader
  <2>3. QED
    BY <2>1, <2>2
<1>5. l \in LockLevels
  BY <1>1 DEF Core, Storage, LockLevels
<1>6. lock[c] \in WriteLocks \/ l \in WriteLocks => l = lock[c]
  <2>1. lock[c] \in WriteLocks => txn[c]
    BY <1>1 DEF Core, Storage, Writing
  <2>2. "none" \notin WriteLocks
    BY DEF WriteLocks
  <2>3. QED
    BY <2>1, <2>2
<1>7. l = "shared" => txn[c] \/ HasReader(c)'
  BY <1>3
<1>8. HasReader(c)' => l # "none"
  <2>1. HasReader(c)' => keeps /\ HasReader(c)
    BY <1>3 DEF HasReader
  <2>2. QED
    BY <1>1, <2>1 DEF Core, Storage
<1> HIDE DEF l, keeps
<1>9. Storage'
  BY <1>1, <1>2, <1>4, <1>5, <1>6, <1>7, <1>8, LockStep DEF Core
<1>10. QED
  BY <1>9 DEF Grows

(* The table that an operation of instance_ reads is there. *)
LEMMA TableThere ==
    ASSUME Core, Tables, NEW t \in Threads, call[t].op \in {"fetch", "autosave"},
           pc[t] \notin {"idle", "open"}
    PROVE  IsTable(View(db[t])[call[t].type])
<1>1. db[t] \in Threads /\ db[t] # NoThread
  BY ThreadDb DEF Core
<1>2. call[t].type \in Registered /\ call[t].op # "init"
  BY DEF Core, Calls, ThreadOK
<1>3. call[t].type \in DOMAIN file
  BY <1>1, <1>2 DEF Tables, TablesOK
<1>4. IsContents(View(db[t])) /\ DOMAIN file \subseteq DOMAIN View(db[t])
  BY <1>1 DEF Core, Storage, View
<1>5. QED
  BY <1>3, <1>4 DEF IsContents

LEMMA StepRowCore ==
    ASSUME Core, Tables, NEW t \in Threads, StepRow(t)
    PROVE  Core' /\ Only(t) /\ Grows
<1>1. /\ pc[t] = "step"
      /\ lock' = [lock EXCEPT ![db[t]] = IF @ = "none" THEN "shared" ELSE @]
      /\ UNCHANGED <<file, conn, txn, work, instance, pc, db, call, todo, out>>
  BY DEF StepRow, MayStep
<1>2. PICK i \in Unread(t) :
         rows' = [rows EXCEPT ![t] = Append(@, <<i, View(db[t])[call[t].type][i]>>)]
  BY DEF StepRow
<1> DEFINE table == View(db[t])[call[t].type]
           row == <<i, table[i]>>
<1>3. ThreadOK(t)
  BY DEF Core, Calls
<1>4. IsTable(table)
  BY <1>1, <1>3, TableThere DEF ThreadOK
<1>5. row \in Int \X Vals /\ row # NullRow
  BY <1>4, NullRowAssumption DEF IsTable, Unread, Selected
<1> HIDE DEF table, row
<1>6. rows[t] \in Seq((Int \X Vals) \cup {NullRow})
  BY DEF Core, Calls
<1>7. Only(t) /\ rows'[t] = Append(rows[t], row)
  BY <1>1, <1>2, Functions, StaysExcept, StaysSame DEF Core, Only, row, table
<1>8. rows'[t] \in Seq((Int \X Vals) \cup {NullRow}) /\ Len(rows[t]) + 1 \in Read(t)'
  BY <1>5, <1>6, <1>7 DEF Read
<1>9. ThreadOK(t)'
  BY <1>1, <1>3, <1>7 DEF ThreadOK, Prepared, Inside
<1>10. pc'[t] \in Labels /\ todo'[t] \in Seq(Seq(Stmts \cup Control)) /\ out'[t] \in {"ok", "failed"}
  BY <1>1 DEF Core, Calls
<1>11. Calls'
  BY <1>1, <1>7, <1>8, <1>9, <1>10, GoesOn DEF Core
<1>12. Prepared(t) /\ Reading(t)'
  BY <1>1, <1>8 DEF Prepared, Reading
<1>13. QED
  BY <1>1, <1>7, <1>11, <1>12, ReadsStorage DEF Core

LEMMA StepBusyCore ==
    ASSUME Core, NEW t \in Threads, StepBusy(t)
    PROVE  Core' /\ Only(t) /\ Grows
<1>1. /\ pc[t] = "step" /\ ~MayRead(db[t])
      /\ rows' = [rows EXCEPT ![t] = IF Len(@) < MaxBusy THEN Append(@, NullRow) ELSE @]
      /\ UNCHANGED <<file, conn, lock, txn, work, instance, pc, db, call, todo, out>>
  BY DEF StepBusy
<1>2. ThreadOK(t) /\ db[t] \in Threads
  BY <1>1, ThreadDb DEF Core, Calls
<1>3. ~Reading(t)
  <2>1. lock[db[t]] = "none"
    BY <1>1 DEF MayRead
  <2>2. QED
    BY <1>2, <2>1 DEF Core, Storage, HasReader
<1>4. rows[t] \in Seq((Int \X Vals) \cup {NullRow})
  BY DEF Core, Calls
<1>5. /\ Only(t)
      /\ rows'[t] = IF Len(rows[t]) < MaxBusy THEN Append(rows[t], NullRow) ELSE rows[t]
  BY <1>1, Functions, StaysExcept, StaysSame DEF Core, Only
<1>6. rows'[t] \in Seq((Int \X Vals) \cup {NullRow})
  BY <1>4, <1>5
<1>7. ~Reading(t)'
  <2>1. Read(t) = {}
    BY <1>1, <1>3 DEF Reading
  <2>2. Read(t)' = {}
    BY <1>4, <1>5, <2>1 DEF Read
  <2>3. QED
    BY <1>1, <2>2 DEF Reading
<1>8. ThreadOK(t)'
  BY <1>1, <1>2, <1>5 DEF ThreadOK, Prepared, Inside
<1>9. pc'[t] \in Labels /\ todo'[t] \in Seq(Seq(Stmts \cup Control)) /\ out'[t] \in {"ok", "failed"}
  BY <1>1 DEF Core, Calls
<1>10. Calls'
  BY <1>1, <1>5, <1>6, <1>8, <1>9, GoesOn DEF Core
<1>11. QED
  BY <1>1, <1>3, <1>5, <1>7, <1>10, CoreStays

LEMMA StepDoneCore ==
    ASSUME Core, NEW t \in Threads, StepDone(t)
    PROVE  Core' /\ Only(t) /\ Grows
<1>1. /\ pc[t] = "step" /\ StopsReading(t) /\ End(t, "ok")
      /\ UNCHANGED <<file, conn, txn, work, instance>>
  BY DEF StepDone, MayStep
<1>2. Calls' /\ Only(t) /\ ~Reading(t)'
  BY <1>1, EndCalls, EndIs, EndThread DEF Core
<1>3. Prepared(t)
  BY <1>1 DEF Prepared
<1>4. QED
  BY <1>1, <1>2, <1>3, StopsStorage DEF Core

LEMMA ColumnIntType == \A n \in Int : ColumnInt(n) \in Int
<1>1. \A n \in Int : (n + IntHalf) % (2 * IntHalf) \in Int
  BY IntHalfAssumption
<1>2. QED
  BY <1>1, IntHalfAssumption DEF ColumnInt

LEMMA MaxStepCore ==
    ASSUME Core, Tables, NEW t \in Threads, MaxStep(t)
    PROVE  Core' /\ Only(t) /\ Grows
<1>1. pc[t] = "maxstep" /\ UNCHANGED <<file, conn, txn, work, instance>>
  BY DEF MaxStep
<1>2. ThreadOK(t) /\ call[t].op = "autosave" /\ Prepared(t) /\ ~Reading(t)
  BY <1>1 DEF Core, Calls, ThreadOK, Prepared, Reading
<1>3. CASE End(t, "failed") /\ UNCHANGED lock
  BY <1>1, <1>2, <1>3, CoreStays, EndCalls, EndIs, EndThread DEF Core
<1>4. CASE /\ MayRead(db[t])
           /\ lock' = [lock EXCEPT ![db[t]] = IF @ = "none" THEN "shared" ELSE @]
           /\ todo' = [todo EXCEPT ![t] =
                 AutoInserts(call[t].type, call[t].vals,
                             ColumnInt(Greatest(View(db[t])[call[t].type])))]
           /\ Goto(t, "maxfinalize")
           /\ UNCHANGED <<db, call, rows, out>>
  <2> DEFINE base == ColumnInt(Greatest(View(db[t])[call[t].type]))
             list == AutoInserts(call[t].type, call[t].vals, base)
  <2>1. base \in Int
    BY <1>1, <1>2, TableThere, GreatestType, ColumnIntType
  <2>2. call[t].type \in Registered /\ call[t].vals \in Seq(Vals)
    BY <1>2 DEF ThreadOK, CallRecords, NoCall
  <2>3. list \in Seq(Seq(Stmts \cup Control))
    <3> DEFINE vs == call[t].vals
    <3>1. /\ Len(vs) \in Nat /\ DOMAIN vs = 1..Len(vs) /\ \A k \in 1..Len(vs) : vs[k] \in Vals
      BY <2>2
    <3> HIDE DEF vs, base
    <3>2. \A k \in 1..Len(vs) : [id |-> base + k, val |-> vs[k]] \in [id : Int, val : Vals]
      BY <2>1, <3>1
    <3>3. \A k \in 1..Len(vs) :
             <<Insert(call[t].type, [id |-> base + k, val |-> vs[k]])>> \in Seq(Stmts \cup Control)
      BY <2>2, <3>2, TextsType
    <3>4. QED
      BY <3>1, <3>3 DEF AutoInserts, vs
  <2> HIDE DEF list, base
  <2>4. Only(t) /\ pc'[t] = "maxfinalize" /\ todo'[t] = list
    BY <1>4, Functions, StaysExcept, StaysSame DEF Core, Only, Goto, list, base
  <2>5. ThreadOK(t)'
    BY <1>1, <1>2, <1>4, <2>4 DEF ThreadOK, Prepared, Inside
  <2>6. pc'[t] \in Labels /\ rows'[t] \in Seq((Int \X Vals) \cup {NullRow}) /\ out'[t] \in {"ok", "failed"}
    BY <1>4, <2>4 DEF Core, Calls, Labels
  <2>7. Calls'
    BY <1>1, <1>4, <2>3, <2>4, <2>5, <2>6, GoesOn DEF Core
  <2>8. Reading(t)' /\ db'[t] = db[t]
    BY <1>4, <2>4 DEF Reading
  <2>9. QED
    BY <1>1, <1>2, <1>4, <2>4, <2>7, <2>8, ReadsStorage DEF Core
<1>5. QED
  BY <1>3, <1>4 DEF MaxStep

LEMMA MaxFinalizeCore ==
    ASSUME Core, NEW t \in Threads, MaxFinalize(t)
    PROVE  Core' /\ Only(t) /\ Grows
<1>1. /\ pc[t] = "maxfinalize" /\ StopsReading(t) /\ Proceed(t, todo[t])
      /\ UNCHANGED <<file, conn, txn, work, instance>>
  BY DEF MaxFinalize
<1>2. todo[t] \in Seq(Seq(Stmts \cup Control)) /\ Prepared(t)
  BY <1>1 DEF Core, Calls, Prepared
<1>3. Calls' /\ Only(t) /\ ~Reading(t)'
  BY <1>1, <1>2, ProceedCalls DEF Core
<1>4. QED
  BY <1>1, <1>2, <1>3, StopsStorage DEF Core

(* The actions of a thread, apart from what history keeps of them. *)
LEMMA StepCore ==
    ASSUME Core, Tables, NEW t \in Threads, Step(t)
    PROVE  Core' /\ Only(t) /\ Grows
<1>1. StartTexts(t) => Core' /\ Only(t) /\ Grows
  BY StartTextsCore
<1>2. QED
  BY <1>1, InitializeCore, OpenCore, StoreInstanceCore, FinalizeCore, FetchCore,
     SaveAutoIncrementCore, BeginCore, ExecTextCore, RollbackCore, CommitCore, StepRowCore,
     StepBusyCore, StepDoneCore, MaxStepCore, MaxFinalizeCore DEF Step, StartTexts

-----------------------------------------------------------------------------
(* What the four calls of Execute do. *)

LEMMA BeginResult ==
    ASSUME Core, NEW c \in Threads
    PROVE  LET d == Exec(c, <<BEGIN>>) IN
           /\ d.data = file /\ d.level = lock[c] /\ d.draft = work[c]
           /\ d.ok => d.open /\ conn[c] = "open" /\ ~txn[c]
           /\ ~d.ok => (d.open <=> txn[c])
<1> DEFINE d == Exec(c, <<BEGIN>>)
           b == DbOf(c)
<1>1. /\ Good(c, b) /\ b.ok /\ b.data = file /\ b.level = lock[c] /\ b.draft = work[c]
      /\ (b.open <=> txn[c])
  BY GoodNow DEF Core, DbOf
<1>2. CASE conn[c] = "open" /\ ~b.open
  <2>1. d = [b EXCEPT !.open = TRUE]
    <3>1. d = BeginPart(b)
      BY <1>2, ExecOne, PartIs
    <3> HIDE DEF b, d
    <3>2. QED
      BY <1>2, <3>1 DEF BeginPart
  <2> HIDE DEF b, d
  <2>2. d.data = b.data /\ d.level = b.level /\ d.draft = b.draft /\ d.open /\ d.ok
    BY <1>1, <2>1 DEF Good
  <2>3. QED
    BY <1>1, <1>2, <2>2 DEF d
<1>3. CASE conn[c] # "open" \/ b.open
  <2>1. d = Fails(b)
    BY <1>3, ExecOne, ExecClosed, PartIs DEF BeginPart
  <2> HIDE DEF b, d
  <2>2. d.data = b.data /\ d.level = b.level /\ d.draft = b.draft /\ (d.open <=> b.open) /\ ~d.ok
    BY <1>1, <2>1, GoodFails
  <2>3. QED
    BY <1>1, <2>2 DEF d
<1>4. QED
  BY <1>2, <1>3

LEMMA RollbackResult ==
    ASSUME Core, NEW c \in Threads
    PROVE  LET d == Exec(c, <<ROLLBACK>>) IN d.data = file /\ ~d.open
<1> DEFINE d == Exec(c, <<ROLLBACK>>)
           b == DbOf(c)
<1>1. /\ Good(c, b) /\ b.data = file /\ (b.open <=> txn[c])
      /\ conn[c] # "open" => ~txn[c]
  BY GoodNow DEF Core, DbOf, Storage
<1>2. CASE conn[c] = "open" /\ b.open
  <2>1. d = Ended(c, b)
    BY <1>2, ExecOne, PartIs DEF RollbackPart
  <2> HIDE DEF b, d
  <2>2. QED
    BY <1>1, <2>1, GoodEnded DEF d
<1>3. CASE conn[c] # "open" \/ ~b.open
  <2>1. d = Fails(b)
    BY <1>3, ExecOne, ExecClosed, PartIs DEF RollbackPart
  <2> HIDE DEF b, d
  <2>2. QED
    BY <1>1, <1>3, <2>1, GoodFails DEF d
<1>4. QED
  BY <1>2, <1>3

LEMMA CommitResult ==
    ASSUME Core, NEW c \in Threads
    PROVE  LET d == Exec(c, <<COMMIT>>) IN
           /\ d.ok => conn[c] = "open" /\ txn[c] /\ d.data = View(c) /\ ~d.open
           /\ ~d.ok => d.data = file /\ (d.open => d.level = "pending")
<1> DEFINE d == Exec(c, <<COMMIT>>)
           b == DbOf(c)
           refused == b.level \in WriteLocks /\ ~MayExclude(c)
<1>1. /\ Good(c, b) /\ b.ok /\ b.data = file /\ (b.open <=> txn[c]) /\ Contents(b) = View(c)
      /\ conn[c] # "open" => ~txn[c]
  BY GoodNow DEF Core, DbOf, Storage, Contents, View, Writing
<1>2. CASE conn[c] = "open" /\ b.open /\ ~refused
  <2> DEFINE x == [b EXCEPT !.data = Contents(b)]
  <2>1. d = Ended(c, x)
    BY <1>2, ExecOne, PartIs DEF CommitPart
  <2> HIDE DEF b, refused
  <2>2. (x.ok <=> b.ok) /\ x.data = Contents(b)
    BY <1>1 DEF Good
  <2>3. Good(c, x)
    BY <1>1, <1>2 DEF Good, Contents, refused
  <2> HIDE DEF x
  <2>4. (d.ok <=> x.ok) /\ d.data = x.data /\ ~d.open
    BY <2>1, <2>3, GoodEnded DEF d
  <2>5. d.ok /\ d.data = View(c)
    BY <1>1, <2>2, <2>4
  <2>6. QED
    BY <1>1, <1>2, <2>4, <2>5 DEF d
<1>3. CASE conn[c] = "open" /\ b.open /\ refused
  <2> DEFINE x == [b EXCEPT !.level = "pending"]
  <2>1. d = Fails(x)
    BY <1>3, ExecOne, PartIs DEF CommitPart
  <2> HIDE DEF b, refused
  <2>2. Good(c, x) /\ x.data = b.data /\ x.level = "pending"
    BY <1>1, <1>3 DEF Good, LockLevels, WriteLocks, refused
  <2> HIDE DEF x
  <2>3. ~d.ok /\ d.data = b.data /\ d.level = "pending"
    BY <2>1, <2>2, GoodFails
  <2>4. QED
    BY <1>1, <2>3 DEF d
<1>4. CASE conn[c] # "open" \/ ~b.open
  <2>1. d = Fails(b)
    BY <1>4, ExecOne, ExecClosed, PartIs DEF CommitPart
  <2> HIDE DEF b, d
  <2>2. ~d.ok /\ d.data = b.data /\ (d.open <=> b.open)
    BY <1>1, <2>1, GoodFails
  <2>3. QED
    BY <1>1, <1>4, <2>2 DEF d
<1>5. QED
  BY <1>2, <1>3, <1>4

-----------------------------------------------------------------------------
(* The steps by what they do to the file and to transactions: the calls of *)
(* Execute, a connection that is closed, and all others.                   *)

Drops(t) ==
    /\ pc[t] = "idle" /\ pc'[t] = "idle" /\ instance \in Threads
    /\ \A u \in Threads : ~(db[u] = instance /\ Prepared(u))
    /\ Becomes(instance, Ended(instance, DbOf(instance)))
    /\ conn'[instance] # "open"
    /\ \A c \in Threads : c # instance => conn'[c] = conn[c]
    /\ instance' \in {instance, NoThread}

Quiet(t) ==
    /\ ~Inside(t) /\ ~Inside(t)'
    /\ UNCHANGED <<file, txn, work>>
    /\ \A c \in Threads : lock[c] \in WriteLocks \/ lock'[c] \in WriteLocks => lock'[c] = lock[c]
    /\ \A c \in Threads : conn'[c] = conn[c] \/ conn[c] = "none"

LEMMA QuietLocks ==
    ASSUME Core, NEW t \in Threads, ~Inside(t), ~Inside(t)',
           UNCHANGED <<file, conn, lock, txn, work>>
    PROVE  Quiet(t)
BY DEF Quiet

LEMMA QuietReads ==
    ASSUME Core, NEW t \in Threads, ~Inside(t), ~Inside(t)', db[t] \in Threads,
           UNCHANGED <<file, conn, txn, work>>,
           \/ lock' = [lock EXCEPT ![db[t]] = IF @ = "none" THEN "shared" ELSE @]
           \/ StopsReading(t)
    PROVE  Quiet(t)
<1>1. \A c \in Threads : lock[c] \in WriteLocks \/ lock'[c] \in WriteLocks => lock'[c] = lock[c]
  <2>1. "none" \notin WriteLocks /\ "shared" \notin WriteLocks
    BY DEF WriteLocks
  <2>2. lock[db[t]] \in WriteLocks => txn[db[t]]
    BY DEF Core, Storage, Writing
  <2>3. CASE lock' = [lock EXCEPT ![db[t]] = IF @ = "none" THEN "shared" ELSE @]
    BY <2>1, <2>3 DEF Core, Storage
  <2>4. CASE StopsReading(t)
    <3> DEFINE keeps == txn[db[t]] \/ (\E u \in Threads \ {t} : db[u] = db[t] /\ Reading(u))
    <3>1. lock' = [lock EXCEPT ![db[t]] = IF keeps THEN @ ELSE "none"]
      BY <2>4 DEF StopsReading
    <3>2. lock[db[t]] \in WriteLocks => keeps
      BY <2>2
    <3> HIDE DEF keeps
    <3>3. QED
      BY <2>1, <3>1, <3>2 DEF Core, Storage
  <2>5. QED
    BY <2>3, <2>4
<1>2. QED
  BY <1>1 DEF Quiet

LEMMA StepKinds ==
    ASSUME Core, NEW t \in Threads, Step(t)
    PROVE  Begin(t) \/ ExecText(t) \/ Rollback(t) \/ Commit(t) \/ Drops(t) \/ Quiet(t)
<1>1. ASSUME NEW how, End(t, how) PROVE pc'[t] = "idle" /\ ~Inside(t)'
  BY <1>1, EndIs DEF Core, Inside
<1>2. pc \in [Threads -> Labels]
  BY DEF Core, Calls
<1>3. CASE Initialize(t)
  <2>1. pc[t] = "idle" /\ UNCHANGED <<file, conn, lock, txn, work>>
    BY <1>3 DEF Initialize
  <2>2. ~Inside(t)'
    BY <1>1, <1>2, <1>3 DEF Initialize, Enter, Goto, Inside
  <2>3. QED
    BY <2>1, <2>2, QuietLocks DEF Inside
<1>4. CASE Open(t)
  <2>1. pc[t] = "open" /\ UNCHANGED <<file, lock, txn, work>>
    BY <1>4 DEF Open
  <2>2. ~Inside(t)'
    BY <1>1, <1>2, <1>4 DEF Open, Goto, Inside
  <2>3. conn[t] = "none"
    BY <2>1 DEF Core, Calls, ThreadOK
  <2>4. \A c \in Threads : conn'[c] = conn[c] \/ conn[c] = "none"
    BY <1>4, <2>3 DEF Open, Core, Storage
  <2>5. QED
    BY <2>1, <2>2, <2>4 DEF Inside, Quiet
<1>5. CASE StoreInstance(t)
  BY <1>1, <1>5, QuietLocks DEF StoreInstance, Inside
<1>6. CASE Finalize(t)
  <2>1. instance \in Threads
    BY <1>6 DEF Core, Calls, Finalize
  <2>2. \A c \in Threads : c # instance => conn'[c] = conn[c]
    BY <1>6 DEF Finalize, Core, Storage
  <2>3. conn'[instance] # "open"
    BY <1>6, <2>1 DEF Finalize, Core, Storage
  <2>4. pc'[t] = "idle"
    BY <1>1, <1>6 DEF Finalize
  <2>5. QED
    BY <1>6, <2>1, <2>2, <2>3, <2>4 DEF Drops, Finalize
<1>7. CASE StartTexts(t)
  <2>1. PICK texts : StartExec(t, texts)
    BY <1>7, StartTextsIs
  <2>2. pc[t] = "idle" /\ UNCHANGED <<file, conn, lock, txn, work>>
    BY <2>1 DEF StartExec, Ready
  <2>3. ~Inside(t)'
    BY <1>2, <2>1 DEF StartExec, Enter, Goto, Inside
  <2>4. QED
    BY <2>2, <2>3, QuietLocks DEF Inside
<1>8. CASE Fetch(t)
  <2>1. pc[t] = "idle" /\ instance # NoThread /\ instance' = instance
    BY <1>8 DEF Fetch, Ready
  <2>2. instance \in Threads
    BY <2>1 DEF Core, Calls
  <2>3. ~Inside(t)'
    BY <1>1, <1>2, <1>8 DEF Fetch, Enter, Goto, Inside
  <2>4. CASE UNCHANGED <<file, conn, lock, txn, work>>
    BY <2>1, <2>3, <2>4, QuietLocks DEF Inside
  <2>5. CASE /\ \A u \in Threads : ~(db[u] = instance /\ Prepared(u))
             /\ Becomes(instance, Ended(instance, DbOf(instance)))
             /\ conn' = [conn EXCEPT ![instance] = "closed"]
             /\ End(t, "failed")
    <3>1. conn'[instance] # "open" /\ \A c \in Threads : c # instance => conn'[c] = conn[c]
      BY <2>2, <2>5 DEF Core, Storage
    <3>2. pc'[t] = "idle"
      BY <1>1, <2>5
    <3>3. QED
      BY <2>1, <2>2, <2>5, <3>1, <3>2 DEF Drops
  <2>6. QED
    BY <1>8, <2>4, <2>5 DEF Fetch, Close
<1>9. CASE SaveAutoIncrement(t)
  <2>1. PICK c : StartMax(t, c)
    BY <1>9 DEF SaveAutoIncrement
  <2>2. pc[t] = "idle" /\ UNCHANGED <<file, conn, lock, txn, work>>
    BY <2>1 DEF StartMax, Ready
  <2>3. ~Inside(t)'
    BY <1>1, <1>2, <2>1 DEF StartMax, Enter, Goto, Inside
  <2>4. QED
    BY <2>2, <2>3, QuietLocks DEF Inside
<1>10. CASE StepRow(t)
  <2>1. db[t] \in Threads /\ ~Inside(t)
    BY <1>10, ThreadDb DEF Core, StepRow, MayStep, Inside
  <2>2. QED
    BY <1>10, <2>1, QuietReads DEF StepRow, Inside
<1>11. CASE StepBusy(t)
  BY <1>11, QuietLocks DEF StepBusy, Inside
<1>12. CASE StepDone(t)
  <2>1. db[t] \in Threads /\ ~Inside(t)
    BY <1>12, ThreadDb DEF Core, StepDone, MayStep, Inside
  <2>2. QED
    BY <1>1, <1>12, <2>1, QuietReads DEF StepDone
<1>13. CASE MaxStep(t)
  <2>1. db[t] \in Threads /\ ~Inside(t)
    BY <1>13, ThreadDb DEF Core, MaxStep, Inside
  <2>2. ~Inside(t)'
    BY <1>1, <1>2, <1>13 DEF MaxStep, Goto, Inside
  <2>3. QED
    BY <1>13, <2>1, <2>2, QuietReads, QuietLocks DEF MaxStep
<1>14. CASE MaxFinalize(t)
  <2>1. db[t] \in Threads /\ ~Inside(t)
    BY <1>14, ThreadDb DEF Core, MaxFinalize, Inside
  <2>2. ~Inside(t)'
    BY <1>1, <1>2, <1>14 DEF MaxFinalize, Proceed, Goto, Inside
  <2>3. QED
    BY <1>14, <2>1, <2>2, QuietReads DEF MaxFinalize
<1>15. QED
  BY <1>3, <1>4, <1>5, <1>6, <1>7, <1>8, <1>9, <1>10, <1>11, <1>12, <1>13, <1>14
     DEF Step, StartTexts

(* A step of t leaves alone the transactions on every connection other     *)
(* than the one its call uses and the one that it drops.                   *)
LEMMA Elsewhere ==
    ASSUME Core, NEW t \in Threads, Step(t), NEW c \in Threads, c # db[t],
           c # instance \/ conn'[c] = "open"
    PROVE  /\ Writing(c)' <=> Writing(c)
           /\ txn'[c] = txn[c] /\ work'[c] = work[c]
           /\ lock[c] = "pending" => lock'[c] = "pending"
<1>1. ASSUME NEW e \in Threads, e # c, NEW d, Becomes(e, d)
      PROVE  lock'[c] = lock[c] /\ txn'[c] = txn[c] /\ work'[c] = work[c]
  BY <1>1 DEF Becomes, Core, Storage
<1>2. CASE Begin(t) \/ ExecText(t) \/ Rollback(t) \/ Commit(t)
  <2>1. db[t] \in Threads
    BY <1>2, ThreadDb DEF Core, Begin, ExecText, Rollback, Commit
  <2>2. lock'[c] = lock[c] /\ txn'[c] = txn[c] /\ work'[c] = work[c]
    BY <1>1, <1>2, <2>1 DEF Begin, ExecText, Rollback, Commit
  <2>3. QED
    BY <2>2 DEF Writing
<1>3. CASE Drops(t)
  BY <1>1, <1>3 DEF Drops, Writing
<1>4. CASE Quiet(t)
  BY <1>4 DEF Quiet, Writing, WriteLocks
<1>5. QED
  BY <1>2, <1>3, <1>4, StepKinds

-----------------------------------------------------------------------------
(* The tables. *)

(* A step of t leaves another thread what it had of the tables. *)
LEMMA TablesOthers ==
    ASSUME Core, Tables, NEW t \in Threads, Step(t), NEW u \in Threads, u # t
    PROVE  TablesOK(u)'
<1>1. /\ pc'[u] = pc[u] /\ db'[u] = db[u] /\ call'[u] = call[u] /\ todo'[u] = todo[u]
      /\ DOMAIN file \subseteq DOMAIN file'
  BY StepCore, OthersStay DEF Grows
<1>2. TablesOK(u)
  BY DEF Tables
<1>3. \A r : Waits(u, r)' <=> Waits(u, r)
  BY <1>1 DEF Waits
<1>4. ASSUME db[u] # NoThread, call[u].op = "init", pc[u] = "commit"
      PROVE  DOMAIN View(u) \subseteq DOMAIN View(u)'
  <2>1. instance # u /\ db[t] # u
    BY <1>4 DEF Core, Calls, ThreadOK
  <2>2. (Writing(u)' <=> Writing(u)) /\ work'[u] = work[u]
    BY <2>1, Elsewhere
  <2>3. View(u)' = IF Writing(u)' THEN work'[u] ELSE file'
    BY DEF View
  <2>4. QED
    BY <1>1, <2>2, <2>3 DEF View
<1>5. QED
  BY <1>1, <1>2, <1>3, <1>4 DEF TablesOK

(* The texts that are left after the first. *)
LEMMA WaitsTail ==
    ASSUME NEW t \in Threads, todo[t] \in Seq(Seq(Stmts \cup Control)), todo[t] # <<>>,
           todo'[t] = Tail(todo[t]), NEW r, Waits(t, r)
    PROVE  Head(todo[t]) = <<CreateTable(r)>> \/ Waits(t, r)'
<1> DEFINE list == todo[t]
<1>1. PICK j \in DOMAIN list : list[j] = <<CreateTable(r)>>
  BY DEF Waits
<1>2. Len(list) \in Nat /\ Len(list) # 0 /\ j \in 1..Len(list)
  OBVIOUS
<1>3. CASE j = 1
  BY <1>1, <1>3
<1>4. CASE j # 1
  <2>1. j - 1 \in DOMAIN Tail(list) /\ Tail(list)[j - 1] = list[j]
    BY <1>2, <1>4
  <2>2. QED
    BY <1>1, <2>1 DEF Waits
<1>5. QED
  BY <1>3, <1>4

LEMMA TablesOwn ==
    ASSUME Core, Tables, NEW t \in Threads, Step(t)
    PROVE  TablesOK(t)'
<1>1. DOMAIN file \subseteq DOMAIN file'
  BY StepCore DEF Grows
<1>2. TablesOK(t) /\ TablesExist /\ ThreadOK(t)
  BY DEF Tables, Core, Calls
<1>3. ASSUME db'[t] = db[t], call'[t] = call[t], call[t].op # "init" PROVE TablesOK(t)'
  BY <1>1, <1>2, <1>3 DEF TablesOK
<1>4. ASSUME NEW how, End(t, how) PROVE TablesOK(t)'
  BY <1>4, EndIs DEF Core, TablesOK
<1>5. ASSUME NEW c, NEW label, NEW list, Enter(t, c, label, list), c.op # "init",
             db' = [db EXCEPT ![t] = instance], Ready(t)
      PROVE  TablesOK(t)'
  <2>1. call'[t] = c
    BY <1>5 DEF Core, Calls, Enter
  <2>2. Registered \subseteq DOMAIN file
    BY <1>2, <1>5 DEF Ready, TablesExist
  <2>3. QED
    BY <1>1, <1>5, <2>1, <2>2 DEF TablesOK
<1>6. CASE Initialize(t)
  <2>1. CASE Enter(t, [op |-> "init"], "open", <<>>) /\ UNCHANGED db /\ pc[t] = "idle"
    BY <1>2, <2>1 DEF ThreadOK, TablesOK
  <2>2. QED
    BY <1>4, <1>6, <2>1 DEF Initialize
<1>7. CASE Open(t)
  <2>1. CASE /\ pc[t] = "open" /\ Goto(t, "begin") /\ todo' = [todo EXCEPT ![t] = Creates]
             /\ UNCHANGED call
    <3>1. call'[t].op = "init" /\ pc'[t] = "begin" /\ todo'[t] = Creates
      BY <1>2, <2>1 DEF ThreadOK, Goto, Core, Calls
    <3>2. ASSUME NEW r \in Registered PROVE Waits(t, r)'
      <4>1. PICK k \in DOMAIN Records : Records[k] = r
        BY DEF Registered
      <4>2. k \in DOMAIN Creates /\ Creates[k] = <<CreateTable(r)>>
        BY <4>1 DEF Creates
      <4>3. QED
        BY <3>1, <4>2 DEF Waits
    <3>3. QED
      BY <3>1, <3>2 DEF TablesOK
  <2>2. QED
    BY <1>4, <1>7, <2>1 DEF Open, Creates
<1>8. CASE StoreInstance(t) \/ Finalize(t) \/ Rollback(t) \/ StepDone(t)
  BY <1>4, <1>8 DEF StoreInstance, Finalize, Rollback, StepDone
<1>9. CASE StartTexts(t)
  <2>1. PICK texts : StartExec(t, texts)
    BY <1>9, StartTextsIs
  <2>2. [op |-> "exec"].op # "init"
    OBVIOUS
  <2>3. QED
    BY <1>5, <2>1, <2>2 DEF StartExec
<1>10. CASE Fetch(t)
  BY <1>4, <1>5, <1>10 DEF Fetch
<1>11. CASE SaveAutoIncrement(t)
  <2>1. PICK r, vs : StartMax(t, [op |-> "autosave", type |-> r, vals |-> vs])
    BY <1>11 DEF SaveAutoIncrement
  <2>2. QED
    BY <1>4, <1>5, <2>1 DEF StartMax
<1>12. CASE StepRow(t) \/ StepBusy(t)
  BY <1>2, <1>3, <1>12 DEF StepRow, StepBusy, MayStep, ThreadOK
<1>13. CASE MaxStep(t)
  BY <1>2, <1>3, <1>4, <1>13 DEF MaxStep, ThreadOK
<1>14. CASE MaxFinalize(t)
  <2>1. call[t].op # "init"
    BY <1>2, <1>14 DEF MaxFinalize, ThreadOK
  <2>2. QED
    BY <1>3, <1>4, <1>14, <2>1 DEF MaxFinalize, Proceed
<1>15. ASSUME db'[t] = db[t], call'[t] = call[t], todo'[t] = todo[t], pc'[t] # "commit"
       PROVE  TablesOK(t)'
  BY <1>1, <1>2, <1>15 DEF TablesOK, Waits
<1>16. CASE Begin(t)
  <2>1. CASE Goto(t, "exec") /\ UNCHANGED <<db, call, todo>>
    <3>1. pc'[t] = "exec"
      BY <2>1 DEF Goto, Core, Calls
    <3>2. QED
      BY <1>15, <2>1, <3>1
  <2>2. QED
    BY <1>4, <1>16, <2>1 DEF Begin
<1>17. CASE ExecText(t)
  <2> DEFINE d == Exec(db[t], Head(todo[t]))
             label == IF d.ok THEN "commit" ELSE "rollback"
  <2>1. /\ pc[t] = "exec" /\ Becomes(db[t], d) /\ pc' = [pc EXCEPT ![t] = label]
        /\ UNCHANGED <<db, call, todo>>
    BY <1>17 DEF ExecText, Goto
  <2>2. pc'[t] = label
    BY <2>1 DEF Core, Calls
  <2>3. CASE ~d.ok \/ call[t].op # "init"
    BY <1>3, <1>15, <2>1, <2>2, <2>3
  <2>4. CASE d.ok /\ call[t].op = "init"
    <3>1. db[t] = t
      BY <1>2, <2>1, <2>4 DEF ThreadOK
    <3>2. ASSUME NEW r \in Registered, Head(todo[t]) = <<CreateTable(r)>>
          PROVE  r \in DOMAIN View(t)'
      <4>1. r \in DOMAIN Contents(d)
        BY <2>4, <3>1, <3>2, ExecCreate, TextsType DEF Core
      <4> HIDE DEF d
      <4>2. file' = d.data /\ lock'[t] = d.level /\ work'[t] = d.draft
        BY <2>1, <3>1 DEF Becomes, Core, Storage
      <4>3. View(t)' = IF lock'[t] \in WriteLocks THEN work'[t] ELSE file'
        BY DEF View, Writing
      <4>4. QED
        BY <4>1, <4>2, <4>3 DEF Contents
    <3>3. \A r : Waits(t, r)' <=> Waits(t, r)
      BY <2>1 DEF Waits
    <3> HIDE DEF d, label
    <3>4. QED
      BY <1>1, <1>2, <2>1, <2>4, <3>1, <3>2, <3>3 DEF TablesOK
  <2>5. QED
    BY <2>3, <2>4
<1>18. CASE Commit(t)
  <2> DEFINE d == Exec(db[t], <<COMMIT>>)
  <2>1. pc[t] = "commit" /\ Becomes(db[t], d)
    BY <1>18 DEF Commit
  <2>2. CASE ~End(t, "failed") /\ ~End(t, "ok")
    <3>1. d.ok /\ Proceed(t, Tail(todo[t]))
      BY <1>18, <2>2 DEF Commit
    <3>2. /\ todo'[t] = Tail(todo[t]) /\ db'[t] = db[t] /\ call'[t] = call[t]
          /\ pc'[t] # "commit"
      <4>1. /\ todo'[t] = Tail(todo[t]) /\ UNCHANGED <<db, call>>
            /\ pc'[t] = IF Tail(todo[t]) = <<>> THEN "store" ELSE "begin"
        BY <2>2, <3>1, ProceedIs DEF Core
      <4>2. QED
        BY <4>1
    <3>3. CASE call[t].op # "init"
      BY <1>3, <3>2, <3>3
    <3>4. CASE call[t].op = "init"
      <4>1. db[t] = t /\ db[t] # NoThread
        BY <1>2, <2>1, <3>4, NoThreadAssumption DEF ThreadOK
      <4>2. file' = View(t)
        BY <2>1, <3>1, <4>1, CommitResult DEF Becomes
      <4>3. todo[t] # <<>> /\ todo[t] \in Seq(Seq(Stmts \cup Control))
        BY <1>2, <2>1 DEF Core, Calls, ThreadOK, Inside
      <4>4. ASSUME NEW r \in Registered PROVE r \in DOMAIN file' \/ Waits(t, r)'
        <5>1. r \in DOMAIN file \/ Waits(t, r)
          BY <1>2, <3>4, <4>1 DEF TablesOK
        <5>2. Head(todo[t]) = <<CreateTable(r)>> => r \in DOMAIN View(t)
          BY <1>2, <2>1, <3>4, <4>1 DEF TablesOK
        <5>3. Waits(t, r) => Head(todo[t]) = <<CreateTable(r)>> \/ Waits(t, r)'
          BY <3>2, <4>3, WaitsTail
        <5>4. QED
          BY <1>1, <4>2, <5>1, <5>2, <5>3
      <4>5. QED
        BY <3>2, <3>4, <4>4 DEF TablesOK
    <3>5. QED
      BY <3>3, <3>4
  <2>3. QED
    BY <1>4, <2>2
<1>19. QED
  BY <1>6, <1>7, <1>8, <1>9, <1>10, <1>11, <1>12, <1>13, <1>14, <1>16, <1>17, <1>18
     DEF Step, StartTexts

LEMMA TablesStep ==
    ASSUME Core, Tables, NEW t \in Threads, Step(t)
    PROVE  Tables'
<1>1. \A u \in Threads : TablesOK(u)'
  BY TablesOthers, TablesOwn
<1>2. DOMAIN file \subseteq DOMAIN file'
  BY StepCore DEF Grows
<1>3. TablesExist'
  <2>1. CASE StoreInstance(t)
    <3>1. /\ pc[t] = "store" /\ call[t].op = "init" /\ todo[t] = <<>> /\ db[t] # NoThread
      BY <2>1 DEF StoreInstance, Core, Calls, ThreadOK
    <3>2. \A r \in Registered : ~Waits(t, r)
      BY <3>1 DEF Waits
    <3>3. Registered \subseteq DOMAIN file
      BY <3>1, <3>2 DEF Tables, TablesOK
    <3>4. QED
      BY <1>2, <3>3 DEF TablesExist
  <2>2. CASE instance' \in {instance, NoThread}
    BY <1>2, <2>2 DEF Tables, TablesExist
  <2>3. StoreInstance(t) \/ instance' \in {instance, NoThread}
    <3>1. StartTexts(t) => instance' = instance
      BY StartTextsIs DEF StartExec
    <3>2. SaveAutoIncrement(t) => instance' = instance
      BY DEF SaveAutoIncrement, StartMax
    <3>3. QED
      BY <3>1, <3>2 DEF Step, StartTexts, Initialize, Open, Finalize, Fetch, Begin, ExecText,
         Rollback, Commit, StepRow, StepBusy, StepDone, MaxStep, MaxFinalize
  <2>4. QED
    BY <2>1, <2>2, <2>3
<1>4. QED
  BY <1>1, <1>3 DEF Tables

-----------------------------------------------------------------------------
(* Transactions. *)

LEMMA OwnedStep ==
    ASSUME Core, Tables, Owned, NEW t \in Threads, Step(t)
    PROVE  Owned'
<1>1. Only(t)
  BY StepCore
<1> SUFFICES ASSUME NEW c \in Threads, txn'[c]
             PROVE  lock'[c] = "pending" \/ \E u \in Threads : db'[u] = c /\ Inside(u)'
  BY DEF Owned
<1>2. ASSUME NEW u \in Threads, u # t, db[u] = c, Inside(u)
      PROVE  db'[u] = c /\ Inside(u)'
  BY <1>1, <1>2, OthersStay
<1>3. ASSUME txn[c], ~(db[t] = c /\ Inside(t)), lock[c] = "pending" => lock'[c] = "pending"
      PROVE  lock'[c] = "pending" \/ \E u \in Threads : db'[u] = c /\ Inside(u)'
  BY <1>2, <1>3 DEF Owned
<1>4. ASSUME NEW e \in Threads, NEW d, Becomes(e, d)
      PROVE  /\ e = c => txn'[c] = d.open /\ lock'[c] = d.level /\ work'[c] = d.draft
             /\ e # c => txn'[c] = txn[c] /\ lock'[c] = lock[c]
  BY <1>4 DEF Becomes, Core, Storage
<1>5. CASE Quiet(t)
  BY <1>3, <1>5 DEF Quiet, WriteLocks
<1>6. CASE Drops(t)
  <2>1. ~Ended(instance, DbOf(instance)).open
    BY <1>6, GoodNow, GoodEnded DEF Drops, Core
  <2>2. c # instance
    BY <1>4, <1>6, <2>1 DEF Drops
  <2>3. txn'[c] = txn[c] /\ lock'[c] = lock[c]
    BY <1>4, <1>6, <2>2 DEF Drops
  <2>4. QED
    BY <1>3, <1>6, <2>3 DEF Drops, Inside
<1>7. CASE Begin(t) \/ ExecText(t) \/ Rollback(t) \/ Commit(t)
  <2>1. db[t] \in Threads
    BY <1>7, ThreadDb DEF Core, Begin, ExecText, Rollback, Commit
  <2>2. CASE db[t] # c
    <3>1. txn'[c] = txn[c] /\ lock'[c] = lock[c]
      BY <1>4, <1>7, <2>1, <2>2 DEF Begin, ExecText, Rollback, Commit
    <3>2. QED
      BY <1>3, <2>2, <3>1
  <2>3. CASE db[t] = c /\ Begin(t)
    <3> DEFINE d == Exec(c, <<BEGIN>>)
    <3>1. Becomes(c, d) /\ pc[t] = "begin" /\ (d.ok => Goto(t, "exec") /\ UNCHANGED db)
      BY <2>3 DEF Begin
    <3>2. CASE d.ok
      <4>1. pc'[t] = "exec" /\ db'[t] = c
        BY <2>3, <3>1, <3>2 DEF Goto, Core, Calls
      <4>2. QED
        BY <4>1 DEF Inside
    <3>3. CASE ~d.ok
      <4>1. d.level = lock[c] /\ (d.open <=> txn[c])
        BY <3>3, BeginResult
      <4> HIDE DEF d
      <4>2. txn[c] /\ lock'[c] = lock[c]
        BY <1>4, <3>1, <4>1
      <4>3. QED
        BY <1>3, <3>1, <4>2 DEF Inside
    <3>4. QED
      BY <3>2, <3>3
  <2>4. CASE db[t] = c /\ ExecText(t)
    <3> DEFINE label == IF Exec(db[t], Head(todo[t])).ok THEN "commit" ELSE "rollback"
    <3>1. pc' = [pc EXCEPT ![t] = label] /\ db'[t] = c
      BY <2>4 DEF ExecText, Goto
    <3>2. pc'[t] = label
      BY <3>1 DEF Core, Calls
    <3>3. QED
      BY <3>1, <3>2 DEF Inside
  <2>5. CASE db[t] = c /\ Rollback(t)
    <3>1. ~Exec(c, <<ROLLBACK>>).open
      BY RollbackResult
    <3>2. QED
      BY <1>4, <2>5, <3>1 DEF Rollback
  <2>6. CASE db[t] = c /\ Commit(t)
    <3> DEFINE d == Exec(c, <<COMMIT>>)
    <3>1. d.open => d.level = "pending"
      BY CommitResult
    <3>2. Becomes(c, d)
      BY <2>6 DEF Commit
    <3> HIDE DEF d
    <3>3. QED
      BY <1>4, <3>1, <3>2
  <2>7. QED
    BY <1>7, <2>2, <2>3, <2>4, <2>5, <2>6
<1>8. QED
  BY <1>5, <1>6, <1>7, StepKinds

-----------------------------------------------------------------------------
(* Texts. *)

LEMMA TextPlain ==
    ASSUME Calls, NEW t \in Threads, Inside(t), ~Controls(t)
    PROVE  Head(todo[t]) \in Seq(Stmts)
<1>1. todo[t] # <<>> /\ todo[t] \in Seq(Seq(Stmts \cup Control))
  BY DEF Calls, ThreadOK
<1>2. Head(todo[t]) = todo[t][1] /\ 1 \in DOMAIN todo[t]
  BY <1>1
<1> DEFINE text == Head(todo[t])
<1>3. text \in Seq(Stmts \cup Control)
  BY <1>1
<1>4. \A j \in DOMAIN text : text[j] \notin Control
  BY <1>2 DEF Controls
<1> HIDE DEF text
<1>5. text \in [1..Len(text) -> Stmts] /\ Len(text) \in Nat
  BY <1>3, <1>4
<1>6. text \in Seq(Stmts)
  BY <1>5
<1>7. QED
  BY <1>6 DEF text

(* Until some text controls transactions, a text that is executed leaves   *)
(* the file alone, and the transaction open.                               *)
LEMMA ExecTextResult ==
    ASSUME Core, NEW t \in Threads, ExecText(t), WholeOK(t)
    PROVE  LET c == db[t] IN
           /\ file' = file
           /\ conn[c] = "open" => txn'[c]
           /\ pc'[t] = "commit" /\ conn[c] = "open" =>
                 IF Writing(c)' THEN work'[c] = TextEffect(Head(todo[t]), file)
                 ELSE \A k \in DOMAIN Head(todo[t]) : ~Writes(Head(todo[t])[k], file)
<1> DEFINE c == db[t]
           d == Exec(c, Head(todo[t]))
<1>1. /\ pc[t] = "exec" /\ Inside(t) /\ Becomes(c, d) /\ db' = db
      /\ pc' = [pc EXCEPT ![t] = IF d.ok THEN "commit" ELSE "rollback"]
  BY DEF ExecText, Goto, Inside
<1>2. c \in Threads
  BY <1>1, ThreadDb DEF Core
<1>3. pc'[t] = "commit" => d.ok
  <2> HIDE DEF d
  <2>1. pc'[t] = IF d.ok THEN "commit" ELSE "rollback"
    BY <1>1 DEF Core, Calls
  <2>2. QED
    BY <2>1
<1>4. CASE conn[c] # "open"
  <2>1. d = Fails(DbOf(c)) /\ DbOf(c).data = file
    BY <1>4, ExecClosed DEF DbOf
  <2>2. Fails(DbOf(c)).data = DbOf(c).data
    BY <1>2, GoodNow, GoodFails DEF Core
  <2>3. d.data = file
    BY <2>1, <2>2
  <2>4. QED
    BY <1>1, <1>4, <2>3 DEF Becomes
<1>5. CASE conn[c] = "open"
  <2>1. txn[c] /\ ~Writing(c) /\ Head(todo[t]) \in Seq(Stmts)
    BY <1>1, <1>5, TextPlain DEF Core, WholeOK
  <2>2. /\ d.open /\ d.data = file
        /\ d.ok => IF d.level \in WriteLocks THEN d.draft = TextEffect(Head(todo[t]), file)
                   ELSE \A k \in DOMAIN Head(todo[t]) : ~Writes(Head(todo[t])[k], file)
    BY <1>2, <1>5, <2>1, ExecInside DEF Core
  <2> HIDE DEF d
  <2>3. file' = d.data /\ lock'[c] = d.level /\ (txn'[c] <=> d.open) /\ work'[c] = d.draft
    BY <1>1, <1>2 DEF Becomes, Core, Storage
  <2>4. Writing(c)' <=> d.level \in WriteLocks
    BY <1>1, <2>3 DEF Writing
  <2>5. QED
    BY <1>3, <2>2, <2>3, <2>4
<1>6. QED
  BY <1>4, <1>5

(* A COMMIT that succeeds applies the text. *)
LEMMA CommitApplies ==
    ASSUME Core, NEW t \in Threads, Commit(t), WholeOK(t)
    PROVE  LET d == Exec(db[t], <<COMMIT>>) IN
           /\ d.ok => file' = TextEffect(Head(todo[t]), file)
           /\ file' # file => d.ok /\ Writing(db[t])
<1> DEFINE c == db[t]
           d == Exec(c, <<COMMIT>>)
           text == Head(todo[t])
<1>1. pc[t] = "commit" /\ Inside(t) /\ file' = d.data
  BY DEF Commit, Becomes, Inside
<1>2. c \in Threads
  BY <1>1, ThreadDb DEF Core
<1>3. /\ d.ok => conn[c] = "open" /\ d.data = View(c)
      /\ ~d.ok => d.data = file
  BY <1>2, CommitResult
<1>4. CASE ~d.ok
  BY <1>1, <1>3, <1>4
<1>5. CASE d.ok /\ Writing(c)
  <2>1. work[c] = TextEffect(text, file)
    BY <1>1, <1>3, <1>5 DEF WholeOK
  <2>2. View(c) = work[c]
    BY <1>5 DEF View
  <2>3. QED
    BY <1>1, <1>3, <1>5, <2>1, <2>2
<1>6. CASE d.ok /\ ~Writing(c)
  <2>1. text \in Seq(Stmts)
    BY <1>1, TextPlain DEF Core, WholeOK
  <2>2. \A k \in DOMAIN text : ~Writes(text[k], file)
    BY <1>1, <1>3, <1>6 DEF WholeOK
  <2> HIDE DEF text
  <2>3. Len(text) \in Nat /\ DOMAIN text = 1..Len(text)
    BY <2>1
  <2>4. TextEffect(text, file) = file
    BY <2>2, <2>3, IdleText
  <2>5. View(c) = file
    BY <1>6 DEF View
  <2>6. QED
    BY <1>1, <1>3, <1>6, <2>4, <2>5 DEF text
<1>7. QED
  BY <1>4, <1>5, <1>6

(* Nothing else changes the file. *)
LEMMA FileStep ==
    ASSUME Core, Whole, ~meddled, NEW t \in Threads, Step(t), file' # file
    PROVE  Commit(t) /\ Exec(db[t], <<COMMIT>>).ok /\ Writing(db[t])
<1>1. WholeOK(t)
  BY DEF Whole
<1>2. CASE Begin(t)
  <2>1. db[t] \in Threads
    BY <1>2, ThreadDb DEF Core, Begin
  <2>2. QED
    BY <1>2, <2>1, BeginResult DEF Begin, Becomes
<1>3. CASE ExecText(t)
  BY <1>1, <1>3, ExecTextResult
<1>4. CASE Rollback(t)
  <2>1. db[t] \in Threads
    BY <1>4, ThreadDb DEF Core, Rollback
  <2>2. QED
    BY <1>4, <2>1, RollbackResult DEF Rollback, Becomes
<1>5. CASE Commit(t)
  BY <1>1, <1>5, CommitApplies
<1>6. CASE Drops(t)
  <2>1. Ended(instance, DbOf(instance)).data = DbOf(instance).data
    BY <1>6, GoodNow, GoodEnded DEF Drops, Core
  <2>2. QED
    BY <1>6, <2>1 DEF Drops, Becomes, DbOf
<1>7. CASE Quiet(t)
  BY <1>7 DEF Quiet
<1>8. QED
  BY <1>2, <1>3, <1>4, <1>5, <1>6, <1>7, StepKinds

(* A connection that is open now was open, if it was there. *)
LEMMA OpenBefore ==
    ASSUME Core, NEW t \in Threads, Step(t), NEW c \in Threads,
           conn[c] # "none", conn'[c] = "open"
    PROVE  conn[c] = "open"
<1>1. CASE Quiet(t)
  BY <1>1 DEF Quiet
<1>2. CASE Drops(t)
  BY <1>2 DEF Drops
<1>3. CASE Begin(t) \/ ExecText(t) \/ Rollback(t) \/ Commit(t)
  BY <1>3 DEF Begin, ExecText, Rollback, Commit
<1>4. QED
  BY <1>1, <1>2, <1>3, StepKinds

(* A thread that is executing a text, and so has the transaction for       *)
(* itself, does not notice a step of another thread.                       *)
LEMMA OthersKeep ==
    ASSUME Core, Whole, ~meddled, NEW t \in Threads, Step(t), NEW u \in Threads, u # t,
           Inside(u), NEW c \in Threads, c = db[u], conn[c] = "open", conn'[c] = "open"
    PROVE  /\ Writing(c)' <=> Writing(c)
           /\ txn'[c] = txn[c] /\ work'[c] = work[c]
           /\ ~(Inside(t)' /\ db'[t] = c)
           /\ Writing(c) => file' = file
<1>1. WholeOK(u) /\ txn[c] /\ (Inside(t) => db[t] # c)
  BY DEF Whole, WholeOK
<1>2. CASE db[t] # c \/ ~Begin(t)
  <2>1. CASE Quiet(t)
    <3>1. Writing(c)' <=> Writing(c)
      BY <2>1 DEF Quiet, Writing, WriteLocks
    <3>2. QED
      BY <2>1, <3>1 DEF Quiet
  <2>2. CASE ~Quiet(t)
    <3>1. c # db[t] \/ Drops(t)
      BY <1>1, <1>2, <2>2, StepKinds DEF ExecText, Rollback, Commit, Inside
    <3>2. CASE c # db[t]
      <4>1. /\ Writing(c)' <=> Writing(c)
            /\ txn'[c] = txn[c] /\ work'[c] = work[c]
        BY <3>2, Elsewhere
      <4>2. Writing(c) => file' = file
        <5>1. Commit(t) => db[t] \in Threads
          BY ThreadDb DEF Commit, Core
        <5>2. QED
          BY <3>2, <5>1, FileStep DEF Core, Storage
      <4>3. ~(Inside(t)' /\ db'[t] = c)
        <5>1. Inside(t)' => Begin(t) \/ ExecText(t) \/ Rollback(t) \/ Commit(t)
          BY <2>2, StepKinds DEF Drops, Inside
        <5>2. Begin(t) \/ ExecText(t) \/ Rollback(t) \/ Commit(t)
                => db'[t] = db[t] \/ db'[t] = NoThread
          <6>1. ASSUME NEW how, End(t, how) PROVE db'[t] = NoThread
            BY <6>1, EndIs DEF Core
          <6>2. Commit(t) => db'[t] = db[t] \/ db'[t] = NoThread
            BY <6>1 DEF Commit, Proceed
          <6>3. QED
            BY <6>1, <6>2 DEF Begin, ExecText, Rollback
        <5>3. QED
          BY <3>2, <5>1, <5>2, NoThreadAssumption
      <4>4. QED
        BY <4>1, <4>2, <4>3
    <3>3. CASE Drops(t) /\ c = db[t]
      BY <3>3, NoThreadAssumption DEF Drops, Core, Calls, ThreadOK
    <3>4. QED
      BY <3>1, <3>2, <3>3
  <2>3. QED
    BY <2>1, <2>2
<1>3. CASE db[t] = c /\ Begin(t)
  <2> DEFINE d == Exec(c, <<BEGIN>>)
  <2>1. /\ Becomes(c, d) /\ \/ d.ok
                            \/ End(t, "failed")
    BY <1>3 DEF Begin
  <2>2. d.data = file /\ d.level = lock[c] /\ d.draft = work[c] /\ ~d.ok /\ (d.open <=> txn[c])
    BY <1>1, BeginResult
  <2> HIDE DEF d
  <2>3. file' = d.data /\ lock'[c] = d.level /\ txn'[c] = d.open /\ work'[c] = d.draft
    BY <2>1 DEF Becomes, Core, Storage
  <2>4. Writing(c)' <=> Writing(c)
    BY <2>2, <2>3 DEF Writing
  <2>5. db'[t] = NoThread
    BY <2>1, <2>2, EndIs DEF Core
  <2>6. txn'[c] = txn[c]
    <3>1. txn' \in [Threads -> BOOLEAN] /\ txn \in [Threads -> BOOLEAN]
      <4>1. d.open \in BOOLEAN
        <5>1. Good(c, d)
          BY ControlTexts, ExecGood DEF Core, d
        <5>2. QED
          BY <5>1 DEF Good
      <4>2. QED
        BY <2>1, <4>1 DEF Becomes, Core, Storage
    <3>2. QED
      BY <2>2, <2>3, <3>1
  <2>7. QED
    BY <2>2, <2>3, <2>4, <2>5, <2>6, NoThreadAssumption
<1>4. QED
  BY <1>2, <1>3

LEMMA WholeOthers ==
    ASSUME Core, Tables, Whole, ~meddled, NEW t \in Threads, Step(t),
           NEW u \in Threads, u # t, ~Controls(u)'
    PROVE  WholeOK(u)'
<1>1. /\ Only(t) /\ DOMAIN file \subseteq DOMAIN file' /\ Core'
      /\ pc'[u] = pc[u] /\ db'[u] = db[u] /\ todo'[u] = todo[u] /\ (Inside(u)' <=> Inside(u))
  BY StepCore, OthersStay DEF Grows
<1>2. WholeOK(u)
  BY DEF Whole
<1>3. CASE ~Inside(u)
  BY <1>1, <1>3 DEF WholeOK, Inside
<1>4. CASE Inside(u)
  <2>1. PICK c \in Threads : c = db[u]
    BY <1>4, ThreadDb DEF Core, Inside
  <2>2. conn[c] # "none" /\ todo[u] # <<>>
    BY <1>4, <2>1, NoThreadAssumption DEF Core, Calls, ThreadOK
  <2>3. CASE conn'[c] # "open"
    <3>1. ~Writing(c)'
      BY <1>1, <2>3 DEF Core, Storage, Writing, WriteLocks
    <3>2. Writing(db[u])' <=> Writing(c)'
      BY <1>1, <2>1 DEF Writing
    <3>3. QED
      BY <1>1, <2>1, <2>3, <3>1, <3>2 DEF WholeOK
  <2>4. CASE conn'[c] = "open"
    <3>1. conn[c] = "open"
      BY <2>2, <2>4, OpenBefore
    <3>2. /\ Writing(c)' <=> Writing(c)
          /\ txn'[c] = txn[c] /\ work'[c] = work[c]
          /\ ~(Inside(t)' /\ db'[t] = c)
          /\ Writing(c) => file' = file
      BY <1>4, <2>1, <2>4, <3>1, OthersKeep
    <3>3. txn'[c] /\ \A v \in Threads : Inside(v)' /\ db'[v] = c => v = u
      <4>1. \A v \in Threads \ {t} : db'[v] = db[v] /\ (Inside(v)' <=> Inside(v))
        BY <1>1, OthersStay
      <4>2. QED
        BY <1>2, <1>4, <2>1, <3>1, <3>2, <4>1 DEF WholeOK
    <3>4. pc[u] = "exec" => ~Writing(c)'
      BY <1>2, <2>1, <3>2 DEF WholeOK
    <3>5. pc[u] = "commit" =>
            IF Writing(c)' THEN work'[c] = TextEffect(Head(todo[u]), file')
            ELSE \A k \in DOMAIN Head(todo[u]) : ~Writes(Head(todo[u])[k], file')
      <4>1. \A s : ~Writes(s, file) => ~Writes(s, file')
        BY <1>1 DEF Writes
      <4>2. QED
        BY <1>2, <2>1, <3>1, <3>2, <4>1 DEF WholeOK
    <3>6. Writing(db[u])' <=> Writing(c)'
      BY <1>1, <2>1 DEF Writing
    <3>7. QED
      BY <1>1, <2>1, <3>3, <3>4, <3>5, <3>6 DEF WholeOK
  <2>5. QED
    BY <2>3, <2>4
<1>5. QED
  BY <1>3, <1>4

LEMMA WholeOwn ==
    ASSUME Core, Tables, Whole, ~meddled, NEW t \in Threads, Step(t), ~Controls(t)'
    PROVE  WholeOK(t)'
<1>1. WholeOK(t) /\ Only(t) /\ Core'
  BY StepCore DEF Whole
<1>2. ASSUME ~Inside(t)' PROVE WholeOK(t)'
  BY <1>2 DEF WholeOK, Inside
<1>3. ASSUME NEW how, End(t, how) PROVE ~Inside(t)'
  BY <1>3, EndThread DEF Core
<1>4. CASE Quiet(t) \/ Drops(t)
  BY <1>2, <1>4 DEF Quiet, Drops, Inside
<1>5. CASE Begin(t)
  <2>1. PICK c \in Threads : c = db[t]
    BY <1>5, ThreadDb DEF Begin, Core
  <2> DEFINE d == Exec(c, <<BEGIN>>)
  <2>2. Becomes(c, d) /\ conn' = conn /\ \/ d.ok /\ Goto(t, "exec") /\ db' = db
                                         \/ End(t, "failed")
    BY <1>5, <2>1 DEF Begin
  <2>3. CASE d.ok /\ Goto(t, "exec") /\ db' = db
    <3>1. d.open /\ conn[c] = "open" /\ ~txn[c] /\ d.level = lock[c]
      BY <2>3, BeginResult
    <3>2. \A u \in Threads : ~(Inside(u) /\ db[u] = c)
      BY <3>1 DEF Whole, WholeOK
    <3>3. \A u \in Threads : Inside(u)' /\ db'[u] = c => u = t
      BY <1>1, <3>2, OthersStay
    <3>4. ~Writing(c)
      BY <3>1 DEF Core, Storage
    <3> HIDE DEF d
    <3>5. txn'[c] /\ lock'[c] = lock[c]
      BY <2>2, <3>1 DEF Becomes, Core, Storage
    <3>6. ~Writing(db[t])'
      BY <2>1, <2>3, <3>4, <3>5 DEF Writing
    <3>7. pc'[t] = "exec"
      BY <2>3 DEF Goto, Core, Calls
    <3>8. QED
      BY <2>1, <2>3, <3>3, <3>5, <3>6, <3>7 DEF WholeOK
  <2>4. QED
    BY <1>2, <1>3, <2>2, <2>3
<1>6. CASE ExecText(t)
  <2>1. PICK c \in Threads : c = db[t]
    BY <1>6, ThreadDb DEF ExecText, Core
  <2>2. /\ Inside(t) /\ conn' = conn /\ db' = db /\ todo' = todo
        /\ pc'[t] \in {"commit", "rollback"}
    <3> DEFINE label == IF Exec(db[t], Head(todo[t])).ok THEN "commit" ELSE "rollback"
    <3>1. label \in {"commit", "rollback"} /\ pc' = [pc EXCEPT ![t] = label]
      BY <1>6 DEF ExecText, Goto
    <3> HIDE DEF label
    <3>2. QED
      BY <1>6, <3>1 DEF ExecText, Inside, Core, Calls
  <2>3. /\ file' = file
        /\ conn[c] = "open" => txn'[c]
        /\ pc'[t] = "commit" /\ conn[c] = "open" =>
              IF Writing(c)' THEN work'[c] = TextEffect(Head(todo[t]), file)
              ELSE \A k \in DOMAIN Head(todo[t]) : ~Writes(Head(todo[t])[k], file)
    <3>1. Writing(db[t])' <=> Writing(c)'
      BY <2>1, <2>2 DEF Writing
    <3>2. QED
      BY <1>1, <1>6, <2>1, <3>1, ExecTextResult
  <2>4. conn[c] = "open" => \A u \in Threads : Inside(u)' /\ db'[u] = c => u = t
    BY <1>1, <2>1, <2>2, OthersStay DEF WholeOK
  <2>5. Writing(db[t])' <=> Writing(c)'
    BY <2>1, <2>2 DEF Writing
  <2>6. QED
    BY <2>1, <2>2, <2>3, <2>4, <2>5 DEF WholeOK
<1>7. CASE Rollback(t)
  BY <1>2, <1>3, <1>7 DEF Rollback
<1>8. CASE Commit(t)
  <2>1. Proceed(t, Tail(todo[t])) => ~Inside(t)'
    <3>1. CASE Goto(t, IF Tail(todo[t]) = <<>> THEN "store" ELSE "begin")
      <4> DEFINE label == IF Tail(todo[t]) = <<>> THEN "store" ELSE "begin"
      <4>1. label \in {"store", "begin"} /\ pc' = [pc EXCEPT ![t] = label]
        BY <3>1 DEF Goto
      <4> HIDE DEF label
      <4>2. QED
        BY <4>1 DEF Inside, Core, Calls
    <3>2. QED
      BY <1>3, <3>1 DEF Proceed
  <2>2. QED
    BY <1>2, <1>3, <1>8, <2>1 DEF Commit
<1>9. QED
  BY <1>4, <1>5, <1>6, <1>7, <1>8, StepKinds

LEMMA WholeStep ==
    ASSUME Core, Tables, Whole, NEW t \in Threads, Step(t), Watch
    PROVE  Whole'
<1> SUFFICES ASSUME ~meddled', NEW u \in Threads PROVE WholeOK(u)'
  BY DEF Whole
<1>1. ~meddled /\ ~Controls(u)'
  BY DEF Watch
<1>2. QED
  BY <1>1, WholeOwn, WholeOthers

(* Every operation starts afresh, and one that fails is over. *)
LEMMA UnfailedStep ==
    ASSUME Core, Tables, Unfailed, NEW t \in Threads, Step(t)
    PROVE  Unfailed'
<1>1. Only(t)
  BY StepCore
<1>2. \A u \in Threads \ {t} : pc'[u] # "idle" => out'[u] = "ok"
  BY <1>1, OthersStay DEF Unfailed
<1>3. ASSUME NEW how, End(t, how) PROVE pc'[t] = "idle"
  BY <1>3, EndIs DEF Core
<1>4. ASSUME NEW c, NEW label, NEW list, Enter(t, c, label, list) PROVE out'[t] = "ok"
  BY <1>4 DEF Enter, Core, Calls
<1>5. ASSUME pc[t] # "idle", out' = out PROVE out'[t] = "ok"
  BY <1>5 DEF Unfailed
<1>6. StartTexts(t) => out'[t] = "ok"
  BY <1>4, StartTextsIs DEF StartExec
<1>7. SaveAutoIncrement(t) => pc'[t] = "idle" \/ out'[t] = "ok"
  BY <1>3, <1>4 DEF SaveAutoIncrement, StartMax
<1>8. Initialize(t) \/ Fetch(t) => pc'[t] = "idle" \/ out'[t] = "ok"
  BY <1>3, <1>4 DEF Initialize, Fetch
<1>9. pc'[t] = "idle" \/ out'[t] = "ok"
  BY <1>3, <1>5, <1>6, <1>7, <1>8 DEF Step, StartTexts, Open, StoreInstance, Finalize, Begin,
     ExecText, Rollback, Commit, StepRow, StepBusy, StepDone, MaxStep, MaxFinalize, MayStep, Proceed
<1>10. QED
  BY <1>2, <1>9 DEF Unfailed

-----------------------------------------------------------------------------
(* Fetches. *)

(* What is steady has been in view all along. *)
LEMMA WatchSteady ==
    ASSUME Watch, NEW u \in Threads
    PROVE  /\ pc'[u] # "step" => steady'[u] = {}
           /\ pc'[u] = "step" => steady'[u] \subseteq Matching(u)'
           /\ pc[u] = "step" => steady'[u] \subseteq steady[u]
BY DEF Watch

LEMMA FetchOthers ==
    ASSUME Core, Tables, NEW t \in Threads, Step(t), Watch,
           NEW u \in Threads, u # t, FetchOK(u)
    PROVE  FetchOK(u)'
<1>1. pc'[u] = pc[u] /\ rows'[u] = rows[u]
  BY StepCore, OthersStay
<1>2. Read(u)' = Read(u) /\ Last(u)' = Last(u)
  BY <1>1 DEF Read, Last
<1>3. QED
  BY <1>1, <1>2, WatchSteady DEF FetchOK

(* The row that a step reads is the least one unread. *)
LEMMA FetchRow ==
    ASSUME Core, Tables, NEW t \in Threads, FetchOK(t), StepRow(t), Watch
    PROVE  FetchOK(t)'
<1>1. pc[t] = "step" /\ pc' = pc
  BY DEF StepRow, MayStep
<1>2. PICK i \in Unread(t) :
         /\ \A j \in Unread(t) : i <= j
         /\ rows' = [rows EXCEPT ![t] = Append(@, <<i, View(db[t])[call[t].type][i]>>)]
  BY DEF StepRow
<1> DEFINE table == View(db[t])[call[t].type]
           row == <<i, table[i]>>
           n == Len(rows[t])
<1>3. IsTable(table)
  <2>1. call[t].op = "fetch"
    BY <1>1 DEF Core, Calls, ThreadOK
  <2>2. QED
    BY <1>1, <2>1, TableThere
<1>4. row \in Int \X Vals /\ row # NullRow /\ row[1] = i /\ i \in Int
  BY <1>3, NullRowAssumption DEF IsTable, Unread, Selected
<1>5. Read(t) = {} \/ Last(t)[1] < i
  BY DEF Unread
<1>6. \A p \in steady[t] : p[1] \in Int /\ p = <<p[1], table[p[1]]>> /\ p[1] \in Selected(call[t].where, table)
  BY <1>1, <1>3 DEF FetchOK, Matching, IsTable, Selected
<1>7. \A p \in steady[t] : \/ p \in {rows[t][k] : k \in Read(t)}
                           \/ p = row \/ i < p[1]
  <2> SUFFICES ASSUME NEW p \in steady[t], p \notin {rows[t][k] : k \in Read(t)}
               PROVE  p = row \/ i < p[1]
    OBVIOUS
  <2>1. p[1] \in Unread(t)
    BY <1>1, <1>6 DEF FetchOK, Unread
  <2>2. i <= p[1]
    BY <1>2, <2>1
  <2> HIDE DEF table
  <2>3. QED
    BY <1>4, <1>6, <2>2
<1>8. rows[t] \in Seq((Int \X Vals) \cup {NullRow}) /\ n \in Nat
  BY DEF Core, Calls
<1>9. \A k \in Read(t) : k \in 1..n /\ rows[t][k] \in Int \X Vals /\ rows[t][k][1] \in Int
  BY <1>8 DEF Read
<1>10. \A k \in Read(t) : rows[t][k][1] < i
  <2> SUFFICES ASSUME NEW k \in Read(t) PROVE rows[t][k][1] < i
    OBVIOUS
  <2>1. n \in Read(t) /\ (k < n => rows[t][k][1] < rows[t][n][1])
    BY <1>1 DEF FetchOK
  <2>2. rows[t][n][1] < i
    BY <1>5 DEF Last
  <2>3. QED
    BY <1>4, <1>9, <2>1, <2>2
<1> HIDE DEF row, table
<1>11. rows'[t] = Append(rows[t], row)
  BY <1>2 DEF row, table, Core, Calls
<1>12. /\ Len(rows'[t]) = n + 1 /\ rows'[t][n + 1] = row
       /\ \A k \in 1..n : rows'[t][k] = rows[t][k]
       /\ DOMAIN rows'[t] = 1..(n + 1) /\ DOMAIN rows[t] = 1..n
  BY <1>8, <1>11
<1>13. Read(t)' = Read(t) \cup {n + 1}
  BY <1>4, <1>8, <1>12 DEF Read
<1>14. Last(t)' = row
  BY <1>12 DEF Last
<1>15. \A j, k \in Read(t)' : j < k => rows'[t][j][1] < rows'[t][k][1]
  <2> SUFFICES ASSUME NEW j \in Read(t)', NEW k \in Read(t)', j < k
               PROVE  rows'[t][j][1] < rows'[t][k][1]
    OBVIOUS
  <2>1. j \in Read(t)
    BY <1>8, <1>9, <1>13
  <2>2. CASE k = n + 1
    BY <1>4, <1>9, <1>10, <1>12, <2>1, <2>2
  <2>3. CASE k \in Read(t)
    BY <1>1, <1>9, <1>12, <2>1, <2>3 DEF FetchOK
  <2>4. QED
    BY <1>13, <2>2, <2>3
<1>16. \A p \in steady[t] : p \in {rows'[t][k] : k \in Read(t)'} \/ Last(t)'[1] < p[1]
  <2> SUFFICES ASSUME NEW p \in steady[t]
               PROVE  p \in {rows'[t][k] : k \in Read(t)'} \/ Last(t)'[1] < p[1]
    OBVIOUS
  <2>1. CASE p \in {rows[t][k] : k \in Read(t)}
    BY <1>9, <1>12, <1>13, <2>1
  <2>2. CASE p = row
    BY <1>12, <1>13, <2>2
  <2>3. CASE i < p[1]
    BY <1>4, <1>14, <2>3
  <2>4. QED
    BY <1>7, <2>1, <2>2, <2>3
<1>17. steady'[t] \subseteq Matching(t)' /\ steady'[t] \subseteq steady[t] /\ pc'[t] = "step"
  BY <1>1, WatchSteady
<1>18. QED
  BY <1>12, <1>13, <1>15, <1>16, <1>17 DEF FetchOK

(* A step that finds the file locked adds a row that was not read. *)
LEMMA FetchBusy ==
    ASSUME Core, NEW t \in Threads, FetchOK(t), StepBusy(t), Watch
    PROVE  FetchOK(t)'
<1>1. /\ pc[t] = "step" /\ pc' = pc /\ ~MayRead(db[t])
      /\ rows' = [rows EXCEPT ![t] = IF Len(@) < MaxBusy THEN Append(@, NullRow) ELSE @]
  BY DEF StepBusy
<1>2. Read(t) = {}
  <2>1. lock[db[t]] = "none" /\ db[t] \in Threads
    BY <1>1, ThreadDb DEF Core, MayRead
  <2>2. QED
    BY <1>1, <2>1 DEF Core, Storage, HasReader, Reading
<1>3. rows[t] \in Seq((Int \X Vals) \cup {NullRow})
  BY DEF Core, Calls
<1>4. rows'[t] = IF Len(rows[t]) < MaxBusy THEN Append(rows[t], NullRow) ELSE rows[t]
  BY <1>1 DEF Core, Calls
<1>5. Read(t)' = {}
  BY <1>2, <1>3, <1>4 DEF Read
<1>6. QED
  BY <1>1, <1>5, WatchSteady DEF FetchOK

(* A fetch that begins has read nothing. *)
LEMMA FetchBegins ==
    ASSUME Core, Tables, NEW t \in Threads, Step(t), Watch, pc[t] # "step"
    PROVE  FetchOK(t)'
<1>1. CASE pc'[t] # "step"
  BY <1>1, WatchSteady DEF FetchOK
<1>2. CASE pc'[t] = "step"
  <2>1. rows[t] = <<>>
    BY DEF Core, Calls, ThreadOK
  <2>2. Fetch(t)
    <3>1. ASSUME NEW how, End(t, how) PROVE pc'[t] = "idle"
      BY <3>1, EndIs DEF Core
    <3>2. ASSUME NEW label, label # "step" PROVE ~Goto(t, label)
      BY <1>2, <3>2 DEF Goto, Core, Calls
    <3>3. ~StartTexts(t)
      BY <3>2, StartTextsIs DEF StartExec, Enter
    <3>4. ~SaveAutoIncrement(t)
      BY <1>2, <3>1, <3>2 DEF SaveAutoIncrement, StartMax, Enter
    <3>5. ~Initialize(t) /\ ~Open(t) /\ ~StoreInstance(t) /\ ~Finalize(t)
      BY <1>2, <3>1, <3>2 DEF Initialize, Open, StoreInstance, Finalize, Enter
    <3>6. \A list : ~Proceed(t, list)
      BY <1>2, <3>1, <3>2 DEF Proceed
    <3>7. ~Begin(t) /\ ~ExecText(t) /\ ~Rollback(t) /\ ~Commit(t)
      BY <1>2, <3>1, <3>2, <3>6 DEF Begin, ExecText, Rollback, Commit
    <3>8. ~StepRow(t) /\ ~StepBusy(t) /\ ~StepDone(t) /\ ~MaxStep(t) /\ ~MaxFinalize(t)
      BY <1>2, <3>1, <3>2, <3>6 DEF StepRow, StepBusy, StepDone, MaxStep, MaxFinalize, MayStep
    <3>9. QED
      BY <3>3, <3>4, <3>5, <3>7, <3>8 DEF Step, StartTexts
  <2>3. rows' = rows
    <3>1. ASSUME NEW how, End(t, how) PROVE FALSE
      BY <1>2, <3>1, EndIs DEF Core
    <3>2. QED
      BY <2>2, <3>1 DEF Fetch, Enter
  <2>4. Read(t)' = {}
    BY <2>1, <2>3 DEF Read
  <2>5. QED
    BY <1>2, <2>4, WatchSteady DEF FetchOK
<1>3. QED
  BY <1>1, <1>2

(* A fetch that goes on reads, or finds the file locked, or ends. *)
LEMMA FetchSteps ==
    ASSUME Core, Tables, NEW t \in Threads, Step(t), pc[t] = "step"
    PROVE  StepRow(t) \/ StepBusy(t) \/ StepDone(t)
<1>1. ~StartTexts(t)
  BY StartTextsIs DEF StartExec, Ready
<1>2. QED
  BY <1>1 DEF Step, StartTexts, Initialize, Open, StoreInstance, Finalize, Fetch, Ready,
     SaveAutoIncrement, Begin, ExecText, Rollback, Commit, MaxStep, MaxFinalize

LEMMA FetchingStep ==
    ASSUME Core, Tables, Fetching, NEW t \in Threads, Step(t), Watch
    PROVE  Fetching'
<1> SUFFICES ASSUME NEW u \in Threads PROVE FetchOK(u)'
  BY DEF Fetching
<1>1. FetchOK(u) /\ FetchOK(t)
  BY DEF Fetching
<1>2. CASE u # t
  BY <1>1, <1>2, FetchOthers
<1>3. CASE u = t /\ pc[t] # "step"
  BY <1>3, FetchBegins
<1>4. CASE u = t /\ StepDone(t)
  <2>1. pc'[t] # "step"
    BY <1>4, EndIs DEF StepDone, Core
  <2>2. QED
    BY <1>4, <2>1, WatchSteady DEF FetchOK
<1>5. QED
  BY <1>1, <1>2, <1>3, <1>4, FetchSteps, FetchRow, FetchBusy

-----------------------------------------------------------------------------
(* The invariant holds. *)

Inv == Storage /\ Calls /\ Owned /\ Tables /\ Whole /\ Unfailed /\ Fetching /\ meddled \in BOOLEAN

LEMMA InvInit == Init => Inv
<1> SUFFICES ASSUME Init PROVE Inv
  OBVIOUS
<1>1. /\ \A c \in Threads : lock[c] = "none" /\ conn[c] = "none" /\ ~txn[c] /\ ~Writing(c)
      /\ \A t \in Threads : pc[t] = "idle" /\ db[t] = NoThread /\ rows[t] = <<>>
      /\ \A t \in Threads : call[t] = NoCall /\ todo[t] = <<>>
  BY DEF Init, Writing, WriteLocks
<1>2. \A t \in Threads : /\ ~Reading(t) /\ ~Prepared(t) /\ ~Inside(t)
                         /\ ThreadOK(t)
  BY <1>1 DEF Reading, Prepared, Inside, ThreadOK, NoCall, CallRecords
<1>3. IsContents(NewFile)
  BY DEF NewFile, IsContents
<1>4. Storage
  BY <1>1, <1>2, <1>3 DEF Init, Storage, HasReader, LockLevels
<1>5. Calls
  <2>1. <<>> \in Seq(Seq(Stmts \cup Control)) /\ <<>> \in Seq((Int \X Vals) \cup {NullRow})
    OBVIOUS
  <2>2. /\ pc \in [Threads -> Labels] /\ out \in [Threads -> {"ok", "failed"}]
        /\ db \in [Threads -> Threads \cup {NoThread}]
        /\ call = [t \in Threads |-> call[t]]
    BY DEF Init, Labels
  <2>3. /\ todo \in [Threads -> Seq(Seq(Stmts \cup Control))]
        /\ rows \in [Threads -> Seq((Int \X Vals) \cup {NullRow})]
    BY <2>1 DEF Init
  <2>4. instance = NoThread
    BY DEF Init
  <2>5. QED
    BY <1>2, <2>2, <2>3, <2>4 DEF Calls
<1>6. Owned /\ Tables /\ Unfailed
  BY <1>1 DEF Init, Owned, Tables, TablesExist, TablesOK, Unfailed
<1>7. Whole
  BY <1>1, <1>2 DEF Whole, WholeOK, Controls, Inside
<1>8. Fetching
  BY <1>1 DEF Init, Fetching, FetchOK
<1>9. QED
  BY <1>4, <1>5, <1>6, <1>7, <1>8 DEF Inv, Init

LEMMA InvNext == Inv /\ [Next]_vars => Inv'
<1> SUFFICES ASSUME Inv, [Next]_vars PROVE Inv'
  OBVIOUS
<1>1. CASE Next
  <2>1. PICK t \in Threads : Step(t) /\ Watch
    BY <1>1 DEF Next
  <2>2. meddled' \in BOOLEAN
    BY <2>1 DEF Watch
  <2>3. QED
    BY <2>1, <2>2, StepCore, OwnedStep, TablesStep, WholeStep, UnfailedStep, FetchingStep DEF Inv, Core
<1>2. CASE UNCHANGED vars
  <2>1. /\ \A c : Writing(c)' <=> Writing(c)
        /\ \A t : /\ Reading(t)' <=> Reading(t)
                  /\ Inside(t)' <=> Inside(t)
                  /\ Prepared(t)' <=> Prepared(t)
                  /\ Controls(t)' <=> Controls(t)
                  /\ Read(t)' = Read(t) /\ Last(t)' = Last(t) /\ Matching(t)' = Matching(t)
                  /\ \A r : Waits(t, r)' <=> Waits(t, r)
        /\ \A t : View(t)' = View(t)
    BY <1>2 DEF vars, Writing, Reading, Read, Inside, Prepared, Controls, Last, Matching, Waits, View
  <2>2. Storage'
    BY <1>2, <2>1 DEF vars, Inv, Storage, HasReader
  <2>3. Calls'
    <3>1. \A t \in Threads : ThreadOK(t)'
      BY <1>2, <2>1 DEF vars, Inv, Calls, ThreadOK
    <3>2. QED
      BY <1>2, <3>1 DEF vars, Inv, Calls
  <2>4. Owned' /\ Unfailed'
    BY <1>2, <2>1 DEF vars, Inv, Owned, Unfailed
  <2>5. Tables'
    BY <1>2, <2>1 DEF vars, Inv, Tables, TablesExist, TablesOK
  <2>6. Whole'
    <3>1. \A t \in Threads : WholeOK(t) => WholeOK(t)'
      <4> SUFFICES ASSUME NEW t \in Threads, WholeOK(t) PROVE WholeOK(t)'
        OBVIOUS
      <4>1. Writing(db[t])' <=> Writing(db[t])
        BY <1>2 DEF vars, Writing
      <4>2. QED
        BY <1>2, <2>1, <4>1 DEF vars, WholeOK
    <3>2. QED
      BY <1>2, <3>1 DEF vars, Inv, Whole
  <2>7. Fetching'
    BY <1>2, <2>1 DEF vars, Inv, Fetching, FetchOK
  <2>8. QED
    BY <1>2, <2>2, <2>3, <2>4, <2>5, <2>6, <2>7 DEF Inv, vars
<1>3. QED
  BY <1>1, <1>2

LEMMA InvAlways == Spec => []Inv
<1>1. QED
  BY InvInit, InvNext, PTL DEF Spec

-----------------------------------------------------------------------------
(* What follows from it. *)

LEMMA InvType == Inv => TypeOK
<1> SUFFICES ASSUME Inv PROVE TypeOK
  OBVIOUS
<1>1. ASSUME NEW t \in Threads PROVE steady[t] \subseteq Int \X Vals
  <2>1. CASE pc[t] # "step"
    BY <2>1 DEF Inv, Fetching, FetchOK
  <2>2. CASE pc[t] = "step"
    <3>1. IsTable(View(db[t])[call[t].type])
      BY <2>2, TableThere DEF Inv, Core, Calls, ThreadOK
    <3>2. steady[t] \subseteq Matching(t)
      BY <2>2 DEF Inv, Fetching, FetchOK
    <3>3. QED
      BY <3>1, <3>2 DEF Matching, Selected, IsTable
  <2>3. QED
    BY <2>1, <2>2
<1>2. call \in [Threads -> CallRecords]
  BY DEF Inv, Calls, ThreadOK
<1>3. QED
  BY <1>1, <1>2 DEF Inv, TypeOK, Storage, Calls, ThreadOK

LEMMA InvLocks == Inv => LocksAreUsed
BY DEF Inv, Storage, Owned, LocksAreUsed, HasReader, Inside, Writing, WriteLocks

(* What a step does to the file, and what a fetch that ends returns. *)
Applies ==
    ~meddled =>
        /\ \A t \in Threads : Returns(t) => file' = TextEffect(Head(todo[t]), file)
        /\ file' # file => \E t \in Threads : Returns(t)

Misses(t) ==
    pc[t] = "step" /\ pc'[t] = "idle" /\ out'[t] = "ok" =>
        /\ steady[t] \subseteq {rows[t][k] : k \in Read(t)}
        /\ \A j, k \in Read(t) : j < k => rows[t][j][1] < rows[t][k][1]

LEMMA CommitSteps ==
    ASSUME NEW t \in Threads, Step(t), pc[t] = "commit"
    PROVE  Commit(t)
<1>1. ~StartTexts(t)
  BY StartTextsIs DEF StartExec, Ready
<1>2. QED
  BY <1>1 DEF Step, StartTexts, Initialize, Open, StoreInstance, Finalize, Fetch, Ready,
     SaveAutoIncrement, Begin, ExecText, Rollback, StepRow, StepBusy, StepDone, MayStep, MaxStep,
     MaxFinalize

LEMMA StepApplies == Inv /\ [Next]_vars => Applies
<1> SUFFICES ASSUME Inv, [Next]_vars, ~meddled
             PROVE  /\ \A t \in Threads : Returns(t) => file' = TextEffect(Head(todo[t]), file)
                    /\ file' # file => \E t \in Threads : Returns(t)
  BY DEF Applies
<1>1. CASE UNCHANGED vars
  BY <1>1 DEF vars, Returns
<1>2. CASE Next
  <2>1. PICK t \in Threads : Step(t) /\ Watch
    BY <1>2 DEF Next
  <2>2. Only(t) /\ WholeOK(t) /\ Core
    BY <2>1, StepCore DEF Inv, Core, Whole
  <2>3. ASSUME NEW u \in Threads, Returns(u) PROVE file' = TextEffect(Head(todo[u]), file)
    <3>1. u = t /\ Commit(t)
      BY <2>1, <2>2, <2>3, OthersStay, CommitSteps DEF Returns
    <3>2. ~End(t, "failed")
      BY <2>2, <2>3, <3>1, EndIs DEF Returns, Core
    <3>3. QED
      BY <2>2, <3>1, <3>2, CommitApplies DEF Commit
  <2>4. ASSUME file' # file PROVE Returns(t)
    <3>1. Commit(t) /\ Exec(db[t], <<COMMIT>>).ok
      BY <2>1, <2>2, <2>4, FileStep DEF Inv
    <3>2. pc[t] = "commit" /\ out[t] = "ok" /\ Proceed(t, Tail(todo[t]))
      BY <3>1 DEF Commit, Inv, Unfailed
    <3>3. pc'[t] # "commit" /\ out'[t] = "ok"
      <4>1. CASE End(t, "ok")
        BY <2>2, <4>1, EndIs DEF Core
      <4>2. CASE ~End(t, "ok")
        <5>1. UNCHANGED out /\ pc'[t] = IF Tail(todo[t]) = <<>> THEN "store" ELSE "begin"
          BY <2>2, <3>2, <4>2, ProceedIs DEF Core
        <5>2. QED
          BY <3>2, <5>1
      <4>3. QED
        BY <4>1, <4>2
    <3>4. QED
      BY <3>2, <3>3 DEF Returns
  <2>5. QED
    BY <2>3, <2>4
<1>3. QED
  BY <1>1, <1>2

LEMMA StepMisses == Inv /\ [Next]_vars => \A t \in Threads : Misses(t)
<1> SUFFICES ASSUME Inv, [Next]_vars, NEW u \in Threads,
                    pc[u] = "step", pc'[u] = "idle", out'[u] = "ok"
             PROVE  /\ steady[u] \subseteq {rows[u][k] : k \in Read(u)}
                    /\ \A j, k \in Read(u) : j < k => rows[u][j][1] < rows[u][k][1]
  BY DEF Misses
<1>1. CASE UNCHANGED vars
  BY <1>1 DEF vars
<1>2. CASE Next
  <2>1. PICK t \in Threads : Step(t) /\ Watch
    BY <1>2 DEF Next
  <2>2. Only(t) /\ Core /\ Tables /\ FetchOK(u)
    BY <2>1, StepCore DEF Inv, Core, Fetching
  <2>3. u = t
    BY <2>2, OthersStay
  <2>4. Unread(u) = {}
    BY <2>1, <2>3, FetchSteps, <2>2 DEF StepRow, StepBusy, StepDone
  <2>5. ASSUME NEW p \in steady[u] PROVE p \in {rows[u][k] : k \in Read(u)}
    <3> DEFINE table == View(db[u])[call[u].type]
    <3>1. PICK i \in Selected(call[u].where, table) : p = <<i, table[i]>>
      BY <2>2, <2>5 DEF FetchOK, Matching
    <3>2. p[1] = i
      BY <3>1
    <3>3. i \in Unread(u) \/ p \in {rows[u][k] : k \in Read(u)}
      BY <2>2, <2>5, <3>2 DEF FetchOK, Unread
    <3>4. QED
      BY <2>4, <3>3
  <2>6. QED
    BY <2>2, <2>5 DEF FetchOK
<1>3. QED
  BY <1>1, <1>2

-----------------------------------------------------------------------------
(* Whatever the threads do, every variable keeps its type; in particular a *)
(* call uses a connection that was opened (Database::Instance and the      *)
(* statements that keep the connection from being freed).                  *)
THEOREM ThreadsTyped == Spec => []TypeOK
<1>1. QED
  BY InvAlways, InvType, PTL

(* A connection keeps a transaction or a lock only while a thread is       *)
(* between the BEGIN and the COMMIT of ExecutionQuery::Execute on it, or   *)
(* reads on it, except for the PENDING that a refused COMMIT leaves.       *)
THEOREM LocksAreUsedByThreads == Spec => []LocksAreUsed
<1>1. QED
  BY InvAlways, InvLocks, PTL

(* The instance that Database::Initialize stores, though two threads may   *)
(* be in it together, has every table of the register in the file.         *)
THEOREM StoredHasTables == Spec => []TablesExist
<1>1. Inv => TablesExist
  BY DEF Inv, Tables
<1>2. QED
  BY <1>1, InvAlways, PTL

(* As long as no text given to Sql controls transactions, the file changes *)
(* by exactly the text of an Execute that returns, though threads          *)
(* interleave between its BEGIN, its text and its COMMIT.                  *)
THEOREM ExecuteAppliesWhole == Spec => AppliesWhole
<1>1. Inv /\ [Next]_vars =>
        [~meddled =>
          /\ \A t \in Threads : Returns(t) => file' = TextEffect(Head(todo[t]), file)
          /\ file' # file => \E t \in Threads : Returns(t)]_vars
  BY StepApplies DEF Applies
<1>2. QED
  BY <1>1, InvAlways, PTL DEF Spec, AppliesWhole

(* A fetch that returns has read every matching row that stood in its view *)
(* all along, each id once and in order, whatever other threads write on   *)
(* its connection between two calls of sqlite3_step.                       *)
THEOREM FetchReturnsSteadyRows == Spec => FetchMissesNothing
<1>1. Inv /\ [Next]_vars =>
        [\A t \in Threads :
          pc[t] = "step" /\ pc'[t] = "idle" /\ out'[t] = "ok" =>
              /\ steady[t] \subseteq {rows[t][k] : k \in Read(t)}
              /\ \A j, k \in Read(t) : j < k => rows[t][j][1] < rows[t][k][1]]_vars
  BY StepMisses DEF Misses
<1>2. QED
  BY <1>1, InvAlways, PTL DEF Spec, FetchMissesNothing
=============================================================================

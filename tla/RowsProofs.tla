----------------------------- MODULE RowsProofs -----------------------------
(***************************************************************************)
(* Proofs about Rows: what is saved is read back and found by predicates,  *)
(* whatever the programs do to the rows in between, until a text is        *)
(* executed as SQL.  Of Beyond, what SQLite does then, nothing is assumed. *)
(***************************************************************************)
EXTENDS Rows, TimePointsProofs, FiniteSetTheorems

(* Values that are plain survive each conversion. *)

LEMMA IntsFit ==
    ASSUME NEW n \in (-IntHalf)..(IntHalf - 1)
    PROVE  ColumnInt(n) = n
<1> DEFINE a == n + IntHalf
           b == 2 * IntHalf
<1>1. /\ n \in Int /\ IntHalf \in Int /\ a \in Int /\ b \in Nat \ {0}
      /\ 0 <= a /\ a < b /\ a - IntHalf = n
  BY WidthAssumption, SMT
<1>2. ColumnInt(n) = (a % b) - IntHalf
  BY DEF ColumnInt
<1> HIDE DEF a, b
<1>3. a = b * 0 + a
  BY <1>1, SMT
<1>4. a \div b = 0
  BY <1>1, <1>3, DivIs
<1>5. a % b = a
  BY <1>1, <1>3, <1>4, DivFacts, SMT
<1>6. QED
  BY <1>1, <1>2, <1>5

(* Rounding to six decimals a second time changes nothing. *)
LEMMA Rounded ==
    ASSUME NEW r \in Int
    PROVE  SixDecimals(r) \in Int /\ SixDecimals(SixDecimals(r)) = SixDecimals(r)
<1>1. \A n \in Int : n # Inf
  BY SpecialAssumption
<1>2. MicroUnits \in Nat \ {0}
  BY WidthAssumption
<1>3. PICK q \in Int : SixDecimals(r) = q * MicroUnits
  <2> DEFINE q == r \div MicroUnits
  <2>1. q \in Int /\ q + 1 \in Int
    BY <1>2, DivFacts
  <2>2. SixDecimals(r) = q * MicroUnits \/ SixDecimals(r) = (q + 1) * MicroUnits
    BY <1>1 DEF SixDecimals
  <2> HIDE DEF q
  <2>3. QED
    BY <2>1, <2>2
<1> DEFINE x == q * MicroUnits
<1>4. x \in Int /\ x = MicroUnits * q + 0 /\ 0 \in Int /\ 0 < MicroUnits
  BY <1>2, SMT
<1> HIDE DEF x
<1>5. x \div MicroUnits = q
  BY <1>2, <1>4, DivIs
<1>6. x % MicroUnits = 0
  <2>1. x = MicroUnits * q + (x % MicroUnits) /\ x % MicroUnits \in Int
    BY <1>2, <1>4, <1>5, DivFacts
  <2>2. MicroUnits * q \in Int
    BY <1>2, SMT
  <2>3. QED
    BY <1>4, <2>1, <2>2, SMT
<1>7. SixDecimals(x) = x
  <2>1. 2 * 0 < MicroUnits
    BY <1>2
  <2>2. x # Inf
    BY <1>1, <1>4
  <2>3. SixDecimals(x) = q * MicroUnits
    BY <1>5, <1>6, <2>1, <2>2 DEF SixDecimals
  <2>4. QED
    BY <2>3 DEF x
<1>8. QED
  BY <1>3, <1>4, <1>7 DEF x

(* Text without NUL is written whole. *)
LEMMA CutNothing ==
    ASSUME NEW s, \A k \in DOMAIN s : s[k] # "NUL"
    PROVE  Cut(s) = s
BY DEF Cut

(* To pick every element of a sequence is to copy it. *)
LEMMA PickedAll ==
    ASSUME NEW S, NEW s \in Seq(S)
    PROVE  Picked(s, DOMAIN s) = s
<1>1. DOMAIN s = 1..Len(s) /\ Len(s) \in Nat
  OBVIOUS
<1>2. \A n \in Nat : Cardinality(1..n) = n
  BY FS_Interval, SMT
<1> DEFINE At(n) == CHOOSE k \in DOMAIN s : Cardinality({j \in DOMAIN s : j <= k}) = n
<1>3. ASSUME NEW n \in 1..Len(s) PROVE At(n) = n
  <2>1. ASSUME NEW k \in DOMAIN s
        PROVE  Cardinality({j \in DOMAIN s : j <= k}) = k
    <3>1. {j \in DOMAIN s : j <= k} = 1..k
      BY <1>1, SMT
    <3>2. k \in Nat
      BY <1>1, SMT
    <3>3. QED
      BY <1>2, <3>1, <3>2, Zenon
  <2> DEFINE Is(k) == Cardinality({j \in DOMAIN s : j <= k}) = n
  <2>2. n \in DOMAIN s /\ Is(n) /\ \A k \in DOMAIN s : Is(k) => k = n
    BY <1>1, <2>1
  <2>3. At(n) = CHOOSE k \in DOMAIN s : Is(k)
    OBVIOUS
  <2> HIDE DEF Is, At
  <2>4. QED
    BY <2>2, <2>3, Zenon
<1>4. Cardinality(DOMAIN s) = Len(s)
  BY <1>1, <1>2
<1>5. Picked(s, DOMAIN s) = [n \in 1..Len(s) |-> s[At(n)]]
  BY <1>4, Zenon DEF Picked
<1> HIDE DEF At
<1>6. [n \in 1..Len(s) |-> s[At(n)]] = [n \in 1..Len(s) |-> s[n]]
  BY <1>3
<1>7. s = [n \in 1..Len(s) |-> s[n]]
  BY <1>1
<1>8. QED
  BY <1>5, <1>6, <1>7

(* Text without quotes is read as it was written. *)
LEMMA TextSurvives ==
    ASSUME NEW s \in Texts, \A k \in DOMAIN s : s[k] \notin {"'", "NUL"}
    PROVE  /\ Cut(s) = s
           /\ LiteralValue(Cut(s)) = s
           /\ LikePattern(s) = <<"%">> \o s \o <<"%">>
<1>1. Cut(s) = s
  BY CutNothing
<1>2. Picked(s, DOMAIN s) = s
  BY ValuesAssumption, PickedAll
<1>3. /\ {k \in DOMAIN s : s[k] = "'" => InRun(s, k) % 2 = 1} = DOMAIN s
      /\ {k \in DOMAIN s : s[k] # "'"} = DOMAIN s
  OBVIOUS
<1>4. QED
  BY <1>1, <1>2, <1>3 DEF LiteralValue, LikePattern

(* Text without quotes does not leave its quotes. *)
LEMMA PlainIsContained ==
    ASSUME NEW m, NEW v \in Values(m), Plain(m, v)
    PROVE  Contained(m, v)
<1> SUFFICES ASSUME Class[m] = "kText" PROVE IsLiteral(Cut(v))
  BY DEF Contained
<1>1. \A k \in DOMAIN v : v[k] \notin {"'", "NUL"}
  BY DEF Plain
<1>2. Cut(v) = v
  BY <1>1, CutNothing
<1>3. Ends(v) = {}
  BY <1>1 DEF Ends
<1>4. QED
  BY <1>2, <1>3 DEF IsLiteral

-----------------------------------------------------------------------------
(* Records are as Records enumerates them. *)

Good(p, k) == Values(Layout[p][k])

(* The sequences of n values that begin a record, if f says which those of *)
(* fewer values are.                                                       *)
Longer(lists, p, n) == {Append(l, v) : l \in lists, v \in Good(p, n)}
Lists(f, p, n) == IF n = 0 THEN {<<>>} ELSE Longer(f[n - 1], p, n)

Position(p, m) == CHOOSE k \in DOMAIN Layout[p] : Layout[p][k] = m

LEMMA LayoutFacts ==
    ASSUME NEW p \in Programs
    PROVE  /\ Len(Layout[p]) \in Nat
           /\ DOMAIN Layout[p] = 1..Len(Layout[p])
           /\ Names(Layout[p]) \subseteq DOMAIN Class
           /\ \A m \in Names(Layout[p]) :
                 Position(p, m) \in DOMAIN Layout[p] /\ Layout[p][Position(p, m)] = m
<1>1. Layout[p] \in Seq(DOMAIN Class)
  BY LayoutAssumption
<1>2. /\ Len(Layout[p]) \in Nat /\ DOMAIN Layout[p] = 1..Len(Layout[p])
      /\ \A k \in DOMAIN Layout[p] : Layout[p][k] \in DOMAIN Class
  BY <1>1
<1>3. \A m \in Names(Layout[p]) : \E k \in DOMAIN Layout[p] : Layout[p][k] = m
  BY DEF Names
<1>4. Names(Layout[p]) \subseteq DOMAIN Class
  BY <1>2 DEF Names
<1>5. QED
  BY <1>2, <1>3, <1>4 DEF Position

(* The recursive definition in Records has a solution. *)
LEMMA RecordsAre ==
    ASSUME NEW p \in Programs
    PROVE  \E f : /\ \A n \in 0..Len(Layout[p]) : f[n] = Lists(f, p, n)
                  /\ Records(p) = {[m \in Names(Layout[p]) |-> l[Position(p, m)]] :
                                      l \in f[Len(Layout[p])]}
<1> DEFINE Is(f, n) == f = [k \in 0..n |-> Lists(f, p, k)]
           S == {n \in Nat : \E f : Is(f, n)}
<1>1. 0 \in S
  <2> DEFINE g == [k \in 0..0 |-> {<<>>}]
  <2>1. Is(g, 0)
    BY DEF Lists
  <2> HIDE DEF Is, g
  <2>2. QED
    BY <2>1
<1>2. ASSUME NEW n \in Nat, n \in S PROVE n + 1 \in S
  <2>1. PICK f : Is(f, n)
    BY <1>2
  <2> DEFINE g == [k \in 0..(n + 1) |-> IF k <= n THEN f[k] ELSE Lists(f, p, k)]
  <2>2. \A k \in 0..n : f[k] = Lists(f, p, k)
    BY <2>1
  <2>3. \A k \in 0..(n + 1) : g[k] = Lists(g, p, k)
    BY <2>2 DEF Lists
  <2>4. Is(g, n + 1)
    BY <2>3
  <2> HIDE DEF Is, g
  <2>5. QED
    BY <2>4
<1>3. \A n \in Nat : \E f : Is(f, n)
  <2> HIDE DEF Is
  <2>1. Nat \subseteq S
    <3> HIDE DEF S
    <3>1. QED
      BY <1>1, <1>2, SetInduction
  <2>2. QED
    BY <2>1
<1> DEFINE f == CHOOSE f : Is(f, Len(Layout[p]))
<1>4. Records(p) = {[m \in Names(Layout[p]) |-> l[Position(p, m)]] : l \in f[Len(Layout[p])]}
  BY DEF Records, Lists, Longer, Good, Position
<1>5. Is(f, Len(Layout[p]))
  <2> HIDE DEF Is
  <2>1. QED
    BY <1>3, LayoutFacts
<1> HIDE DEF f
<1>6. \A n \in 0..Len(Layout[p]) : f[n] = Lists(f, p, n)
  BY <1>5
<1>7. QED
  BY <1>4, <1>6

(* A record has a value for every member, of its class. *)
IsRecord(r) == \A m \in DOMAIN r : r[m] \in Values(m)

LEMMA RecordIs ==
    ASSUME NEW p \in Programs, NEW r \in Records(p)
    PROVE  DOMAIN r = Names(Layout[p]) /\ IsRecord(r)
<1>1. PICK f : /\ \A n \in 0..Len(Layout[p]) : f[n] = Lists(f, p, n)
               /\ Records(p) = {[m \in Names(Layout[p]) |-> l[Position(p, m)]] :
                                   l \in f[Len(Layout[p])]}
  BY RecordsAre
<1> DEFINE size == Len(Layout[p])
           V == UNION {Good(p, k) : k \in 1..size}
           Begins(l, n) == l \in Seq(V) /\ Len(l) = n /\ \A k \in 1..n : l[k] \in Good(p, k)
           S == {n \in Nat : n <= size => \A l \in f[n] : Begins(l, n)}
<1>2. size \in Nat
  BY LayoutFacts
<1>3. 0 \in S
  <2>1. f[0] = {<<>>}
    <3>1. 0 \in 0..size
      BY <1>2
    <3>2. f[0] = Lists(f, p, 0)
      BY <1>1, <3>1
    <3>3. QED
      BY <3>2 DEF Lists
  <2>2. Begins(<<>>, 0)
    OBVIOUS
  <2> HIDE DEF Begins
  <2>3. QED
    BY <2>1, <2>2
<1>4. ASSUME NEW n \in Nat, n \in S PROVE n + 1 \in S
  <2>1. SUFFICES ASSUME n + 1 <= size, NEW x \in f[n + 1] PROVE Begins(x, n + 1)
    <3> HIDE DEF Begins
    <3>1. QED
      OBVIOUS
  <2>2. n + 1 \in 0..size /\ n + 1 \in 1..size /\ n <= size /\ n + 1 # 0 /\ (n + 1) - 1 = n
    BY <1>2, <2>1
  <2>3. f[n + 1] = Longer(f[n], p, n + 1)
    BY <1>1, <2>2 DEF Lists
  <2>4. PICK l \in f[n], v \in Good(p, n + 1) : x = Append(l, v)
    BY <2>1, <2>3 DEF Longer
  <2>5. Begins(l, n)
    BY <1>4, <2>2, <2>4
  <2>6. v \in V
    BY <2>2, <2>4
  <2> HIDE DEF V
  <2>7. /\ x \in Seq(V) /\ Len(x) = n + 1 /\ x[n + 1] = v
        /\ \A k \in 1..n : x[k] = l[k]
    BY <2>4, <2>5, <2>6
  <2>8. \A k \in 1..(n + 1) : k \in 1..n \/ k = n + 1
    BY SMT
  <2>9. QED
    BY <2>4, <2>5, <2>7, <2>8
<1>5. size \in S
  <2> HIDE DEF S
  <2>1. QED
    BY <1>2, <1>3, <1>4, SetInduction
<1>6. PICK l \in f[size] : r = [m \in Names(Layout[p]) |-> l[Position(p, m)]]
  BY <1>1
<1>7. \A k \in 1..size : l[k] \in Good(p, k)
  <2>1. \A x \in f[size] : Begins(x, size)
    <3> HIDE DEF Begins
    <3>1. QED
      BY <1>2, <1>5
  <2>2. QED
    BY <1>6, <2>1
<1>8. ASSUME NEW m \in Names(Layout[p])
      PROVE  r[m] \in Good(p, Position(p, m)) /\ Layout[p][Position(p, m)] = m
  BY <1>6, <1>7, LayoutFacts
<1>9. QED
  BY <1>6, <1>8 DEF Good, IsRecord

-----------------------------------------------------------------------------
(* The inductive invariant. *)

(* The rows and what was saved in them go together. *)
Typed ==
    /\ DOMAIN table \subseteq Ids
    /\ DOMAIN saved = DOMAIN table
    /\ \A i \in DOMAIN table :
          /\ DOMAIN table[i] = Names(columns)
          /\ DOMAIN saved[i] = {m \in Names(columns) : table[i][m] # Null}

(* The table has the columns of the program that created it; before, there *)
(* is nothing.                                                             *)
Created ==
    \/ columns = NoTable /\ DOMAIN table = {} /\ got = NoResult
    \/ \E p \in Programs : columns = Layout[p]

(* A cell is what is written for the value that was saved. *)
Stored ==
    \A i \in DOMAIN table :
        /\ IsRecord(saved[i])
        /\ \A m \in DOMAIN saved[i] : table[i][m] = Cell(m, saved[i][m])

IsCondition(w) == w = Everything \/ \E m \in DOMAIN Class : w \in Wheres(m)

(* A fetch whose condition is no SQL of its own returned the rows that are *)
(* in the table and are selected.                                          *)
Found(w) == {i \in DOMAIN table : Selects(w, table[i])}

Fetched ==
    \/ got = NoResult
    \/ \E p \in Programs : \E w, records :
          /\ IsCondition(w)
          /\ got = [by |-> p, where |-> w, records |-> records]
          /\ StaysQuoted(w) =>
                records = [i \in Found(w) |-> Hydrate(p, columns, table[i])]

Sane == Typed /\ Created /\ Stored /\ Fetched

RowsInv == strayed \in BOOLEAN /\ (~strayed => Sane)

LEMMA InitRows == Init => RowsInv
<1> SUFFICES ASSUME Init PROVE RowsInv
  OBVIOUS
<1>1. DOMAIN table = {} /\ DOMAIN saved = {} /\ strayed = FALSE
  BY DEF Init
<1>2. QED
  BY <1>1 DEF Init, RowsInv, Sane, Typed, Created, Stored, Fetched

LEMMA ColumnsAre ==
    ASSUME Created, NEW m \in Names(columns), columns # NoTable
    PROVE  m \in DOMAIN Class
BY LayoutFacts DEF Created

LEMMA CreateTableRows ==
    ASSUME Sane, NEW p \in Programs, CreateTable(p)
    PROVE  Sane'
<1>1. DOMAIN table = {} /\ got = NoResult /\ columns' = Layout[p]
      /\ table' = table /\ saved' = saved /\ got' = got
  BY LayoutAssumption DEF Sane, Created, CreateTable
<1>2. Typed'
  BY <1>1 DEF Sane, Typed
<1>3. Created' /\ Fetched' /\ Stored'
  BY <1>1 DEF Created, Fetched, Stored
<1>4. QED
  BY <1>2, <1>3 DEF Sane

(* What writing leaves to show: the cells of one row, or those that stay. *)
LEMMA InsertRows ==
    ASSUME Sane, NEW p \in Programs, NEW i \in Ids, NEW r \in Records(p),
           Insert(p, i, r), ~strayed'
    PROVE  Sane'
<1> DEFINE row == [m \in Names(columns) |-> IF m \in DOMAIN r THEN Cell(m, r[m]) ELSE Null]
<1>0. AllContained(r)
  BY DEF Insert, Strays
<1>1. /\ columns # NoTable /\ i \notin DOMAIN table /\ columns' = columns /\ got' = NoResult
      /\ table' = [j \in DOMAIN table \cup {i} |-> IF j = i THEN row ELSE table[j]]
      /\ saved' = [j \in DOMAIN saved \cup {i} |-> IF j = i THEN r ELSE saved[j]]
      /\ Names(Layout[p]) \subseteq Names(columns)
  <2>1. NewRow(Names(columns), Cells(r)) = row
    BY DEF NewRow, Cells
  <2> HIDE DEF row
  <2>2. QED
    BY <1>0, <2>1 DEF Insert, Written, StatementCompiles
<1>2. DOMAIN r = Names(Layout[p]) /\ IsRecord(r)
  BY RecordIs
<1>3. /\ DOMAIN row = Names(columns)
      /\ DOMAIN r = {m \in Names(columns) : row[m] # Null}
      /\ \A m \in DOMAIN r : row[m] = Cell(m, r[m])
  <2>1. \A m \in DOMAIN r : Cell(m, r[m]) # Null
    BY <1>1, <1>2, ColumnsAre, CellAssumption DEF Sane, IsRecord
  <2>2. QED
    BY <1>1, <1>2, <2>1
<1>4. /\ DOMAIN table' = DOMAIN table \cup {i} /\ DOMAIN saved' = DOMAIN table'
      /\ table'[i] = row /\ saved'[i] = r
      /\ \A j \in DOMAIN table : table'[j] = table[j] /\ saved'[j] = saved[j]
  BY <1>1 DEF Sane, Typed
<1> HIDE DEF row
<1>5. Typed'
  BY <1>1, <1>3, <1>4 DEF Sane, Typed
<1>6. Stored'
  BY <1>2, <1>3, <1>4 DEF Sane, Stored
<1>7. Created' /\ Fetched'
  BY <1>1 DEF Sane, Created, Fetched
<1>8. QED
  BY <1>5, <1>6, <1>7 DEF Sane

LEMMA UpdateRows ==
    ASSUME Sane, NEW p \in Programs, NEW i \in Ids, NEW r \in Records(p),
           Update(p, i, r), ~strayed'
    PROVE  Sane'
<1> DEFINE old == saved[i]
           row == [m \in DOMAIN table[i] |-> IF m \in DOMAIN r THEN Cell(m, r[m]) ELSE table[i][m]]
           new == [m \in DOMAIN old \cup DOMAIN r |-> IF m \in DOMAIN r THEN r[m] ELSE old[m]]
<1>0. AllContained(r)
  BY DEF Update, Strays
<1>2. DOMAIN r = Names(Layout[p]) /\ IsRecord(r)
  BY RecordIs
<1>1. /\ columns # NoTable /\ i \in DOMAIN table /\ columns' = columns /\ got' = NoResult
      /\ table' = [table EXCEPT ![i] = row] /\ saved' = [saved EXCEPT ![i] = new]
      /\ Names(Layout[p]) \subseteq Names(columns)
  <2>1. ChangedRow(table[i], Layout[p], Cells(r)) = row
    BY <1>2 DEF ChangedRow, Cells
  <2>2. /\ columns # NoTable /\ i \in DOMAIN table /\ columns' = columns /\ got' = NoResult
        /\ StatementCompiles(p)
        /\ table' = [table EXCEPT ![i] = ChangedRow(table[i], Layout[p], Cells(r))]
    BY <1>0 DEF Update
  <2>3. saved' = [saved EXCEPT ![i] = new]
    BY DEF Update
  <2> HIDE DEF row, new
  <2>4. QED
    BY <2>1, <2>2, <2>3 DEF StatementCompiles
<1>3. /\ DOMAIN saved = DOMAIN table /\ DOMAIN table[i] = Names(columns)
      /\ DOMAIN old = {m \in Names(columns) : table[i][m] # Null}
      /\ IsRecord(old) /\ \A m \in DOMAIN old : table[i][m] = Cell(m, old[m])
  BY <1>1 DEF Sane, Typed, Stored
<1>4. /\ DOMAIN table' = DOMAIN table /\ DOMAIN saved' = DOMAIN table
      /\ table'[i] = row /\ saved'[i] = new
      /\ \A j \in DOMAIN table : j # i => table'[j] = table[j] /\ saved'[j] = saved[j]
  BY <1>1, <1>3
<1>5. /\ DOMAIN row = Names(columns)
      /\ DOMAIN new = {m \in Names(columns) : row[m] # Null}
      /\ \A m \in DOMAIN new : row[m] = Cell(m, new[m])
      /\ IsRecord(new)
  <2>1. \A m \in DOMAIN r : Cell(m, r[m]) # Null
    BY <1>1, <1>2, ColumnsAre, CellAssumption DEF Sane, IsRecord
  <2> HIDE DEF old
  <2>2. IsRecord(new)
    BY <1>2, <1>3 DEF IsRecord
  <2>3. QED
    BY <1>1, <1>2, <1>3, <2>1, <2>2
<1> HIDE DEF row, new, old
<1>6. Typed'
  BY <1>1, <1>4, <1>5 DEF Sane, Typed
<1>7. Stored'
  BY <1>1, <1>4, <1>5 DEF Sane, Stored
<1>8. Created' /\ Fetched'
  BY <1>1 DEF Sane, Created, Fetched
<1>9. QED
  BY <1>6, <1>7, <1>8 DEF Sane

LEMMA DeleteRows ==
    ASSUME Sane, NEW gone, Delete(gone)
    PROVE  Sane'
<1>1. /\ columns' = columns /\ got' = NoResult
      /\ table' = [i \in DOMAIN table \ gone |-> table[i]]
      /\ saved' = [i \in DOMAIN saved \ gone |-> saved[i]]
  BY DEF Delete, Without
<1>2. /\ DOMAIN table' = DOMAIN table \ gone /\ DOMAIN saved' = DOMAIN table'
      /\ \A i \in DOMAIN table' : table'[i] = table[i] /\ saved'[i] = saved[i]
  BY <1>1 DEF Sane, Typed
<1>3. Typed'
  BY <1>1, <1>2 DEF Sane, Typed
<1>4. Stored'
  BY <1>2 DEF Sane, Stored
<1>5. Created' /\ Fetched'
  BY <1>1, <1>2 DEF Sane, Created, Fetched
<1>6. QED
  BY <1>3, <1>4, <1>5 DEF Sane

LEMMA FetchRows ==
    ASSUME Sane, NEW p \in Programs, NEW w, IsCondition(w), Fetch(p, w)
    PROVE  Sane'
<1>1. columns # NoTable /\ columns' = columns /\ table' = table /\ saved' = saved
  BY DEF Fetch
<1>2. Typed' /\ Stored'
  BY <1>1 DEF Sane, Typed, Stored
<1>3. Created'
  BY <1>1 DEF Sane, Created
<1>4. Found(w)' = Found(w)
  BY <1>1 DEF Found
<1>5. ASSUME got' = NoResult PROVE Fetched'
  BY <1>5 DEF Fetched
<1>6. ASSUME got' # NoResult PROVE Fetched'
  <2> DEFINE normal == [columns |-> columns,
                        rows |-> [i \in {i \in DOMAIN table : Selects(w, table[i])} |-> table[i]]]
             result == IF ~StaysQuoted(w)
                       THEN Beyond([sql |-> "SELECT", where |-> w], columns, table)
                       ELSE IF ~Compiles(w) THEN NoSql
                       ELSE normal
             read(x) == [i \in DOMAIN x.rows |-> Hydrate(p, x.columns, x.rows[i])]
  <2>1. got' = [by |-> p, where |-> w, records |-> read(result)] /\ result # NoSql
    BY <1>6 DEF Fetch
  <2>2. ASSUME StaysQuoted(w)
        PROVE  read(result) = [i \in Found(w) |-> Hydrate(p, columns, table[i])]
    <3>1. result = normal
      BY <2>1, <2>2
    <3>2. read(normal) = [i \in Found(w) |-> Hydrate(p, columns, table[i])]
      BY DEF Found
    <3> HIDE DEF read, result, normal
    <3>3. QED
      BY <3>1, <3>2
  <2> HIDE DEF read, result
  <2>3. QED
    BY <1>1, <1>4, <2>1, <2>2 DEF Fetched
<1>7. QED
  BY <1>2, <1>3, <1>5, <1>6 DEF Sane

LEMMA DeleteWhereRows ==
    ASSUME Sane, NEW w, DeleteWhere(w), ~strayed'
    PROVE  Sane'
<1>1. StaysQuoted(w)
  BY DEF DeleteWhere, Strays
<1>2. Delete({i \in DOMAIN table : Selects(w, table[i])})
  BY <1>1 DEF DeleteWhere
<1>3. QED
  BY <1>2, DeleteRows

(* A text that has been executed has been for good. *)
LEMMA StrayedStays ==
    ASSUME [Next]_vars, strayed \in BOOLEAN
    PROVE  strayed' \in BOOLEAN /\ (strayed => strayed')
<1>1. \A p : CreateTable(p) => strayed' = strayed
  BY DEF CreateTable
<1>2. \A p, i, r : Insert(p, i, r) => strayed' \in {strayed, TRUE}
  BY DEF Insert, Strays
<1>3. \A p, i, r : Update(p, i, r) => strayed' \in {strayed, TRUE}
  BY DEF Update, Strays
<1>4. \A gone : Delete(gone) => strayed' = strayed
  BY DEF Delete
<1>5. \A w : DeleteWhere(w) => strayed' \in {strayed, TRUE}
  BY <1>4 DEF DeleteWhere, Strays
<1>6. \A p, w : Fetch(p, w) => strayed' = strayed
  BY DEF Fetch
<1>7. UNCHANGED vars => strayed' = strayed
  BY DEF vars
<1>8. QED
  BY <1>1, <1>2, <1>3, <1>4, <1>5, <1>6, <1>7 DEF Next

LEMMA NextRows == RowsInv /\ [Next]_vars => RowsInv'
<1> SUFFICES ASSUME RowsInv, [Next]_vars PROVE RowsInv'
  OBVIOUS
<1>1. strayed' \in BOOLEAN /\ (strayed => strayed')
  BY StrayedStays DEF RowsInv
<1> SUFFICES ASSUME Sane, ~strayed' PROVE Sane'
  BY <1>1 DEF RowsInv
<1>2. CASE UNCHANGED vars
  <2>1. columns' = columns /\ table' = table /\ saved' = saved /\ got' = got
    BY <1>2 DEF vars
  <2>2. Typed' /\ Stored' /\ Created'
    BY <2>1 DEF Sane, Typed, Stored, Created
  <2>3. \A w : Found(w)' = Found(w)
    BY <2>1 DEF Found
  <2>4. Fetched'
    BY <2>1, <2>3 DEF Sane, Fetched
  <2>5. QED
    BY <2>2, <2>4 DEF Sane
<1>3. ASSUME NEW p \in Programs, CreateTable(p) PROVE Sane'
  BY <1>3, CreateTableRows
<1>4. ASSUME NEW p \in Programs, NEW i \in Ids, NEW r \in Records(p),
             Insert(p, i, r) \/ Update(p, i, r)
      PROVE  Sane'
  BY <1>4, InsertRows, UpdateRows
<1>5. ASSUME NEW gone, Delete(gone) PROVE Sane'
  BY <1>5, DeleteRows
<1>6. ASSUME NEW p \in Programs, Fetch(p, Everything) PROVE Sane'
  BY <1>6, FetchRows DEF IsCondition
<1>7. ASSUME NEW p \in Programs, NEW m \in Names(Layout[p]), NEW w \in Wheres(m),
             DeleteWhere(w) \/ Fetch(p, w)
      PROVE  Sane'
  <2>1. IsCondition(w)
    BY LayoutFacts DEF IsCondition
  <2>2. CASE DeleteWhere(w)
    BY <2>2, DeleteWhereRows
  <2>3. CASE Fetch(p, w)
    BY <2>1, <2>3, FetchRows
  <2>4. QED
    BY <1>7, <2>2, <2>3
<1>8. QED
  BY <1>2, <1>3, <1>4, <1>5, <1>6, <1>7 DEF Next

LEMMA AlwaysRows == Spec => []RowsInv
BY InitRows, NextRows, PTL DEF Spec

(* A row has a cell for every column of the table, and NULL exactly where  *)
(* no program has saved a value, until a text that left its quotes is      *)
(* executed.                                                               *)
THEOREM RowsTyped == Spec => []TypeOK
<1>1. RowsInv => TypeOK
  BY DEF RowsInv, Sane, Typed, TypeOK
<1>2. QED
  BY <1>1, AlwaysRows, PTL

-----------------------------------------------------------------------------
(* Reading. *)

LEMMA DatesSurvive ==
    ASSUME NEW v \in Dates, v \in NewYear(-9999)..(NewYear(10000) - 1)
    PROVE  FromSystemTime(SystemTime(v)) = v
<1>1. v \in Int
  BY ValuesAssumption
<1>2. PICK a \in Int, b \in Int : a = -9999 /\ b = 10000
  BY SMT
<1>3. ToDays(JanuaryFirst(a)) \in Int /\ ToDays(JanuaryFirst(b)) \in Int
  <2>1. PICK date : IsDate(date) /\ ToDays(date) = 0
    BY EveryDay
  <2>2. QED
    BY <2>1, YearBegins
<1>4. NewYear(a) = ToDays(JanuaryFirst(a)) * Day /\ NewYear(b) = ToDays(JanuaryFirst(b)) * Day
  BY DEF NewYear, JanuaryFirst
<1>5. NewYear(a) \in Int /\ NewYear(b) \in Int
  BY <1>3, <1>4, DayType, SMT
<1>6. NewYear(a) <= v /\ v < NewYear(b)
  <2>1. v \in NewYear(a)..(NewYear(b) - 1)
    BY <1>2
  <2>2. QED
    BY <1>1, <1>5, <2>1, SMT
<1>7. /\ ToDays(JanuaryFirst(-9999)) * Day <= v
      /\ v < ToDays(JanuaryFirst(10000)) * Day
  BY <1>2, <1>4, <1>6
<1>8. QED
  BY <1>1, <1>7, TimeSurvives

(* A plain value, written and read, is the same, a real up to rounding.    *)
LEMMA ValueSurvives ==
    ASSUME NEW m \in DOMAIN Class, NEW v \in Values(m), Plain(m, v)
    PROVE  Hydrated(m, Cell(m, v)) = Nearest(m, v)
<1>0. Cell(m, v) # Null
  BY CellAssumption
<1>1. CASE Class[m] = "kInt"
  <2>1. v \in (-IntHalf)..(IntHalf - 1)
    BY <1>1 DEF Plain
  <2>2. Cell(m, v) = v /\ Nearest(m, v) = v
    BY <1>1 DEF Cell, Nearest
  <2>3. Hydrated(m, v) = ColumnInt(v)
    BY <1>0, <1>1, <2>2 DEF Hydrated
  <2>4. QED
    BY <2>1, <2>2, <2>3, IntsFit
<1>2. CASE Class[m] = "kBool"
  <2>1. v \in BOOLEAN
    BY <1>2 DEF Values
  <2>2. Cell(m, v) = (IF v THEN 1 ELSE 0) /\ Nearest(m, v) = v
    BY <1>2 DEF Cell, Nearest
  <2>3. Hydrated(m, Cell(m, v)) = (ColumnInt(Cell(m, v)) = 1)
    BY <1>0, <1>2 DEF Hydrated
  <2>4. ColumnInt(0) = 0 /\ ColumnInt(1) = 1
    <3>1. 0 \in (-IntHalf)..(IntHalf - 1) /\ 1 \in (-IntHalf)..(IntHalf - 1)
      BY WidthAssumption, SMT
    <3>2. QED
      BY <3>1, IntsFit
  <2>5. CASE v = TRUE
    <3>1. Cell(m, v) = 1
      BY <2>2, <2>5
    <3>2. QED
      BY <2>2, <2>3, <2>4, <2>5, <3>1
  <2>6. CASE v = FALSE
    <3>1. Cell(m, v) = 0
      BY <2>2, <2>6
    <3>2. 0 # 1
      OBVIOUS
    <3>3. QED
      BY <2>2, <2>3, <2>4, <2>6, <3>1, <3>2
  <2>7. QED
    BY <2>1, <2>5, <2>6
<1>3. CASE Class[m] = "kReal"
  <2>1. v \in Int
    BY <1>3, ValuesAssumption DEF Values, Plain
  <2>2. Cell(m, v) = SixDecimals(v) /\ Nearest(m, v) = SixDecimals(v)
    BY <1>3 DEF Cell, Nearest
  <2>3. Hydrated(m, Cell(m, v)) = SixDecimals(Cell(m, v))
    BY <1>0, <1>3 DEF Hydrated
  <2>4. QED
    BY <2>1, <2>2, <2>3, Rounded
<1>4. CASE Class[m] = "kText"
  <2>1. v \in Texts /\ \A k \in DOMAIN v : v[k] \notin {"'", "NUL"}
    BY <1>4 DEF Values, Plain
  <2>2. Cell(m, v) = LiteralValue(Cut(v)) /\ Nearest(m, v) = v
    BY <1>4 DEF Cell, Nearest
  <2>3. Hydrated(m, Cell(m, v)) = Cell(m, v)
    BY <1>0, <1>4 DEF Hydrated
  <2>4. QED
    BY <2>1, <2>2, <2>3, TextSurvives
<1>5. CASE Class[m] = "kDateTime"
  <2>1. v \in Dates /\ v \in NewYear(-9999)..(NewYear(10000) - 1)
    BY <1>5 DEF Values, Plain
  <2>2. Cell(m, v) = SystemTime(v) /\ Nearest(m, v) = v
    BY <1>5 DEF Cell, Nearest
  <2>3. Hydrated(m, Cell(m, v)) = FromSystemTime(Cell(m, v))
    BY <1>0, <1>5 DEF Hydrated
  <2>4. QED
    BY <2>1, <2>2, <2>3, DatesSurvive
<1>6. QED
  BY <1>1, <1>2, <1>3, <1>4, <1>5, LayoutAssumption

(* A program with the columns of the table as its members reads the cell   *)
(* of each.                                                                *)
LEMMA HydrateIs ==
    ASSUME NEW p \in Programs, columns = Layout[p], NEW row, NEW m \in Names(Layout[p])
    PROVE  Hydrate(p, columns, row)[m] = Hydrated(m, row[m])
<1>1. Position(p, m) \in DOMAIN Layout[p] /\ Layout[p][Position(p, m)] = m
      /\ Len(Layout[p]) \in Nat /\ DOMAIN Layout[p] = 1..Len(Layout[p])
  BY LayoutFacts
<1>2. ~(Len(columns) > Len(Layout[p])) /\ ~(Position(p, m) > Len(columns))
  BY <1>1, SMT
<1>3. Hydrate(p, columns, row)[m] =
          IF Len(columns) > Len(Layout[p]) THEN Garbled
          ELSE IF Position(p, m) > Len(columns) THEN Hydrated(m, Null)
          ELSE IF Class[columns[Position(p, m)]] # Class[m] THEN Garbled
          ELSE Hydrated(m, row[columns[Position(p, m)]])
  BY Zenon DEF Hydrate, Position
<1>4. QED
  BY <1>1, <1>2, <1>3

LEMMA RowsRead == RowsInv => ReadAsSaved
<1> SUFFICES ASSUME Sane, got # NoResult, StaysQuoted(got.where), columns = Layout[got.by],
                    NEW i \in DOMAIN got.records, NEW m \in DOMAIN saved[i],
                    Plain(m, saved[i][m])
             PROVE  got.records[i][m] = Nearest(m, saved[i][m])
  BY DEF ReadAsSaved, RowsInv
<1>1. PICK p, w, records :
          /\ p \in Programs
          /\ got = [by |-> p, where |-> w, records |-> records]
          /\ StaysQuoted(w) =>
                records = [j \in Found(w) |-> Hydrate(p, columns, table[j])]
  BY DEF Sane, Fetched
<1>2. p \in Programs /\ columns = Layout[p] /\ i \in Found(w)
      /\ got.records[i] = Hydrate(p, columns, table[i])
  BY <1>1
<1>3. i \in DOMAIN table
  BY <1>2 DEF Found
<1>4. /\ m \in Names(Layout[p])
      /\ table[i][m] = Cell(m, saved[i][m]) /\ saved[i][m] \in Values(m)
  BY <1>2, <1>3 DEF Sane, Typed, Stored, IsRecord
<1>5. got.records[i][m] = Hydrated(m, table[i][m])
  BY <1>2, <1>4, HydrateIs
<1>6. m \in DOMAIN Class
  BY <1>2, <1>4, LayoutFacts
<1>7. QED
  BY <1>4, <1>5, <1>6, ValueSurvives

(* A member that survives the way through text is read as the last program *)
(* that wrote it saved it, by every program with the columns of the table, *)
(* until a text that left its quotes is executed.                          *)
THEOREM SavedIsRead == Spec => []ReadAsSaved
BY RowsRead, AlwaysRows, PTL

-----------------------------------------------------------------------------
(* Predicates. *)

(* What texts and patterns are made of; the provers do not see that a      *)
(* given string is one of STRING.                                          *)
Characters == STRING \cup {"a", "%"}

(* A text in lower case has the same length. *)
LEMMA LowerIs ==
    ASSUME NEW s, s \in Seq(Characters)
    PROVE  /\ Lower(s) \in Seq(Characters) /\ Len(Lower(s)) = Len(s) /\ Len(s) \in Nat
           /\ DOMAIN s = 1..Len(s)
           /\ \A k \in 1..Len(s) : Lower(s)[k] = IF s[k] = "A" THEN "a" ELSE s[k]
<1>1. DOMAIN s = 1..Len(s) /\ Len(s) \in Nat /\ \A k \in 1..Len(s) : s[k] \in Characters
  OBVIOUS
<1> DEFINE low(k) == IF s[k] = "A" THEN "a" ELSE s[k]
<1>2. Lower(s) = [k \in 1..Len(s) |-> low(k)]
  BY <1>1 DEF Lower
<1>3. \A k \in 1..Len(s) : low(k) \in Characters
  BY <1>1 DEF Characters
<1>4. \A k \in 1..Len(s) : Lower(s)[k] = low(k)
  BY <1>2
<1>5. Lower(s) \in Seq(Characters) /\ Len(Lower(s)) = Len(s)
  <2> HIDE DEF low
  <2>1. QED
    BY <1>1, <1>2, <1>3
<1>6. QED
  BY <1>1, <1>4, <1>5

(* The pattern between two % signs, in lower case. *)
LEMMA PatternIs ==
    ASSUME NEW y, y \in Seq(Characters)
    PROVE  LET t == Lower(<<"%">> \o y \o <<"%">>) IN
           /\ Len(t) = Len(y) + 2
           /\ t[1] = "%" /\ t[Len(y) + 2] = "%"
           /\ \A j \in 1..Len(y) : t[j + 1] = Lower(y)[j]
<1> DEFINE z == <<"%">> \o y \o <<"%">>
<1>1. Len(y) \in Nat
  OBVIOUS
<1>2. /\ z \in Seq(Characters) /\ Len(z) = Len(y) + 2
      /\ z[1] = "%" /\ z[Len(y) + 2] = "%"
      /\ \A j \in 1..Len(y) : z[j + 1] = y[j]
  <2> DEFINE a == <<"%">> \o y
  <2>1. /\ <<"%">> \in Seq(Characters) /\ Len(<<"%">>) = 1 /\ <<"%">>[1] = "%"
    <3>1. "%" \in Characters
      BY DEF Characters
    <3>2. QED
      BY <3>1
  <2>2. /\ a \in Seq(Characters) /\ Len(a) = Len(y) + 1 /\ a[1] = "%"
        /\ \A j \in 1..Len(y) : a[j + 1] = y[j]
    BY <1>1, <2>1
  <2> HIDE DEF a
  <2>3. /\ a \o <<"%">> \in Seq(Characters) /\ Len(a \o <<"%">>) = Len(y) + 2
        /\ \A k \in 1..(Len(y) + 1) : (a \o <<"%">>)[k] = a[k]
        /\ (a \o <<"%">>)[Len(y) + 2] = "%"
    BY <1>1, <2>1, <2>2
  <2>4. QED
    BY <1>1, <2>2, <2>3 DEF a
<1> HIDE DEF z
<1>3. /\ Len(Lower(z)) = Len(z)
      /\ \A k \in 1..Len(z) : Lower(z)[k] = IF z[k] = "A" THEN "a" ELSE z[k]
  BY <1>2, LowerIs
<1>4. 1 \in 1..Len(z) /\ Len(y) + 2 \in 1..Len(z) /\ \A j \in 1..Len(y) : j + 1 \in 1..Len(z)
  BY <1>1, <1>2
<1>5. \A j \in 1..Len(y) : Lower(y)[j] = IF y[j] = "A" THEN "a" ELSE y[j]
  BY LowerIs
<1>6. Lower(z)[1] = "%" /\ Lower(z)[Len(y) + 2] = "%"
  BY <1>2, <1>3, <1>4
<1>7. \A j \in 1..Len(y) : Lower(z)[j + 1] = Lower(y)[j]
  BY <1>2, <1>3, <1>4, <1>5
<1>8. QED
  BY <1>2, <1>3, <1>6, <1>7 DEF z

(* The characters of s from the k-th on are those of t. *)
At(s, t, k, n) == \A j \in 1..n : s[k + j] = t[j]

LEMMA ContainsIs ==
    ASSUME NEW x, x \in Seq(Characters), NEW y, y \in Seq(Characters)
    PROVE  Contains(x, y) <=>
               \E k \in 0..(Len(x) - Len(y)) : At(Lower(x), Lower(y), k, Len(y))
<1>1. Len(x) \in Nat /\ Len(y) \in Nat
  OBVIOUS
<1>2. ASSUME NEW k \in 0..(Len(x) - Len(y))
      PROVE  Lower(SubSeq(x, k + 1, k + Len(y))) = Lower(y)
                 <=> At(Lower(x), Lower(y), k, Len(y))
  <2> DEFINE z == SubSeq(x, k + 1, k + Len(y))
  <2>1. z \in Seq(Characters) /\ Len(z) = Len(y) /\ \A j \in 1..Len(y) : z[j] = x[k + j]
    BY <1>1
  <2> HIDE DEF z
  <2>2. \A j \in 1..Len(y) : k + j \in 1..Len(x)
    BY <1>1
  <2>3. /\ Lower(z) \in Seq(Characters) /\ Len(Lower(z)) = Len(y)
        /\ \A j \in 1..Len(y) : Lower(z)[j] = Lower(x)[k + j]
    BY <2>1, <2>2, LowerIs
  <2>4. Lower(y) \in Seq(Characters) /\ Len(Lower(y)) = Len(y)
    BY LowerIs
  <2>5. Lower(z) = Lower(y) <=> \A j \in 1..Len(y) : Lower(z)[j] = Lower(y)[j]
    BY <1>1, <2>3, <2>4
  <2>6. QED
    BY <2>3, <2>5 DEF At, z
<1>3. QED
  BY <1>2 DEF Contains

(* How the characters of a text are read by those of a pattern, of which   *)
(* some stands for any text and one for any character.                     *)
Reads(s, t, some, one, read) ==
    /\ read[0] = 0 /\ read[Len(t)] = Len(s)
    /\ \A j \in 1..Len(t) :
          IF t[j] = some THEN read[j - 1] <= read[j]
          ELSE read[j] = read[j - 1] + 1 /\ t[j] \in {one, s[read[j]]}

Readable(s, t, some, one) ==
    \E read \in [0..Len(t) -> 0..Len(s)] : Reads(s, t, some, one, read)

Somewhere(s, u, n, l) == \E k \in 0..(n - l) : At(s, u, k, l)

(* The pattern t has the n characters of u between two that stand for any  *)
(* text.                                                                   *)
Framed(t, u, l, some, one) ==
    /\ l \in Nat /\ Len(t) = l + 2 /\ t[1] = some /\ t[l + 2] = some
    /\ \A j \in 1..l : t[j + 1] = u[j]
    /\ \A j \in 1..l : u[j] # some /\ u[j] # one

LEMMA ReadsIs ==
    ASSUME NEW some, NEW one, NEW s, NEW t, NEW u, NEW n, n \in Nat, NEW l,
           Len(s) = n, Framed(t, u, l, some, one)
    PROVE  Readable(s, t, some, one) <=> Somewhere(s, u, n, l)
<1>1. n \in Nat /\ l \in Nat /\ Len(s) = n
  BY DEF Framed
<1>2. Len(t) = l + 2 /\ t[1] = some /\ t[l + 2] = some /\ \A j \in 1..l : t[j + 1] = u[j]
  BY DEF Framed
<1>3. \A j \in 1..l : u[j] # some /\ u[j] # one
  BY DEF Framed
<1>4. ASSUME NEW k \in 0..(n - l), At(s, u, k, l)
      PROVE  \E read \in [0..Len(t) -> 0..Len(s)] : Reads(s, t, some, one, read)
  <2> DEFINE read == [j \in 0..(l + 2) |->
                         IF j = 0 THEN 0 ELSE IF j <= l + 1 THEN k + j - 1 ELSE n]
  <2>1. read \in [0..Len(t) -> 0..Len(s)]
    BY <1>1, <1>2
  <2>2. /\ read[0] = 0 /\ read[l + 2] = n /\ read[l + 1] = k + l /\ read[1] = k
        /\ \A j \in 1..(l + 1) : read[j] = k + j - 1
    BY <1>1
  <2> HIDE DEF read
  <2>3. ASSUME NEW j \in 1..l
        PROVE  /\ t[j + 1] # some /\ read[j + 1] = read[j] + 1 /\ t[j + 1] = s[read[j + 1]]
    <3>1. t[j + 1] = u[j] /\ u[j] # some /\ s[k + j] = u[j]
      BY <1>2, <1>3, <1>4 DEF At
    <3>2. read[j] = k + j - 1 /\ read[j + 1] = k + j
      BY <1>1, <2>2
    <3>3. QED
      BY <3>1, <3>2
  <2>4. ASSUME NEW j \in 1..Len(t)
        PROVE  IF t[j] = some THEN read[j - 1] <= read[j]
               ELSE read[j] = read[j - 1] + 1 /\ t[j] \in {one, s[read[j]]}
    <3>1. CASE j = 1
      BY <1>1, <1>2, <2>2, <3>1
    <3>2. CASE j = l + 2
      BY <1>1, <1>2, <2>2, <3>2
    <3>3. CASE j # 1 /\ j # l + 2
      <4>1. j - 1 \in 1..l /\ (j - 1) + 1 = j
        BY <1>1, <1>2, <3>3
      <4>2. QED
        BY <2>3, <4>1
    <3>4. QED
      BY <3>1, <3>2, <3>3
  <2>5. QED
    BY <1>1, <1>2, <2>1, <2>2, <2>4 DEF Reads
<1>5. ASSUME NEW read \in [0..Len(t) -> 0..Len(s)], Reads(s, t, some, one, read)
      PROVE  \E k \in 0..(n - l) : At(s, u, k, l)
  <2> DEFINE k == read[1]
             S == {i \in Nat : i <= l => read[i + 1] = k + i}
  <2>1. \A j \in 0..(l + 2) : read[j] \in 0..n
    BY <1>1, <1>2
  <2>2. k \in Nat
    BY <1>1, <2>1
  <2> HIDE DEF k
  <2>3. ASSUME NEW j \in 1..l
        PROVE  read[j + 1] = read[j] + 1 /\ u[j] = s[read[j + 1]]
    <3>1. j + 1 \in 1..Len(t) /\ (j + 1) - 1 = j
      BY <1>1, <1>2
    <3>2. t[j + 1] = u[j] /\ u[j] # some /\ u[j] # one
      BY <1>2, <1>3
    <3>3. QED
      BY <1>5, <3>1, <3>2 DEF Reads
  <2>4. 0 \in S
    BY <2>2 DEF k
  <2>5. ASSUME NEW i \in Nat, i \in S PROVE i + 1 \in S
    <3>1. SUFFICES ASSUME i + 1 <= l PROVE read[(i + 1) + 1] = k + (i + 1)
      OBVIOUS
    <3>2. i + 1 \in 1..l /\ read[i + 1] = k + i
      BY <1>1, <2>5, <3>1
    <3>3. read[(i + 1) + 1] = read[i + 1] + 1
      BY <2>3, <3>2
    <3>4. QED
      BY <2>2, <3>2, <3>3
  <2>6. \A i \in 0..l : read[i + 1] = k + i
    <3>1. Nat \subseteq S
      <4> HIDE DEF S
      <4>1. QED
        BY <2>4, <2>5, SetInduction
    <3>2. QED
      BY <1>1, <3>1
  <2>7. At(s, u, k, l)
    <3>1. ASSUME NEW j \in 1..l PROVE s[k + j] = u[j]
      <4>1. read[j + 1] = k + j
        BY <1>1, <2>6
      <4>2. QED
        BY <2>3, <4>1
    <3>2. QED
      BY <3>1 DEF At
  <2>8. k + l <= n
    <3>1. read[l + 1] = k + l
      BY <1>1, <2>6
    <3>2. l + 2 \in 1..Len(t) /\ (l + 2) - 1 = l + 1
      BY <1>1, <1>2
    <3>3. read[l + 1] <= read[l + 2] /\ read[l + 2] = n
      BY <1>1, <1>2, <1>5, <3>2 DEF Reads
    <3>4. QED
      BY <3>1, <3>3
  <2>9. k \in 0..(n - l)
    BY <1>1, <2>2, <2>8
  <2>10. QED
    BY <2>7, <2>9
<1>6. QED
  BY <1>4, <1>5 DEF Readable, Somewhere

(* A pattern between two % signs without characters that LIKE gives a      *)
(* meaning to is found where the text contains it.                         *)
LEMMA LikeIsContains ==
    ASSUME NEW x, x \in Seq(Characters), NEW y, y \in Seq(Characters),
           \A k \in DOMAIN y : y[k] \notin {"%", "_"}
    PROVE  IsLike(x, <<"%">> \o y \o <<"%">>) <=> Contains(x, y)
<1> DEFINE s == Lower(x)
           u == Lower(y)
           t == Lower(<<"%">> \o y \o <<"%">>)
           n == Len(x)
           l == Len(y)
<1>1. n \in Nat /\ l \in Nat /\ Len(s) = n /\ DOMAIN y = 1..l
  BY LowerIs
<1>2. Len(t) = l + 2 /\ t[1] = "%" /\ t[l + 2] = "%" /\ \A j \in 1..l : t[j + 1] = u[j]
  BY PatternIs
<1>3. \A j \in 1..l : u[j] # "%" /\ u[j] # "_"
  <2>1. \A j \in 1..l : u[j] = IF y[j] = "A" THEN "a" ELSE y[j]
    BY LowerIs
  <2>2. \A j \in 1..l : y[j] # "%" /\ y[j] # "_"
    BY <1>1
  <2>3. QED
    BY <2>1, <2>2
<1>4. IsLike(x, <<"%">> \o y \o <<"%">>)
          <=> Readable(s, t, "%", "_")
  BY DEF IsLike, Reads, Readable
<1>5. Contains(x, y) <=> Somewhere(s, u, n, l)
  BY ContainsIs DEF Somewhere
<1> HIDE DEF s, u, t, n, l
<1>6. Readable(s, t, "%", "_") <=> Somewhere(s, u, n, l)
  <2>1. Framed(t, u, l, "%", "_")
    BY <1>1, <1>2, <1>3 DEF Framed
  <2>2. QED
    BY <1>1, <2>1, ReadsIs
<1>7. QED
  BY <1>4, <1>5, <1>6

LEMMA TextsAre == Texts \subseteq Seq(Characters)
BY ValuesAssumption DEF Characters

(* Plain values that differ have different cells. *)
LEMMA CellsDiffer ==
    ASSUME NEW m \in DOMAIN Class, NEW a \in Values(m), NEW b \in Values(m),
           Plain(m, a), Plain(m, b)
    PROVE  Cell(m, a) = Cell(m, b) <=> Nearest(m, a) = Nearest(m, b)
<1>1. /\ Hydrated(m, Cell(m, a)) = Nearest(m, a)
      /\ Hydrated(m, Cell(m, b)) = Nearest(m, b)
  BY ValueSurvives
<1>2. CASE Class[m] = "kReal"
  BY <1>2 DEF Cell, Nearest
<1>3. CASE Class[m] # "kReal"
  <2>1. Nearest(m, a) = a /\ Nearest(m, b) = b
    BY <1>3 DEF Nearest
  <2>2. QED
    BY <1>1, <2>1
<1>4. QED
  BY <1>2, <1>3

(* A comparison of cells says the same as one of the values. *)
LEMMA Compared ==
    ASSUME NEW m \in DOMAIN Class, NEW w \in Wheres(m), NEW a \in Values(m),
           Plain(m, a), Plain(m, w.value), Unambiguous(w)
    PROVE  Holds(w.symbol, Cell(m, a), Operand(w))
               <=> Meant(w.symbol, Nearest(m, a), Nearest(m, w.value))
<1> DEFINE b == w.value
           y == w.symbol
<1>1. w.member = m /\ y \in Symbols(m) /\ b \in Values(m) /\ Plain(m, b)
  BY DEF Wheres
<1>2. /\ y = "LIKE" => Operand(w) = LikePattern(b)
      /\ y # "LIKE" => Operand(w) = Cell(m, b)
  BY <1>1 DEF Operand
<1>3. y = "LIKE" => \A k \in DOMAIN b : b[k] \notin {"%", "_"}
  BY DEF Unambiguous
<1> HIDE DEF b, y
<1>4. CASE y = "LIKE"
  <2>1. Class[m] = "kText"
    BY <1>1, <1>4 DEF Symbols
  <2>2. /\ a \in Texts /\ \A k \in DOMAIN a : a[k] \notin {"'", "NUL"}
        /\ b \in Texts /\ \A k \in DOMAIN b : b[k] \notin {"'", "NUL"}
    BY <1>1, <2>1 DEF Values, Plain
  <2>3. Cell(m, a) = a /\ Nearest(m, a) = a /\ Nearest(m, b) = b
    BY <2>1, <2>2, TextSurvives DEF Cell, Nearest
  <2>4. Operand(w) = <<"%">> \o b \o <<"%">>
    BY <1>2, <1>4, <2>2, TextSurvives
  <2>5. a \in Seq(Characters) /\ b \in Seq(Characters)
    BY <2>2, TextsAre
  <2>6. IsLike(a, <<"%">> \o b \o <<"%">>) <=> Contains(a, b)
    BY <1>3, <1>4, <2>5, LikeIsContains
  <2>7. Holds("LIKE", a, Operand(w)) <=> IsLike(a, Operand(w))
    BY DEF Holds
  <2>8. Meant("LIKE", a, b) <=> Contains(a, b)
    BY DEF Meant
  <2>9. QED
    BY <1>4, <2>3, <2>4, <2>6, <2>7, <2>8 DEF b, y
<1>5. CASE y \in {"=", "!="}
  <2>1. Cell(m, a) = Cell(m, b) <=> Nearest(m, a) = Nearest(m, b)
    BY <1>1, CellsDiffer
  <2>2. Operand(w) = Cell(m, b)
    BY <1>2, <1>5
  <2>3. \A c, d : Holds("=", c, d) <=> c = d
    BY DEF Holds
  <2>4. \A c, d : Holds("!=", c, d) <=> c # d
    BY DEF Holds
  <2>5. \A c, d : Meant(y, c, d) <=> Holds(y, c, d)
    BY <1>5 DEF Meant
  <2>6. QED
    BY <1>5, <2>1, <2>2, <2>3, <2>4, <2>5 DEF b, y
<1>6. CASE y \in {">", ">=", "<", "<="}
  <2>1. Class[m] \in {"kInt", "kReal"}
    BY <1>1, <1>6 DEF Symbols
  <2>2. Cell(m, a) = Nearest(m, a) /\ Cell(m, b) = Nearest(m, b)
    BY <2>1 DEF Cell, Nearest
  <2>3. Operand(w) = Cell(m, b)
    BY <1>2, <1>6
  <2>4. \A c, d : Meant(y, c, d) <=> Holds(y, c, d)
    BY <1>6 DEF Meant
  <2>5. QED
    BY <2>2, <2>3, <2>4 DEF b, y
<1>7. QED
  <2>1. y \in {"=", "!=", ">", ">=", "<", "<=", "LIKE"}
    BY <1>1 DEF Symbols
  <2>2. QED
    BY <1>4, <1>5, <1>6, <2>1

LEMMA RowsSelected == RowsInv => SelectedAsMeant
<1> SUFFICES ASSUME Sane, got # NoResult, got.where # Everything,
                    Plain(got.where.member, got.where.value), Unambiguous(got.where),
                    NEW i \in DOMAIN table, got.where.member \in DOMAIN saved[i],
                    Plain(got.where.member, saved[i][got.where.member])
             PROVE  i \in DOMAIN got.records
                        <=> Meant(got.where.symbol,
                                  Nearest(got.where.member, saved[i][got.where.member]),
                                  Nearest(got.where.member, got.where.value))
  BY DEF SelectedAsMeant, RowsInv
<1>1. PICK p, w, records :
          /\ p \in Programs
          /\ IsCondition(w)
          /\ got = [by |-> p, where |-> w, records |-> records]
          /\ StaysQuoted(w) =>
                records = [j \in Found(w) |-> Hydrate(p, columns, table[j])]
  BY DEF Sane, Fetched
<1>2. got.where = w /\ w # Everything
  BY <1>1
<1>3. PICK m \in DOMAIN Class : w \in Wheres(m)
  BY <1>1, <1>2 DEF IsCondition
<1>4. w.member = m /\ w.value \in Values(m)
  BY <1>3 DEF Wheres
<1>5. StaysQuoted(w)
  BY <1>2, <1>4, PlainIsContained DEF StaysQuoted
<1>6. DOMAIN got.records = Found(w)
  BY <1>1, <1>5
<1> DEFINE a == saved[i][m]
<1>7. /\ a \in Values(m) /\ table[i][m] = Cell(m, a) /\ table[i][m] # Null
  BY <1>2, <1>4, CellAssumption DEF Sane, Stored, IsRecord
<1> HIDE DEF a
<1>8. i \in DOMAIN got.records <=> Selects(w, table[i])
  BY <1>6 DEF Found
<1>9. Selects(w, table[i]) <=> Holds(w.symbol, Cell(m, a), Operand(w))
  BY <1>2, <1>4, <1>7 DEF Selects
<1>10. Holds(w.symbol, Cell(m, a), Operand(w))
          <=> Meant(w.symbol, Nearest(m, a), Nearest(m, w.value))
  BY <1>2, <1>3, <1>4, <1>7, Compared DEF a
<1>11. QED
  BY <1>2, <1>4, <1>8, <1>9, <1>10 DEF a

(* A predicate finds the rows whose saved values compare with its value as *)
(* it says, Like those that contain it, until a text that left its quotes  *)
(* is executed.                                                            *)
THEOREM MeantIsSelected == Spec => []SelectedAsMeant
BY RowsSelected, AlwaysRows, PTL
=============================================================================

-------------------------------- MODULE Rows --------------------------------
(***************************************************************************)
(* What happens to the values of a record between a struct and the table:  *)
(* GetValues writes them as text, SQLite converts the text to the type of  *)
(* the column, a predicate compares the column with the text of another    *)
(* value, GetColumnValue makes text again and Hydrate parses it into the   *)
(* member with the index of the column.  Several programs use the table,   *)
(* each compiled with its own list of members.  An operation is one step:  *)
(* Database is about its transaction.                                      *)
(*                                                                         *)
(* Nothing escapes the quotes in a text, so that one of them may end the   *)
(* literal and the rest of the text is SQL.  What SQLite does with such a  *)
(* statement s is a parameter of this module: Beyond(s, columns, table) is *)
(* the columns and rows that it leaves, or for a SELECT those it returns,  *)
(* or NoSql.                                                               *)
(***************************************************************************)
EXTENDS TimePoints, Sequences, FiniteSets

CONSTANTS
    Programs,
    Layout,     \* Layout[p]: names of the members that p registers, after the id
    Class,      \* Class[m]: storage class of member m
    Ids,        \* ids that callers use
    Ints,       \* values of kInt members
    Reals,      \* finite values of kReal members, in units of 10^-6 / MicroUnits
    Texts,      \* values of kText members: sequences of characters
    Dates,      \* values of kDateTime members: seconds since the epoch
    IntHalf,    \* 2^(w-1) for the width w of int
    MicroUnits, \* units in 10^-6, the last place that std::to_string writes
    Inf,        \* the infinite value of a kReal member
    Null,       \* a cell that no statement has given a value
    Unset,      \* a member that Hydrate leaves uninitialised
    Garbled,    \* a member parsed from the text of some other column
    NoSql,      \* a statement that does not compile, or fails
    Beyond(_, _, _)     \* what SQLite makes of a text that left its quotes

Names(list) == {list[k] : k \in DOMAIN list}

NoTable == <<"no table">>

ASSUME LayoutAssumption ==
    /\ \A p \in Programs : Layout[p] \in Seq(DOMAIN Class) /\ Layout[p] # NoTable
    /\ \A p \in Programs : \A j, k \in DOMAIN Layout[p] :
          Layout[p][j] = Layout[p][k] => j = k
    /\ \A m \in DOMAIN Class :
          Class[m] \in {"kInt", "kBool", "kReal", "kText", "kDateTime"}
ASSUME WidthAssumption == IntHalf \in Nat \ {0, 1} /\ MicroUnits \in Nat \ {0}
ASSUME ValuesAssumption == Dates \cup Reals \subseteq Int /\ Texts \subseteq Seq(STRING)
ASSUME SpecialAssumption == {Inf, Null, Unset, Garbled} \cap Int = {}

VARIABLES
    columns,    \* columns of the table after the id, in order; NoTable before
    table,      \* table[i][m]: cell of column m in the row with id i
    saved,      \* saved[i][m]: value of m in the last Save or Update that wrote it
    got,        \* what the last fetch returned, if nothing was written since
    strayed     \* has a text that left its quotes been executed as SQL

vars == <<columns, table, saved, got, strayed>>

NoResult == [by |-> "nobody"]

Values(m) ==
    CASE Class[m] = "kInt"      -> Ints
      [] Class[m] = "kBool"     -> BOOLEAN
      [] Class[m] = "kReal"     -> Reals \cup {Inf}
      [] Class[m] = "kText"     -> Texts
      [] Class[m] = "kDateTime" -> Dates

-----------------------------------------------------------------------------
(* Text. *)

(* ToUtf8 takes the characters before the first NUL. *)
Cut(s) ==
    LET nul == {k \in DOMAIN s : s[k] = "NUL"}
    IN  IF nul = {} THEN s ELSE SubSeq(s, 1, (CHOOSE k \in nul : \A j \in nul : k <= j) - 1)

(* The place of the quote s[k] among the quotes it stands next to. *)
InRun(s, k) == Cardinality({j \in 1..k : \A l \in j..k : s[l] = "'"})

(* Between single quotes SQLite reads two of them as one; the last of an   *)
(* odd number of them ends the literal.                                    *)
Ends(s) ==
    {k \in DOMAIN s : s[k] = "'" /\ (k = Len(s) \/ s[k + 1] # "'") /\ InRun(s, k) % 2 = 1}

IsLiteral(s) == Ends(s) = {}

(* The elements of s at some of its places. *)
Picked(s, places) ==
    [n \in 1..Cardinality(places) |->
        s[CHOOSE k \in places : Cardinality({j \in places : j <= k}) = n]]

LiteralValue(s) == Picked(s, {k \in DOMAIN s : s[k] = "'" => InRun(s, k) % 2 = 1})

(* FromDouble and the std::to_wstring of GetColumnValue keep six decimals; *)
(* infinity becomes a word, which a column keeps as text.                  *)
SixDecimals(r) ==
    IF r = Inf THEN Inf
    ELSE LET q    == r \div MicroUnits
             rest == r % MicroUnits
         IN  IF 2 * rest < MicroUnits \/ (2 * rest = MicroUnits /\ q % 2 = 0)
             THEN q * MicroUnits ELSE (q + 1) * MicroUnits

-----------------------------------------------------------------------------
(* GetValues and SQLite: does v stay between its quotes, and the cell that *)
(* it is then.                                                             *)

Contained(m, v) == Class[m] = "kText" => IsLiteral(Cut(v))

Cell(m, v) ==
    CASE Class[m] = "kBool"     -> IF v THEN 1 ELSE 0
      [] Class[m] = "kReal"     -> SixDecimals(v)
      [] Class[m] = "kText"     -> LiteralValue(Cut(v))
      [] Class[m] = "kDateTime" -> SystemTime(v)
      [] OTHER                  -> v

(* NULL is what no value is written as. *)
ASSUME CellAssumption == \A m \in DOMAIN Class : \A v \in Values(m) : Cell(m, v) # Null

(* GetColumnValue takes the low bits of a 64-bit integer. *)
ColumnInt(n) == ((n + IntHalf) % (2 * IntHalf)) - IntHalf

(* GetColumnValue, then a branch of Hydrate: Null is read as empty text,   *)
(* which leaves a member as the constructor of the struct made it, and so  *)
(* is the empty text itself.                                               *)
Hydrated(m, cell) ==
    CASE cell = Null -> CASE Class[m] = "kText"     -> <<>>
                          [] Class[m] = "kDateTime" -> 0
                          [] OTHER                  -> Unset
      [] Class[m] = "kInt"      -> ColumnInt(cell)
      [] Class[m] = "kBool"     -> ColumnInt(cell) = 1
      [] Class[m] = "kReal"     -> SixDecimals(cell)
      [] Class[m] = "kText"     -> cell
      [] Class[m] = "kDateTime" -> FromSystemTime(cell)

(* Hydrate goes over the columns and takes the member with the same index; *)
(* with more columns than members it reads past the metadata.              *)
Hydrate(p, names, row) ==
    [m \in Names(Layout[p]) |->
        LET k == CHOOSE k \in DOMAIN Layout[p] : Layout[p][k] = m
        IN  IF Len(names) > Len(Layout[p]) THEN Garbled
            ELSE IF k > Len(names) THEN Hydrated(m, Null)
            ELSE IF Class[names[k]] # Class[m] THEN Garbled
            ELSE Hydrated(m, row[names[k]])]

-----------------------------------------------------------------------------
(* Single comparisons.  Ordered ones exist for integers and reals, and     *)
(* Like is about text here.                                                *)

Symbols(m) ==
    {"=", "!="} \cup (IF Class[m] \in {"kInt", "kReal"} THEN {">", ">=", "<", "<="} ELSE {})
                \cup (IF Class[m] = "kText" THEN {"LIKE"} ELSE {})

Everything == [member |-> "none"]
Wheres(m) == [member : {m}, symbol : Symbols(m), value : Values(m)]

(* Text is quoted; what Like looks for has no quotes left.                 *)
StaysQuoted(w) ==
    w = Everything \/ w.symbol = "LIKE" \/ Contained(w.member, w.value)

(* A number is not quoted, and infinity is then the name of no column.     *)
Compiles(w) == w = Everything \/ (w.member \in Names(columns) /\ w.value # Inf)

(* Like::GetStringForValue; the characters that LIKE gives a meaning to    *)
(* stay as they are.                                                       *)
LikePattern(v) ==
    <<"%">> \o Picked(Cut(v), {k \in DOMAIN Cut(v) : Cut(v)[k] # "'"}) \o <<"%">>

(* Mutant: a compared real keeps all its decimals. *)
Operand_Exact(w) ==
    IF w.symbol = "LIKE" THEN LikePattern(w.value)
    ELSE IF Class[w.member] = "kReal" THEN w.value
    ELSE Cell(w.member, w.value)

Operand(w) ==
    IF w.symbol = "LIKE" THEN LikePattern(w.value) ELSE Cell(w.member, w.value)

Lower(s) == [k \in DOMAIN s |-> IF s[k] = "A" THEN "a" ELSE s[k]]

(* LIKE of SQLite: % stands for any text, _ for any character, and case    *)
(* does not count; read[j] characters match the first j of the pattern.    *)
IsLike(text, pattern) ==
    LET s == Lower(text)
        t == Lower(pattern)
    IN  \E read \in [0..Len(t) -> 0..Len(s)] :
            /\ read[0] = 0 /\ read[Len(t)] = Len(s)
            /\ \A j \in 1..Len(t) :
                  IF t[j] = "%" THEN read[j - 1] <= read[j]
                  ELSE read[j] = read[j - 1] + 1 /\ t[j] \in {"_", s[read[j]]}

(* In SQLite text is greater than every number. *)
Greater(x, y) == IF x = Inf THEN y # Inf ELSE y # Inf /\ x > y

Holds(symbol, x, y) ==
    CASE symbol = "="    -> x = y
      [] symbol = "!="   -> x # y
      [] symbol = ">"    -> Greater(x, y)
      [] symbol = ">="   -> Greater(x, y) \/ x = y
      [] symbol = "<"    -> Greater(y, x)
      [] symbol = "<="   -> Greater(y, x) \/ x = y
      [] symbol = "LIKE" -> IsLike(x, y)

(* A comparison with NULL is not true. *)
Selects(w, row) ==
    w # Everything => row[w.member] # Null /\ Holds(w.symbol, row[w.member], Operand(w))

-----------------------------------------------------------------------------
Init ==
    /\ columns = NoTable
    /\ table = [i \in {} |-> {}]
    /\ saved = [i \in {} |-> {}]
    /\ got = NoResult
    /\ strayed = FALSE

(* Initialize: CREATE TABLE IF NOT EXISTS. *)
CreateTable(p) ==
    /\ columns = NoTable
    /\ columns' = Layout[p]
    /\ UNCHANGED <<table, saved, got, strayed>>

(* The records of program p. *)
Records(p) ==
    LET Position(m) == CHOOSE k \in DOMAIN Layout[p] : Layout[p][k] = m
        lists[n \in 0..Len(Layout[p])] ==
            IF n = 0 THEN {<<>>}
            ELSE {Append(l, v) : l \in lists[n - 1], v \in Values(Layout[p][n])}
    IN  {[m \in Names(Layout[p]) |-> l[Position(m)]] : l \in lists[Len(Layout[p])]}

Cells(r) == [m \in DOMAIN r |-> Cell(m, r[m])]
AllContained(r) == \A m \in DOMAIN r : Contained(m, r[m])

StatementCompiles(p) == Names(Layout[p]) \subseteq Names(columns)

Written(f, i, value) == [j \in DOMAIN f \cup {i} |-> IF j = i THEN value ELSE f[j]]

(* Mutant: columns that the statement does not name have no cell. *)
NewRow_NoNulls(names, cells) == cells

(* The row of an INSERT that does not name all columns. *)
NewRow(names, cells) ==
    [m \in names |-> IF m \in DOMAIN cells THEN cells[m] ELSE Null]

(* Mutant: the last column is left out of SET. *)
ChangedRow_DropsLast(row, list, cells) ==
    [m \in DOMAIN row |->
        IF \E k \in 1..(Len(list) - 1) : list[k] = m THEN cells[m] ELSE row[m]]

(* The row after an UPDATE that sets the columns in the list. *)
ChangedRow(row, list, cells) ==
    [m \in DOMAIN row |-> IF m \in Names(list) THEN cells[m] ELSE row[m]]

(* A writing statement in which a text has left its quotes. *)
Strays(statement) ==
    LET after == Beyond(statement, columns, table)
    IN  /\ after # NoSql
        /\ columns' = after.columns
        /\ table' = after.rows
        /\ strayed' = TRUE

Insert(p, i, r) ==
    /\ columns # NoTable
    /\ IF AllContained(r)
       THEN /\ StatementCompiles(p) /\ i \notin DOMAIN table
            /\ table' = Written(table, i, NewRow(Names(columns), Cells(r)))
            /\ UNCHANGED <<columns, strayed>>
       ELSE Strays([sql |-> "INSERT", list |-> Layout[p], id |-> i, values |-> r])
    /\ saved' = Written(saved, i, r)
    /\ got' = NoResult

(* An UPDATE of an id that is not there changes nothing. *)
Update(p, i, r) ==
    /\ columns # NoTable /\ i \in DOMAIN table
    /\ IF AllContained(r)
       THEN /\ StatementCompiles(p)
            /\ table' = [table EXCEPT ![i] = ChangedRow(@, Layout[p], Cells(r))]
            /\ UNCHANGED <<columns, strayed>>
       ELSE Strays([sql |-> "UPDATE", list |-> Layout[p], id |-> i, values |-> r])
    /\ saved' = [saved EXCEPT ![i] = [m \in DOMAIN @ \cup DOMAIN r |->
                      IF m \in DOMAIN r THEN r[m] ELSE @[m]]]
    /\ got' = NoResult

Without(f, gone) == [i \in DOMAIN f \ gone |-> f[i]]

(* DELETE always has a condition; the id is one of them. *)
Delete(gone) ==
    /\ gone # {}
    /\ table' = Without(table, gone)
    /\ saved' = Without(saved, gone)
    /\ got' = NoResult
    /\ UNCHANGED <<columns, strayed>>

DeleteWhere(w) ==
    /\ columns # NoTable
    /\ IF StaysQuoted(w)
       THEN Compiles(w) /\ Delete({i \in DOMAIN table : Selects(w, table[i])})
       ELSE /\ Strays([sql |-> "DELETE", where |-> w])
            /\ saved' = Without(saved, DOMAIN saved \ DOMAIN table')
            /\ got' = NoResult

(* A SELECT is the only statement of its text that sqlite3_prepare_v2      *)
(* compiles, and cannot write.                                             *)
Fetch(p, w) ==
    /\ columns # NoTable
    /\ LET result ==
               IF ~StaysQuoted(w) THEN Beyond([sql |-> "SELECT", where |-> w], columns, table)
               ELSE IF ~Compiles(w) THEN NoSql
               ELSE [columns |-> columns,
                     rows |-> [i \in {i \in DOMAIN table : Selects(w, table[i])} |-> table[i]]]
       IN  got' = IF result = NoSql THEN NoResult
                  ELSE [by |-> p, where |-> w,
                        records |-> [i \in DOMAIN result.rows |->
                                        Hydrate(p, result.columns, result.rows[i])]]
    /\ UNCHANGED <<columns, table, saved, strayed>>

Next ==
    \E p \in Programs :
        \/ CreateTable(p)
        \/ \E i \in Ids, r \in Records(p) : Insert(p, i, r) \/ Update(p, i, r)
        \/ \E i \in Ids : Delete({i} \cap DOMAIN table)
        \/ Fetch(p, Everything)
        \/ \E m \in Names(Layout[p]) : \E w \in Wheres(m) : DeleteWhere(w) \/ Fetch(p, w)

Spec == Init /\ [][Next]_vars

-----------------------------------------------------------------------------
(* A row has a cell for every column, and a value was saved for every cell *)
(* that is not NULL, until a text is executed as SQL.                      *)
TypeOK ==
    /\ strayed \in BOOLEAN
    /\ ~strayed =>
          /\ DOMAIN table \subseteq Ids
          /\ DOMAIN saved = DOMAIN table
          /\ \A i \in DOMAIN table :
                /\ DOMAIN table[i] = Names(columns)
                /\ DOMAIN saved[i] = {m \in Names(columns) : table[i][m] # Null}

NewYear(y) == ToDays([year |-> y, month |-> 1, day |-> 1]) * Day

(* Values that survive the way through text: integers of the width of int, *)
(* finite reals, text without quotes and NUL, dates of years with at most  *)
(* four digits.                                                            *)
Plain(m, v) ==
    CASE Class[m] = "kInt"      -> v \in (-IntHalf)..(IntHalf - 1)
      [] Class[m] = "kBool"     -> TRUE
      [] Class[m] = "kReal"     -> v # Inf
      [] Class[m] = "kText"     -> \A k \in DOMAIN v : v[k] \notin {"'", "NUL"}
      [] Class[m] = "kDateTime" -> v \in NewYear(-9999)..(NewYear(10000) - 1)

Nearest(m, v) == IF Class[m] = "kReal" THEN SixDecimals(v) ELSE v

(* A program whose members are the columns of the table reads in every     *)
(* member what the last writer of that member saved, whichever program     *)
(* that was, a real up to six decimals, and through which predicate ever   *)
(* the record is found.  Texts that do not compile disturb nothing; of a   *)
(* table that a text was executed on, and of a condition that is one, this *)
(* says nothing.                                                           *)
ReadAsSaved ==
    ~strayed /\ got # NoResult =>
        (StaysQuoted(got.where) /\ columns = Layout[got.by] =>
            \A i \in DOMAIN got.records : \A m \in DOMAIN saved[i] :
                Plain(m, saved[i][m]) => got.records[i][m] = Nearest(m, saved[i][m]))

Contains(s, part) ==
    \E k \in 0..(Len(s) - Len(part)) : Lower(SubSeq(s, k + 1, k + Len(part))) = Lower(part)

(* What a comparison of values says; Like is about a part of a text, and   *)
(* says nothing when that has characters with a meaning for LIKE.          *)
Meant(symbol, x, y) == IF symbol = "LIKE" THEN Contains(x, y) ELSE Holds(symbol, x, y)
Unambiguous(w) == w.symbol = "LIKE" => \A k \in DOMAIN w.value : w.value[k] \notin {"%", "_"}

(* A predicate selects the records whose saved value compares with its     *)
(* value as it says, both taken to six decimals, though it compares text   *)
(* with a converted column; among them the record itself when its value is *)
(* read and searched for with Equal.                                       *)
SelectedAsMeant ==
    ~strayed /\ got # NoResult =>
        LET w == got.where IN
        w # Everything /\ Plain(w.member, w.value) /\ Unambiguous(w) =>
            \A i \in DOMAIN table :
                w.member \in DOMAIN saved[i] /\ Plain(w.member, saved[i][w.member]) =>
                    (i \in DOMAIN got.records
                        <=> Meant(w.symbol, Nearest(w.member, saved[i][w.member]),
                                  Nearest(w.member, w.value)))
=============================================================================

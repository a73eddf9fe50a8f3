------------------------------- MODULE MCRows -------------------------------
(***************************************************************************)
(* Instances of Rows.  An int has 3 bits and 10^-6 is 4 units, so that     *)
(* integers beyond the int and reals half way between two sixth decimals   *)
(* are among the values.                                                   *)
(***************************************************************************)
EXTENDS Rows

LOCAL S == INSTANCE SequencesExt

CONSTANTS current, older, other

(* Every class of member: numbers in two versions of a program, of which   *)
(* the older has no last member, and text and dates in a program that uses *)
(* a table of the same name.                                               *)
EveryClass ==
    [p \in Programs |-> CASE p = current -> <<"age", "weight", "married">>
                          [] p = older   -> <<"age", "weight">>
                          [] p = other   -> <<"name", "born">>]

Classes == [age |-> "kInt", weight |-> "kReal", name |-> "kText",
            married |-> "kBool", born |-> "kDateTime"]

(* Two of the texts leave their quotes and are SQL: the sum of two texts,  *)
(* and a comment.                                                          *)
Sum     == <<"a", "'", "||", "'", "b">>
Comment == <<"b", "'", "--">>

SomeTexts == {<<>>, <<"A", "b">>, <<"b", "'">>, <<"b", "'", "'", "a">>,
              <<"a", "_", "NUL", "b">>, Sum, Comment}
SomeInts  == {-5, -4, 3}
SomeReals == {1, 6}

(* The last second of 1969, the first one of the year 10000 and a day of   *)
(* the year 67505, which is written as one of 1969.                        *)
SomeDates == {-1, 2932897 * Day, 23936168 * Day}

-----------------------------------------------------------------------------
(* The SQL that texts are here.  After the quote that ends the literal a   *)
(* text may join a second literal to it or begin a comment, which takes    *)
(* the rest of the statement with it; blanks are left out, and anything    *)
(* else is no SQL.                                                         *)

FirstEnd(s) == CHOOSE k \in Ends(s) : \A j \in Ends(s) : k <= j
After(s) == SubSeq(s, FirstEnd(s) + 1, Len(s))

Joins(s) == S!IsPrefix(<<"||", "'">>, After(s)) /\ IsLiteral(SubSeq(After(s), 3, Len(After(s))))
Comments(s) == S!IsPrefix(<<"--">>, After(s))

Value(s) ==
    LiteralValue(SubSeq(s, 1, FirstEnd(s) - 1))
        \o IF Joins(s) THEN LiteralValue(SubSeq(After(s), 3, Len(After(s)))) ELSE <<>>

(* There is one text in a record. *)
TextOf(r) == CHOOSE m \in DOMAIN r : Class[m] = "kText"

(* A comment leaves the parenthesis of VALUES open. *)
AfterInsert(statement, cols, rows) ==
    LET m == TextOf(statement.values)
        s == Cut(statement.values[m])
    IN  IF Joins(s) /\ Names(statement.list) \subseteq Names(cols) /\ statement.id \notin DOMAIN rows
        THEN [columns |-> cols,
              rows    |-> Written(rows, statement.id,
                              NewRow(Names(cols), [Cells(statement.values) EXCEPT ![m] = Value(s)]))]
        ELSE NoSql

(* A comment takes the columns that follow and the WHERE with it. *)
AfterUpdate(statement, cols, rows) ==
    LET m     == TextOf(statement.values)
        s     == Cut(statement.values[m])
        k     == CHOOSE k \in DOMAIN statement.list : statement.list[k] = m
        list  == IF Comments(s) THEN SubSeq(statement.list, 1, k) ELSE statement.list
        ids   == IF Comments(s) THEN DOMAIN rows ELSE {statement.id}
        cells == [Cells(statement.values) EXCEPT ![m] = Value(s)]
    IN  IF (Joins(s) \/ Comments(s)) /\ Names(list) \subseteq Names(cols)
        THEN [columns |-> cols,
              rows    |-> [i \in DOMAIN rows |->
                              IF i \in ids THEN ChangedRow(rows[i], list, cells) ELSE rows[i]]]
        ELSE NoSql

(* The rows that a condition selects, returned or left out. *)
AfterWhere(statement, cols, rows) ==
    LET w     == statement.where
        s     == Cut(w.value)
        found == {i \in DOMAIN rows : /\ rows[i][w.member] # Null
                                      /\ Holds(w.symbol, rows[i][w.member], Value(s))}
    IN  IF (Joins(s) \/ Comments(s)) /\ w.member \in Names(cols)
        THEN [columns |-> cols,
              rows    |-> [i \in (IF statement.sql = "SELECT" THEN found ELSE DOMAIN rows \ found)
                              |-> rows[i]]]
        ELSE NoSql

SqlBeyond(statement, cols, rows) ==
    CASE statement.sql = "INSERT" -> AfterInsert(statement, cols, rows)
      [] statement.sql = "UPDATE" -> AfterUpdate(statement, cols, rows)
      [] OTHER                    -> AfterWhere(statement, cols, rows)

(* Bound: once a text has been executed the properties say nothing more.   *)
BeforeStraying == ~strayed
=============================================================================

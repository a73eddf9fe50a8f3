----------------------------- MODULE Statements -----------------------------
(***************************************************************************)
(* The SQL statements that the query classes of queries.cc prepare, and    *)
(* what SQLite does with them.  A record type has one table; a table is a  *)
(* partial function from ids (the INTEGER PRIMARY KEY) to the rest of the  *)
(* row, which is abstracted to one value.  The text of a statement is      *)
(* abstracted to the record that it denotes; text that SQLite cannot       *)
(* compile is the statement Malformed.                                     *)
(***************************************************************************)
EXTENDS Integers, Sequences, FiniteSets

CONSTANTS
    Types,      \* record types: the keys of ReflectionRegister::records
    Vals,       \* contents of a row other than its id
    BadText     \* contents with a single quote, which GetValues does not escape

ASSUME BadTextAssumption == BadText \notin Vals

-----------------------------------------------------------------------------
(* Contents of a database: a table for each type whose table exists. *)

IsTable(f) ==
    /\ IsFiniteSet(DOMAIN f)
    /\ DOMAIN f \subseteq Int
    /\ f \in [DOMAIN f -> Vals]

IsContents(c) ==
    /\ c = [t \in DOMAIN c |-> c[t]]
    /\ DOMAIN c \subseteq Types
    /\ \A t \in DOMAIN c : IsTable(c[t])

NewFile    == [t \in {} |-> {}]
EmptyTable == [i \in {} |-> {}]

-----------------------------------------------------------------------------
(* The text QueryPredicateBase::Evaluate produces, by what it selects:     *)
(* "" (EmptyPredicate), an equality on the id, an equality on another      *)
(* member, or text that does not compile, as of an equality with BadText.  *)

EmptyPredicate == [by |-> "nothing"]
EqualId(i)     == [id |-> i, by |-> "id"]
EqualVal(v)    == [val |-> v, by |-> "val"]
BadPredicate   == [by |-> "bad"]

Matches(w, i, v) ==
    /\ w.by = "id"  => i = w.id
    /\ w.by = "val" => v = w.val

Selected(w, table) == {i \in DOMAIN table : Matches(w, i, table[i])}

-----------------------------------------------------------------------------
(* Statements. *)

Malformed == [op |-> "malformed"]
NoSql     == [op |-> "empty"]

CreateTable(t) == [op |-> "create", type |-> t]

(* Mutant: the text of the record goes into the statement untouched. *)
Insert_AnyText(t, m) == [op |-> "insert", type |-> t, id |-> m.id, val |-> m.val]

Insert(t, m) ==
    IF m.val = BadText THEN Malformed
    ELSE [op |-> "insert", type |-> t, id |-> m.id, val |-> m.val]

Update(t, m) ==
    IF m.val = BadText THEN Malformed
    ELSE [op |-> "update", type |-> t, id |-> m.id, val |-> m.val]

(* DeleteQuery always writes WHERE, so an empty condition does not compile. *)
Delete(t, w) ==
    IF w.by \in {"nothing", "bad"} THEN Malformed
                                   ELSE [op |-> "delete", type |-> t, where |-> w]

Predicates ==
    {EmptyPredicate, BadPredicate} \cup {EqualVal(v) : v \in Vals}
        \cup [by : {"id"}, id : Int]

Stmts ==
    {Malformed, NoSql}
        \cup [op : {"create"}, type : Types]
        \cup [op : {"insert", "update"}, type : Types, id : Int, val : Vals]
        \cup [op : {"delete"}, type : Types, where : Predicates]

(* sqlite3_exec compiles the statement. *)
Compiles(s, c) ==
    /\ s.op # "malformed"
    /\ s.op \in {"insert", "update", "delete"} => s.type \in DOMAIN c

(* The compiled program opens a write transaction, or only a read one: an  *)
(* UPDATE or DELETE that matches no row still opens a write transaction,   *)
(* CREATE TABLE IF NOT EXISTS of an existing table only reads the schema.  *)
Writes(s, c) ==
    \/ s.op \in {"insert", "update", "delete"}
    \/ s.op = "create" /\ s.type \notin DOMAIN c

ReadsOnly(s, c) == s.op = "create" /\ s.type \in DOMAIN c

(* The PRIMARY KEY of CreateTableQuery::CustomizedColumnName. *)
Violates(s, c) == s.op = "insert" /\ s.id \in DOMAIN c[s.type]

TableAfter(s, table) ==
    CASE s.op = "create" -> EmptyTable
      [] s.op = "insert" -> [i \in DOMAIN table \cup {s.id} |->
                                IF i = s.id THEN s.val ELSE table[i]]
      [] s.op = "update" -> [i \in DOMAIN table |->
                                IF i = s.id THEN s.val ELSE table[i]]
      [] s.op = "delete" -> [i \in DOMAIN table \ Selected(s.where, table)
                                |-> table[i]]

Effect(s, c) ==
    IF ~Writes(s, c) THEN c
    ELSE [t \in DOMAIN c \cup {s.type} |->
             IF t = s.type THEN TableAfter(s, c[t]) ELSE c[t]]

(* SELECT MAX(id), which is NULL, and read as 0, for an empty table. *)
Greatest(table) ==
    IF DOMAIN table = {} THEN 0
    ELSE CHOOSE i \in DOMAIN table : \A j \in DOMAIN table : j <= i
=============================================================================

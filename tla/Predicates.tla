----------------------------- MODULE Predicates -----------------------------
(***************************************************************************)
(* WHERE conditions: a program combines predicates with And and Or, which  *)
(* clone their operands; Evaluate writes the text, here a sequence of      *)
(* tokens; FetchRecordsQuery puts it into a statement, and SQLite reads it *)
(* back with the precedences of SQL.                                       *)
(***************************************************************************)
EXTENDS Integers, Sequences, FiniteSets

CONSTANTS
    Conditions,     \* texts of single comparisons: "member symbol value"
    BadCondition,   \* a comparison whose text SQLite cannot compile
    MaxConditions,  \* bound: comparisons in one predicate
    MaxKept         \* bound: comparisons in a predicate that is used again

ASSUME ConditionsAssumption ==
    /\ BadCondition \notin Conditions
    /\ (Conditions \cup {BadCondition}) \cap {"(", ")", "AND", "OR"} = {}
    /\ MaxConditions \in Nat

VARIABLES
    predicate,      \* the predicate that the program is building
    kept            \* a predicate that was made earlier and may be used again

vars == <<predicate, kept>>

Empty        == [op |-> "empty"]
Leaf(c)      == [op |-> "leaf", condition |-> c]
And(l, r)    == [op |-> "AND", left |-> l, right |-> r]
Or(l, r)     == [op |-> "OR", left |-> l, right |-> r]
Simple       == {Leaf(c) : c \in Conditions \cup {BadCondition}} \cup {Empty}

(* Predicates with And and Or at most n deep. *)
Trees[n \in 0..MaxConditions] ==
    IF n = 0 THEN Simple
    ELSE Simple \cup [op : {"AND", "OR"}, left : Trees[n - 1], right : Trees[n - 1]]

Predicate == Trees[MaxConditions]

Size[w \in Predicate] == IF w \in Simple THEN 1 ELSE Size[w.left] + Size[w.right]

(* Clone makes a new tree node by node. *)
Clone[w \in Predicate] ==
    IF w \in Simple THEN w
    ELSE [op |-> w.op, left |-> Clone[w.left], right |-> Clone[w.right]]

(* Mutant: a compound predicate is written without parentheses. *)
Bracketed_Bare(tokens) == tokens

Bracketed(tokens) == <<"(">> \o tokens \o <<")">>

Evaluate[w \in Predicate] ==
    CASE w.op = "empty" -> <<>>
      [] w.op = "leaf"  -> <<w.condition>>
      [] OTHER -> Bracketed(Evaluate[w.left] \o <<w.op>> \o Evaluate[w.right])

-----------------------------------------------------------------------------
(* The program. *)

Init == predicate \in Simple /\ kept = predicate

Combine ==
    \E w \in Simple \cup {kept} :
        /\ Size[predicate] + Size[w] <= MaxConditions
        /\ predicate' \in {And(Clone[predicate], Clone[w]), Or(Clone[predicate], Clone[w]),
                           And(Clone[w], Clone[predicate]), Or(Clone[w], Clone[predicate])}
        /\ UNCHANGED kept

Keep == Size[predicate] <= MaxKept /\ kept' = predicate /\ UNCHANGED predicate

Restart == predicate' \in Simple /\ UNCHANGED kept

Next == Combine \/ Keep \/ Restart

Spec == Init /\ [][Next]_vars

-----------------------------------------------------------------------------
(* SQLite: OR binds weaker than AND, both weaker than a comparison, and    *)
(* both group to the left.  Truth(holds)[tokens] is the value of the       *)
(* expression on a row on which exactly the conditions of "holds" hold.    *)

Tokens == Conditions \cup {BadCondition, "(", ")", "AND", "OR"}

Depth(tokens, i) ==
    Cardinality({j \in 1..i : tokens[j] = "("}) - Cardinality({j \in 1..i : tokens[j] = ")"})

(* The last operator op that is outside all parentheses; 0 if none. *)
LastOutside(tokens, op) ==
    LET outside == {i \in DOMAIN tokens : tokens[i] = op /\ Depth(tokens, i) = 0}
    IN  IF outside = {} THEN 0 ELSE CHOOSE i \in outside : \A j \in outside : j <= i

Value(b) == IF b THEN "true" ELSE "false"

Truth(holds) ==
    LET value[tokens \in Seq(Tokens)] ==
            LET n   == Len(tokens)
                or  == LastOutside(tokens, "OR")
                and == LastOutside(tokens, "AND")
                Left(i)  == value[SubSeq(tokens, 1, i - 1)]
                Right(i) == value[SubSeq(tokens, i + 1, n)]
            IN  CASE or # 0 /\ "error" \notin {Left(or), Right(or)} ->
                        Value(Left(or) = "true" \/ Right(or) = "true")
                  [] or = 0 /\ and # 0 /\ "error" \notin {Left(and), Right(and)} ->
                        Value(Left(and) = "true" /\ Right(and) = "true")
                  [] or = 0 /\ and = 0 /\ n = 1 /\ tokens[1] \in Conditions ->
                        Value(tokens[1] \in holds)
                  [] or = 0 /\ and = 0 /\ n > 2 /\ tokens[1] = "(" /\ tokens[n] = ")" ->
                        value[SubSeq(tokens, 2, n - 1)]
                  [] OTHER -> "error"
    IN  value

(* SELECT * has no WHERE when the text is empty. *)
FetchSelects(w, holds) ==
    IF Evaluate[w] = <<>> THEN "true" ELSE Truth(holds)[Evaluate[w]]

-----------------------------------------------------------------------------
(* What the predicate says: "requires that both ... are valid at the same  *)
(* time", "requires that either predicate is valid".  Described[w] is the  *)
(* set of the rows that w describes, each given by what holds on it.       *)
Described[w \in Predicate] ==
    CASE w.op = "empty" -> SUBSET Conditions
      [] w.op = "leaf"  -> {holds \in SUBSET Conditions : w.condition \in holds}
      [] w.op = "AND"   -> Described[w.left] \cap Described[w.right]
      [] OTHER          -> Described[w.left] \cup Described[w.right]

Parts[w \in Predicate] == IF w \in Simple THEN {w} ELSE Parts[w.left] \cup Parts[w.right]

(* However And and Or are nested, and whatever their operands are, a text  *)
(* that compiles selects the rows that the predicate describes.  It does   *)
(* not compile if a comparison in it does not, and it does if they all do  *)
(* and no EmptyPredicate is an operand.                                    *)
SelectsMeant ==
    \A holds \in SUBSET Conditions :
        LET selects == FetchSelects(predicate, holds) IN
        /\ selects # "error" => selects = Value(holds \in Described[predicate])
        /\ Leaf(BadCondition) \in Parts[predicate] => selects = "error"
        /\ Parts[predicate] \subseteq {Leaf(c) : c \in Conditions} \/ predicate = Empty
               => selects # "error"
=============================================================================

-------------------------- MODULE StatementsProofs --------------------------
(***************************************************************************)
(* Facts about the statements that the proofs about Database rest on.      *)
(***************************************************************************)
EXTENDS Statements, FiniteSetTheorems, SequenceTheorems, NaturalsInduction,
        WellFoundedInduction, TLAPS

(* Induction over the natural numbers, for a set: a least number outside   *)
(* of S would have a predecessor in S.                                     *)
LEMMA SetInduction ==
    ASSUME NEW S, 0 \in S, \A n \in Nat : n \in S => n + 1 \in S
    PROVE  Nat \subseteq S
<1> SUFFICES ASSUME NEW T, T = Nat \ S, T # {} PROVE FALSE
  OBVIOUS
<1>1. PICK x \in T : \A y \in T : <<y, x>> \notin OpToRel(<,Nat)
  BY NatLessThanWellFounded, WFMin, Zenon
<1>2. x - 1 \in Nat /\ <<x - 1, x>> \in OpToRel(<,Nat) /\ (x - 1) + 1 = x
  BY DEF OpToRel
<1>3. QED
  BY <1>1, <1>2, Zenon

(* A finite, nonempty set of ids has a greatest one: SELECT MAX(id) has an *)
(* answer.  A least counterexample, with an element removed, is smaller.   *)
LEMMA FiniteSetHasMax ==
    ASSUME NEW S \in SUBSET Int, IsFiniteSet(S), S # {}
    PROVE  \E m \in S : \A j \in S : j <= m
<1> DEFINE HasMax(U) == \E m \in U : \A j \in U : j <= m
           Bad == {U \in FiniteSubsetsOf(S) : U # {} /\ ~HasMax(U)}
<1>1. SUFFICES ASSUME Bad # {} PROVE FALSE
  BY <1>1 DEF FiniteSubsetsOf
<1>2. PICK U \in Bad : \A V \in Bad : <<V, U>> \notin StrictSubsetOrdering(S)
  <2>1. IsWellFoundedOn(StrictSubsetOrdering(S), FiniteSubsetsOf(S))
    BY FS_StrictSubsetOrderingWellFounded
  <2>2. Bad \subseteq FiniteSubsetsOf(S)
    OBVIOUS
  <2> HIDE DEF Bad
  <2>3. QED
    BY <1>1, <2>1, <2>2, WFMin
<1>3. U \subseteq S /\ IsFiniteSet(U) /\ U # {} /\ ~HasMax(U)
  BY DEF FiniteSubsetsOf
<1>4. PICK x \in U : TRUE
  BY <1>3
<1>5. IsFiniteSet(U \ {x})
  BY <1>3, FS_RemoveElement
<1>6. <<U \ {x}, U>> \in StrictSubsetOrdering(S)
  BY <1>3, <1>4 DEF StrictSubsetOrdering
<1>7. U \ {x} \in FiniteSubsetsOf(S) /\ U \ {x} \notin Bad
  BY <1>2, <1>3, <1>5, <1>6 DEF FiniteSubsetsOf
<1>8. CASE U \ {x} = {}
  BY <1>3, <1>4, <1>8
<1>9. CASE HasMax(U \ {x})
  <2>1. PICK m \in U \ {x} : \A j \in U \ {x} : j <= m
    BY <1>9
  <2>2. CASE x <= m
    BY <1>3, <2>1, <2>2
  <2>3. CASE m <= x
    BY <1>3, <1>4, <2>1, <2>3
  <2>4. QED
    BY <1>3, <1>4, <2>1, <2>2, <2>3
<1>10. QED
  BY <1>7, <1>8, <1>9

LEMMA GreatestType ==
    ASSUME NEW f, IsTable(f)
    PROVE  Greatest(f) \in Int
<1>1. CASE DOMAIN f = {}
  BY <1>1 DEF Greatest
<1>2. CASE DOMAIN f # {}
  <2>1. \E m \in DOMAIN f : \A j \in DOMAIN f : j <= m
    BY <1>2, FiniteSetHasMax DEF IsTable
  <2>2. QED
    BY <1>2, <2>1 DEF Greatest, IsTable
<1>3. QED
  BY <1>1, <1>2

(* A statement leaves a table a table. *)
LEMMA TableAfterType ==
    ASSUME NEW s \in Stmts, NEW f, s.op = "create" \/ IsTable(f),
           s.op \in {"create", "insert", "update", "delete"}
    PROVE  IsTable(TableAfter(s, f))
<1>1. CASE s.op = "create"
  BY <1>1, FS_EmptySet DEF TableAfter, EmptyTable, IsTable
<1>2. CASE s.op = "insert"
  <2>1. s.id \in Int /\ s.val \in Vals
    BY <1>2 DEF Stmts, Malformed, NoSql
  <2>2. IsFiniteSet(DOMAIN f \cup {s.id})
    BY <1>2, FS_AddElement DEF IsTable
  <2>3. QED
    BY <1>2, <2>1, <2>2 DEF TableAfter, IsTable
<1>3. CASE s.op = "update"
  <2>1. s.id \in Int /\ s.val \in Vals
    BY <1>3 DEF Stmts, Malformed, NoSql
  <2>2. QED
    BY <1>3, <2>1 DEF TableAfter, IsTable
<1>4. CASE s.op = "delete"
  <2>1. IsFiniteSet(DOMAIN f \ Selected(s.where, f))
    BY <1>4, FS_Subset DEF IsTable
  <2>2. QED
    BY <1>4, <2>1 DEF TableAfter, IsTable
<1>5. QED
  BY <1>1, <1>2, <1>3, <1>4

(* A statement that compiles leaves contents contents, and drops no table. *)
LEMMA EffectType ==
    ASSUME NEW s \in Stmts, NEW c, IsContents(c), Compiles(s, c)
    PROVE  /\ IsContents(Effect(s, c))
           /\ DOMAIN c \subseteq DOMAIN Effect(s, c)
           /\ s.op = "create" => s.type \in DOMAIN Effect(s, c)
<1>1. CASE ~Writes(s, c)
  BY <1>1 DEF Effect, Writes, IsContents, Stmts, Malformed, NoSql
<1>2. CASE Writes(s, c)
  <2>1. s.type \in Types /\ s.op \in {"create", "insert", "update", "delete"}
    BY <1>2 DEF Writes, Stmts, Malformed, NoSql
  <2>2. s.op = "create" \/ IsTable(c[s.type])
    BY <1>2, <2>1 DEF IsContents, Compiles
  <2>3. IsTable(TableAfter(s, c[s.type]))
    BY <2>1, <2>2, TableAfterType
  <2>4. Effect(s, c) = [t \in DOMAIN c \cup {s.type} |->
                          IF t = s.type THEN TableAfter(s, c[t]) ELSE c[t]]
    BY <1>2 DEF Effect
  <2>5. QED
    BY <2>1, <2>3, <2>4 DEF IsContents
<1>3. QED
  BY <1>1, <1>2
=============================================================================

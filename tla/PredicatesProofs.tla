-------------------------- MODULE PredicatesProofs --------------------------
(***************************************************************************)
(* Proofs about Predicates: what SQLite reads is what the program meant,   *)
(* for predicates of any size.                                             *)
(***************************************************************************)
EXTENDS Predicates, FiniteSetTheorems, SequenceTheorems, NaturalsInduction,
        WellFoundedInduction, TLAPS

(* Induction over the natural numbers, for a set: a least number outside   *)
(* of S would have a predecessor in S.                                     *)
LEMMA SetInduction ==
    ASSUME NEW S, 0 \in S, \A n \in Nat : n \in S => n + 1 \in S
    PROVE  Nat \subseteq S
<1> SUFFICES ASSUME NEW T, T = Nat \ S, T # {} PROVE FALSE
  OBVIOUS
<1>1. PICK x \in T : \A y \in T : <<y, x>> \notin OpToRel(<,Nat)
  BY NatLessThanWellFounded, WFMin, Zenon
<1>2. x - 1 \in Nat /\ <<x - 1, x>> \in OpToRel(<,Nat) /\ (x - 1) + 1 = x
  BY DEF OpToRel
<1>3. QED
  BY <1>1, <1>2, Zenon

-----------------------------------------------------------------------------
(* Predicates as trees: their recursive functions exist, and what holds of *)
(* the simple ones and is kept by And and Or holds of all.                 *)

Combined(S) == Simple \cup [op : {"AND", "OR"}, left : S, right : S]

(* The recursive definition of Trees has a solution. *)
LEMMA TreesAre ==
    \A n \in 0..MaxConditions : Trees[n] = IF n = 0 THEN Simple ELSE Combined(Trees[n - 1])
<1> DEFINE Body(f, n) == IF n = 0 THEN Simple ELSE Combined(f[n - 1])
           Is(f, m) == f = [n \in 0..m |-> Body(f, n)]
           S == {m \in Nat : \E f : Is(f, m)}
<1>1. 0 \in S
  <2> DEFINE g == [n \in 0..0 |-> Simple]
  <2>1. Is(g, 0)
    OBVIOUS
  <2> HIDE DEF Is, g
  <2>2. QED
    BY <2>1
<1>2. ASSUME NEW m \in Nat, m \in S PROVE m + 1 \in S
  <2>1. PICK f : Is(f, m)
    BY <1>2
  <2> DEFINE g == [n \in 0..(m + 1) |-> IF n <= m THEN f[n] ELSE Body(f, n)]
  <2>2. \A n \in 0..m : f[n] = Body(f, n)
    BY <2>1
  <2>3. \A n \in 0..(m + 1) : g[n] = Body(g, n)
    BY <2>2
  <2>4. Is(g, m + 1)
    BY <2>3
  <2> HIDE DEF Is, g
  <2>5. QED
    BY <2>4
<1>3. \E f : Is(f, MaxConditions)
  <2> HIDE DEF Is
  <2>1. MaxConditions \in S
    <3> HIDE DEF S
    <3>1. QED
      BY <1>1, <1>2, SetInduction, ConditionsAssumption
  <2>2. QED
    BY <2>1
<1> DEFINE f == CHOOSE f : Is(f, MaxConditions)
<1>4. Trees = f
  BY DEF Trees, Combined
<1>5. Is(f, MaxConditions)
  <2> HIDE DEF Is
  <2>1. QED
    BY <1>3
<1> HIDE DEF f
<1>6. \A n \in 0..MaxConditions : f[n] = Body(f, n)
  BY <1>5
<1>7. QED
  BY <1>4, <1>6

(* A predicate is simple, or made from two smaller ones. *)
LEMMA TreeIs ==
    ASSUME NEW n \in 0..MaxConditions, NEW w \in Trees[n]
    PROVE  \/ w \in Simple
           \/ /\ n # 0
              /\ w.op \in {"AND", "OR"}
              /\ w.left \in Trees[n - 1] /\ w.right \in Trees[n - 1]
              /\ w = [op |-> w.op, left |-> w.left, right |-> w.right]
<1>1. Trees[n] = IF n = 0 THEN Simple ELSE Combined(Trees[n - 1])
  BY TreesAre
<1>2. CASE w \in Simple
  BY <1>2
<1>3. CASE w \notin Simple
  <2>1. n # 0 /\ w \in [op : {"AND", "OR"}, left : Trees[n - 1], right : Trees[n - 1]]
    BY <1>1, <1>3 DEF Combined
  <2>2. QED
    BY <2>1
<1>4. QED
  BY <1>2, <1>3

LEMMA SimpleIs ==
    ASSUME NEW w \in Simple
    PROVE  /\ w.op \in {"empty", "leaf"}
           /\ w.op = "empty" => w = Empty
           /\ w.op = "leaf" => w = Leaf(w.condition) /\ w.condition \in Conditions \cup {BadCondition}
BY DEF Simple, Empty, Leaf

(* Trees[n] grows with n. *)
LEMMA TreesGrow ==
    ASSUME NEW m \in 0..MaxConditions
    PROVE  \A n \in m..MaxConditions : Trees[m] \subseteq Trees[n]
<1> DEFINE S == {n \in Nat : n < MaxConditions => Trees[n] \subseteq Trees[n + 1]}
           T == {k \in Nat : m + k <= MaxConditions => Trees[m] \subseteq Trees[m + k]}
<1>0. MaxConditions \in Nat /\ m \in Nat
  BY ConditionsAssumption
<1>1. Nat \subseteq S
  <2>1. 0 \in S
    <3>1. SUFFICES ASSUME 0 < MaxConditions PROVE Trees[0] \subseteq Trees[0 + 1]
      OBVIOUS
    <3>2. Trees[0] = Simple /\ Trees[0 + 1] = Combined(Trees[(0 + 1) - 1])
      BY <1>0, <3>1, TreesAre
    <3>3. QED
      BY <3>2 DEF Combined
  <2>2. ASSUME NEW n \in Nat, n \in S PROVE n + 1 \in S
    <3>1. SUFFICES ASSUME n + 1 < MaxConditions PROVE Trees[n + 1] \subseteq Trees[(n + 1) + 1]
      OBVIOUS
    <3>2. Trees[n + 1] = Combined(Trees[n]) /\ Trees[(n + 1) + 1] = Combined(Trees[n + 1])
      BY <1>0, <3>1, TreesAre
    <3>3. Trees[n] \subseteq Trees[n + 1]
      BY <1>0, <2>2, <3>1
    <3>4. QED
      BY <3>2, <3>3 DEF Combined
  <2> HIDE DEF S
  <2>3. QED
    BY <2>1, <2>2, SetInduction
<1>2. Nat \subseteq T
  <2>1. 0 \in T
    BY <1>0
  <2>2. ASSUME NEW k \in Nat, k \in T PROVE k + 1 \in T
    <3>1. SUFFICES ASSUME m + (k + 1) <= MaxConditions PROVE Trees[m] \subseteq Trees[m + (k + 1)]
      OBVIOUS
    <3>2. m + k \in Nat /\ m + k < MaxConditions /\ m + (k + 1) = (m + k) + 1 /\ m + k <= MaxConditions
      BY <1>0, <3>1
    <3>3. Trees[m + k] \subseteq Trees[(m + k) + 1]
      BY <1>1, <3>2
    <3>4. QED
      BY <2>2, <3>2, <3>3
  <2> HIDE DEF T
  <2>3. QED
    BY <2>1, <2>2, SetInduction
<1>3. ASSUME NEW n \in m..MaxConditions PROVE Trees[m] \subseteq Trees[n]
  <2>1. n - m \in Nat /\ m + (n - m) = n /\ n <= MaxConditions
    BY <1>0
  <2>2. QED
    BY <1>2, <2>1
<1>4. QED
  BY <1>3

LEMMA PredicateIs ==
    /\ Predicate = Trees[MaxConditions] /\ MaxConditions \in 0..MaxConditions
    /\ Simple \subseteq Predicate /\ Simple = Trees[0]
    /\ \A n \in 0..MaxConditions : Trees[n] \subseteq Predicate
<1>1. MaxConditions \in Nat /\ MaxConditions \in 0..MaxConditions
  BY ConditionsAssumption
<1>2. \A n \in 0..MaxConditions : Trees[n] \subseteq Predicate
  BY <1>1, TreesGrow DEF Predicate
<1>3. Trees[0] = Simple /\ 0 \in 0..MaxConditions
  BY <1>1, TreesAre
<1>4. QED
  BY <1>1, <1>2, <1>3 DEF Predicate

(* The parts of a predicate are predicates. *)
LEMMA PartsIn ==
    ASSUME NEW w \in Predicate, w \notin Simple
    PROVE  /\ w.op \in {"AND", "OR"} /\ w.left \in Predicate /\ w.right \in Predicate
           /\ w = [op |-> w.op, left |-> w.left, right |-> w.right]
<1>1. w \in Trees[MaxConditions] /\ MaxConditions \in 0..MaxConditions
  BY PredicateIs
<1>2. MaxConditions # 0 /\ w.left \in Trees[MaxConditions - 1] /\ w.right \in Trees[MaxConditions - 1]
      /\ w.op \in {"AND", "OR"} /\ w = [op |-> w.op, left |-> w.left, right |-> w.right]
  BY <1>1, TreeIs
<1>3. MaxConditions - 1 \in 0..MaxConditions
  BY <1>2, ConditionsAssumption
<1>4. QED
  BY <1>2, <1>3, PredicateIs

(* Induction over predicates. *)
LEMMA TreeInduction ==
    ASSUME NEW G, Simple \subseteq G,
           \A w \in Predicate \ Simple : w.left \in G /\ w.right \in G => w \in G
    PROVE  Predicate \subseteq G
<1> DEFINE S == {n \in Nat : n <= MaxConditions => Trees[n] \subseteq G}
<1>0. MaxConditions \in Nat
  BY ConditionsAssumption
<1>1. 0 \in S
  <2>1. Trees[0] = Simple
    BY <1>0, TreesAre
  <2>2. QED
    BY <2>1
<1>2. ASSUME NEW n \in Nat, n \in S PROVE n + 1 \in S
  <2>1. SUFFICES ASSUME n + 1 <= MaxConditions, NEW w \in Trees[n + 1], w \notin Simple PROVE w \in G
    OBVIOUS
  <2>2. n + 1 \in 0..MaxConditions /\ (n + 1) - 1 = n /\ n <= MaxConditions
    BY <1>0, <2>1
  <2>3. w.left \in Trees[n] /\ w.right \in Trees[n]
    BY <2>1, <2>2, TreeIs
  <2>4. w \in Predicate
    BY <2>2, PredicateIs
  <2>5. QED
    BY <1>2, <2>1, <2>2, <2>3, <2>4
<1>3. MaxConditions \in S
  <2> HIDE DEF S
  <2>1. QED
    BY <1>0, <1>1, <1>2, SetInduction
<1>4. QED
  BY <1>0, <1>3, PredicateIs

(* A function that joins the values of the parts of a predicate exists. *)
Folds(f, g, h) ==
    \A w \in Predicate :
        f[w] = IF w \in Simple THEN g[w] ELSE h[w.op][f[w.left]][f[w.right]]

LEMMA Fold ==
    ASSUME NEW V, NEW g \in [Simple -> V], NEW h \in [{"AND", "OR"} -> [V -> [V -> V]]]
    PROVE  \E f \in [Predicate -> V] : Folds(f, g, h)
<1> DEFINE Join(f, w) == IF w \in Simple THEN g[w] ELSE h[w.op][f[w.left]][f[w.right]]
           Is(f, n) == f \in [Trees[n] -> V] /\ \A w \in Trees[n] : f[w] = Join(f, w)
           S == {n \in Nat : n <= MaxConditions => \E f : Is(f, n)}
<1>0. MaxConditions \in Nat
  BY ConditionsAssumption
<1>1. 0 \in S
  <2>1. Trees[0] = Simple
    BY <1>0, TreesAre
  <2>2. Is(g, 0)
    BY <2>1
  <2> HIDE DEF Is
  <2>3. QED
    BY <2>2
<1>2. ASSUME NEW n \in Nat, n \in S PROVE n + 1 \in S
  <2>1. SUFFICES ASSUME n + 1 <= MaxConditions PROVE \E f : Is(f, n + 1)
    <3> HIDE DEF Is
    <3>1. QED
      OBVIOUS
  <2>2. n + 1 \in 0..MaxConditions /\ n \in 0..MaxConditions /\ (n + 1) - 1 = n /\ n <= MaxConditions
    BY <1>0, <2>1
  <2>3. PICK f : Is(f, n)
    BY <1>2, <2>2
  <2> DEFINE u == [w \in Trees[n + 1] |-> Join(f, w)]
  <2>4. Simple \subseteq Trees[n + 1] /\ Trees[n] \subseteq Trees[n + 1]
    <3>1. Trees[0] = Simple
      BY PredicateIs
    <3>2. Trees[0] \subseteq Trees[n + 1] /\ Trees[n] \subseteq Trees[n + 1]
      BY <1>0, <2>2, TreesGrow
    <3>3. QED
      BY <3>1, <3>2
  <2>5. ASSUME NEW w \in Trees[n + 1], w \notin Simple
        PROVE  w.op \in {"AND", "OR"} /\ w.left \in Trees[n] /\ w.right \in Trees[n]
    BY <2>2, <2>5, TreeIs
  <2>6. \A w \in Trees[n + 1] : Join(f, w) \in V
    BY <2>3, <2>5
  <2>7. \A w \in Trees[n] : u[w] = f[w]
    BY <2>3, <2>4
  <2>8. \A w \in Trees[n + 1] : u[w] = Join(u, w)
    BY <2>5, <2>7
  <2>9. Is(u, n + 1)
    BY <2>6, <2>8
  <2> HIDE DEF Is, u
  <2>10. QED
    BY <2>9
<1>3. MaxConditions \in S
  <2> HIDE DEF S
  <2>1. QED
    BY <1>0, <1>1, <1>2, SetInduction
<1>4. \E f : Is(f, MaxConditions)
  <2> HIDE DEF Is
  <2>1. QED
    BY <1>0, <1>3
<1>5. QED
  BY <1>4, PredicateIs DEF Folds

(* The recursive functions of the model are as they are defined. *)
LEMMA SizeIs ==
    /\ Size \in [Predicate -> Nat \ {0}]
    /\ \A w \in Simple : Size[w] = 1
    /\ \A w \in Predicate \ Simple : Size[w] = Size[w.left] + Size[w.right]
<1> DEFINE V == Nat \ {0}
           g == [w \in Simple |-> 1]
           h == [op \in {"AND", "OR"} |-> [a \in V |-> [b \in V |-> a + b]]]
           Is(f) == f = [w \in Predicate |-> IF w \in Simple THEN 1 ELSE f[w.left] + f[w.right]]
<1>1. g \in [Simple -> V] /\ h \in [{"AND", "OR"} -> [V -> [V -> V]]]
  OBVIOUS
<1>2. \E f : Is(f)
  <2>1. PICK f \in [Predicate -> V] : Folds(f, g, h)
    <3> HIDE DEF g, h, V
    <3>1. QED
      BY <1>1, Fold
  <2>2. ASSUME NEW w \in Predicate, w \notin Simple PROVE f[w] = f[w.left] + f[w.right]
    BY <2>1, <2>2, PartsIn DEF Folds
  <2>3. Is(f)
    BY <2>1, <2>2 DEF Folds
  <2> HIDE DEF Is
  <2>4. QED
    BY <2>3
<1> DEFINE f == CHOOSE f : Is(f)
<1>3. Size = f
  BY DEF Size
<1>4. Is(f)
  <2> HIDE DEF Is
  <2>1. QED
    BY <1>2
<1> HIDE DEF f
<1>5. /\ \A w \in Simple : f[w] = 1
      /\ \A w \in Predicate \ Simple : f[w] = f[w.left] + f[w.right]
  BY <1>4, PredicateIs
<1>6. Predicate \subseteq {w \in Predicate : f[w] \in Nat \ {0}}
  <2> DEFINE G == {w \in Predicate : f[w] \in Nat \ {0}}
  <2>1. Simple \subseteq G
    BY <1>5, PredicateIs
  <2>2. \A w \in Predicate \ Simple : w.left \in G /\ w.right \in G => w \in G
    BY <1>5
  <2> HIDE DEF G
  <2>3. Predicate \subseteq G
    BY <2>1, <2>2, TreeInduction
  <2>4. QED
    BY <2>3 DEF G
<1>7. QED
  BY <1>3, <1>4, <1>5, <1>6

(* A clone is the same tree. *)
LEMMA CloneIs == \A w \in Predicate : Clone[w] = w
<1> DEFINE Is(f) == f = [w \in Predicate |->
                            IF w \in Simple THEN w
                            ELSE [op |-> w.op, left |-> f[w.left], right |-> f[w.right]]]
           f == CHOOSE f : Is(f)
<1>1. \E g : Is(g)
  <2> DEFINE g == [w \in Predicate |-> w]
  <2>1. \A w \in Predicate :
            g[w] = IF w \in Simple THEN w ELSE [op |-> w.op, left |-> g[w.left], right |-> g[w.right]]
    BY PartsIn
  <2>2. Is(g)
    BY <2>1
  <2> HIDE DEF Is, g
  <2>3. QED
    BY <2>2
<1>2. Clone = f
  BY DEF Clone
<1>3. Is(f)
  <2> HIDE DEF Is
  <2>1. QED
    BY <1>1
<1> HIDE DEF f
<1>4. \A w \in Predicate \ Simple :
          f[w] = [op |-> w.op, left |-> f[w.left], right |-> f[w.right]]
  BY <1>3
<1>5. \A w \in Simple : f[w] = w
  BY <1>3, PredicateIs
<1>6. Predicate \subseteq {w \in Predicate : f[w] = w}
  <2> DEFINE G == {w \in Predicate : f[w] = w}
  <2>1. Simple \subseteq G
    BY <1>5, PredicateIs
  <2>2. ASSUME NEW w \in Predicate \ Simple, w.left \in G, w.right \in G PROVE w \in G
    BY <1>4, <2>2, PartsIn
  <2> HIDE DEF G
  <2>3. Predicate \subseteq G
    BY <2>1, <2>2, TreeInduction
  <2>4. QED
    BY <2>3 DEF G
<1>7. QED
  BY <1>2, <1>6

Conditional == Conditions \cup {BadCondition}

(* An infix text, before its parentheses. *)
Infix(l, op, r) == l \o <<op>> \o r

LEMMA ShortTexts ==
    /\ <<>> \in Seq(Tokens)
    /\ \A c \in Conditional : <<c>> \in Seq(Tokens)
<1>1. Conditional \subseteq Tokens
  BY DEF Conditional, Tokens
<1>2. QED
  BY <1>1

LEMMA TextTypes ==
    ASSUME NEW l \in Seq(Tokens), NEW r \in Seq(Tokens), NEW op \in {"AND", "OR"}
    PROVE  /\ <<op>> \in Seq(Tokens) /\ Infix(l, op, r) \in Seq(Tokens)
           /\ Bracketed(Infix(l, op, r)) \in Seq(Tokens)
<1>1. <<op>> \in Seq(Tokens) /\ <<"(">> \in Seq(Tokens) /\ <<")">> \in Seq(Tokens)
  BY DEF Tokens
<1>2. l \o <<op>> \in Seq(Tokens)
  BY <1>1, ConcatProperties
<1>3. Infix(l, op, r) \in Seq(Tokens)
  BY <1>2, ConcatProperties DEF Infix
<1>4. <<"(">> \o Infix(l, op, r) \in Seq(Tokens)
  BY <1>1, <1>3, ConcatProperties
<1>5. Bracketed(Infix(l, op, r)) \in Seq(Tokens)
  BY <1>1, <1>4, ConcatProperties DEF Bracketed
<1>6. QED
  BY <1>1, <1>3, <1>5

LEMMA EvaluateIs ==
    /\ Evaluate \in [Predicate -> Seq(Tokens)]
    /\ Evaluate[Empty] = <<>>
    /\ \A c \in Conditional : Evaluate[Leaf(c)] = <<c>>
    /\ \A w \in Predicate \ Simple :
           Evaluate[w] = Bracketed(Infix(Evaluate[w.left], w.op, Evaluate[w.right]))
<1> DEFINE V == Seq(Tokens)
           g == [w \in Simple |-> IF w.op = "empty" THEN <<>> ELSE <<w.condition>>]
           h == [op \in {"AND", "OR"} |-> [l \in V |-> [r \in V |-> Bracketed(Infix(l, op, r))]]]
           Body(f, w) == CASE w.op = "empty" -> <<>>
                           [] w.op = "leaf"  -> <<w.condition>>
                           [] OTHER -> Bracketed(Infix(f[w.left], w.op, f[w.right]))
           Is(f) == f = [w \in Predicate |-> Body(f, w)]
<1>1. g \in [Simple -> V] /\ h \in [{"AND", "OR"} -> [V -> [V -> V]]]
  <2>1. ASSUME NEW w \in Simple PROVE g[w] \in V
    <3>1. w.op = "empty" \/ w.condition \in Conditional
      BY SimpleIs DEF Conditional
    <3>2. QED
      BY <3>1, ShortTexts
  <2>2. ASSUME NEW l \in V, NEW r \in V, NEW op \in {"AND", "OR"}
        PROVE  Bracketed(Infix(l, op, r)) \in V
    BY TextTypes
  <2>3. QED
    BY <2>1, <2>2
<1>2. ASSUME NEW w \in Predicate, w \notin Simple
      PROVE  \A f : Body(f, w) = Bracketed(Infix(f[w.left], w.op, f[w.right]))
  BY <1>2, PartsIn
<1>3. \E f : Is(f)
  <2>1. PICK f \in [Predicate -> V] : Folds(f, g, h)
    <3> HIDE DEF g, h
    <3>1. QED
      BY <1>1, Fold
  <2>2. ASSUME NEW w \in Predicate, w \notin Simple PROVE f[w] = Body(f, w)
    BY <1>2, <2>1, <2>2, PartsIn DEF Folds
  <2>3. ASSUME NEW w \in Simple PROVE f[w] = Body(f, w)
    BY <2>1, SimpleIs, PredicateIs DEF Folds
  <2>4. Is(f)
    BY <2>1, <2>2, <2>3
  <2> HIDE DEF Is
  <2>5. QED
    BY <2>4
<1> DEFINE f == CHOOSE f : Is(f)
<1>4. Evaluate = f
  BY DEF Evaluate, Infix
<1>5. Is(f)
  <2> HIDE DEF Is
  <2>1. QED
    BY <1>3
<1> HIDE DEF f
<1>6. \A w \in Predicate \ Simple : f[w] = Bracketed(Infix(f[w.left], w.op, f[w.right]))
  BY <1>2, <1>5
<1>7. /\ f[Empty] = <<>>
      /\ \A c \in Conditional : f[Leaf(c)] = <<c>>
  BY <1>5, PredicateIs DEF Simple, Empty, Leaf, Conditional
<1>8. Predicate \subseteq {w \in Predicate : f[w] \in Seq(Tokens)}
  <2> DEFINE G == {w \in Predicate : f[w] \in Seq(Tokens)}
  <2>1. ASSUME NEW w \in Simple PROVE w \in G
    <3>1. w = Empty \/ \E c \in Conditional : w = Leaf(c)
      BY DEF Simple, Conditional
    <3>2. QED
      BY <1>7, <3>1, ShortTexts, PredicateIs
  <2>2. ASSUME NEW w \in Predicate \ Simple, w.left \in G, w.right \in G PROVE w \in G
    BY <1>6, <2>2, PartsIn, TextTypes
  <2> HIDE DEF G
  <2>3. Predicate \subseteq G
    BY <2>1, <2>2, TreeInduction
  <2>4. QED
    BY <2>3 DEF G
<1>9. QED
  BY <1>4, <1>5, <1>6, <1>7, <1>8

LEMMA DescribedIs ==
    /\ Described[Empty] = SUBSET Conditions
    /\ \A c \in Conditional : Described[Leaf(c)] = {holds \in SUBSET Conditions : c \in holds}
    /\ \A w \in Predicate \ Simple :
           Described[w] = IF w.op = "AND" THEN Described[w.left] \cap Described[w.right]
                          ELSE Described[w.left] \cup Described[w.right]
<1> DEFINE V == SUBSET (SUBSET Conditions)
           g == [w \in Simple |-> IF w.op = "empty" THEN SUBSET Conditions
                                  ELSE {holds \in SUBSET Conditions : w.condition \in holds}]
           h == [op \in {"AND", "OR"} |->
                    [l \in V |-> [r \in V |-> IF op = "AND" THEN l \cap r ELSE l \cup r]]]
           Body(f, w) ==
               CASE w.op = "empty" -> SUBSET Conditions
                 [] w.op = "leaf"  -> {holds \in SUBSET Conditions : w.condition \in holds}
                 [] w.op = "AND"   -> f[w.left] \cap f[w.right]
                 [] OTHER          -> f[w.left] \cup f[w.right]
           Is(f) == f = [w \in Predicate |-> Body(f, w)]
<1>1. g \in [Simple -> V] /\ h \in [{"AND", "OR"} -> [V -> [V -> V]]]
  <2>1. \A w \in Simple : g[w] \in V
    OBVIOUS
  <2>2. \A l \in V, r \in V, op \in {"AND", "OR"} : (IF op = "AND" THEN l \cap r ELSE l \cup r) \in V
    OBVIOUS
  <2>3. QED
    BY <2>1, <2>2
<1>2. ASSUME NEW w \in Predicate, w \notin Simple
      PROVE  \A f : Body(f, w) = IF w.op = "AND" THEN f[w.left] \cap f[w.right]
                                 ELSE f[w.left] \cup f[w.right]
  BY <1>2, PartsIn
<1>3. \E f : Is(f)
  <2>1. PICK f \in [Predicate -> V] : Folds(f, g, h)
    <3> HIDE DEF g, h, V
    <3>1. QED
      BY <1>1, Fold
  <2>2. ASSUME NEW w \in Predicate, w \notin Simple PROVE f[w] = Body(f, w)
    <3>1. f[w.left] \in V /\ f[w.right] \in V /\ w.op \in {"AND", "OR"}
      BY <2>1, <2>2, PartsIn
    <3>2. f[w] = h[w.op][f[w.left]][f[w.right]]
      BY <2>1, <2>2 DEF Folds
    <3>3. f[w] = IF w.op = "AND" THEN f[w.left] \cap f[w.right] ELSE f[w.left] \cup f[w.right]
      <4> HIDE DEF V
      <4>1. QED
        BY <3>1, <3>2
    <3> HIDE DEF h, g, V, Body
    <3>4. QED
      BY <1>2, <2>2, <3>3
  <2>3. ASSUME NEW w \in Simple PROVE f[w] = Body(f, w)
    BY <2>1, SimpleIs, PredicateIs DEF Folds
  <2>4. Is(f)
    <3> HIDE DEF Body
    <3>1. QED
      BY <2>1, <2>2, <2>3
  <2> HIDE DEF Is
  <2>5. QED
    BY <2>4
<1> DEFINE f == CHOOSE f : Is(f)
<1>4. Described = f
  BY DEF Described
<1>5. Is(f)
  <2> HIDE DEF Is
  <2>1. QED
    BY <1>3
<1> HIDE DEF f
<1>6. \A w \in Predicate : f[w] = Body(f, w)
  <2> HIDE DEF Body
  <2>1. QED
    BY <1>5
<1>7. \A w \in Predicate \ Simple :
          f[w] = IF w.op = "AND" THEN f[w.left] \cap f[w.right] ELSE f[w.left] \cup f[w.right]
  <2> HIDE DEF Body
  <2>1. QED
    BY <1>2, <1>6
<1>8. f[Empty] = SUBSET Conditions
  <2>1. Empty \in Predicate /\ Empty.op = "empty"
    BY PredicateIs DEF Simple, Empty
  <2>2. QED
    BY <1>6, <2>1
<1>9. ASSUME NEW c \in Conditional
      PROVE  f[Leaf(c)] = {holds \in SUBSET Conditions : c \in holds}
  <2>1. Leaf(c) \in Predicate /\ Leaf(c).op = "leaf" /\ Leaf(c).condition = c
    BY PredicateIs DEF Simple, Leaf, Conditional
  <2>2. f[Leaf(c)] = {holds \in SUBSET Conditions : Leaf(c).condition \in holds}
    BY <1>6, <2>1
  <2>3. QED
    BY <2>1, <2>2
<1>10. QED
  BY <1>4, <1>7, <1>8, <1>9

LEMMA PartsAre ==
    /\ \A w \in Simple : Parts[w] = {w}
    /\ \A w \in Predicate \ Simple : Parts[w] = Parts[w.left] \cup Parts[w.right]
<1> DEFINE V == SUBSET Simple
           g == [w \in Simple |-> {w}]
           h == [op \in {"AND", "OR"} |-> [l \in V |-> [r \in V |-> l \cup r]]]
           Is(f) == f = [w \in Predicate |-> IF w \in Simple THEN {w} ELSE f[w.left] \cup f[w.right]]
<1>1. g \in [Simple -> V] /\ h \in [{"AND", "OR"} -> [V -> [V -> V]]]
  <2>1. \A l \in V, r \in V : l \cup r \in V
    OBVIOUS
  <2>2. QED
    BY <2>1
<1>2. \E f : Is(f)
  <2>1. PICK f \in [Predicate -> V] : Folds(f, g, h)
    <3> HIDE DEF g, h, V
    <3>1. QED
      BY <1>1, Fold
  <2>2. ASSUME NEW w \in Predicate, w \notin Simple PROVE f[w] = f[w.left] \cup f[w.right]
    <3>1. f[w.left] \in V /\ f[w.right] \in V /\ w.op \in {"AND", "OR"}
      BY <2>1, <2>2, PartsIn
    <3>2. f[w] = h[w.op][f[w.left]][f[w.right]]
      BY <2>1, <2>2 DEF Folds
    <3> HIDE DEF V
    <3>3. QED
      BY <3>1, <3>2
  <2>3. \A w \in Simple : f[w] = {w}
    BY <2>1, PredicateIs DEF Folds
  <2>4. Is(f)
    BY <2>1, <2>2, <2>3
  <2> HIDE DEF Is
  <2>5. QED
    BY <2>4
<1> DEFINE f == CHOOSE f : Is(f)
<1>3. Parts = f
  BY DEF Parts
<1>4. Is(f)
  <2> HIDE DEF Is
  <2>1. QED
    BY <1>2
<1> HIDE DEF f
<1>5. QED
  BY <1>3, <1>4, PredicateIs

-----------------------------------------------------------------------------
(* Parentheses. *)

Count(s, t, i) == Cardinality({j \in 1..i : s[j] = t})

LEMMA CountStep ==
    ASSUME NEW s, NEW t, NEW i \in Nat
    PROVE  /\ Count(s, t, i) \in Nat
           /\ Count(s, t, i + 1) = Count(s, t, i) + (IF s[i + 1] = t THEN 1 ELSE 0)
<1> DEFINE C(n) == {j \in 1..n : s[j] = t}
<1>1. IsFiniteSet(1..i)
  BY FS_Interval
<1>2. IsFiniteSet(C(i))
  BY <1>1, FS_Subset
<1>3. i + 1 \notin C(i)
  OBVIOUS
<1>4. C(i + 1) = IF s[i + 1] = t THEN C(i) \cup {i + 1} ELSE C(i)
  OBVIOUS
<1> HIDE DEF C
<1>5. Cardinality(C(i)) \in Nat
  BY <1>2, FS_CardinalityType
<1>6. Cardinality(C(i) \cup {i + 1}) = Cardinality(C(i)) + 1
  BY <1>2, <1>3, FS_AddElement
<1>7. Cardinality(C(i + 1)) = Cardinality(C(i)) + (IF s[i + 1] = t THEN 1 ELSE 0)
  BY <1>4, <1>5, <1>6
<1>8. QED
  BY <1>5, <1>7 DEF Count, C

Weight(t) == IF t = "(" THEN 1 ELSE IF t = ")" THEN -1 ELSE 0

LEMMA DepthStep ==
    ASSUME NEW s
    PROVE  /\ Depth(s, 0) = 0
           /\ \A i \in Nat : /\ Depth(s, i) \in Int
                             /\ Depth(s, i + 1) = Depth(s, i) + Weight(s[i + 1])
<1>1. ASSUME NEW t PROVE Count(s, t, 0) = 0
  <2>1. {j \in 1..0 : s[j] = t} = {}
    OBVIOUS
  <2>2. QED
    BY <2>1, FS_EmptySet DEF Count
<1>2. \A i : Depth(s, i) = Count(s, "(", i) - Count(s, ")", i)
  BY DEF Depth, Count
<1>3. ASSUME NEW i \in Nat
      PROVE  /\ Depth(s, i) \in Int
             /\ Depth(s, i + 1) = Depth(s, i) + Weight(s[i + 1])
  <2>1. /\ Count(s, "(", i) \in Nat
        /\ Count(s, "(", i + 1) = Count(s, "(", i) + (IF s[i + 1] = "(" THEN 1 ELSE 0)
        /\ Count(s, ")", i) \in Nat
        /\ Count(s, ")", i + 1) = Count(s, ")", i) + (IF s[i + 1] = ")" THEN 1 ELSE 0)
    BY CountStep
  <2>2. QED
    BY <1>2, <2>1 DEF Weight
<1>4. Depth(s, 0) = 0
  BY <1>1, <1>2
<1>5. QED
  BY <1>3, <1>4

(* The depth in two texts one after the other. *)
LEMMA DepthConcat ==
    ASSUME NEW s \in Seq(Tokens), NEW t \in Seq(Tokens)
    PROVE  /\ \A i \in 0..Len(s) : Depth(s \o t, i) = Depth(s, i)
           /\ \A i \in 0..Len(t) : Depth(s \o t, Len(s) + i) = Depth(s, Len(s)) + Depth(t, i)
<1> DEFINE u == s \o t
           S == {i \in Nat : i <= Len(s) => Depth(u, i) = Depth(s, i)}
           T == {i \in Nat : i <= Len(t) => Depth(u, Len(s) + i) = Depth(s, Len(s)) + Depth(t, i)}
<1>0. /\ Len(s) \in Nat /\ Len(t) \in Nat
      /\ \A i \in 1..(Len(s) + Len(t)) : u[i] = IF i <= Len(s) THEN s[i] ELSE t[i - Len(s)]
  BY ConcatProperties
<1> HIDE DEF u
<1>1. Nat \subseteq S
  <2>1. 0 \in S
    BY DepthStep
  <2>2. ASSUME NEW i \in Nat, i \in S PROVE i + 1 \in S
    <3>1. SUFFICES ASSUME i + 1 <= Len(s) PROVE Depth(u, i + 1) = Depth(s, i + 1)
      OBVIOUS
    <3>2. u[i + 1] = s[i + 1] /\ Depth(u, i) = Depth(s, i)
      BY <1>0, <2>2, <3>1
    <3>3. QED
      BY <3>2, DepthStep
  <2> HIDE DEF S
  <2>3. QED
    BY <2>1, <2>2, SetInduction
<1>2. Nat \subseteq T
  <2>1. 0 \in T
    <3>1. Depth(u, Len(s)) = Depth(s, Len(s)) /\ Depth(t, 0) = 0 /\ Depth(s, Len(s)) \in Int
      BY <1>0, <1>1, DepthStep
    <3>2. QED
      BY <1>0, <3>1
  <2>2. ASSUME NEW i \in Nat, i \in T PROVE i + 1 \in T
    <3>1. SUFFICES ASSUME i + 1 <= Len(t)
                   PROVE  Depth(u, Len(s) + (i + 1)) = Depth(s, Len(s)) + Depth(t, i + 1)
      OBVIOUS
    <3> DEFINE k == Len(s) + i
    <3>2. k \in Nat /\ Len(s) + (i + 1) = k + 1 /\ k + 1 \in 1..(Len(s) + Len(t))
          /\ ~(k + 1 <= Len(s)) /\ (k + 1) - Len(s) = i + 1
      BY <1>0, <3>1
    <3>3. Depth(u, k) = Depth(s, Len(s)) + Depth(t, i)
      BY <2>2, <3>1
    <3> HIDE DEF k
    <3>4. u[k + 1] = t[i + 1]
      BY <1>0, <3>2
    <3>5. Depth(u, k + 1) = Depth(u, k) + Weight(u[k + 1])
      BY <3>2, DepthStep
    <3>6. Depth(t, i) \in Int /\ Depth(t, i + 1) = Depth(t, i) + Weight(t[i + 1])
      BY DepthStep
    <3>7. Depth(s, Len(s)) \in Int /\ Weight(t[i + 1]) \in Int
      BY <1>0, DepthStep DEF Weight
    <3>8. QED
      BY <3>2, <3>3, <3>4, <3>5, <3>6, <3>7
  <2> HIDE DEF T
  <2>3. QED
    BY <2>1, <2>2, SetInduction
<1>3. QED
  BY <1>0, <1>1, <1>2 DEF u

(* A text that closes what it opens. *)
Closed(s) ==
    /\ s \in Seq(Tokens) /\ Depth(s, Len(s)) = 0
    /\ \A i \in 1..Len(s) : Depth(s, i) >= 0

(* A closed text with every operator inside parentheses. *)
Enclosed(s) ==
    /\ Closed(s)
    /\ \A i \in 1..Len(s) : s[i] \in {"AND", "OR"} => Depth(s, i) # 0

LEMMA TokensDiffer ==
    \A c \in Conditional : c \notin {"(", ")", "AND", "OR"}
BY ConditionsAssumption DEF Conditional

(* A single token that is no parenthesis. *)
LEMMA SingleDepth ==
    ASSUME NEW t \in Tokens \ {"(", ")"}
    PROVE  <<t>> \in Seq(Tokens) /\ Len(<<t>>) = 1 /\ Depth(<<t>>, 1) = 0
<1>1. <<t>> \in Seq(Tokens) /\ Len(<<t>>) = 1 /\ <<t>>[1] = t
  OBVIOUS
<1>2. Depth(<<t>>, 0 + 1) = Depth(<<t>>, 0) + Weight(t) /\ Depth(<<t>>, 0) = 0
  BY <1>1, DepthStep
<1>3. QED
  BY <1>1, <1>2 DEF Weight

(* Outside of the parentheses of m there is only one operator, op at k, and *)
(* l and r are what is before and after it.                                 *)
Joined(l, op, r, m, k) ==
    /\ Closed(m) /\ Len(m) = Len(l) + 1 + Len(r)
    /\ \A i \in 1..Len(m) : m[i] \in {"AND", "OR"} /\ Depth(m, i) = 0 <=> i = k
    /\ m[k] = op
    /\ SubSeq(m, 1, k - 1) = l /\ SubSeq(m, k + 1, Len(m)) = r

LEMMA InfixIs ==
    ASSUME NEW l, Enclosed(l), NEW r, Enclosed(r), NEW op \in {"AND", "OR"}
    PROVE  Joined(l, op, r, Infix(l, op, r), Len(l) + 1)
<1> DEFINE m == Infix(l, op, r)
           k == Len(l) + 1
           lo == l \o <<op>>
<1>0. /\ l \in Seq(Tokens) /\ r \in Seq(Tokens) /\ op \in Tokens \ {"(", ")"}
      /\ Len(l) \in Nat /\ Len(r) \in Nat /\ k \in Nat
      /\ <<op>> \in Seq(Tokens) /\ Len(<<op>>) = 1 /\ <<op>>[1] = op
  BY DEF Closed, Enclosed, Tokens
<1>1. /\ lo \in Seq(Tokens) /\ Len(lo) = k
      /\ \A i \in 1..k : lo[i] = IF i <= Len(l) THEN l[i] ELSE <<op>>[i - Len(l)]
  BY <1>0, ConcatProperties
<1>2. /\ \A i \in 0..Len(l) : Depth(lo, i) = Depth(l, i)
      /\ Depth(lo, k) = 0
  <2>1. /\ \A i \in 0..Len(l) : Depth(lo, i) = Depth(l, i)
        /\ \A i \in 0..Len(<<op>>) : Depth(lo, Len(l) + i) = Depth(l, Len(l)) + Depth(<<op>>, i)
    BY <1>0, DepthConcat
  <2>2. Depth(<<op>>, 1) = 0 /\ Depth(l, Len(l)) = 0
    BY <1>0, SingleDepth DEF Enclosed, Closed
  <2>3. QED
    BY <1>0, <2>1, <2>2
<1> HIDE DEF lo
<1>3. m = lo \o r
  BY DEF Infix, lo
<1>4. k = Len(l) + 1
  OBVIOUS
<1> HIDE DEF m, k
<1>5. /\ m \in Seq(Tokens) /\ Len(m) = k + Len(r)
      /\ \A i \in 1..(k + Len(r)) : m[i] = IF i <= k THEN lo[i] ELSE r[i - k]
  BY <1>0, <1>1, <1>3, ConcatProperties
<1>6. /\ \A i \in 0..k : Depth(m, i) = Depth(lo, i)
      /\ \A i \in 0..Len(r) : Depth(m, k + i) = Depth(r, i)
  <2>1. /\ \A i \in 0..Len(lo) : Depth(m, i) = Depth(lo, i)
        /\ \A i \in 0..Len(r) : Depth(m, Len(lo) + i) = Depth(lo, Len(lo)) + Depth(r, i)
    BY <1>0, <1>1, <1>3, DepthConcat
  <2>2. \A i \in 0..Len(r) : Depth(r, i) \in Int
    BY DepthStep
  <2>3. QED
    BY <1>0, <1>1, <1>2, <2>1, <2>2
(* The three ranges of the text. *)
<1>7. ASSUME NEW i \in 1..Len(l) PROVE m[i] = l[i] /\ Depth(m, i) = Depth(l, i)
  <2>1. i <= k /\ i \in 0..k /\ i \in 0..Len(l) /\ i \in 1..k /\ i \in 1..(k + Len(r)) /\ i <= Len(l)
    BY <1>0, <1>4
  <2>2. QED
    BY <1>1, <1>2, <1>5, <1>6, <2>1
<1>8. m[k] = op /\ Depth(m, k) = 0
  <2>1. k \in 0..k /\ k \in 1..k /\ k \in 1..(k + Len(r)) /\ ~(k <= Len(l)) /\ k - Len(l) = 1
    BY <1>0, <1>4
  <2>2. QED
    BY <1>0, <1>1, <1>2, <1>5, <1>6, <2>1
<1>9. ASSUME NEW i \in 1..Len(r) PROVE m[k + i] = r[i] /\ Depth(m, k + i) = Depth(r, i)
  <2>1. k + i \in 1..(k + Len(r)) /\ ~(k + i <= k) /\ (k + i) - k = i /\ i \in 0..Len(r)
    BY <1>0, <1>4
  <2>2. QED
    BY <1>5, <1>6, <2>1
<1>10. ASSUME NEW i \in 1..Len(m)
       PROVE  \/ i \in 1..Len(l)
              \/ i = k
              \/ i - k \in 1..Len(r) /\ k + (i - k) = i
  BY <1>0, <1>5, <1>4
<1>11. ASSUME NEW i \in 1..Len(m)
       PROVE  Depth(m, i) >= 0 /\ (m[i] \in {"AND", "OR"} /\ Depth(m, i) = 0 <=> i = k)
  <2>1. CASE i \in 1..Len(l)
    BY <1>0, <1>4, <1>7, <2>1 DEF Enclosed, Closed
  <2>2. CASE i = k
    BY <1>8, <2>2
  <2>3. CASE i - k \in 1..Len(r) /\ k + (i - k) = i
    <3>1. i # k
      BY <1>0, <1>4, <2>3
    <3>2. m[i] = r[i - k] /\ Depth(m, i) = Depth(r, i - k)
      BY <1>9, <2>3
    <3>3. QED
      BY <2>3, <3>1, <3>2 DEF Enclosed, Closed
  <2>4. QED
    BY <1>10, <2>1, <2>2, <2>3
<1>12. Depth(m, Len(m)) = 0
  <2>1. Len(r) \in 0..Len(r) /\ Depth(r, Len(r)) = 0
    BY <1>0 DEF Enclosed, Closed
  <2>2. QED
    BY <1>5, <1>6, <2>1
<1>13. SubSeq(m, 1, k - 1) = l
  <2> DEFINE p == SubSeq(m, 1, k - 1)
  <2>1. k - 1 = Len(l) /\ k - 1 \in Int /\ \A i \in 1..(k - 1) : m[i] \in Tokens
    BY <1>0, <1>5, <1>4, ElementOfSeq
  <2>2. p \in Seq(Tokens) /\ Len(p) = Len(l) /\ \A i \in 1..Len(l) : p[i] = m[i]
    <3>1. /\ p \in Seq(Tokens)
          /\ Len(p) = IF 1 <= k - 1 THEN (k - 1) - 1 + 1 ELSE 0
          /\ \A i \in 1..((k - 1) - 1 + 1) : p[i] = m[1 + i - 1]
      BY <2>1, SubSeqProperties
    <3>2. QED
      BY <1>0, <2>1, <3>1
  <2> HIDE DEF p
  <2>3. p = l
    BY <1>0, <1>7, <2>2, SeqEqual
  <2>4. QED
    BY <2>3 DEF p
<1>14. SubSeq(m, k + 1, Len(m)) = r
  <2> DEFINE p == SubSeq(m, k + 1, Len(m))
  <2>1. k + 1 \in Int /\ Len(m) \in Int /\ \A i \in (k + 1)..Len(m) : m[i] \in Tokens
    BY <1>0, <1>5, ElementOfSeq
  <2>2. p \in Seq(Tokens) /\ Len(p) = Len(r) /\ \A i \in 1..Len(r) : p[i] = m[k + i]
    <3>1. /\ p \in Seq(Tokens)
          /\ Len(p) = IF k + 1 <= Len(m) THEN Len(m) - (k + 1) + 1 ELSE 0
          /\ \A i \in 1..(Len(m) - (k + 1) + 1) : p[i] = m[(k + 1) + i - 1]
      BY <2>1, SubSeqProperties
    <3>2. QED
      BY <1>0, <1>5, <3>1
  <2> HIDE DEF p
  <2>3. p = r
    BY <1>0, <1>9, <2>2, SeqEqual
  <2>4. QED
    BY <2>3 DEF p
<1>15. Len(m) = Len(l) + 1 + Len(r)
  BY <1>0, <1>5, <1>4
<1>16. Closed(m)
  BY <1>5, <1>11, <1>12 DEF Closed
<1>17. Joined(l, op, r, m, k)
  BY <1>8, <1>11, <1>13, <1>14, <1>15, <1>16 DEF Joined
<1>18. QED
  BY <1>17 DEF m, k

(* A closed text in parentheses is read without them. *)
LEMMA BracketedIs ==
    ASSUME NEW m, Closed(m)
    PROVE  LET b == Bracketed(m)
           IN  /\ Enclosed(b) /\ Len(b) = Len(m) + 2
               /\ b[1] = "(" /\ b[Len(b)] = ")" /\ SubSeq(b, 2, Len(b) - 1) = m
<1> DEFINE b == Bracketed(m)
           o == <<"(">>
           c == <<")">>
           om == o \o m
<1>0. /\ m \in Seq(Tokens) /\ Len(m) \in Nat /\ Depth(m, Len(m)) = 0
      /\ o \in Seq(Tokens) /\ Len(o) = 1 /\ o[1] = "("
      /\ c \in Seq(Tokens) /\ Len(c) = 1 /\ c[1] = ")"
  BY DEF Closed, Tokens
<1>1. b = om \o c
  BY DEF Bracketed
<1>2. Depth(o, 1) = 1 /\ Depth(c, 1) = -1 /\ Depth(o, 0) = 0 /\ Depth(c, 0) = 0
  <2>1. /\ Depth(o, 0 + 1) = Depth(o, 0) + Weight("(") /\ Depth(o, 0) = 0
        /\ Depth(c, 0 + 1) = Depth(c, 0) + Weight(")") /\ Depth(c, 0) = 0
    BY <1>0, DepthStep
  <2>2. QED
    BY <2>1 DEF Weight
<1> HIDE DEF o, c, b
<1>3. /\ om \in Seq(Tokens) /\ Len(om) = Len(m) + 1
      /\ \A i \in 1..(1 + Len(m)) : om[i] = IF i <= 1 THEN o[i] ELSE m[i - 1]
  BY <1>0, ConcatProperties
<1>4. /\ Depth(om, 1) = 1
      /\ \A i \in 0..Len(m) : Depth(om, 1 + i) = 1 + Depth(m, i)
  <2>1. /\ \A i \in 0..Len(o) : Depth(om, i) = Depth(o, i)
        /\ \A i \in 0..Len(m) : Depth(om, Len(o) + i) = Depth(o, Len(o)) + Depth(m, i)
    BY <1>0, DepthConcat
  <2> HIDE DEF om
  <2>2. QED
    BY <1>0, <1>2, <2>1
<1> HIDE DEF om
<1>5. /\ b \in Seq(Tokens) /\ Len(b) = Len(m) + 2
      /\ \A i \in 1..(Len(m) + 2) : b[i] = IF i <= Len(m) + 1 THEN om[i] ELSE c[i - (Len(m) + 1)]
  <2>1. /\ b \in Seq(Tokens) /\ Len(b) = Len(om) + Len(c)
        /\ \A i \in 1..(Len(om) + Len(c)) : b[i] = IF i <= Len(om) THEN om[i] ELSE c[i - Len(om)]
    BY <1>0, <1>1, <1>3, ConcatProperties
  <2>2. Len(om) + Len(c) = Len(m) + 2
    BY <1>0, <1>3
  <2>3. QED
    BY <1>3, <2>1, <2>2
<1>6. /\ \A i \in 0..(Len(m) + 1) : Depth(b, i) = Depth(om, i)
      /\ Depth(b, (Len(m) + 1) + 1) = Depth(om, Len(m) + 1) + Depth(c, 1)
  <2>1. /\ \A i \in 0..Len(om) : Depth(b, i) = Depth(om, i)
        /\ \A i \in 0..Len(c) : Depth(b, Len(om) + i) = Depth(om, Len(om)) + Depth(c, i)
    BY <1>0, <1>1, <1>3, DepthConcat
  <2>2. QED
    BY <1>0, <1>3, <2>1
(* The three ranges of the text. *)
<1>7. b[1] = "(" /\ Depth(b, 1) = 1
  BY <1>0, <1>3, <1>4, <1>5, <1>6
<1>8. ASSUME NEW i \in 1..Len(m) PROVE b[1 + i] = m[i] /\ Depth(b, 1 + i) = 1 + Depth(m, i)
  <2>1. 1 + i \in 1..(1 + Len(m)) /\ 1 + i \in 1..(Len(m) + 2) /\ 1 + i <= Len(m) + 1
        /\ ~(1 + i <= 1) /\ (1 + i) - 1 = i /\ i \in 0..Len(m) /\ 1 + i \in 0..(Len(m) + 1)
    BY <1>0
  <2>2. QED
    BY <1>3, <1>4, <1>5, <1>6, <2>1
<1>9. b[Len(m) + 2] = ")" /\ Depth(b, Len(m) + 2) = 0
  <2>1. /\ Len(m) + 2 \in 1..(Len(m) + 2) /\ ~(Len(m) + 2 <= Len(m) + 1)
        /\ (Len(m) + 2) - (Len(m) + 1) = 1 /\ (Len(m) + 1) + 1 = Len(m) + 2
        /\ Len(m) \in 0..Len(m) /\ 1 + Len(m) = Len(m) + 1
    BY <1>0
  <2>2. b[Len(m) + 2] = ")"
    BY <1>0, <1>5, <2>1
  <2>3. Depth(om, Len(m) + 1) = 1
    BY <1>0, <1>4, <2>1
  <2>4. QED
    BY <1>2, <1>6, <2>1, <2>2, <2>3
<1>10. ASSUME NEW i \in 1..Len(b)
       PROVE  Depth(b, i) >= 0 /\ (b[i] \in {"AND", "OR"} => Depth(b, i) # 0)
  <2>1. CASE i = 1
    BY <1>7, <2>1
  <2>2. CASE i = Len(m) + 2
    BY <1>9, <2>2
  <2>3. CASE i - 1 \in 1..Len(m)
    <3>1. Depth(b, i) = 1 + Depth(m, i - 1) /\ Depth(m, i - 1) >= 0 /\ Depth(m, i - 1) \in Int
      <4>1. 1 + (i - 1) = i
        OBVIOUS
      <4>2. Depth(b, 1 + (i - 1)) = 1 + Depth(m, i - 1)
        BY <1>8, <2>3
      <4>3. i - 1 \in Nat
        BY <2>3
      <4>4. Depth(m, i - 1) \in Int
        BY <4>3, DepthStep
      <4>5. QED
        BY <2>3, <4>1, <4>2, <4>4 DEF Closed
    <3>2. QED
      BY <3>1
  <2>4. QED
    BY <1>0, <1>5, <2>1, <2>2, <2>3
<1>11. SubSeq(b, 2, Len(b) - 1) = m
  <2> DEFINE p == SubSeq(b, 2, Len(b) - 1)
  <2>1. Len(b) - 1 \in Int /\ \A i \in 2..(Len(b) - 1) : b[i] \in Tokens
    BY <1>0, <1>5, ElementOfSeq
  <2>2. p \in Seq(Tokens) /\ Len(p) = Len(m) /\ \A i \in 1..Len(m) : p[i] = b[1 + i]
    <3>1. /\ p \in Seq(Tokens)
          /\ Len(p) = IF 2 <= Len(b) - 1 THEN (Len(b) - 1) - 2 + 1 ELSE 0
          /\ \A i \in 1..((Len(b) - 1) - 2 + 1) : p[i] = b[2 + i - 1]
      BY <2>1, SubSeqProperties
    <3>2. QED
      BY <1>0, <1>5, <3>1
  <2> HIDE DEF p
  <2>3. p = m
    BY <1>0, <1>8, <2>2, SeqEqual
  <2>4. QED
    BY <2>3 DEF p
<1>12. QED
  BY <1>5, <1>7, <1>9, <1>10, <1>11 DEF Enclosed, Closed, b

(* However And and Or are nested, what Evaluate writes is enclosed. *)
LEMMA EvaluateEncloses == \A w \in Predicate : Enclosed(Evaluate[w])
<1> DEFINE G == {w \in Predicate : Enclosed(Evaluate[w])}
<1>1. ASSUME NEW w \in Simple PROVE w \in G
  <2>1. CASE w = Empty
    <3>1. Evaluate[w] = <<>> /\ <<>> \in Seq(Tokens) /\ Len(<<>>) = 0 /\ Depth(<<>>, 0) = 0
      BY <2>1, EvaluateIs, DepthStep
    <3>2. Enclosed(<<>>)
      BY <3>1 DEF Enclosed, Closed
    <3>3. QED
      BY <3>1, <3>2, PredicateIs
  <2>2. ASSUME NEW c \in Conditional, w = Leaf(c) PROVE w \in G
    <3>1. c \in Tokens \ {"(", ")", "AND", "OR"}
      BY TokensDiffer DEF Tokens, Conditional
    <3>2. /\ Evaluate[w] = <<c>> /\ <<c>> \in Seq(Tokens) /\ Len(<<c>>) = 1
          /\ <<c>>[1] = c /\ Depth(<<c>>, 1) = 0
      BY <2>2, <3>1, EvaluateIs, SingleDepth
    <3>3. Enclosed(<<c>>)
      BY <3>1, <3>2 DEF Enclosed, Closed
    <3>4. QED
      BY <3>2, <3>3, PredicateIs
  <2>3. QED
    BY <2>1, <2>2 DEF Simple, Conditional
<1>2. ASSUME NEW w \in Predicate \ Simple, w.left \in G, w.right \in G PROVE w \in G
  <2>1. Closed(Infix(Evaluate[w.left], w.op, Evaluate[w.right]))
    BY <1>2, PartsIn, InfixIs DEF Joined
  <2>2. QED
    BY <2>1, BracketedIs, EvaluateIs
<1> HIDE DEF G
<1>3. Predicate \subseteq G
  BY <1>1, <1>2, TreeInduction
<1>4. QED
  BY <1>3 DEF G

-----------------------------------------------------------------------------
(* Reading a text. *)

(* A set of positions that is not empty has a last one. *)
LEMMA LastOne ==
    ASSUME NEW n \in Nat
    PROVE  \A U \in SUBSET (1..n) : U # {} => \E m \in U : \A j \in U : j <= m
<1> DEFINE HasLast(U) == U # {} => \E m \in U : \A j \in U : j <= m
           S == {k \in Nat : \A U \in SUBSET (1..k) : HasLast(U)}
<1>1. 0 \in S
  <2>1. 1..0 = {}
    OBVIOUS
  <2>2. QED
    BY <2>1
<1>2. ASSUME NEW k \in Nat, k \in S PROVE k + 1 \in S
  <2>1. ASSUME NEW U \in SUBSET (1..(k + 1)) PROVE HasLast(U)
    <3>1. CASE k + 1 \in U
      <4>1. \A j \in U : j <= k + 1
        OBVIOUS
      <4>2. QED
        BY <3>1, <4>1
    <3>2. CASE k + 1 \notin U
      <4>1. U \in SUBSET (1..k)
        BY <3>2
      <4>2. QED
        BY <1>2, <4>1
    <3>3. QED
      BY <3>1, <3>2
  <2> HIDE DEF HasLast
  <2>2. QED
    BY <2>1
<1>3. n \in S
  <2> HIDE DEF S
  <2>1. QED
    BY <1>1, <1>2, SetInduction
<1>4. QED
  BY <1>3

LEMMA LastOutsideIs ==
    ASSUME NEW s \in Seq(Tokens), NEW op
    PROVE  LET outside == {i \in 1..Len(s) : s[i] = op /\ Depth(s, i) = 0}
           IN  /\ LastOutside(s, op) \in 0..Len(s)
               /\ outside = {} => LastOutside(s, op) = 0
               /\ \A k : outside = {k} => LastOutside(s, op) = k
<1> DEFINE outside == {i \in 1..Len(s) : s[i] = op /\ Depth(s, i) = 0}
<1>0. DOMAIN s = 1..Len(s) /\ Len(s) \in Nat
  BY LenProperties
<1>1. LastOutside(s, op) =
          IF outside = {} THEN 0 ELSE CHOOSE i \in outside : \A j \in outside : j <= i
  BY <1>0 DEF LastOutside
<1>2. outside \in SUBSET (1..Len(s))
  OBVIOUS
<1> HIDE DEF outside
<1>3. outside # {} => \E m \in outside : \A j \in outside : j <= m
  BY <1>0, <1>2, LastOne
<1>4. LastOutside(s, op) \in 0..Len(s)
  <2>1. CASE outside = {}
    BY <1>0, <1>1, <2>1
  <2>2. CASE outside # {}
    <3>1. LastOutside(s, op) \in outside
      BY <1>1, <1>3, <2>2
    <3>2. LastOutside(s, op) \in 1..Len(s)
      BY <1>2, <3>1
    <3>3. QED
      BY <1>0, <3>2
  <2>3. QED
    BY <2>1, <2>2
<1>5. ASSUME NEW k, outside = {k} PROVE LastOutside(s, op) = k
  BY <1>1, <1>3, <1>5
<1>6. QED
  BY <1>1, <1>4, <1>5 DEF outside

(* How a text is read, given how shorter ones are. *)
Reading(value, holds, tokens) ==
    LET n   == Len(tokens)
        or  == LastOutside(tokens, "OR")
        and == LastOutside(tokens, "AND")
        Left(i)  == value[SubSeq(tokens, 1, i - 1)]
        Right(i) == value[SubSeq(tokens, i + 1, n)]
    IN  CASE or # 0 /\ "error" \notin {Left(or), Right(or)} ->
                Value(Left(or) = "true" \/ Right(or) = "true")
          [] or = 0 /\ and # 0 /\ "error" \notin {Left(and), Right(and)} ->
                Value(Left(and) = "true" /\ Right(and) = "true")
          [] or = 0 /\ and = 0 /\ n = 1 /\ tokens[1] \in Conditions ->
                Value(tokens[1] \in holds)
          [] or = 0 /\ and = 0 /\ n > 2 /\ tokens[1] = "(" /\ tokens[n] = ")" ->
                value[SubSeq(tokens, 2, n - 1)]
          [] OTHER -> "error"

(* The parts of a text that are read are shorter. *)
LEMMA PartsShorter ==
    ASSUME NEW s \in Seq(Tokens), NEW i \in 1..Len(s)
    PROVE  /\ SubSeq(s, 1, i - 1) \in Seq(Tokens) /\ Len(SubSeq(s, 1, i - 1)) < Len(s)
           /\ SubSeq(s, i + 1, Len(s)) \in Seq(Tokens) /\ Len(SubSeq(s, i + 1, Len(s))) < Len(s)
           /\ SubSeq(s, 2, Len(s) - 1) \in Seq(Tokens) /\ Len(SubSeq(s, 2, Len(s) - 1)) < Len(s)
<1>0. Len(s) \in Nat /\ \A j \in 1..Len(s) : s[j] \in Tokens
  BY LenProperties, ElementOfSeq
<1>1. ASSUME NEW a \in 1..(Len(s) + 1), NEW b \in 0..Len(s), b - a + 1 < Len(s)
      PROVE  SubSeq(s, a, b) \in Seq(Tokens) /\ Len(SubSeq(s, a, b)) < Len(s)
  <2>1. a \in Int /\ b \in Int /\ \A j \in a..b : s[j] \in Tokens
    BY <1>0
  <2>2. /\ SubSeq(s, a, b) \in Seq(Tokens)
        /\ Len(SubSeq(s, a, b)) = IF a <= b THEN b - a + 1 ELSE 0
    BY <2>1, SubSeqProperties
  <2>3. QED
    BY <1>0, <1>1, <2>2
<1>2. /\ 1 \in 1..(Len(s) + 1) /\ i - 1 \in 0..Len(s) /\ (i - 1) - 1 + 1 < Len(s)
      /\ i + 1 \in 1..(Len(s) + 1) /\ Len(s) \in 0..Len(s) /\ Len(s) - (i + 1) + 1 < Len(s)
      /\ 2 \in 1..(Len(s) + 1) /\ Len(s) - 1 \in 0..Len(s) /\ (Len(s) - 1) - 2 + 1 < Len(s)
  BY <1>0
<1>3. QED
  BY <1>1, <1>2

Agree(f, g, n) == \A s \in Seq(Tokens) : Len(s) < n => f[s] = g[s]

LEMMA ReadingLocal ==
    ASSUME NEW f, NEW g, NEW holds, NEW s \in Seq(Tokens), Agree(f, g, Len(s))
    PROVE  Reading(f, holds, s) = Reading(g, holds, s)
<1> DEFINE or == LastOutside(s, "OR")
           and == LastOutside(s, "AND")
           n == Len(s)
<1>1. n \in Nat /\ or \in 0..n /\ and \in 0..n
  BY LastOutsideIs, LenProperties
<1>2. ASSUME NEW i \in 1..n
      PROVE  /\ f[SubSeq(s, 1, i - 1)] = g[SubSeq(s, 1, i - 1)]
             /\ f[SubSeq(s, i + 1, n)] = g[SubSeq(s, i + 1, n)]
             /\ f[SubSeq(s, 2, n - 1)] = g[SubSeq(s, 2, n - 1)]
  BY PartsShorter DEF Agree
<1> HIDE DEF or, and, n
<1>3. or # 0 => or \in 1..n
  BY <1>1
<1>4. and # 0 => and \in 1..n
  BY <1>1
<1>5. n > 2 => 1 \in 1..n
  BY <1>1
<1>6. QED
  BY <1>2, <1>3, <1>4, <1>5 DEF Reading, or, and, n

(* The recursive definition of Truth has a solution. *)
LEMMA TruthIs ==
    ASSUME NEW holds
    PROVE  \A s \in Seq(Tokens) : Truth(holds)[s] = Reading(Truth(holds), holds, s)
<1> DEFINE Is(f) == f = [s \in Seq(Tokens) |-> Reading(f, holds, s)]
           Solves(f, n) == \A s \in Seq(Tokens) : Len(s) < n => f[s] = Reading(f, holds, s)
           S == {n \in Nat : \E f : Solves(f, n)}
<1>0. \A s \in Seq(Tokens) : Len(s) \in Nat
  BY LenProperties
<1>1. 0 \in S
  BY <1>0
<1>2. ASSUME NEW n \in Nat, n \in S PROVE n + 1 \in S
  <2>1. PICK f : Solves(f, n)
    BY <1>2
  <2> DEFINE g == [s \in Seq(Tokens) |-> IF Len(s) < n THEN f[s] ELSE Reading(f, holds, s)]
  <2>2. ASSUME NEW s \in Seq(Tokens), Len(s) < n + 1
        PROVE  g[s] = Reading(g, holds, s)
    <3>1. Len(s) <= n
      BY <1>0, <2>2
    <3>2. Agree(f, g, Len(s))
      BY <1>0, <3>1 DEF Agree
    <3>3. g[s] = Reading(f, holds, s)
      BY <2>1
    <3> HIDE DEF g
    <3>4. QED
      BY <3>2, <3>3, ReadingLocal
  <2>3. Solves(g, n + 1)
    BY <2>2
  <2> HIDE DEF Solves, g
  <2>4. QED
    BY <2>3
<1>3. ASSUME NEW f, NEW g, NEW n \in Nat, Solves(f, n), NEW m \in Nat, Solves(g, m), n <= m
      PROVE  Agree(f, g, n)
  <2> DEFINE T == {k \in Nat : k <= n => Agree(f, g, k)}
  <2>1. 0 \in T
    BY <1>0 DEF Agree
  <2>2. ASSUME NEW k \in Nat, k \in T PROVE k + 1 \in T
    <3>1. SUFFICES ASSUME k + 1 <= n, NEW s \in Seq(Tokens), Len(s) < k + 1 PROVE f[s] = g[s]
      BY DEF Agree
    <3>2. Len(s) \in Nat /\ Len(s) <= k /\ k <= n /\ Len(s) < n /\ Len(s) < m
      BY <1>0, <1>3, <3>1
    <3>3. Agree(f, g, Len(s))
      BY <1>0, <2>2, <3>2 DEF Agree
    <3>4. f[s] = Reading(f, holds, s) /\ g[s] = Reading(g, holds, s)
      BY <1>3, <3>2
    <3>5. QED
      BY <3>3, <3>4, ReadingLocal
  <2>3. n \in T
    <3> HIDE DEF T
    <3>1. QED
      BY <2>1, <2>2, SetInduction
  <2>4. QED
    BY <2>3
<1>4. \A n \in Nat : \E f : Solves(f, n)
  <2> HIDE DEF Solves
  <2>1. Nat \subseteq S
    <3> HIDE DEF S
    <3>1. QED
      BY <1>1, <1>2, SetInduction
  <2>2. QED
    BY <2>1
<1> DEFINE Part(n) == CHOOSE f : Solves(f, n)
           whole == [s \in Seq(Tokens) |-> Part(Len(s) + 1)[s]]
<1>5. \A n \in Nat : Solves(Part(n), n)
  <2> HIDE DEF Solves
  <2>1. QED
    BY <1>4
<1> HIDE DEF Part
<1>6. ASSUME NEW s \in Seq(Tokens) PROVE whole[s] = Reading(whole, holds, s)
  <2> DEFINE f == Part(Len(s) + 1)
  <2>1. Len(s) \in Nat /\ Len(s) + 1 \in Nat /\ Len(s) < Len(s) + 1
    BY <1>0
  <2>2. f[s] = Reading(f, holds, s)
    BY <1>5, <2>1
  <2>3. ASSUME NEW t \in Seq(Tokens), Len(t) < Len(s) PROVE f[t] = whole[t]
    <3>1. Len(t) \in Nat /\ Len(t) + 1 \in Nat /\ Len(t) + 1 <= Len(s) + 1 /\ Len(t) < Len(t) + 1
      BY <1>0, <2>1, <2>3
    <3>2. Solves(Part(Len(t) + 1), Len(t) + 1) /\ Solves(f, Len(s) + 1)
      BY <1>5, <2>1, <3>1
    <3> HIDE DEF Solves, f
    <3>3. Agree(Part(Len(t) + 1), f, Len(t) + 1)
      BY <1>3, <2>1, <3>1, <3>2
    <3>4. Part(Len(t) + 1)[t] = f[t]
      BY <3>1, <3>3 DEF Agree
    <3>5. QED
      BY <3>4
  <2>4. Agree(f, whole, Len(s))
    <3> HIDE DEF f, whole
    <3>1. QED
      BY <2>3 DEF Agree
  <2>5. whole[s] = f[s]
    OBVIOUS
  <2> HIDE DEF f, whole
  <2>6. QED
    BY <2>2, <2>4, <2>5, ReadingLocal
<1>7. \E f : Is(f)
  <2>1. Is(whole)
    BY <1>6
  <2> HIDE DEF Is, whole
  <2>2. QED
    BY <2>1
<1> DEFINE f == CHOOSE f : Is(f)
<1>8. Truth(holds) = f
  BY DEF Truth, Reading
<1>9. Is(f)
  <2> HIDE DEF Is
  <2>1. QED
    BY <1>7
<1> HIDE DEF f
<1>10. QED
  BY <1>8, <1>9

-----------------------------------------------------------------------------
(* What is read is what was meant. *)

LEMMA ReadLeaf ==
    ASSUME NEW holds, NEW c \in Conditional
    PROVE  Truth(holds)[<<c>>] = IF c \in Conditions THEN Value(c \in holds) ELSE "error"
<1> DEFINE s == <<c>>
           value == Truth(holds)
<1>1. s \in Seq(Tokens) /\ Len(s) = 1 /\ s[1] = c
  BY ShortTexts
<1>2. c \notin {"(", ")", "AND", "OR"}
  BY TokensDiffer
<1> HIDE DEF s, value
<1>3. LastOutside(s, "OR") = 0 /\ LastOutside(s, "AND") = 0
  <2>1. \A i \in 1..Len(s) : s[i] # "OR" /\ s[i] # "AND"
    BY <1>1, <1>2
  <2>2. /\ {i \in 1..Len(s) : s[i] = "OR" /\ Depth(s, i) = 0} = {}
        /\ {i \in 1..Len(s) : s[i] = "AND" /\ Depth(s, i) = 0} = {}
    BY <2>1
  <2>3. QED
    BY <1>1, <2>2, LastOutsideIs
<1>4. Reading(value, holds, s) = IF c \in Conditions THEN Value(c \in holds) ELSE "error"
  BY <1>1, <1>3 DEF Reading
<1>5. value[s] = Reading(value, holds, s)
  BY <1>1, TruthIs DEF value
<1>6. QED
  BY <1>4, <1>5 DEF s, value

LEMMA ReadEmpty ==
    ASSUME NEW holds
    PROVE  Truth(holds)[<<>>] = "error"
<1> DEFINE s == <<>>
           value == Truth(holds)
<1>1. s \in Seq(Tokens) /\ Len(s) = 0
  OBVIOUS
<1> HIDE DEF s, value
<1>2. LastOutside(s, "OR") = 0 /\ LastOutside(s, "AND") = 0
  <2>1. LastOutside(s, "OR") \in 0..0 /\ LastOutside(s, "AND") \in 0..0
    BY <1>1, LastOutsideIs
  <2>2. QED
    BY <2>1
<1>3. Reading(value, holds, s) = "error"
  BY <1>1, <1>2 DEF Reading
<1>4. value[s] = Reading(value, holds, s)
  BY <1>1, TruthIs DEF value
<1>5. QED
  BY <1>3, <1>4 DEF s, value

(* The value of an operator, from the values of its operands. *)
Applied(op, x, y) ==
    IF "error" \in {x, y} THEN "error"
    ELSE IF op = "OR" THEN Value(x = "true" \/ y = "true") ELSE Value(x = "true" /\ y = "true")

LEMMA ReadInfix ==
    ASSUME NEW holds, NEW l, Enclosed(l), NEW r, Enclosed(r), NEW op \in {"AND", "OR"}
    PROVE  Truth(holds)[Infix(l, op, r)] = Applied(op, Truth(holds)[l], Truth(holds)[r])
<1> DEFINE m == Infix(l, op, r)
           k == Len(l) + 1
           value == Truth(holds)
<1>a. Joined(l, op, r, m, k)
  BY InfixIs
<1> HIDE DEF m, k
<1>0. /\ Closed(m) /\ Len(m) = Len(l) + 1 + Len(r)
      /\ \A i \in 1..Len(m) : m[i] \in {"AND", "OR"} /\ Depth(m, i) = 0 <=> i = k
      /\ m[k] = op
      /\ SubSeq(m, 1, k - 1) = l /\ SubSeq(m, k + 1, Len(m)) = r
  BY <1>a DEF Joined
<1>1. m \in Seq(Tokens) /\ Len(l) \in Nat /\ Len(r) \in Nat /\ k \in 1..Len(m) /\ k # 0
  BY <1>0, LenProperties DEF Enclosed, Closed, k
<1> HIDE DEF value
<1>2. {i \in 1..Len(m) : m[i] = op /\ Depth(m, i) = 0} = {k}
  BY <1>0, <1>1
<1>3. ASSUME NEW other \in {"AND", "OR"}, other # op
      PROVE  {i \in 1..Len(m) : m[i] = other /\ Depth(m, i) = 0} = {}
  BY <1>0, <1>1, <1>3
<1>4. LastOutside(m, op) = k
  BY <1>1, <1>2, LastOutsideIs
<1>5. ASSUME NEW other \in {"AND", "OR"}, other # op PROVE LastOutside(m, other) = 0
  <2>1. {i \in 1..Len(m) : m[i] = other /\ Depth(m, i) = 0} = {}
    BY <1>3, <1>5
  <2>2. QED
    BY <1>1, <2>1, LastOutsideIs
<1>6. Reading(value, holds, m) = Applied(op, value[l], value[r])
  <2>1. CASE op = "OR"
    <3>1. LastOutside(m, "OR") = k
      BY <1>4, <2>1
    <3>2. QED
      BY <1>0, <1>1, <2>1, <3>1 DEF Reading, Applied
  <2>2. CASE op = "AND"
    <3>1. LastOutside(m, "AND") = k /\ LastOutside(m, "OR") = 0
      BY <1>4, <1>5, <2>2
    <3>2. QED
      BY <1>0, <1>1, <2>2, <3>1 DEF Reading, Applied
  <2>3. QED
    BY <2>1, <2>2
<1>7. value[m] = Reading(value, holds, m)
  BY <1>1, TruthIs DEF value
<1>8. QED
  BY <1>6, <1>7 DEF m, value

LEMMA ReadBracketed ==
    ASSUME NEW holds, NEW m, Closed(m), Len(m) > 0
    PROVE  Truth(holds)[Bracketed(m)] = Truth(holds)[m]
<1> DEFINE b == Bracketed(m)
           value == Truth(holds)
<1>0. /\ Enclosed(b) /\ Len(b) = Len(m) + 2
      /\ b[1] = "(" /\ b[Len(b)] = ")" /\ SubSeq(b, 2, Len(b) - 1) = m
  BY BracketedIs
<1>1. b \in Seq(Tokens) /\ Len(m) \in Nat /\ Len(b) > 2 /\ Len(b) # 1
  BY <1>0, LenProperties DEF Enclosed, Closed
<1> HIDE DEF b, value
<1>2. LastOutside(b, "OR") = 0 /\ LastOutside(b, "AND") = 0
  <2>1. /\ {i \in 1..Len(b) : b[i] = "OR" /\ Depth(b, i) = 0} = {}
        /\ {i \in 1..Len(b) : b[i] = "AND" /\ Depth(b, i) = 0} = {}
    BY <1>0 DEF Enclosed
  <2>2. QED
    BY <1>1, <2>1, LastOutsideIs
<1>3. Reading(value, holds, b) = value[m]
  BY <1>0, <1>1, <1>2 DEF Reading
<1>4. value[b] = Reading(value, holds, b)
  BY <1>1, TruthIs DEF value
<1>5. QED
  BY <1>3, <1>4 DEF b, value

Usable == {Leaf(c) : c \in Conditions}

Meaning(w, holds) ==
    IF Parts[w] \subseteq Usable THEN Value(holds \in Described[w]) ELSE "error"

(* SQLite reads the text of every predicate as the program meant it.       *)
LEMMA ReadAsMeant ==
    ASSUME NEW holds \in SUBSET Conditions
    PROVE  \A w \in Predicate : Truth(holds)[Evaluate[w]] = Meaning(w, holds)
<1> DEFINE G == {w \in Predicate : Truth(holds)[Evaluate[w]] = Meaning(w, holds)}
<1>1. ASSUME NEW w \in Simple PROVE w \in G
  <2>1. CASE w = Empty
    <3>1. Evaluate[w] = <<>> /\ Truth(holds)[<<>>] = "error"
      BY <2>1, EvaluateIs, ReadEmpty
    <3>2. Empty \notin Usable
      BY DEF Usable, Leaf, Empty
    <3>3. Parts[w] = {w}
      BY PartsAre
    <3>4. QED
      BY <2>1, <3>1, <3>2, <3>3, PredicateIs DEF Meaning
  <2>2. ASSUME NEW c \in Conditional, w = Leaf(c) PROVE w \in G
    <3>1. Truth(holds)[Evaluate[w]] = IF c \in Conditions THEN Value(c \in holds) ELSE "error"
      <4>1. Evaluate[w] = <<c>>
        BY <2>2, EvaluateIs
      <4>2. QED
        BY <4>1, ReadLeaf
    <3>2. Described[w] = {others \in SUBSET Conditions : c \in others}
      BY <2>2, DescribedIs
    <3>3. (holds \in Described[w]) <=> (c \in holds)
      BY <3>2
    <3>4. w \in Usable <=> c \in Conditions
      BY <2>2 DEF Usable, Leaf
    <3>5. Parts[w] = {w}
      BY PartsAre
    <3>6. Meaning(w, holds) = IF c \in Conditions THEN Value(c \in holds) ELSE "error"
      BY <3>3, <3>4, <3>5 DEF Meaning, Value
    <3>7. QED
      BY <3>1, <3>6, PredicateIs
  <2>3. QED
    BY <2>1, <2>2 DEF Simple, Conditional
<1>2. ASSUME NEW w \in Predicate \ Simple, w.left \in G, w.right \in G PROVE w \in G
  <2> DEFINE l == Evaluate[w.left]
             r == Evaluate[w.right]
             m == Infix(l, w.op, r)
             A == holds \in Described[w.left]
             B == holds \in Described[w.right]
             P == Parts[w.left] \subseteq Usable
             Q == Parts[w.right] \subseteq Usable
  <2>1. w.op \in {"AND", "OR"} /\ w.left \in Predicate /\ w.right \in Predicate
    BY <1>2, PartsIn
  <2>2. Enclosed(l) /\ Enclosed(r)
    BY <2>1, EvaluateEncloses
  <2>3. Closed(m) /\ Len(m) > 0
    <3>0. m = Infix(l, w.op, r)
      OBVIOUS
    <3> HIDE DEF l, r, m
    <3>1. Closed(m) /\ Len(m) = Len(l) + 1 + Len(r)
      BY <2>1, <2>2, <3>0, InfixIs DEF Joined
    <3>2. Len(l) \in Nat /\ Len(r) \in Nat
      BY <2>2, LenProperties DEF Enclosed, Closed
    <3>3. QED
      BY <3>1, <3>2
  <2>4. Truth(holds)[Evaluate[w]] = Applied(w.op, Truth(holds)[l], Truth(holds)[r])
    <3>1. Evaluate[w] = Bracketed(m)
      BY <1>2, EvaluateIs
    <3>2. Truth(holds)[Bracketed(m)] = Truth(holds)[m]
      BY <2>3, ReadBracketed
    <3>3. Truth(holds)[m] = Applied(w.op, Truth(holds)[l], Truth(holds)[r])
      BY <2>1, <2>2, ReadInfix
    <3>4. QED
      BY <3>1, <3>2, <3>3
  <2>5. /\ Truth(holds)[l] = IF P THEN Value(A) ELSE "error"
        /\ Truth(holds)[r] = IF Q THEN Value(B) ELSE "error"
    BY <1>2 DEF Meaning
  <2>6. (Parts[w] \subseteq Usable) <=> (P /\ Q)
    BY <1>2, PartsAre
  <2>7. CASE w.op = "AND"
    <3>1. (holds \in Described[w]) <=> (A /\ B)
      BY <1>2, <2>7, DescribedIs
    <3>2. Meaning(w, holds) = IF P /\ Q THEN Value(A /\ B) ELSE "error"
      BY <2>6, <3>1 DEF Meaning, Value
    <3> HIDE DEF A, B, P, Q, l, r, m
    <3>3. Applied("AND", IF P THEN Value(A) ELSE "error", IF Q THEN Value(B) ELSE "error")
              = IF P /\ Q THEN Value(A /\ B) ELSE "error"
      BY DEF Applied, Value
    <3>4. QED
      BY <1>2, <2>4, <2>5, <2>7, <3>2, <3>3
  <2>8. CASE w.op = "OR"
    <3>1. (holds \in Described[w]) <=> (A \/ B)
      <4>1. Described[w] = Described[w.left] \cup Described[w.right]
        BY <1>2, <2>8, DescribedIs
      <4>2. QED
        BY <4>1
    <3>2. Meaning(w, holds) = IF P /\ Q THEN Value(A \/ B) ELSE "error"
      BY <2>6, <3>1 DEF Meaning, Value
    <3> HIDE DEF A, B, P, Q, l, r, m
    <3>3. Applied("OR", IF P THEN Value(A) ELSE "error", IF Q THEN Value(B) ELSE "error")
              = IF P /\ Q THEN Value(A \/ B) ELSE "error"
      BY DEF Applied, Value
    <3>4. QED
      BY <1>2, <2>4, <2>5, <2>8, <3>2, <3>3
  <2>9. QED
    BY <2>1, <2>7, <2>8
<1> HIDE DEF G
<1>3. Predicate \subseteq G
  BY <1>1, <1>2, TreeInduction
<1>4. QED
  BY <1>3 DEF G

(* Only the empty predicate has no text. *)
LEMMA TextOfEmpty ==
    ASSUME NEW w \in Predicate
    PROVE  Evaluate[w] = <<>> <=> w = Empty
<1>1. CASE w \in Simple
  <2>1. w = Empty \/ \E c \in Conditional : w = Leaf(c)
    BY <1>1 DEF Simple, Conditional
  <2>2. \A c \in Conditional : Leaf(c) # Empty /\ <<c>> # <<>>
    BY DEF Leaf, Empty
  <2>3. QED
    BY <2>1, <2>2, EvaluateIs
<1>2. CASE w \notin Simple
  <2> DEFINE m == Infix(Evaluate[w.left], w.op, Evaluate[w.right])
  <2>1. Closed(m)
    BY <1>2, PartsIn, EvaluateEncloses, InfixIs DEF Joined
  <2>2. Evaluate[w] = Bracketed(m)
    BY <1>2, EvaluateIs
  <2> HIDE DEF m
  <2>3. Len(Evaluate[w]) = Len(m) + 2 /\ Len(m) \in Nat
    BY <2>1, <2>2, BracketedIs, LenProperties DEF Closed
  <2>4. Evaluate[w] # <<>>
    <3>1. Len(<<>>) = 0
      OBVIOUS
    <3>2. QED
      BY <2>3, <3>1
  <2>5. QED
    BY <1>2, <2>4 DEF Simple
<1>3. QED
  BY <1>1, <1>2

LEMMA Selected ==
    ASSUME NEW w \in Predicate, NEW holds \in SUBSET Conditions
    PROVE  FetchSelects(w, holds) =
               IF Parts[w] \subseteq Usable \/ w = Empty
               THEN Value(holds \in Described[w]) ELSE "error"
<1>1. CASE w = Empty
  BY <1>1, TextOfEmpty, DescribedIs DEF FetchSelects, Value
<1>2. CASE w # Empty
  BY <1>2, TextOfEmpty, ReadAsMeant DEF FetchSelects, Meaning
<1>3. QED
  BY <1>1, <1>2

-----------------------------------------------------------------------------
(* The inductive invariant: a predicate is one, and nested less deep than  *)
(* it has comparisons, so that combining it stays within the bound.        *)

Nested(w) == w \in Predicate /\ (Size[w] <= MaxConditions => w \in Trees[Size[w]])

Inv == Nested(predicate) /\ Nested(kept)

LEMMA SimpleNested == \A w \in Simple : Nested(w)
<1>1. ASSUME NEW w \in Simple, 1 <= MaxConditions PROVE w \in Trees[1]
  <2>1. 0 \in 0..MaxConditions /\ 1 \in 0..MaxConditions
    BY <1>1, ConditionsAssumption
  <2>2. QED
    BY <2>1, PredicateIs, TreesGrow
<1>2. QED
  BY <1>1, SizeIs, PredicateIs DEF Nested

LEMMA CombinedNested ==
    ASSUME NEW l, Nested(l), NEW r, Nested(r), NEW op \in {"AND", "OR"},
           Size[l] + Size[r] <= MaxConditions
    PROVE  Nested([op |-> op, left |-> l, right |-> r])
<1> DEFINE w == [op |-> op, left |-> l, right |-> r]
           a == Size[l]
           b == Size[r]
           n == a + b
<1>1. /\ MaxConditions \in Nat /\ a \in Nat \ {0} /\ b \in Nat \ {0}
      /\ l \in Predicate /\ r \in Predicate /\ n <= MaxConditions
      /\ a <= MaxConditions => l \in Trees[a]
      /\ b <= MaxConditions => r \in Trees[b]
  BY ConditionsAssumption, SizeIs DEF Nested
<1>2. w.op = op /\ w.left = l /\ w.right = r /\ w \notin Simple
  BY DEF Simple, Leaf, Empty
<1>3. w = [op |-> op, left |-> l, right |-> r]
  OBVIOUS
<1> HIDE DEF a, b, w
<1>4. /\ a \in 0..MaxConditions /\ b \in 0..MaxConditions /\ n \in 0..MaxConditions /\ n # 0
      /\ n - 1 \in a..MaxConditions /\ n - 1 \in b..MaxConditions /\ n - 1 \in 0..MaxConditions
  BY <1>1
<1>5. l \in Trees[n - 1] /\ r \in Trees[n - 1]
  BY <1>1, <1>4, TreesGrow
<1>6. w \in Trees[n]
  <2>1. Trees[n] = Combined(Trees[n - 1])
    BY <1>4, TreesAre
  <2> HIDE DEF n
  <2>2. QED
    BY <1>3, <1>5, <2>1 DEF Combined
<1>7. w \in Predicate
  BY <1>4, <1>6, PredicateIs
<1>8. Size[w] = n
  BY <1>2, <1>7, SizeIs DEF a, b
<1>9. QED
  BY <1>6, <1>7, <1>8 DEF Nested, w

LEMMA InvInit == Init => Inv
BY SimpleNested DEF Init, Inv

LEMMA InvNext == Inv /\ [Next]_vars => Inv'
<1> SUFFICES ASSUME Inv, [Next]_vars PROVE Inv'
  OBVIOUS
<1>1. CASE Combine
  <2>1. PICK w \in Simple \cup {kept} :
            /\ Size[predicate] + Size[w] <= MaxConditions
            /\ predicate' \in {And(Clone[predicate], Clone[w]), Or(Clone[predicate], Clone[w]),
                               And(Clone[w], Clone[predicate]), Or(Clone[w], Clone[predicate])}
            /\ UNCHANGED kept
    BY <1>1 DEF Combine
  <2>2. Nested(w) /\ Nested(predicate)
    BY SimpleNested DEF Inv
  <2>3. Clone[w] = w /\ Clone[predicate] = predicate
    BY <2>2, CloneIs DEF Nested
  <2>4. Size[w] + Size[predicate] <= MaxConditions
    <3>1. Size[w] \in Nat /\ Size[predicate] \in Nat
      BY <2>2, SizeIs DEF Nested
    <3>2. QED
      BY <2>1, <3>1, ConditionsAssumption
  <2>5. \A op \in {"AND", "OR"} : /\ Nested([op |-> op, left |-> predicate, right |-> w])
                                  /\ Nested([op |-> op, left |-> w, right |-> predicate])
    BY <2>1, <2>2, <2>4, CombinedNested
  <2>6. Nested(predicate')
    BY <2>1, <2>3, <2>5 DEF And, Or
  <2>7. QED
    BY <2>1, <2>6 DEF Inv
<1>2. CASE Keep
  BY <1>2 DEF Keep, Inv
<1>3. CASE Restart
  BY <1>3, SimpleNested DEF Restart, Inv
<1>4. CASE UNCHANGED vars
  BY <1>4 DEF vars, Inv
<1>5. QED
  BY <1>1, <1>2, <1>3, <1>4 DEF Next

LEMMA AlwaysInv == Spec => []Inv
BY InvInit, InvNext, PTL DEF Spec

(* A comparison that does not compile is of no use anywhere in a tree. *)
LEMMA BadPart ==
    ASSUME NEW w \in Predicate, Leaf(BadCondition) \in Parts[w]
    PROVE  ~(Parts[w] \subseteq Usable) /\ w # Empty
<1>1. Leaf(BadCondition) \notin Usable
  BY ConditionsAssumption DEF Usable, Leaf
<1>2. Leaf(BadCondition) # Empty
  BY DEF Leaf, Empty
<1>3. Parts[Empty] = {Empty}
  BY PartsAre DEF Simple
<1>4. QED
  BY <1>1, <1>2, <1>3

(* Whatever a program combines with And and Or, in any order and with      *)
(* predicates that it uses again, a WHERE clause that compiles selects the *)
(* rows that the predicate describes.  It compiles if every comparison in  *)
(* it does and no operand is empty, and never if a comparison does not.    *)
THEOREM PredicatesSelectMeant == Spec => []SelectsMeant
<1>1. Inv => SelectsMeant
  <2> SUFFICES ASSUME Inv, NEW holds \in SUBSET Conditions
               PROVE  LET selects == FetchSelects(predicate, holds) IN
                      /\ selects # "error" => selects = Value(holds \in Described[predicate])
                      /\ Leaf(BadCondition) \in Parts[predicate] => selects = "error"
                      /\ Parts[predicate] \subseteq Usable \/ predicate = Empty
                             => selects # "error"
    BY DEF SelectsMeant, Usable
  <2> DEFINE meant == Value(holds \in Described[predicate])
  <2>1. predicate \in Predicate
    BY DEF Inv, Nested
  <2>2. FetchSelects(predicate, holds) =
            IF Parts[predicate] \subseteq Usable \/ predicate = Empty THEN meant ELSE "error"
    BY <2>1, Selected
  <2>3. meant # "error"
    BY DEF Value
  <2>4. Leaf(BadCondition) \in Parts[predicate] =>
            ~(Parts[predicate] \subseteq Usable \/ predicate = Empty)
    BY <2>1, BadPart
  <2> HIDE DEF meant
  <2>5. QED
    BY <2>2, <2>3, <2>4 DEF meant
<1>2. QED
  BY <1>1, AlwaysInv, PTL
=============================================================================

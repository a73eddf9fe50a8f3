-------------------------- MODULE ReflectionProofs --------------------------
(***************************************************************************)
(* Proofs about Reflection, for every program: any units, any structs, any *)
(* order of the static initialisers.                                       *)
(***************************************************************************)
EXTENDS Reflection, NaturalsInduction, WellFoundedInduction, TLAPS

(* Induction over the natural numbers, for a set: a least number outside   *)
(* of S would have a predecessor in S.                                     *)
LEMMA SetInduction ==
    ASSUME NEW S, 0 \in S, \A n \in Nat : n \in S => n + 1 \in S
    PROVE  Nat \subseteq S
<1> SUFFICES ASSUME NEW T, T = Nat \ S, T # {} PROVE FALSE
  OBVIOUS
<1>1. PICK x \in T : \A y \in T : <<y, x>> \notin OpToRel(<,Nat)
  BY NatLessThanWellFounded, WFMin, Zenon
<1>2. x - 1 \in Nat /\ <<x - 1, x>> \in OpToRel(<,Nat) /\ (x - 1) + 1 = x
  BY DEF OpToRel
<1>3. QED
  BY <1>1, <1>2, Zenon

(* Which offsets below 2^16 OffsetFromStart gets right: those that fit one *)
(* byte, and those whose low byte is not zero.  A member at a multiple of  *)
(* 256 is taken for the member at offset 0.                                *)
THEOREM OffsetExact ==
    ASSUME NEW o \in Nat, o < 65536
    PROVE  /\ (OffsetFromStart(o) = o) <=> (o < 256 \/ o % 256 # 0)
           /\ (o % 256 = 0) => (OffsetFromStart(o) = 0)
<1>0. /\ o = 256 * (o \div 256) + (o % 256)
      /\ o % 256 \in Nat /\ o % 256 < 256
      /\ o \div 256 \in Int /\ 0 <= o \div 256 /\ o \div 256 < 256
  OBVIOUS
<1>1. Byte(o, 1) = o % 256 /\ Byte(o, 2) = o \div 256 /\ Byte(o, 3) = 0
  <2>1. Byte(o, 1) = (o \div 1) % 256 /\ Byte(o, 2) = (o \div 256) % 256
        /\ Byte(o, 3) = (o \div 65536) % 256
    BY DEF Byte, Weight
  <2>2. \A n \in Int : 0 <= n /\ n < 256 => n % 256 = n
    OBVIOUS
  <2>3. o \div 1 = o /\ o \div 65536 = 0
    OBVIOUS
  <2>4. QED
    BY <1>0, <2>1, <2>2, <2>3
<1>2. Strlen(o) = IF o % 256 = 0 THEN 0 ELSE IF o < 256 THEN 1 ELSE 2
  <2> DEFINE Ends(n) == (\A i \in 1..n : Byte(o, i) # 0) /\ (n < 4 => Byte(o, n + 1) = 0)
             len == IF o % 256 = 0 THEN 0 ELSE IF o < 256 THEN 1 ELSE 2
  <2>1. len \in 0..4 /\ Ends(len)
    BY <1>1
  <2>2. ASSUME NEW n \in 0..4, Ends(n) PROVE n = len
    <3>1. ~(n < len)
      BY <1>1, <2>2
    <3>2. ~(len < n)
      BY <2>1, <2>2
    <3>3. QED
      BY <2>1, <3>1, <3>2
  <2>3. Strlen(o) = CHOOSE n \in 0..4 : Ends(n)
    BY DEF Strlen
  <2> HIDE DEF Ends, len
  <2>4. Strlen(o) = len
    BY <2>1, <2>2, <2>3
  <2>5. QED
    BY <2>4 DEF len
<1>3. OffsetFromStart(o) =
        IF o % 256 = 0 THEN o % 1 ELSE IF o < 256 THEN o % 256 ELSE o % 65536
  BY <1>2 DEF OffsetFromStart, Weight
<1>4. o % 1 = 0 /\ o % 65536 = o
  OBVIOUS
<1>5. o < 256 => o % 256 = o
  OBVIOUS
<1>6. CASE o % 256 = 0
  <2>1. OffsetFromStart(o) = 0
    BY <1>3, <1>4, <1>6
  <2>2. o < 256 <=> o = 0
    BY <1>5, <1>6
  <2>3. QED
    BY <1>6, <2>1, <2>2
<1>7. CASE o % 256 # 0
  <2>1. OffsetFromStart(o) = o
    <3>1. CASE o < 256
      BY <1>3, <1>5, <1>7, <3>1
    <3>2. CASE ~(o < 256)
      BY <1>3, <1>4, <1>7, <3>2
    <3>3. QED
      BY <3>1, <3>2
  <2>2. QED
    BY <1>7, <2>1
<1>8. QED
  BY <1>6, <1>7

-----------------------------------------------------------------------------
(* The layout of a struct. *)

LEMMA MembersType ==
    ASSUME NEW fs \in Seq(StorageClasses)
    PROVE  /\ Members(fs) \in Seq(StorageClasses)
           /\ Len(fs) \in Nat /\ DOMAIN fs = 1..Len(fs)
           /\ Len(Members(fs)) = Len(fs) + 1 /\ DOMAIN Members(fs) = 1..(Len(fs) + 1)
           /\ \A k \in DOMAIN Members(fs) : Members(fs)[k] \in StorageClasses
<1>1. "kInt" \in StorageClasses
  BY DEF StorageClasses
<1>2. QED
  BY <1>1 DEF Members

(* Where the k-th of the members ms begins, if f says where the one before *)
(* does.                                                                   *)
Place(f, ms, k) ==
    IF k = 1 THEN 0 ELSE Aligned(f[k - 1] + Sizeof[ms[k - 1]], Alignof[ms[k]])

(* The recursive definition of Offsetof has a solution. *)
LEMMA OffsetofIs ==
    ASSUME NEW fs \in Seq(StorageClasses)
    PROVE  Offsetof(fs) = [k \in 1..(Len(fs) + 1) |-> Place(Offsetof(fs), Members(fs), k)]
<1> DEFINE ms == Members(fs)
           Is(f, n) == f = [k \in 1..n |-> Place(f, ms, k)]
           S == {n \in Nat : \E f : Is(f, n)}
<1>1. 0 \in S
  <2>1. Is([k \in 1..0 |-> 0], 0)
    OBVIOUS
  <2>2. QED
    BY <2>1
<1>2. ASSUME NEW n \in Nat, n \in S PROVE n + 1 \in S
  <2>1. PICK f : Is(f, n)
    BY <1>2
  <2> HIDE DEF ms
  <2> DEFINE g == [k \in 1..(n + 1) |-> IF k <= n THEN f[k] ELSE Place(f, ms, k)]
  <2>2. \A k \in 1..n : f[k] = Place(f, ms, k)
    BY <2>1
  <2>3. \A k \in 1..(n + 1) : g[k] = Place(g, ms, k)
    BY <2>2 DEF Place
  <2>4. Is(g, n + 1)
    BY <2>3
  <2> HIDE DEF Is, g
  <2>5. QED
    BY <2>4
<1>3. \A n \in Nat : \E f : Is(f, n)
  <2> HIDE DEF Is
  <2>1. Nat \subseteq S
    <3> HIDE DEF S
    <3>1. QED
      BY <1>1, <1>2, SetInduction
  <2>2. QED
    BY <2>1
<1>4. Len(fs) + 1 \in Nat /\ DOMAIN ms = 1..(Len(fs) + 1)
  BY MembersType
<1> HIDE DEF ms
<1>5. Offsetof(fs) = CHOOSE f : f = [k \in DOMAIN ms |-> Place(f, ms, k)]
  BY DEF Offsetof, Place, ms
<1>6. Offsetof(fs) = CHOOSE f : Is(f, Len(fs) + 1)
  BY <1>4, <1>5
<1>7. Is(Offsetof(fs), Len(fs) + 1)
  <2> HIDE DEF Is
  <2>1. QED
    BY <1>3, <1>4, <1>6
<1>8. QED
  BY <1>7 DEF ms

(* A member begins after the end of the one before. *)
LEMMA NextPlace ==
    ASSUME NEW o \in Nat, NEW c \in StorageClasses, NEW d \in StorageClasses
    PROVE  /\ Aligned(o + Sizeof[c], Alignof[d]) \in Nat
           /\ Aligned(o + Sizeof[c], Alignof[d]) > o
<1>1. Sizeof[c] \in {1, 8, 32} /\ Alignof[d] \in {1, 8}
  BY DEF StorageClasses, Sizeof, Alignof
<1>2. PICK n \in Nat : n = o + Sizeof[c] /\ n > o
  BY <1>1
<1>3. Aligned(n, 1) = n
  BY SMT DEF Aligned
<1>4. Aligned(n, 8) \in Nat /\ Aligned(n, 8) >= n
  BY SMT DEF Aligned
<1>5. QED
  BY <1>1, <1>2, <1>3, <1>4, SMT

LEMMA OffsetsGrow ==
    ASSUME NEW fs \in Seq(StorageClasses)
    PROVE  /\ \A k \in 1..(Len(fs) + 1) : Offsetof(fs)[k] \in Nat
           /\ \A j, k \in 1..(Len(fs) + 1) : j < k => Offsetof(fs)[j] < Offsetof(fs)[k]
<1> DEFINE off == Offsetof(fs)
           ms  == Members(fs)
           len == Len(fs) + 1
           Grows(n) == n <= len =>
               /\ \A k \in 1..n : off[k] \in Nat
               /\ \A j, k \in 1..n : j < k => off[j] < off[k]
           S == {n \in Nat : Grows(n)}
<1>1. /\ len \in Nat
      /\ \A k \in 1..len : ms[k] \in StorageClasses
      /\ \A k \in 1..len : off[k] = Place(off, ms, k)
  <2>1. len \in Nat /\ \A k \in 1..len : ms[k] \in StorageClasses
    BY MembersType
  <2>2. off = [k \in 1..len |-> Place(off, ms, k)]
    BY OffsetofIs
  <2> HIDE DEF off, ms, len
  <2>3. \A k \in 1..len : off[k] = Place(off, ms, k)
    BY <2>2
  <2>4. QED
    BY <2>1, <2>3
<1> HIDE DEF off, ms, len
<1>2. 0 \in S
  OBVIOUS
<1>3. ASSUME NEW n \in Nat, n \in S PROVE n + 1 \in S
  <2>1. SUFFICES ASSUME n + 1 <= len
                 PROVE  /\ \A k \in 1..(n + 1) : off[k] \in Nat
                        /\ \A j, k \in 1..(n + 1) : j < k => off[j] < off[k]
    OBVIOUS
  <2>2. /\ \A k \in 1..n : off[k] \in Nat
        /\ \A j, k \in 1..n : j < k => off[j] < off[k]
    BY <1>1, <1>3, <2>1
  <2>3. off[n + 1] = Place(off, ms, n + 1)
    BY <1>1, <2>1
  <2>4. CASE n = 0
    BY <2>3, <2>4 DEF Place
  <2>5. CASE n # 0
    <3>1. /\ n \in 1..n /\ off[n] \in Nat
          /\ ms[n] \in StorageClasses /\ ms[n + 1] \in StorageClasses
      BY <1>1, <2>1, <2>2, <2>5
    <3>2. off[n + 1] = Aligned(off[n] + Sizeof[ms[n]], Alignof[ms[n + 1]])
      BY <2>3, <2>5 DEF Place
    <3>3. off[n + 1] \in Nat /\ off[n + 1] > off[n]
      BY <3>1, <3>2, NextPlace
    <3>4. \A j \in 1..n : off[j] < off[n + 1]
      BY <2>2, <3>1, <3>3
    <3>5. QED
      BY <2>2, <3>3, <3>4
  <2>6. QED
    BY <2>4, <2>5
<1>4. Nat \subseteq S
  <2> HIDE DEF S
  <2>1. QED
    BY <1>2, <1>3, SetInduction
<1>5. Grows(len)
  BY <1>1, <1>4
<1>6. QED
  BY <1>1, <1>5 DEF off, len

(* The metadata of a struct: a record for the id, then one for each of the *)
(* members, with the places of them.                                       *)
LEMMA MetadataIs ==
    ASSUME NEW fs \in Seq(StorageClasses)
    PROVE  /\ Metadata(fs) \in Seq(MetadataType)
           /\ DOMAIN Metadata(fs) = 1..(Len(fs) + 1)
           /\ \A i \in 1..(Len(fs) + 1) :
                  LET k == IF i = 1 THEN Len(fs) + 1 ELSE i - 1
                  IN  /\ Metadata(fs)[i].name = k
                      /\ Metadata(fs)[i].offset = Offsetof(fs)[k]
<1> DEFINE len == Len(fs)
           Member(k) == [name |-> k, class |-> Members(fs)[k], offset |-> Offsetof(fs)[k]]
           rest == [k \in 1..len |-> Member(k)]
<1>1. len \in Nat /\ DOMAIN fs = 1..len
  BY MembersType
<1>2. \A k \in 1..(len + 1) : /\ Member(k) \in MetadataType
                              /\ Member(k).name = k /\ Member(k).offset = Offsetof(fs)[k]
  BY <1>1, MembersType, OffsetsGrow DEF MetadataType
<1>3. Metadata(fs) = <<Member(len + 1)>> \o rest
  BY <1>1 DEF Metadata, IdMember
<1> HIDE DEF Member, len
<1>4. rest \in Seq(MetadataType) /\ Len(rest) = len /\ \A k \in 1..len : rest[k] = Member(k)
  BY <1>1, <1>2
<1>5. <<Member(len + 1)>> \in Seq(MetadataType)
  BY <1>1, <1>2
<1> HIDE DEF rest
<1>6. /\ Metadata(fs) \in Seq(MetadataType)
      /\ Len(Metadata(fs)) = len + 1
      /\ Metadata(fs)[1] = Member(len + 1)
      /\ \A i \in 2..(len + 1) : Metadata(fs)[i] = rest[i - 1]
  BY <1>1, <1>3, <1>4, <1>5
<1>7. \A i \in 2..(len + 1) : Metadata(fs)[i] = Member(i - 1)
  BY <1>1, <1>4, <1>6
<1>8. QED
  BY <1>1, <1>2, <1>6, <1>7 DEF len

(* No two members share an offset, so the search for the offset of one     *)
(* finds that one.                                                         *)
LEMMA FindsMember ==
    ASSUME NEW fs \in Seq(StorageClasses), NEW k \in 1..(Len(fs) + 1)
    PROVE  FindMember(Metadata(fs), Offsetof(fs)[k]) = k
<1> DEFINE len == Len(fs) + 1
           md == Metadata(fs)
           off == Offsetof(fs)
           at == IF k = len THEN 1 ELSE k + 1
           hits == {i \in DOMAIN md : md[i].offset = off[k]}
<1>1. Len(fs) \in Nat
  BY MembersType
<1>2. /\ DOMAIN md = 1..len
      /\ \A i \in 1..len : /\ md[i].name = IF i = 1 THEN len ELSE i - 1
                           /\ md[i].offset = off[IF i = 1 THEN len ELSE i - 1]
  BY MetadataIs
<1>3. \A i, j \in 1..len : off[i] = off[j] => i = j
  <2>1. /\ \A i \in 1..len : off[i] \in Nat
        /\ \A i, j \in 1..len : i < j => off[i] < off[j]
    BY OffsetsGrow
  <2> HIDE DEF off
  <2>2. QED
    BY <1>1, <2>1
<1>4. FindMember(md, off[k]) =
        IF hits = {} THEN 0 ELSE md[CHOOSE i \in hits : \A j \in hits : i <= j].name
  BY DEF FindMember
<1>5. len \in Nat /\ k \in 1..len
  BY <1>1
<1> HIDE DEF md, off, len
<1>6. hits = {at}
  <2>1. at \in 1..len /\ md[at].offset = off[k]
    BY <1>2, <1>5
  <2>2. ASSUME NEW i \in 1..len, md[i].offset = off[k] PROVE i = at
    BY <1>2, <1>3, <1>5, <2>2
  <2> HIDE DEF at
  <2>3. QED
    BY <1>2, <2>1, <2>2
<1>7. at \in 1..len /\ md[at].name = k
  BY <1>2, <1>5
<1> HIDE DEF hits, at
<1>8. (CHOOSE i \in hits : \A j \in hits : i <= j) = at
  BY <1>5, <1>6, <1>7
<1>9. QED
  BY <1>4, <1>6, <1>7, <1>8 DEF md, off

-----------------------------------------------------------------------------
(* Registration. *)

(* A record is whole, or empty because it was looked up first.             *)
Inv ==
    /\ fields \in [Types -> Structs]
    /\ done \in [Units -> Nat]
    /\ \A u \in Units : done[u] <= Len(Headers[u])
    /\ records = [t \in DOMAIN records |-> records[t]]
    /\ DOMAIN records \subseteq Types \cup Plain
    /\ \A t \in Plain \cap DOMAIN records : records[t] = <<>>
    /\ RegisteredWhole

LEMMA HeadersAre ==
    ASSUME NEW u \in Units
    PROVE  /\ Len(Headers[u]) \in Nat /\ DOMAIN Headers[u] = 1..Len(Headers[u])
           /\ \A k \in DOMAIN Headers[u] : Headers[u][k] \in Types
<1>1. Headers[u] \in Seq(Types)
  BY HeadersAssumption
<1>2. QED
  BY <1>1

LEMMA InvInit == Init => Inv
<1> SUFFICES ASSUME Init PROVE Inv
  OBVIOUS
<1>1. \A u \in Units : Len(Headers[u]) \in Nat
  BY HeadersAre
<1>2. \A t \in Types : ~Registered(t)
  BY DEF Init, Registered
<1>3. RegisteredWhole
  BY <1>2 DEF Init, RegisteredWhole
<1>4. QED
  BY <1>1, <1>3 DEF Init, Inv

(* When every initialiser has run, every struct of a header is registered. *)
LEMMA AllRegistered ==
    ASSUME Inv, InMain, NEW t, Included(t)
    PROVE  Registered(t)
<1>1. PICK u \in Units : \E k \in DOMAIN Headers[u] : Headers[u][k] = t
  BY DEF Included
<1>2. PICK k \in DOMAIN Headers[u] : Headers[u][k] = t
  BY <1>1
<1>3. k \in 1..done[u]
  BY HeadersAre DEF InMain
<1>4. QED
  BY <1>2, <1>3 DEF Registered

(* The metadata of a struct is never empty: there is the id. *)
LEMMA MetadataNotEmpty ==
    ASSUME Inv, NEW t \in Types
    PROVE  fields[t] \in Seq(StorageClasses) /\ Metadata(fields[t]) # <<>>
<1>1. fields[t] \in Seq(StorageClasses)
  BY StructsAssumption DEF Inv
<1>2. DOMAIN Metadata(fields[t]) = 1..(Len(fields[t]) + 1) /\ Len(fields[t]) \in Nat
  BY <1>1, MetadataIs, MembersType
<1>3. 1 \in DOMAIN Metadata(fields[t])
  BY <1>2
<1>4. DOMAIN <<>> = {}
  OBVIOUS
<1>5. QED
  BY <1>1, <1>3, <1>4

(* A lookup changes no record, and adds an empty one for a type that is    *)
(* not there, which no program has that has got its database.              *)
LEMMA LookupKeeps ==
    ASSUME Inv, NEW t \in Types \cup Plain, t \in Types => Included(t),
           records' = WithRecord(t), UNCHANGED <<fields, done, opened>>
    PROVE  /\ Inv'
           /\ t \in DOMAIN records'
           /\ \A s \in DOMAIN records' :
                 IF s \in DOMAIN records THEN records'[s] = records[s] ELSE records'[s] = <<>>
<1>1. /\ DOMAIN records' = DOMAIN records \cup {t}
      /\ \A s \in DOMAIN records' :
            IF s \in DOMAIN records THEN records'[s] = records[s] ELSE records'[s] = <<>>
      /\ records' = [s \in DOMAIN records' |-> records'[s]]
  BY DEF WithRecord
<1>2. /\ DOMAIN records' \subseteq Types \cup Plain
      /\ \A s \in Plain \cap DOMAIN records' : records'[s] = <<>>
  BY <1>1 DEF Inv
<1>3. \A s \in Types : Whole(s) => Whole(s)'
  BY <1>1 DEF Whole
<1>4. \A s : Registered(s)' <=> Registered(s)
  BY DEF Registered
<1>5. RegisteredWhole'
  <2>1. \A s \in Types \cap DOMAIN records' : Whole(s)' \/ records'[s] = <<>>
    <3> SUFFICES ASSUME NEW s \in Types \cap DOMAIN records' PROVE Whole(s)' \/ records'[s] = <<>>
      OBVIOUS
    <3>1. CASE s \in DOMAIN records
      BY <1>1, <1>3, <3>1 DEF Inv, RegisteredWhole
    <3>2. CASE s \notin DOMAIN records
      BY <1>1, <3>2
    <3>3. QED
      BY <3>1, <3>2
  <2>2. \A s \in Types : Registered(s)' => s \in DOMAIN records'
    BY <1>1, <1>4 DEF Inv, RegisteredWhole
  <2>3. opened' = "open" => \A s \in Types : Included(s)' => Whole(s)'
    BY <1>3 DEF Inv, RegisteredWhole, Included
  <2>4. QED
    BY <2>1, <2>2, <2>3 DEF RegisteredWhole
<1>6. QED
  BY <1>1, <1>2, <1>5 DEF Inv

LEMMA InvNext == Inv /\ [Next]_vars => Inv'
<1> SUFFICES ASSUME Inv, [Next]_vars PROVE Inv'
  OBVIOUS
<1>1. CASE UNCHANGED vars
  BY <1>1 DEF vars, Inv, RegisteredWhole, Registered, Whole, Included
<1>2. ASSUME NEW u \in Units, Register(u) PROVE Inv'
  <2> DEFINE t == Headers[u][done[u] + 1]
  <2>1. /\ done[u] < Len(Headers[u])
        /\ done' = [done EXCEPT ![u] = @ + 1] /\ fields' = fields /\ opened' = opened
        /\ records' = IF t \in DOMAIN records THEN records
                      ELSE [WithRecord(t) EXCEPT ![t] = Metadata(fields[t])]
    BY <1>2 DEF Register
  <2>2. \A s : Registered(s)' => Registered(s) \/ s = t
    <3> SUFFICES ASSUME NEW s, NEW v \in Units, NEW k \in 1..done'[v], Headers[v][k] = s
                 PROVE  Registered(s) \/ s = t
      BY DEF Registered
    <3>1. k \in 1..done[v] \/ (v = u /\ k = done[u] + 1)
      BY <2>1 DEF Inv
    <3>2. QED
      BY <3>1 DEF Registered
  <2>3. t \in Types
    <3>1. done[u] + 1 \in DOMAIN Headers[u]
      BY <2>1, HeadersAre DEF Inv
    <3>2. QED
      BY <3>1, HeadersAre
  <2> HIDE DEF t
  <2>4. /\ DOMAIN records' = DOMAIN records \cup {t}
        /\ \A s \in DOMAIN records : records'[s] = records[s]
        /\ t \notin DOMAIN records => records'[t] = Metadata(fields[t])
        /\ records' = [s \in DOMAIN records' |-> records'[s]]
    BY <2>1 DEF WithRecord, Inv
  <2>5. done' \in [Units -> Nat] /\ \A v \in Units : done'[v] <= Len(Headers[v])
    BY <2>1, HeadersAre DEF Inv
  <2>6. \A s \in Types : Whole(s) => Whole(s)'
    BY <2>1, <2>4 DEF Whole
  <2>7. \A s \in Types \cap DOMAIN records' : Whole(s)' \/ records'[s] = <<>>
    <3> SUFFICES ASSUME NEW s \in Types \cap DOMAIN records' PROVE Whole(s)' \/ records'[s] = <<>>
      OBVIOUS
    <3>1. CASE s \in DOMAIN records
      BY <2>4, <2>6, <3>1 DEF Inv, RegisteredWhole
    <3>2. CASE s \notin DOMAIN records
      BY <2>1, <2>4, <3>2 DEF Whole
    <3>3. QED
      BY <3>1, <3>2
  <2>8. \A s \in Types : Registered(s)' => s \in DOMAIN records'
    BY <2>2, <2>4 DEF Inv, RegisteredWhole
  <2>9. opened' = "open" => \A s \in Types : Included(s)' => Whole(s)'
    BY <2>1, <2>6 DEF Inv, RegisteredWhole, Included
  <2>10. /\ DOMAIN records' \subseteq Types \cup Plain
         /\ \A s \in Plain \cap DOMAIN records' : records'[s] = <<>>
    BY <2>3, <2>4, PlainAssumption DEF Inv
  <2>11. RegisteredWhole'
    BY <2>7, <2>8, <2>9 DEF RegisteredWhole
  <2>12. QED
    BY <2>1, <2>4, <2>5, <2>10, <2>11 DEF Inv
<1>3. ASSUME NEW t \in Types, NEW k, MakePredicate(t, k) PROVE Inv'
  BY <1>3, LookupKeeps DEF MakePredicate
<1>4. ASSUME NEW t \in Plain, UsePlain(t) PROVE Inv'
  BY <1>4, LookupKeeps, PlainAssumption DEF UsePlain
<1>5. CASE Initialize
  <2>1. InMain /\ UNCHANGED <<fields, records, done>>
        /\ opened' = IF \E t \in DOMAIN records : records[t] = <<>> THEN "failed" ELSE "open"
    BY <1>5 DEF Initialize
  <2>2. \A s : /\ Registered(s)' <=> Registered(s)
               /\ Whole(s)' <=> Whole(s)
               /\ Included(s)' <=> Included(s)
    BY <2>1 DEF Registered, Whole, Included
  <2>3. ASSUME opened' = "open", NEW s \in Types, Included(s) PROVE Whole(s)
    <3>1. s \in DOMAIN records
      BY <2>1, <2>3, AllRegistered DEF Inv, RegisteredWhole
    <3>2. records[s] # <<>>
      BY <2>1, <2>3, <3>1
    <3>3. QED
      BY <3>1, <3>2 DEF Inv, RegisteredWhole
  <2>4. RegisteredWhole'
    BY <2>1, <2>2, <2>3 DEF Inv, RegisteredWhole
  <2>5. QED
    BY <2>1, <2>4 DEF Inv
<1>6. QED
  BY <1>1, <1>2, <1>3, <1>4, <1>5 DEF Next

(* Whatever the order in which the units of a program are initialised and  *)
(* whatever their initialisers look up, before or after a struct is        *)
(* registered, its metadata is stored whole and once or not at all, and a  *)
(* program that gets its database has that of every struct.                *)
THEOREM Registration == Spec => []RegisteredWhole
<1>1. Spec => []Inv
  BY InvInit, InvNext, PTL DEF Spec
<1>2. QED
  BY <1>1, PTL DEF Inv

-----------------------------------------------------------------------------
(* What a predicate is made on, and the type of the register. *)

(* Every type that is looked up is one that Inv knows. *)
Looked ==
    /\ predicate.type \in {"none"} \cup Types \cup Plain
    /\ opened \in {"no", "open", "failed"}

LEMMA LookedNext == Looked /\ [Next]_vars => Looked'
<1> SUFFICES ASSUME Looked, [Next]_vars PROVE Looked'
  OBVIOUS
<1>1. CASE UNCHANGED vars
  BY <1>1 DEF vars, Looked
<1>2. ASSUME NEW u \in Units, Register(u) PROVE Looked'
  BY <1>2 DEF Register, Looked
<1>3. ASSUME NEW t \in Types, NEW k, MakePredicate(t, k) PROVE Looked'
  BY <1>3 DEF MakePredicate, Looked
<1>4. ASSUME NEW t \in Plain, UsePlain(t) PROVE Looked'
  BY <1>4 DEF UsePlain, Looked
<1>5. CASE Initialize
  BY <1>5 DEF Initialize, Looked
<1>6. QED
  BY <1>1, <1>2, <1>3, <1>4, <1>5 DEF Next

(* The register holds sequences of well formed member records only, and    *)
(* nothing but the structs of the program.                                 *)
THEOREM RegisterTyped == Spec => []TypeOK
<1>1. Init => Looked
  BY DEF Init, Looked, NoPredicate
<1>2. Inv /\ Looked => TypeOK
  <2> SUFFICES ASSUME Inv, Looked PROVE TypeOK
    OBVIOUS
  <2>1. ASSUME NEW t \in DOMAIN records PROVE records[t] \in Seq(MetadataType)
    <3>1. CASE t \in Types
      <4>1. fields[t] \in Seq(StorageClasses)
        BY <3>1, StructsAssumption DEF Inv
      <4>2. records[t] = Metadata(fields[t]) \/ records[t] = <<>>
        BY <3>1 DEF Inv, RegisteredWhole, Whole
      <4>3. Metadata(fields[t]) \in Seq(MetadataType) /\ <<>> \in Seq(MetadataType)
        BY <4>1, MetadataIs
      <4>4. QED
        BY <4>2, <4>3
    <3>2. CASE t \in Plain
      <4>1. records[t] = <<>>
        BY <3>2 DEF Inv
      <4>2. QED
        BY <4>1
    <3>3. QED
      BY <3>1, <3>2 DEF Inv
  <2>2. QED
    BY <2>1 DEF TypeOK, Inv, Looked
<1>3. Spec => []Inv
  BY InvInit, InvNext, PTL DEF Spec
<1>4. Spec => []Looked
  BY <1>1, LookedNext, PTL DEF Spec
<1>5. QED
  BY <1>2, <1>3, <1>4, PTL

(* The members of every struct are where a pointer to member can be read   *)
(* back from its bytes.  A struct below 256 bytes has only such members;   *)
(* the run largestructs shows a struct that has another.                   *)
FindableMembers ==
    \A fs \in Structs : \A k \in DOMAIN Members(fs) :
        /\ Offsetof(fs)[k] < 65536
        /\ Offsetof(fs)[k] < 256 \/ Offsetof(fs)[k] % 256 # 0

(* The record of a struct is not lost, nor filled in later, so that what   *)
(* was found in it stays right.  An initialiser that registers a struct    *)
(* leaves alone a record that is there.                                    *)
LEMMA RecordStays ==
    ASSUME Inv, Next, NEW t \in DOMAIN records
    PROVE  t \in DOMAIN records' /\ records'[t] = records[t]
<1>1. ASSUME NEW u \in Units, Register(u)
      PROVE  t \in DOMAIN records' /\ records'[t] = records[t]
  <2> DEFINE s == Headers[u][done[u] + 1]
  <2>1. records' = IF s \in DOMAIN records THEN records
                   ELSE [WithRecord(s) EXCEPT ![s] = Metadata(fields[s])]
    BY <1>1 DEF Register
  <2> HIDE DEF s
  <2>2. QED
    BY <2>1 DEF WithRecord
<1>2. ASSUME NEW s \in Types, NEW k, MakePredicate(s, k)
      PROVE  t \in DOMAIN records' /\ records'[t] = records[t]
  BY <1>2 DEF MakePredicate, WithRecord
<1>3. ASSUME NEW s \in Plain, UsePlain(s)
      PROVE  t \in DOMAIN records' /\ records'[t] = records[t]
  BY <1>3 DEF UsePlain, WithRecord
<1>4. CASE Initialize
  BY <1>4 DEF Initialize
<1>5. QED
  BY <1>1, <1>2, <1>3, <1>4 DEF Next

(* The struct of the last predicate has been looked up. *)
Found == (predicate.type \in Types => predicate.type \in DOMAIN records)
             /\ (FindableMembers => PredicateOnMember)

LEMMA FoundNext == Inv /\ Found /\ [Next]_vars => Found'
<1> SUFFICES ASSUME Inv, Found, [Next]_vars PROVE Found'
  OBVIOUS
<1>0. FindableMembers' <=> FindableMembers
  BY DEF FindableMembers
<1>1. CASE UNCHANGED vars
  BY <1>0, <1>1 DEF vars, Found, PredicateOnMember
<1>2. ASSUME NEW t \in Types, NEW k \in DOMAIN Members(fields[t]), MakePredicate(t, k)
      PROVE  Found'
  <2> DEFINE fs == fields[t]
             o == Offsetof(fs)[k]
  <2>1. fs \in Structs /\ fs \in Seq(StorageClasses)
    BY StructsAssumption DEF Inv
  <2>2. /\ t \in DOMAIN records' /\ predicate'.type = t /\ predicate'.member = k
        /\ predicate'.name = FindMember(records'[t], OffsetFromStart(o))
        /\ records'[t] = Metadata(fs) \/ records'[t] = <<>>
    <3>1. /\ predicate'.type = t /\ predicate'.member = k
          /\ predicate'.name = FindMember(records'[t], OffsetFromStart(o))
      BY <1>2 DEF MakePredicate
    <3>2. /\ t \in DOMAIN records'
          /\ t \in DOMAIN records => records'[t] = records[t]
          /\ t \notin DOMAIN records => records'[t] = <<>>
      BY <1>2, LookupKeeps DEF MakePredicate
    <3>3. t \in DOMAIN records => records[t] = Metadata(fs) \/ records[t] = <<>>
      BY DEF Inv, RegisteredWhole, Whole
    <3>4. QED
      BY <3>1, <3>2, <3>3
  <2>3. ASSUME FindableMembers PROVE PredicateOnMember'
    <3>1. k \in 1..(Len(fs) + 1)
      BY <2>1, MembersType
    <3>2. o \in Nat /\ o < 65536 /\ (o < 256 \/ o % 256 # 0)
      BY <2>1, <2>3, <3>1, OffsetsGrow DEF FindableMembers
    <3>3. OffsetFromStart(o) = o
      <4> HIDE DEF o
      <4>1. QED
        BY <3>2, OffsetExact
    <3>4. CASE records'[t] = Metadata(fs)
      <4>1. FindMember(Metadata(fs), o) = k
        BY <2>1, <3>1, FindsMember
      <4>2. Metadata(fs) # <<>>
        BY MetadataNotEmpty
      <4>3. QED
        BY <2>2, <3>3, <3>4, <4>1, <4>2 DEF PredicateOnMember
    <3>5. CASE records'[t] = <<>>
      <4>1. DOMAIN <<>> = {}
        OBVIOUS
      <4>2. FindMember(<<>>, o) = 0
        BY <4>1 DEF FindMember
      <4>3. QED
        BY <2>2, <3>3, <3>5, <4>2 DEF PredicateOnMember
    <3>6. QED
      BY <2>2, <3>4, <3>5
  <2>4. QED
    BY <1>0, <2>2, <2>3 DEF Found
<1>3. ASSUME NEW t \in Plain, UsePlain(t) PROVE Found'
  BY <1>3, PlainAssumption DEF UsePlain, Found, PredicateOnMember
<1>4. ASSUME Next, predicate' = predicate PROVE Found'
  BY <1>0, <1>4, RecordStays DEF Found, PredicateOnMember
<1>5. ASSUME NEW u \in Units, Register(u) PROVE predicate' = predicate
  BY <1>5 DEF Register
<1>6. CASE Initialize
  BY <1>4, <1>6 DEF Initialize, Next
<1>7. QED
  BY <1>1, <1>2, <1>3, <1>4, <1>5, <1>6 DEF Next

(* In a program whose members all are where OffsetFromStart can read them  *)
(* back, a predicate is on the column of the member it was made from,      *)
(* whenever in the life of the program it was made, or on none, if that    *)
(* was before its struct was registered.                                   *)
THEOREM PredicatesOnMembers == Spec => [](FindableMembers => PredicateOnMember)
<1>1. Init => Found
  BY NoneAssumption DEF Init, NoPredicate, Found, PredicateOnMember
<1>2. Spec => []Inv
  BY InvInit, InvNext, PTL DEF Spec
<1>3. Spec => []Found
  BY <1>1, <1>2, FoundNext, PTL DEF Spec
<1>4. QED
  BY <1>3, PTL DEF Found
=============================================================================

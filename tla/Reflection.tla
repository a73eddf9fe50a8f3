----------------------------- MODULE Reflection -----------------------------
(***************************************************************************)
(* The register of reflectable structs, which static initialisers of every *)
(* translation unit fill before main starts, and the lookups in it: by     *)
(* type when an operation or a predicate needs a record, and by offset     *)
(* when a predicate is made from a pointer to member.  A lookup may come   *)
(* before the registration, and then leaves an empty record behind.        *)
(***************************************************************************)
EXTENDS Integers, Sequences, FiniteSets

CONSTANTS
    Units,      \* translation units of the program
    Types,      \* reflectable structs
    Headers,    \* Headers[u]: the structs whose headers unit u includes, in order
    Plain,      \* structs that no header has made reflectable
    Structs     \* the storage classes of FIELDS, in order, that a struct may have

StorageClasses == {"kInt", "kReal", "kText", "kDateTime", "kBool"}

ASSUME HeadersAssumption == Headers \in [Units -> Seq(Types)]
ASSUME StructsAssumption == Structs \subseteq Seq(StorageClasses)
ASSUME PlainAssumption   == Plain \cap Types = {}
ASSUME NoneAssumption    == "none" \notin Types     \* see NoPredicate

VARIABLES
    fields,     \* fields[t]: the storage classes that FIELDS of struct t lists
    records,    \* ReflectionRegister::records: the member metadata by type
    done,       \* done[u]: static initialisers of unit u that have run
    predicate,  \* the predicate that was made last
    opened      \* what Database::Initialize did: nothing yet, return, throw

vars == <<fields, records, done, predicate, opened>>

-----------------------------------------------------------------------------
(* The layout that the compiler gives the struct: the members of FIELDS in *)
(* order and then the id, each at the next multiple of its alignment.      *)

Sizeof == [kInt |-> 8, kReal |-> 8, kText |-> 32, kDateTime |-> 8, kBool |-> 1]
Alignof == [kInt |-> 8, kReal |-> 8, kText |-> 8, kDateTime |-> 8, kBool |-> 1]

Aligned(n, a) == ((n + a - 1) \div a) * a

Members(fs) == Append(fs, "kInt")
IdMember(fs) == Len(fs) + 1

Offsetof(fs) ==
    LET ms == Members(fs)
        off[k \in DOMAIN ms] ==
            IF k = 1 THEN 0
            ELSE Aligned(off[k - 1] + Sizeof[ms[k - 1]], Alignof[ms[k]])
    IN  off

(* The metadata that the Register function of a struct stores: the id,     *)
(* then the members of FIELDS.  A member is named by its place in the      *)
(* struct.                                                                 *)
Metadata(fs) ==
    LET Member(k) == [name |-> k, class |-> Members(fs)[k], offset |-> Offsetof(fs)[k]]
    IN  <<Member(IdMember(fs))>> \o [k \in DOMAIN fs |-> Member(k)]

-----------------------------------------------------------------------------
(* OffsetFromStart copies the bytes of the pointer to member up to the     *)
(* first zero byte.  The pointer holds the offset, least significant byte  *)
(* first; offsets are below 2^31, so its upper four bytes are zero.        *)

Weight == <<1, 256, 65536, 16777216>>
Byte(o, i) == (o \div Weight[i]) % 256

Strlen(o) ==
    CHOOSE n \in 0..4 :
        /\ \A i \in 1..n : Byte(o, i) # 0
        /\ n < 4 => Byte(o, n + 1) = 0

(* Mutant: one byte too few is copied. *)
OffsetFromStart_OneLess(o) ==
    IF Strlen(o) < 2 THEN 0 ELSE o % Weight[Strlen(o)]

OffsetFromStart(o) ==
    IF Strlen(o) = 4 THEN o ELSE o % Weight[Strlen(o) + 1]

(* The first member with that offset; 0 when there is none. *)
FindMember(metadata, offset) ==
    LET hits == {i \in DOMAIN metadata : metadata[i].offset = offset}
    IN  IF hits = {} THEN 0
        ELSE metadata[CHOOSE i \in hits : \A j \in hits : i <= j].name

-----------------------------------------------------------------------------
NoPredicate == [type |-> "none"]

Init ==
    /\ fields \in [Types -> Structs]
    /\ records = [t \in {} |-> {}]
    /\ done = [u \in Units |-> 0]
    /\ predicate = NoPredicate
    /\ opened = "no"

(* Mutant: the key is the name of a struct, not its type. *)
WithRecord_ByName(t) ==
    [s \in DOMAIN records \cup {"name"} |-> IF s \in DOMAIN records THEN records[s] ELSE <<>>]

(* operator[] of the map: a type that is not there is added, empty. *)
WithRecord(t) ==
    [s \in DOMAIN records \cup {t} |-> IF s \in DOMAIN records THEN records[s] ELSE <<>>]

(* Mutant: a struct whose header several units include is stored again. *)
Register_Again(u) ==
    /\ done[u] < Len(Headers[u])
    /\ LET t == Headers[u][done[u] + 1]
       IN  records' = [WithRecord(t) EXCEPT ![t] = @ \o Metadata(fields[t])]
    /\ done' = [done EXCEPT ![u] = @ + 1]
    /\ UNCHANGED <<fields, predicate, opened>>

(* The initialiser of meta_registered_: the next header of unit u. *)
Register(u) ==
    /\ done[u] < Len(Headers[u])
    /\ LET t == Headers[u][done[u] + 1]
       IN  records' = IF t \in DOMAIN records THEN records
                      ELSE [WithRecord(t) EXCEPT ![t] = Metadata(fields[t])]
    /\ done' = [done EXCEPT ![u] = @ + 1]
    /\ UNCHANGED <<fields, predicate, opened>>

InMain == \A u \in Units : done[u] = Len(Headers[u])

(* Code that names a member of struct t is in a unit that includes the     *)
(* header of t.  An initialiser of any unit may call it, before those of   *)
(* its own unit have run.                                                  *)
Included(t) == \E u \in Units : \E k \in DOMAIN Headers[u] : Headers[u][k] = t

(* QueryPredicate(fn, value, symbol), with fn the k-th member of t.  The   *)
(* lookup adds an empty record if nothing has registered t yet.            *)
MakePredicate(t, k) ==
    /\ Included(t)
    /\ records' = WithRecord(t)
    /\ predicate' = [name |-> FindMember(records'[t],
                                         OffsetFromStart(Offsetof(fields[t])[k])),
                     type |-> t, member |-> k]
    /\ UNCHANGED <<fields, done, opened>>

(* The same constructor for a struct without metadata: the template        *)
(* accepts every struct.                                                   *)
UsePlain(t) ==
    /\ records' = WithRecord(t)
    /\ predicate' = [name |-> 0, type |-> t]
    /\ UNCHANGED <<fields, done, opened>>

(* Database::Initialize, in main: CREATE TABLE of a record without members *)
(* does not compile, and the constructor throws.                           *)
Initialize ==
    /\ InMain
    /\ opened # "open"
    /\ opened' = IF \E t \in DOMAIN records : records[t] = <<>> THEN "failed" ELSE "open"
    /\ UNCHANGED <<fields, records, done, predicate>>

Next ==
    \/ \E u \in Units : Register(u)
    \/ \E t \in Types : \E k \in DOMAIN Members(fields[t]) : MakePredicate(t, k)
    \/ \E t \in Plain : UsePlain(t)
    \/ Initialize

Spec == Init /\ [][Next]_vars

-----------------------------------------------------------------------------
MetadataType == [name : Nat, class : StorageClasses, offset : Nat]

(* The type of every variable. *)
TypeOK ==
    /\ fields \in [Types -> Structs]
    /\ DOMAIN records \subseteq Types \cup Plain
    /\ \A t \in DOMAIN records : records[t] \in Seq(MetadataType)
    /\ done \in [Units -> Nat]
    /\ predicate.type \in {"none"} \cup Types \cup Plain
    /\ opened \in {"no", "open", "failed"}

(* Static initialisers of unit u have registered t.                        *)
Registered(t) == \E u \in Units : \E k \in 1..done[u] : Headers[u][k] = t

Whole(t) == t \in DOMAIN records /\ records[t] = Metadata(fields[t])

(* However often and in whatever order the units register a struct, and    *)
(* whatever looks it up before, in between or after, its record is never   *)
(* partial and never stored twice: it is whole, or empty because it was    *)
(* looked up first.  A program that gets its database has none of those:   *)
(* every struct of every header is there, whole.                           *)
RegisteredWhole ==
    /\ \A t \in Types \cap DOMAIN records : Whole(t) \/ records[t] = <<>>
    /\ \A t \in Types : Registered(t) => t \in DOMAIN records
    /\ opened = "open" => \A t \in Types : Included(t) => Whole(t)

(* A predicate made from a pointer to member is on the column of that      *)
(* member, or, if it was made before the struct was registered, on none;   *)
(* such a program is never given a database, since the record stays empty. *)
PredicateOnMember ==
    predicate.type \in Types =>
        predicate.name = IF records[predicate.type] = <<>> THEN 0 ELSE predicate.member
=============================================================================

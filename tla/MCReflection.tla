---------------------------- MODULE MCReflection ----------------------------
(***************************************************************************)
(* Instances of Reflection: two units that include each other's headers in *)
(* opposite orders, and structs of up to two members of any classes, of    *)
(* members that share a word, and around the 256th byte.                   *)
(***************************************************************************)
EXTENDS Reflection

CONSTANTS Person, Pet, u1, u2

TwoUnits == [u \in Units |-> IF u = u1 THEN <<Person, Pet>> ELSE <<Pet, Person>>]

SmallStructs ==
    UNION {[1..n -> StorageClasses] : n \in 0..2}
        \cup {<<"kBool", "kBool", "kInt", "kBool">>, [k \in 1..7 |-> "kText"]}

LargeStructs == {[k \in 1..n |-> "kText"] : n \in 6..9}
=============================================================================

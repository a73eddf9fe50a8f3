---------------------------- MODULE MCRegisters -----------------------------
(***************************************************************************)
(* An instance of Database in which two versions of a program share a      *)
(* file: the new version has a record type more than the old one.          *)
(***************************************************************************)
EXTENDS Database

CONSTANTS Person, Pet, Old, New

TwoVersions == [p \in Procs |-> IF p = Old THEN <<Person>> ELSE <<Pet, Person>>]
=============================================================================

----------------------------- MODULE MCDatabase -----------------------------
(***************************************************************************)
(* Instances of Database in which every process runs the same program,     *)
(* with one record type.                                                   *)
(***************************************************************************)
EXTENDS Database

CONSTANT Person

OneType == [p \in Procs |-> <<Person>>]

SignedIds == {-2, 2}
=============================================================================

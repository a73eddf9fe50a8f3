----------------------------- MODULE MCThreads ------------------------------
(***************************************************************************)
(* Instances of Threads with one record type.                              *)
(***************************************************************************)
EXTENDS Threads, TLC

CONSTANTS Person, Mary

OneType == <<Person>>

(* Texts with a statement that fails after one that does not, and texts    *)
(* that end, or end and begin, the transaction of Execute.                 *)
Mary2 == Insert(Person, [id |-> 2, val |-> Mary])

Texts ==
    {<<>>, <<Mary2, Malformed>>, <<Delete(Person, EqualId(1)), Mary2>>,
     <<BEGIN>>, <<ROLLBACK>>, <<COMMIT, BEGIN>>, <<COMMIT, Malformed>>, <<Mary2, COMMIT>>}

Symmetry == Permutations(Threads)
=============================================================================

---------------------------- MODULE RecordStore -----------------------------
(***************************************************************************)
(* What Save, Update, Delete and Sql promise their callers, with no locks, *)
(* no transactions and no singleton: a call is a queue of statements that  *)
(* are applied to one shared store, whole, in order and one at a time.  A  *)
(* call that returns has applied all of them exactly once; a call that     *)
(* throws, or a process that ends, has applied a prefix of them and never  *)
(* applies another.                                                        *)
(***************************************************************************)
EXTENDS Statements

CONSTANT Procs

VARIABLES
    store,      \* contents that every process sees
    queue,      \* queue[p]: statements that the call of p has still to apply
    outcome     \* outcome[p]: "failed" if the last call of p did not return

vars == <<store, queue, outcome>>

Init ==
    /\ store = NewFile
    /\ queue = [p \in Procs |-> <<>>]
    /\ outcome = [p \in Procs |-> "ok"]

(* A call hands over its statements; a read-only call has none. *)
Submit(p) ==
    /\ queue[p] = <<>>
    /\ queue'[p] \in Seq(Stmts)
    /\ queue' = [queue EXCEPT ![p] = queue'[p]]
    /\ outcome' = [outcome EXCEPT ![p] = "ok"]
    /\ UNCHANGED store

Apply(p) ==
    /\ queue[p] # <<>>
    /\ Compiles(Head(queue[p]), store)
    /\ ~Violates(Head(queue[p]), store)
    /\ store' = Effect(Head(queue[p]), store)
    /\ queue' = [queue EXCEPT ![p] = Tail(@)]
    /\ outcome' = [outcome EXCEPT ![p] = "ok"]

(* An exception, or the end of the process, drops what is left. *)
Abandon(p) ==
    /\ queue' = [queue EXCEPT ![p] = <<>>]
    /\ outcome' = [outcome EXCEPT ![p] = "failed"]
    /\ UNCHANGED store

(* A call with no statement at all returns. *)
Return(p) ==
    /\ queue[p] = <<>>
    /\ outcome' = [outcome EXCEPT ![p] = "ok"]
    /\ UNCHANGED <<store, queue>>

Next == \E p \in Procs : Submit(p) \/ Apply(p) \/ Abandon(p) \/ Return(p)

Spec == Init /\ [][Next]_vars
=============================================================================

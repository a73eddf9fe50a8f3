----------------------------- MODULE FileLocks ------------------------------
(***************************************************************************)
(* The locks that SQLite connections of several processes hold on one      *)
(* database file in rollback-journal mode (unixLock of the vendored        *)
(* sqlite3.c).  The library never installs a busy handler, so a lock that  *)
(* is not available at once makes the calling sqlite3_ function return     *)
(* SQLITE_BUSY.  A process has at most one connection that it can still    *)
(* reach; "leaked" holds the connections that were lost, with their lock,  *)
(* in a constructor that threw.                                            *)
(***************************************************************************)
CONSTANT Procs

VARIABLES
    lock,       \* lock[p]: lock of the connection of process p
    leaked      \* <<p, lock>> of the connections that a process p cannot reach

LockLevels == {"none", "shared", "reserved", "pending", "exclusive"}
WriteLocks == {"reserved", "pending", "exclusive"}

Writing(p) == lock[p] \in WriteLocks

(* Another connection holds the PENDING byte: no new SHARED lock. *)
Blocked(p) ==
    \/ \E c \in leaked : c[2] = "pending"
    \/ \E q \in Procs \ {p} : lock[q] \in {"pending", "exclusive"}

MayRead(p) == lock[p] # "none" \/ ~Blocked(p)

(* Mutant: a writer takes RESERVED without looking. *)
MayWrite_Unchecked(p) == TRUE

(* SHARED and then RESERVED. *)
MayWrite(p) ==
    /\ MayRead(p)
    /\ leaked = {}
    /\ \A q \in Procs \ {p} : ~Writing(q)

(* Mutant: a commit does not wait for readers. *)
MayExclude_Unchecked(p) == TRUE

(* EXCLUSIVE needs every other SHARED lock to be gone. *)
MayExclude(p) == \A q \in Procs \ {p} : lock[q] = "none"

(* At most one connection writes, and while it changes the file nobody     *)
(* reads it: the lock levels of unixLock, over every interleaving of the   *)
(* calls that the library makes.                                           *)
OneWriter ==
    /\ \A p, q \in Procs : Writing(p) /\ Writing(q) => p = q
    /\ \A p \in Procs : Writing(p) => leaked = {}
    /\ \A p, q \in Procs : lock[p] = "exclusive" /\ p # q => lock[q] = "none"
=============================================================================

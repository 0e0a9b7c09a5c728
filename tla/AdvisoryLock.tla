---------------------------- MODULE AdvisoryLock ----------------------------
(***************************************************************************)
(* LJA's host advisory locks (withAdvisoryLock): flock on a file.  The     *)
(* kernel drops the locks of a process that dies.                          *)
(***************************************************************************)
CONSTANTS
  Invocation,  \* the lja processes that take locks
  LockFile     \* the files they may lock

VARIABLE holder   \* lock file -> the invocations that hold it

LockTypeOK == holder \in [LockFile -> SUBSET Invocation]

LockInit == holder = [f \in LockFile |-> {}]

\* Mutant: a shared lock.
AcquireShared(i, f) == holder' = [holder EXCEPT ![f] = @ \cup {i}]

(* flock(LOCK_EX), once the kernel grants it *)
Acquire(i, f) ==
  /\ holder[f] = {}
  /\ holder' = [holder EXCEPT ![f] = {i}]

Release(i, f) == holder' = [holder EXCEPT ![f] = @ \ {i}]

Holding(i, f) == i \in holder[f]

(* The process dies with whatever it holds. *)
ReleaseAll(i) == holder' = [f \in LockFile |-> holder[f] \ {i}]
=============================================================================

--------------------------- MODULE LockDirectory ---------------------------
(***************************************************************************)
(* Where the lock file of a project lies when the caller names no          *)
(* directory (defaultLockDirectory): outside every mount, so that no guest *)
(* can hold or replace it.                                                 *)
(***************************************************************************)
EXTENDS Naturals, Sequences

CONSTANTS
  NoDirectory,  \* no lock directory can be chosen
  Inside        \* <<d, m>>: the lock directory d lies inside the mount m

OutsideMounts(directory, mounts) == \A m \in mounts : <<directory, m>> \notin Inside

(* The first of the temporary directory, /var/tmp and the home's cache     *)
(* that lies in no mount of this invocation.                               *)
DefaultLockDirectory(candidates, mounts) ==
  LET usable == {k \in 1..Len(candidates) : OutsideMounts(candidates[k], mounts)}
  IN IF usable = {} THEN NoDirectory
     ELSE candidates[CHOOSE k \in usable : \A l \in usable : k <= l]
=============================================================================

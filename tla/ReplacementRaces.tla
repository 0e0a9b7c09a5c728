-------------------------- MODULE ReplacementRaces --------------------------
(***************************************************************************)
(* A recreation while another process runs a lockless command on the same  *)
(* store: the names of the transaction begin with lja-, so stop --all and  *)
(* delete --all see them.                                                  *)
(***************************************************************************)
EXTENDS Replacement, LocklessCommands

VARIABLES
  doomed   \* the disks that the lockless command deleted files of

raceVars == <<vars, locklessVars, doomed>>

RaceInit == Init /\ LocklessInit /\ doomed = {}

InvocationStep ==
  /\ Next
  /\ UNCHANGED <<locklessVars, doomed>>

LocklessStep ==
  /\ Lockless(Final)
  /\ doomed' = doomed \cup {store[n].disk : n \in {m \in Name : store'[m].parts # store[m].parts}}
  /\ UNCHANGED <<pc, target, old, session, wrappers, validated, halted, report>>

RaceNext == InvocationStep \/ LocklessStep

RaceSpec == RaceInit /\ [][RaceNext]_raceVars

---------------------------------------------------------------------------
(* Whatever is stopped or deleted under it, the recreation itself does not *)
(* lose the disk the user had: it is gone only if the replacement was      *)
(* accepted or the user's own command deleted it.                          *)
OriginalLostOnlyOnRequest ==
  (old.disk = Original /\ ~validated) =>
    Recoverable(Original) \/ Original \in doomed

(* stop --all alone cannot cost a VM: an error that does not name the      *)
(* backup or a rename still leaves the original whole under its own name.  *)
StopAllKeepsOriginal ==
  (pc = "failed" /\ doomed = {} /\ old.disk = Original /\ ~validated
     /\ report \cap {Backup, "rename"} = {}) =>
    Holds(Final, Original)
=============================================================================

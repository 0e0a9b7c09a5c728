-------------------------- MODULE SafeReplacement --------------------------
(***************************************************************************)
(* What recreation promises, whatever fails: the disk the user had may go  *)
(* only after the new VM was accepted, and once it was accepted the new    *)
(* disk stays.  A disk is intact while all its files exist somewhere.      *)
(***************************************************************************)
CONSTANTS Original, New

VARIABLES
  intact,  \* the disks of which every file still exists
  phase    \* "preparing", "committed" (the new VM was accepted), "over"

vars == <<intact, phase>>

Init == intact \in SUBSET {Original} /\ phase = "preparing"

Build ==
  /\ phase = "preparing"
  /\ intact' = intact \cup {New}
  /\ phase' \in {"preparing", "over"}

Drop ==
  /\ phase = "preparing"
  /\ intact' = intact \ {New}
  /\ phase' \in {"preparing", "over"}

Commit ==
  /\ phase = "preparing" /\ New \in intact
  /\ phase' = "committed"
  /\ UNCHANGED intact

Discard ==
  /\ phase = "committed"
  /\ intact' = intact \ {Original}
  /\ phase' \in {"committed", "over"}

Finish ==
  /\ phase' = "over"
  /\ UNCHANGED intact

Next == Build \/ Drop \/ Commit \/ Discard \/ Finish

Spec == Init /\ [][Next]_vars
=============================================================================

---------------------------- MODULE MCGPGSession ----------------------------
(* Recreation uses two VMs: the candidate and the one with the final name. *)
EXTENDS GPGSession
=============================================================================

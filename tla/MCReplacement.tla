--------------------------- MODULE MCReplacement ---------------------------
(* Replacement on one VM whose directory has two files, so that a rename   *)
(* that stops half way tears it.                                           *)
EXTENDS Replacement

MCName == {Final, Candidate, Backup}
MCDisk == {Original, New, Foreign}
=============================================================================

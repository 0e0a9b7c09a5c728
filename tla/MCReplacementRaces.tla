------------------------ MODULE MCReplacementRaces ------------------------
EXTENDS ReplacementRaces

MCName == {Final, Candidate, Backup}
MCDisk == {Original, New, Foreign}
MCCommands == {"stopAll", "deleteAll", "delete"}
=============================================================================

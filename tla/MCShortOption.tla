--------------------------- MODULE MCShortOption ---------------------------
(* One launch with two agents and a one-letter option as -o=value.         *)
EXTENDS AgentInvocation, SequencesExt

MCSession == {1}
MCSelected == <<"codex">>
MCPrepared == <<{"codex", "claude"}>>
MCArgs == SeqOf({"exec", "shortOption", "other"}, 2)
=============================================================================

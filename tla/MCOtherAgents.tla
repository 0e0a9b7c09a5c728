--------------------------- MODULE MCOtherAgents ---------------------------
(* Two launches on one VM that prepare different additional agents.        *)
EXTENDS AgentInvocation, SequencesExt

MCSession == {1, 2}
MCSelected == <<"codex", "codex">>
MCPrepared == <<{"codex", "claude"}, {"codex", "opencode"}>>
MCArgs == {<<>>, <<"other">>}
=============================================================================

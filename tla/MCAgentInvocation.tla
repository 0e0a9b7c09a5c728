------------------------- MODULE MCAgentInvocation -------------------------
(* An agent launch and a shell whose configuration names the same agents.  *)
EXTENDS AgentInvocation, SequencesExt

MCSession == {1, 2}
MCSelected == <<"codex", "shell">>
MCPrepared == <<{"codex", "claude"}, {"codex", "claude"}>>
MCWord == {"noDaemon", "noDaemonValue", "exec", "login", "flag", "option", "other"}
MCArgs == SeqOf(MCWord, 2)
            \cup {<<"noDaemon", "exec", w>> : w \in MCWord}
            \cup {<<"noDaemon", "noDaemon", w>> : w \in MCWord}
            \cup {<<"noDaemon", "noDaemon", "noDaemon", "option">>}
=============================================================================

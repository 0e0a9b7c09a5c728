-------------------------- MODULE MCLockDirectory --------------------------
(* Two processes on one project whose TMPDIR differ: one shell has its own *)
(* temporary directory.                                                    *)
EXTENDS Lifecycle

MCDisk == Invocation \cup {FirstDisk}
MCStateRoots == {"~/.local/share/lja/agents"}
MCProject == "/work/project"
MCMountSet == {{MCProject, s} : s \in MCStateRoots}
MCTemporary == {"/tmp/lja/locks", "/run/user/1000/lja/locks"}
MCFallbacks == <<"/var/tmp/lja/locks", "~/.cache/lja/locks">>
MCLockFile == MCTemporary \cup {MCFallbacks[k] : k \in 1..Len(MCFallbacks)}
MCCommands == {}
MCInside == {}
=============================================================================

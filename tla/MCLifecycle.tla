---------------------------- MODULE MCLifecycle ----------------------------
(* Two processes and one lockless command on one VM.  The project holds    *)
(* the first lock directory, so that the second one is chosen.             *)
EXTENDS Lifecycle

MCDisk == Invocation \cup {FirstDisk}
MCStateRoots == {"~/.local/share/lja/agents", "/srv/lja"}
MCProject == "/tmp/lja"
MCMountSet == {{MCProject, s} : s \in MCStateRoots}
MCTemporary == {"/tmp/lja/locks"}
MCFallbacks == <<"/var/tmp/lja/locks", "~/.cache/lja/locks">>
MCLockFile == MCTemporary \cup {MCFallbacks[k] : k \in 1..Len(MCFallbacks)}
MCCommands == {"stopAll", "deleteAll", "delete"}
MCInside == {<<"/tmp/lja/locks", "/tmp/lja">>}
=============================================================================

---------------------------- MODULE MCTrustStore ----------------------------
(* Two projects on one state root.  The first invocation is an agent       *)
(* launch from a subdirectory with both agents, the second a launch of     *)
(* another project.  The TMPDIR of the first lies in the state root, so    *)
(* its configuration locks fall back to /var/tmp, which is the TMPDIR of   *)
(* the second: both use the same lock files (OneLockFile).                 *)
EXTENDS TrustStore

MCProjects == {"lja-one", "lja-two"}
MCLockDirectories == {"/state/tmp/lja/locks", "/var/tmp/lja/locks", "~/.cache/lja/locks"}
MCTemporary == <<"/state/tmp/lja/locks", "/var/tmp/lja/locks">>
MCFallbacks == <<"/var/tmp/lja/locks", "~/.cache/lja/locks">>
MCInside == {<<"/state/tmp/lja/locks", "/state">>}
MCMounts ==
  [name \in MCProjects \cup Configs |->
     {"/state"} \cup CASE name = "lja-one" -> {"/one"}
                       [] name = "lja-two" -> {"/two"}
                       [] OTHER -> {}]
MCLockFile == MCLockDirectories \X (MCProjects \cup Configs)
MCInvocation == {1, 2}
MCProjectOf == <<"lja-one", "lja-two">>
MCDir == {"/one", "/two"}
MCDirectories == <<{"/one"}, {"/two"}>>
MCRequested == <<{"codex", "claude"}, {"codex", "claude"}>>
MCInitialFiles ==
  {Blank("missing"), Blank("link"),
   [Blank("document") EXCEPT !.trust["/one"] = "untrusted", !.updates = "on"],
   [Blank("document") EXCEPT !.trust["/one"] = "trusted", !.trust["/two"] = "bad",
                             !.updates = "off"]}
=============================================================================

---------------------------- MODULE Provisioning ----------------------------
(***************************************************************************)
(* How a preparation brings software into the guest: prepareDevelopment    *)
(* with native packages, required executables and logical tools            *)
(* (packages.go, tools.go), then installAgentLocked with the Node runtime  *)
(* (agent.go).  Every step is one command in the guest.                    *)
(*                                                                         *)
(* The only answer of a guest command is its exit status, and a connection *)
(* that is lost has an exit status, too.  The connection goes and comes    *)
(* back at any time.  Any command may fail, and so stands for a killed     *)
(* process; whatever an earlier preparation left is an initial state.      *)
(***************************************************************************)
EXTENDS Naturals, SequencesExt

CONSTANTS
  Package, Executable,   \* native packages and guest executables
  Provides,              \* package -> the executables it brings
  Backend,               \* the package backend: tools it needs, package names
  Runtime,               \* the executables of Node
  Agent,                 \* the executable of the agent
  Tool,                  \* logical tools, named like their executables
  ToolDefinition,        \* logical tool -> how it is installed
  Requests,              \* what a configuration and a command ask for
  Guests,                \* what the guest holds before
  MaxLosses,             \* bound: how often the connection is lost
  MaxRemoved             \* bound: packages that one installation removes

Update == {"no", "yes", "legacy"}   \* "legacy": an update of opencode
Health == {"absent", "broken", "works"}

ASSUME ProvisioningAssumption ==
  /\ Provides \in [Package -> SUBSET Executable]
  /\ Backend \in [tools: Seq(Executable), git: Package, gh: Package, gpg: Package,
                  node: Seq(Package)]
  /\ Backend.tools # <<>> /\ Backend.node # <<>>
  /\ Runtime \in Seq(Executable) /\ Runtime # <<>>
  /\ Agent \in Executable \ ToSet(Runtime) /\ {"git", "gh", "gpg", "gpgconf"} \subseteq Executable
  /\ Tool \subseteq Executable
  /\ ToolDefinition \in [Tool -> [natives: Seq(Package \cap Executable),
                                  prerequisites: Seq(Tool), by: Executable]]
  \* pipx for uv, uv for prek: a tool installs with what its definition asks
  \* for, and the prerequisites of a tool have none
  /\ \A t \in Tool : LET d == ToolDefinition[t] IN
       /\ d.by \in ToSet(d.natives) \cup ToSet(d.prerequisites)
       /\ \A r \in ToSet(d.prerequisites) : ToolDefinition[r].prerequisites = <<>>
  /\ Requests \subseteq [packages: Seq(Package), tools: Seq(Tool), git: BOOLEAN,
                         github: BOOLEAN, gpg: BOOLEAN, update: Update]
  /\ Guests \subseteq [installed: SUBSET Package, exe: [Executable -> Health]]
  /\ MaxLosses \in Nat /\ MaxRemoved \in Nat

VARIABLES
  installed,  \* the packages of the guest's package database
  exe,        \* the executables of the guest
  connected,  \* guest commands reach the guest
  losses,     \* how often they did not, so far
  want,       \* the request
  phase,      \* the loop or command the code is in
  todo,       \* the items that this loop still has to go through
  stage,      \* "ask": probe or query next, "verify": whether the guest is
              \* reached at all, "version": whether what is present runs
  missing,    \* ensureGuestPackagesWithBackend's `missing`
  job,        \* what the packages are for
  lapsed      \* items for which the connection came back between the failed
              \* probe and its verification

guestVars == <<installed, exe>>
environment == <<connected, losses, want, lapsed>>
vars == <<installed, exe, connected, losses, want, phase, todo, stage, missing, job, lapsed>>

---------------------------------------------------------------------------
(* What a configuration asks for                                           *)
AppendUnique(s, x) == IF Contains(s, x) THEN s ELSE Append(s, x)

AppendEach(s, xs) ==
  LET upTo[k \in 0..Len(xs)] == IF k = 0 THEN s ELSE AppendUnique(upTo[k - 1], xs[k])
  IN upTo[Len(xs)]
Unique(s) == AppendEach(<<>>, s)

(* Logical tools, each once, after their prerequisites.                    *)
WithPrerequisites(t) == Append(ToolDefinition[t].prerequisites, t)
ToolPlan(requested) ==
  LET plan[k \in 0..Len(requested)] ==
        IF k = 0 THEN <<>> ELSE AppendEach(plan[k - 1], WithPrerequisites(requested[k]))
  IN plan[Len(requested)]

NativePackages(requested) ==
  LET tools == ToolPlan(requested)
      natives[k \in 0..Len(tools)] ==
        IF k = 0 THEN <<>> ELSE AppendEach(natives[k - 1], ToolDefinition[tools[k]].natives)
  IN natives[Len(tools)]

DevelopmentPackages(config) ==
  Unique(config.packages \o NativePackages(config.tools)
           \o (IF config.gpg THEN <<Backend.gpg>> ELSE <<>>)
           \o (IF config.git THEN <<Backend.git>> ELSE <<>>)
           \o (IF config.github THEN <<Backend.git, Backend.gh>> ELSE <<>>))

RequiredExecutables(config) ==
  Unique((IF config.git THEN <<"git">> ELSE <<>>)
           \o (IF config.github THEN <<"git", "gh">> ELSE <<>>)
           \o (IF config.gpg THEN <<"gpg", "gpgconf">> ELSE <<>>))

AfterTools == IF want.git THEN "git" ELSE "setup"
FirstPhase ==
  IF want.packages = <<>> /\ want.tools = <<>> /\ ~(want.gpg \/ want.git \/ want.github)
  THEN AfterTools ELSE "release"

---------------------------------------------------------------------------

QueryPhase == {"query", "requery"}
PathPhase == {"backend", "executables", "agent", "agentCheck"}
VersionPhase == {"natives", "tools", "toolCheck", "runtime", "runtimeCheck"}
CommandPhase == {"release", "install", "toolInstall", "git", "setup",
                 "reach", "legacy", "npmInstall"}
Over == {"done", "failed"}

(* Types; and a loop over packages or executables always has one in hand.  *)
TypeOK ==
  /\ installed \in SUBSET Package
  /\ exe \in [Executable -> Health]
  /\ connected \in BOOLEAN
  /\ losses \in 0..MaxLosses
  /\ want \in Requests
  /\ phase \in QueryPhase \cup PathPhase \cup VersionPhase \cup CommandPhase \cup Over
  /\ todo \in Seq(Package) \cup Seq(Executable)
  /\ stage \in {"ask", "verify", "version"}
  /\ missing \in Seq(Package)
  /\ job \in {"development", "node"}
  /\ lapsed \in SUBSET (Package \cup Executable)
  /\ phase \in QueryPhase \cup PathPhase \cup VersionPhase => todo # <<>>

Init ==
  /\ \E g \in Guests : installed = g.installed /\ exe = g.exe
  /\ connected = TRUE /\ losses = 0
  /\ want \in Requests
  /\ phase = FirstPhase
  /\ todo = <<>> /\ stage = "ask" /\ missing = <<>>
  /\ job = "development"
  /\ lapsed = {}

---------------------------------------------------------------------------
(* Control                                                                 *)
Items(p, lacking) ==
  CASE p = "backend" -> Backend.tools
    [] p = "query" -> IF job = "node" THEN Backend.node ELSE DevelopmentPackages(want)
    [] p = "requery" -> lacking
    [] p = "executables" -> RequiredExecutables(want)
    [] p = "natives" -> NativePackages(want.tools)
    [] p = "tools" -> ToolPlan(want.tools)
    [] p \in {"runtime", "runtimeCheck"} -> Runtime
    [] p \in {"agent", "agentCheck"} -> <<Agent>>
    [] OTHER -> <<>>

Enter(p) == phase' = p /\ todo' = Items(p, missing) /\ stage' = "ask"

Fail == phase' = "failed" /\ stage' = "ask" /\ UNCHANGED todo

\* Mutant: the loop goes one item too far.
AdvancePastEnd(next) ==
  IF Len(todo) > 0
  THEN /\ phase' = IF phase = "toolCheck" THEN "tools" ELSE phase
       /\ todo' = Tail(todo)
       /\ stage' = "ask"
  ELSE Enter(next)

(* The next item of the loop, or what follows the loop.  The loop over the *)
(* tools probes each tool, and again after it was installed.               *)
Advance(next) ==
  IF Len(todo) > 1
  THEN /\ phase' = IF phase = "toolCheck" THEN "tools" ELSE phase
       /\ todo' = Tail(todo)
       /\ stage' = "ask"
  ELSE Enter(next)

AfterExecutables == IF want.tools = <<>> THEN AfterTools ELSE "natives"
AfterPackages ==
  IF job = "node" THEN "runtimeCheck"
  ELSE IF RequiredExecutables(want) = <<>> THEN AfterExecutables ELSE "executables"
AgentInstallation == IF want.update = "legacy" THEN "legacy" ELSE "npmInstall"

(* The item is there: where the loop leads when it was the last one.       *)
AfterFound ==
  CASE phase = "backend" -> "query"
    [] phase = "query" -> IF missing = <<>> THEN AfterPackages ELSE "install"
    [] phase = "requery" -> AfterPackages
    [] phase = "executables" -> AfterExecutables
    [] phase = "natives" -> "tools"
    [] phase \in {"tools", "toolCheck"} -> AfterTools
    [] phase = "agent" -> IF want.update = "no" THEN "done" ELSE "runtime"
    [] phase = "runtime" -> IF job = "node" THEN "release" ELSE AgentInstallation
    [] phase = "runtimeCheck" -> AgentInstallation
    [] phase = "agentCheck" -> "done"

Found == Advance(AfterFound) /\ UNCHANGED <<missing, job>>

(* It is not: a lack to be filled, or an error.                            *)
NotFound ==
  \/ /\ phase = "query"
     /\ missing' = Append(missing, Head(todo))
     /\ Advance("install")
     /\ UNCHANGED job
  \/ /\ phase = "tools"
     /\ phase' = "toolInstall" /\ stage' = "ask"
     /\ UNCHANGED <<todo, missing, job>>
  \/ /\ phase = "agent"
     /\ Enter("runtime")
     /\ UNCHANGED <<missing, job>>
  \/ /\ phase = "runtime"
     /\ job' = "node" /\ missing' = <<>>
     /\ Advance("release")
  \/ /\ phase \notin {"query", "tools", "agent", "runtime"}
     /\ Fail
     /\ UNCHANGED <<missing, job>>

---------------------------------------------------------------------------
(* Probes and queries                                                      *)
Present(x) == IF phase \in QueryPhase THEN x \in installed ELSE exe[x] # "absent"

(* queryPackage, or the command probe of guestExecutablePath.  A lost      *)
(* connection may look like "not there" as well as like another error.     *)
(* dpkg-query answers with success for a package that was removed.         *)
Ask ==
  /\ phase \in QueryPhase \cup PathPhase \cup VersionPhase
  /\ stage = "ask"
  /\ \/ Fail /\ UNCHANGED <<missing, job>>
     \/ /\ connected /\ Present(Head(todo))
        /\ IF phase \in VersionPhase
           THEN stage' = "version" /\ UNCHANGED <<phase, todo, missing, job>>
           ELSE Found
     \/ /\ ~(connected /\ Present(Head(todo)))
        /\ stage' = "verify" /\ UNCHANGED <<phase, todo, missing, job>>
     \/ /\ connected /\ ~Present(Head(todo)) /\ phase \in QueryPhase
        /\ NotFound
  /\ UNCHANGED <<guestVars, environment>>

\* Mutant: an exit status that means "not there" is believed at once.
VerifyNothing ==
  /\ stage = "verify"
  /\ NotFound
  /\ UNCHANGED <<guestVars, environment>>

(* verifyGuestConnection: only a guest that is reached can lack something. *)
Verify ==
  /\ stage = "verify"
  /\ \/ Fail /\ UNCHANGED <<missing, job>>
     \/ connected /\ NotFound
  /\ UNCHANGED <<guestVars, environment>>

(* guestExecutableVersion, after the path was found: an executable that is *)
(* present but fails is an error.                                          *)
Version ==
  /\ stage = "version"
  /\ \/ Fail /\ UNCHANGED <<missing, job>>
     \/ connected /\ exe[Head(todo)] = "works" /\ Found
  /\ UNCHANGED <<guestVars, environment>>

---------------------------------------------------------------------------
(* Commands that change the guest.  A command that failed may have had any *)
(* part of its effect.                                                     *)
Changes(packages, xs) ==
  /\ installed' = packages
  /\ \E h \in [xs -> Health] : exe' = [x \in Executable |-> IF x \in xs THEN h[x] ELSE exe[x]]

Result(next) == (Enter(next) \/ Fail) /\ UNCHANGED <<missing, job, environment>>

Unreached ==
  /\ ~connected /\ phase \in CommandPhase
  /\ Fail
  /\ UNCHANGED <<guestVars, missing, job, environment>>

(* /etc/os-release and the choice of the backend *)
Release ==
  /\ connected /\ phase = "release"
  /\ Result("backend")
  /\ UNCHANGED guestVars

(* The package manager may remove packages on behalf of those it installs. *)
PackageManagerRuns ==
  \E gained \in SUBSET ToSet(missing), lost \in SUBSET (installed \ ToSet(missing)) :
    /\ Cardinality(lost) <= MaxRemoved
    /\ Changes((installed \cup gained) \ lost, UNION {Provides[p] : p \in gained \cup lost})

\* Mutant: what was installed is not asked for again.
InstallUnverified ==
  /\ connected /\ phase = "install"
  /\ PackageManagerRuns
  /\ Result(AfterPackages)

Install ==
  /\ connected /\ phase = "install"
  /\ PackageManagerRuns
  /\ Result("requery")

(* installLogicalTool: pipx for uv, uv for prek.                           *)
ToolInstall ==
  /\ connected /\ phase = "toolInstall"
  /\ Changes(installed, {Head(todo)})
  /\ \/ /\ exe[ToolDefinition[Head(todo)].by] = "works"
        /\ phase' = "toolCheck"
     \/ phase' = "failed"
  /\ UNCHANGED <<todo, stage, missing, job, environment>>

(* prepareGit, when configured: GitConfigCopy. *)
PrepareGit ==
  /\ connected /\ phase = "git"
  /\ Result("setup")
  /\ UNCHANGED guestVars

(* The project's own commands, which may provide a runtime or the agent.   *)
Setup ==
  /\ connected /\ phase = "setup"
  /\ Changes(installed, ToSet(Runtime) \cup {Agent})
  /\ Result("reach")

(* installAgentLocked starts with the connection. *)
Reach ==
  /\ connected /\ phase = "reach"
  /\ Result("agent")
  /\ UNCHANGED guestVars

(* An update of opencode removes the legacy package first. *)
RemoveLegacy ==
  /\ connected /\ phase = "legacy"
  /\ Changes(installed, {Agent})
  /\ Result("npmInstall")

NpmInstall ==
  /\ connected /\ phase = "npmInstall"
  /\ Changes(installed, {Agent})
  /\ Result("agentCheck")

---------------------------------------------------------------------------
Disconnect ==
  /\ connected /\ phase \notin Over
  /\ losses < MaxLosses /\ losses' = losses + 1
  /\ connected' = FALSE
  /\ UNCHANGED <<guestVars, want, phase, todo, stage, missing, job, lapsed>>

Reconnect ==
  /\ ~connected /\ phase \notin Over
  /\ connected' = TRUE
  /\ lapsed' = IF stage = "verify" THEN lapsed \cup {Head(todo)} ELSE lapsed
  /\ UNCHANGED <<guestVars, losses, want, phase, todo, stage, missing, job>>

Next ==
  \/ Ask \/ Verify \/ Version
  \/ Unreached \/ Release \/ Install \/ ToolInstall \/ PrepareGit \/ Setup
  \/ Reach \/ RemoveLegacy \/ NpmInstall
  \/ Disconnect \/ Reconnect

Spec == Init /\ [][Next]_vars

---------------------------------------------------------------------------
(* Nothing that is present is installed over, and a runtime that fails is  *)
(* not replaced, unless an update was asked for: neither a lost connection *)
(* nor an executable that fails is taken for an absence.  The exception is *)
(* a connection that comes back just in time for its verification, which   *)
(* the exit status of the probe cannot tell from an absence.               *)
NothingPresentReplaced ==
  /\ phase = "install" => ToSet(missing) \cap installed \subseteq lapsed
  /\ phase = "toolInstall" => exe[Head(todo)] = "absent" \/ Head(todo) \in lapsed
  /\ phase = "npmInstall" /\ want.update = "no" => exe[Agent] = "absent" \/ Agent \in lapsed
  /\ job = "node" /\ phase \in {"release", "backend", "query", "install"} =>
       \A x \in ToSet(Runtime) : exe[x] # "broken" \/ x \in lapsed

(* What a step relies on was seen in the guest after the last command that *)
(* could have taken it away.  Setup meets the packages that were missing,  *)
(* the required executables and tools that run; npm runs when an agent is  *)
(* installed; and a success means that the agent is there.                 *)
VerifiedBeforeUse ==
  /\ phase \in {"git", "setup"} =>
       /\ ToSet(IF missing = <<>> THEN DevelopmentPackages(want) ELSE missing) \subseteq installed
       /\ \A x \in ToSet(RequiredExecutables(want)) : exe[x] # "absent"
       /\ \A x \in ToSet(NativePackages(want.tools)) \cup ToSet(ToolPlan(want.tools)) : exe[x] = "works"
  /\ phase = "toolInstall" => exe[ToolDefinition[Head(todo)].by] = "works"
  /\ phase \in {"legacy", "npmInstall"} => \A x \in ToSet(Runtime) : exe[x] = "works"
  /\ phase = "done" => exe[Agent] # "absent"
=============================================================================

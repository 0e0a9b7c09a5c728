# lja: TLA+ models, checks and proofs

`lja` runs coding agents in one persistent Lima VM per project. It is a Go
program without a daemon: every command is a process of its own, and what the
commands share lives outside them, in Lima's instance directories, in the
guests, in a state root on the host that is mounted in the guests, and in lock
files. What is hard about it is what happens when a step fails, a process dies,
two commands meet, or a guest goes its own way. The modules here model those
parts, TLC checks them on small instances, and TLAPS proves their safety
properties for all instances.

## 1. Inventory

| Part | Source | State | Operations | Hard because |
| --- | --- | --- | --- | --- |
| Preparation of a VM | `lima.go`, `agent.go` | Lima's instances | inspect, create, start, validate mounts, provision | every call fails; VM changes between calls |
| Recreation | `recreate.go` | instances under three names, the entry read first | build candidate, swap by two renames, validate, delete backup, roll back | partial renames, crash between renames, failures of the rollback |
| Lock-less commands | `lima.go` | a listing taken once | delete, delete --all, stop --all | act by name on whatever has the name by then |
| Project lock | `lock.go`, `path.go` | flock on a file | prepare, create, update, stop run under it; agents do not | lock file depends on TMPDIR and mounts; processes die |
| Agent configuration | `codex.go`, `claude.go` | `config.toml`, `.claude.json` in the state root | trust directories, turn updates off | shared by projects, written by guests too, crash while writing, lock file depends on TMPDIR |
| State root | `lock.go` | directories, instruction copies | create, refresh instructions | no lock of its own |
| GPG proxy | `gpg.go` | listener, connections, goroutines | accept, relay, fail, close | goroutines against close |
| GPG session | `gpg.go` | guest and host directory, proxy, ssh tunnel, context | start in seven steps, close in six, revoke | each step fails; tunnel, signals and close race |
| Wrappers, invocation | `agent.go` | scripts in `/tmp/lja/<vm>/bin` | build arguments, write wrappers, launch, call | two implementations of one rule; sessions share the directory |
| Provisioning | `packages.go`, `tools.go`, `agent.go` | packages and executables in the guest | query, install, verify | a lost connection looks like an answer |
| Git copying | `git.go` | files in the guest's home | walk includes, publish | order of publication, cycles |
| GitHub token | `github.go`, `git.go` | token of a workflow | resolve once, environment | - |
| Configuration | `config.go`, `lima_config.go` | - | decode, merge layers | - |
| Discovery, status, CLI, process boundary, paths | `discovery.go`, `cli.go`, `process.go`, `path.go` | - | find project, report, run limactl | - |

How they interact: a command (CLI) loads the configuration, resolves the state
root and enters a workflow. The workflow takes the project lock, prepares or
replaces the VM through limactl, provisions the guest, edits the agents'
configuration under a nested lock, writes wrappers, releases the lock and then
runs the interactive command in the guest. GPG forwarding starts a session the
first time a guest command needs it and closes it when the workflow ends, when
another VM is needed, or before a candidate is stopped.

What makes each part correct, in short: recreation never loses the user's disk
and says what it leaves behind; guests are only used with the mounts that were
selected; processes on one project exclude each other and do not block each
other for ever; trust edits are not torn and, by invocations that lock the
same file, not lost; a revoked or finished GPG session gives no access;
wrappers and launcher treat arguments alike and keep the agents' state apart.

## 2. Modules

| Module | Models | State ↔ code |
| --- | --- | --- |
| `LimaStore` | limactl's instance directories, external | `store[name]` is what `limactl list` reports: disk, files present, status, mounts. One operator per limactl operation, with what a failure may leave |
| `Replacement` | `prepareVMLocked`, `prepareNamedVMLocked`, `replaceVMLocked`, `rollback`, `removeCandidate`, `restoreRunning` | `pc` is the next external call, `old` the argument of `replaceVMLocked`, `target` the name prepared, `report` what the returned error names |
| `SafeReplacement` | abstract: the promise of a recreation | `intact` disks and a `phase` |
| `LocklessCommands` | `StopAllVMs`, `DeleteAllVMs`, `DeleteVM` | `listing` is the slice of instances still to handle |
| `ReplacementRaces` | `Replacement` and `LocklessCommands` on one store | `doomed`: disks the user's own delete touched |
| `AdvisoryLock` | `withAdvisoryLock`'s flock | `holder` |
| `LockDirectory` | `defaultLockDirectory` | an operator over candidates and mounts |
| `Lifecycle` | concurrent `PrepareVM`, `CreateVM`, `StopVM` and a lock-less command, composed of the three modules above | `pc`, `wanted` (the expected mounts), `lock` |
| `TrustStore` | `ensureCodexConfiguration`, `ensureClaudeDirectoryTrust`, `RefreshAgentInstructions`, on `AdvisoryLock` and `LockDirectory` | `file` on disk, `draft` the edited text of an invocation, `dirty` if a guest wrote after the read; `ChosenDirectory` is where an invocation, from its TMPDIR and the mounts, puts the lock file of a project or of a configuration |
| `GPGProxy` | `gpgProxy` | per goroutine a `pc`; connections, the table, the wait group |
| `GPGSession` | `gpgWorkflow`, `startGPGSession`, `gpgSession.close` | what was made so far, the tunnel, the context's cause |
| `AgentInvocation` | `BuildAgentInvocation`, `agentWrapperContent`, `agentWrapperSetupScript`, `RunAgent`, `OpenShell` | the shared `wrappers`, the running `process` of each session with the arguments given and received |
| `Provisioning` | `prepareDevelopment` and `installAgentLocked`, with `ensureGuestPackagesWithBackend`, `verifyDevelopmentExecutables`, `ensureLogicalTools`, `ensureNodeRuntime`, `guestExecutablePath`, `guestExecutableVersion` | `installed` and `exe` are the guest; `phase` and `todo` are the loop and its remaining items, `stage` which of the probes of an item is next, `missing` the local of the same name |
| `GitConfigCopy` | `gitConfigCopiesForGPG`, `githubGitURLRewriteConflicts`, `prepareGitInternal`, `GitConfigWriteScript` | `stack` holds the active calls of `visit`; `visited`, `destinations`, `copies` are the maps of the same names; `guest` the files in the guest's home; `unchecked` if the check for GitHub passed over a copy it refuses |
| `ReplacementProofs` | theorems on `LimaStore`, `Replacement`, `SafeReplacement`, `ReplacementRaces` | section 5 |
| `LifecycleProofs` | theorems on `Lifecycle`, `AdvisoryLock`, `LockDirectory` | |
| `TrustStoreProofs`, `GPGProxyProofs`, `GPGSessionProofs`, `AgentInvocationProofs`, `ProvisioningProofs`, `GitConfigProofs` | theorems on the module of that name, `GitConfigProofs` on `GitConfigCopy` | |

`MC*` modules give the constants for TLC. Definitions whose comment says
"Mutant" are deliberately wrong versions of the definition after them; they are
used to confirm that each property can fail.

Abstractions that run through all modules: a call that fails is one that
returned an error or was interrupted, and nothing is known of its effect except
what `LimaStore` says; names, paths, disks and documents are values that can
only be compared; texts are represented by what the properties distinguish of
them; a read of the state is atomic, and everything between two external calls
happens in one step, because nothing else observes a process in between.

## 3. Runs

| Run | Instance | Asks |
| --- | --- | --- |
| `replacement` | three names, three disks, two files per disk, two mount sets | what every failure, kill and guest halt at every step of a recreation or preparation leaves |
| `replacement_races` | the same with one lock-less command | what of these promises stands while VMs are stopped or deleted |
| `lifecycle` | two processes, two state roots, one lock-less command | exclusion, validated mounts, waiting |
| `lock_directory` | two processes with different TMPDIR | violated: they do not exclude each other |
| `trust_store` | two projects, two files, one guest write, one edit of the instructions; the TMPDIR of one project lies in the state root, so that both get the same lock file for each configuration by different ways | lost, torn and unwanted changes; nested locks |
| `gpg_proxy` | two connections | revoked access, spurious failures, end of close |
| `gpg_session` | two VMs, three uses | cleanup, the right VM, who cancels whom |
| `agent_invocation` | two sessions, all vectors of two words and some of three | arguments and state through launcher and wrappers |
| `short_option` | one launch with two agents | violated: `-a=never` is explicit for the launcher only |
| `provisioning` | a Debian guest that is empty or complete but for one executable, five configurations, one loss of the connection, at most one package removed by an installation | absent, failing and unreachable are told apart; what a step uses is there |
| `git_config` | six files, one of them a link and two with one destination, one kind of file for each outcome of Git and of the GitHub check; all roots with at most two references, a few shapes of the next files; two preparations, edits | what is copied, refused, and left in the guest |
| `other_agents` | two launches with different agents | violated: the wrapper of an agent in use is removed |

Why the bounds are enough. A recreation works on exactly three names, and
three disks are the user's, the new one, and a stranger's that owns a
transaction name. Two files are the least that a partial rename can tear. Two
processes are the least that can conflict, and the code's critical sections
distinguish "mine" from "not mine" only. One lock-less command at a time is
enough for the damage it can do between two calls, since it acts on several
names in one run. One guest write per behaviour shows a write lost or kept. In
the proxy, one connection can be accepted while another one is being closed.
The argument rules look at the first word, at a leading `--no-daemon`, and at
membership; two words plus the vectors with `--no-daemon exec` and with
repeated `--no-daemon` reach every combination, and section 5 covers all
vectors. Provisioning handles one item after another and keeps of the others
only whether they are there, so one executable that differs and one loss reach
every combination of a probe and its verification. Six files give cycles
through the root, of two files, and through a link, a file reached twice, a
file that is both config and excludes, two files with one destination, and
chains longer than the depth, which is 3 in the run and 128 in the code. Two
preparations are the least that leave an older copy, and three versions of the
host's files let it change during and between them.

Fairness. `Lifecycle` assumes that every started limactl call and every guest
preparation returns and that the kernel grants a lock that stays free
(`WF(Advance)` per process). Nothing is assumed of agents, shells and users,
which is why `WaitersProceed` needs the lock to be released before the agent
runs. Weak fairness is enough with two contenders, since a process takes the
lock once. `TrustStore` assumes the same for file operations; that taking a lock
fails is possible there but not fair, so an error is no way out of a wait for a
lock. `GPGProxy` and
`GPGSession` assume that goroutines are scheduled and closed connections wake
their readers; guest commands may run for ever unless their context is
cancelled, which kills them. `replacement`, `replacement_races`,
`agent_invocation`, `provisioning` and `git_config` check safety only and
assume nothing. The last two describe sequential procedures that end after
finitely many commands, so their runs do not check deadlock.

## 4. What the checks show

- A recreation that fails, is killed, or is overtaken by `stop --all` loses no
  file of the user's disk before the replacement was accepted
  (`OriginalRecoverable`, `StopAllKeepsOriginal`), touches nothing after a
  failed rename (`FrozenAfterRenameError`), names what it leaves
  (`LeftoversReported`), and, when its error mentions neither a rename nor a
  retained backup, has put the old VM back as it was
  (`FailureRestoresOriginal`). `delete` and `delete --all` can remove the
  original in the middle of a recreation, but that is what they were asked to
  do (`OriginalLostOnlyOnRequest`).
- `Replacement` implements `SafeReplacement` (proved, section 5).
- Guest work and boots of processes that lock the same file meet only validated
  mounts, although the lock-less commands can take the VM away at any time; with
  different lock files they exclude nothing (run `lock_directory`).
- Concurrent trust edits are not lost, and every edit is of what the file held
  (`NoLostTrust`, `OnlyWantedChanges`), provided that the TMPDIR of the
  invocations lead to the same lock file for each configuration
  (`OneLockFile`). The code does not ensure this: like the project lock, the
  lock of a configuration lies below the caller's TMPDIR (codex.go:244-248,
  claude.go:186-190, which name no directory, so lock.go:30-35 takes that of
  path.go:273), and only its name is shared. With two lock files an edit of an
  older text overwrites trust that another invocation ensured; the mutant of
  `NoLostTrust`, in which the mounts do not make the two choices coincide,
  shows this. A file is replaced as a whole in any case. A write by an agent
  in a guest between LJA's read and rename is lost; the code has no means
  against it and the models leave it out of the promise.
- Launcher and wrapper treat an argument vector alike (`LaunchUnchanged`), but
  for a repeated `--no-daemon` (section 5) and two forms of options. One is `-o=value` (run `short_option`). The other is Codex'
  `--no-daemon=value`: for the launcher's `hasOption` (agent.go:909-917, 945)
  the option is present, for the wrapper's `case` (agent.go:657-661) it is
  not, so a wrapper puts `--no-daemon` in front of what the launcher built. No
  permission depends on it; the property names the exception.
- Closing the GPG proxy or session leaves no access and no worker, and never
  cancels its own workflow.
- Provisioning takes neither a lost connection nor a failing executable for an
  absence (`NothingPresentReplaced`), and what each step relies on was seen in
  the guest after the last command that could have removed it
  (`VerifiedBeforeUse`). One window remains, and the property names it
  (`lapsed`): a connection that fails during a probe and is back when it is
  verified looks like an absence, if limactl's exit status was 1. And only
  packages that were missing are asked for again after an installation: one that
  the package manager removed on their behalf goes unnoticed unless its
  executable is probed.
- The Git walk copies exactly the files that the host's configuration reaches,
  or refuses for a cause (`CopiedOrRefused`), also with links, cycles and
  files reached twice. With GitHub on, one cause is a key without a value, as
  in `[commit] gpgsign`, in any copied file: Git accepts it, but the
  check takes the line for a malformed entry (git.go:206-209). The check passes over
  files of which host Git makes nothing, and so also over any file on which
  host Git failed for another reason; only then a preparation with GitHub on
  succeeds with a copy that the check refuses (`unchecked`). Depth is a
  property of the walk and not of the graph: a chain longer than the limit
  passes when its end was visited on a shorter way before. The root in the
  guest never refers to a copied file that did not arrive (`RootComplete`),
  through every interruption, retry and edit.
- Two things about Git copies a reader may not expect; `DoneMeansCopied` is
  stated so that both are allowed. A file that the host no longer has stays in
  the guest as an older preparation left it, although its includes still apply
  there (README.md:378 says that copies are refreshed), and the check for
  conflicting GitHub rewrites sees only new copies. And a transfer that is cut
  off may publish a part of a file, since `cat` in the guest takes the lost
  connection for the end of the text (DESIGN.md:641 calls the replacement
  atomic); the next successful preparation repairs it.

Three disagreements between the code and its documents are recorded as
violation runs, with the quotations in `PROJECT.json`:

1. `lock_directory`: the lock file lies below the caller's TMPDIR, so two
   processes on one project with different TMPDIR both enter.
2. `short_option`: the wrapper's patterns know `--option=value` but not
   `-o=value`, which the launcher accepts; with two agents prepared, an explicit
   `-a=...` does not win.
3. `other_agents`: preparing one set of agents removes the wrappers of the
   others from the directory that running sessions of the VM use.

## 5. Proofs

TLC checks the instances of section 3; TLAPS proves the following for every
value of the constants that the named assumptions of the modules admit. All
theorems about one component are in one module, which also states the
inductive invariant. Every safety property that a passing run checks is
proved, of the same specification that the run checks. Nine of them have a
hypothesis on the constants, named in the theorem (`OneLockFile`,
`SameAgents`, `PlainArgs`, `AgentFromNpm`); violation runs show that the first
three are needed, for the configurations' locks the mutant of `NoLostTrust`
does.

| Module | Theorems (property) |
| --- | --- |
| `ReplacementProofs` | `TypeCorrect` (`TypeOK`), `OriginalNeverLost` (`OriginalRecoverable`), `LeftoversAlwaysReported` (`LeftoversReported`), `FailureLeavesOriginal` (`FailureRestoresOriginal`), `SuccessIsComplete` (`SuccessLeavesReplacement`), `RenameErrorIsFinal` (`FrozenAfterRenameError`), `ForeignNeverTouched` (`ForeignUntouched`), `SessionAlwaysClosedFirst` (`SessionClosedFirst`), `BootsAreValidated` (`NoBootUnvalidated`), `KeepsThePromise` (`ImplementsSafeReplacement`), `RacesLoseOnlyOnRequest` (`OriginalLostOnlyOnRequest`), `StopAllIsHarmless` (`StopAllKeepsOriginal`) |
| `LifecycleProofs` | `TypeCorrect` (`TypeOK`), `LockStaysOutside`, `LockExcludes` (`MutualExclusion`), `GuestWorkIsValidated` (`GuestWorkValidated`), `BootsOwnMounts` (`BootValidated`) |
| `TrustStoreProofs` | `TypeCorrect` (`TypeOK`), `TrustIsKept` (`NoLostTrust`), `ChangesAreWanted` (`OnlyWantedChanges`) |
| `GPGProxyProofs` | `TypeCorrect` (`TypeOK`), `CloseRevokesAccess` (`AccessRevoked`), `ClosingIsNoFailure` (`NoSpuriousFailure`) |
| `GPGSessionProofs` | `TypeCorrect` (`TypeOK`), `CommandsUseTheirSession` (`SessionOfRightVM`), `NothingLeftUnreported` (`CleanedUpOrReported`), `ClosingCancelsNothing` (`NoSelfCancel`) |
| `AgentInvocationProofs` | `WrapperIsLauncher`, `StateIsOwn` (`OwnState`), `OptionsWin` (`ExplicitOptionsWin`), `LaunchIsUnchanged` (`LaunchUnchanged`) |
| `ProvisioningProofs` | `TypeCorrect` (`TypeOK`), `UsesAreVerified` (`VerifiedBeforeUse`), `PresentIsKept` (`NothingPresentReplaced`) |
| `GitConfigProofs` | `TypeCorrect` (`TypeOK`), `WalkIsComplete` (`CopiedOrRefused`), `SuccessMeansCopied` (`DoneMeansCopied`), `RootAlwaysComplete` (`RootComplete`) |

**Recreation.** The first part of `ReplacementProofs` has lemmas on the limactl
operators: what each keeps well-typed, and when it keeps a disk recoverable.
`OriginalRecoverable` is not inductive: that the original is recoverable in one
state does not say which names a later call may touch. `IInv` adds
`OriginalLocated`, which says for each group of control points where the
original is. Before `old` is read, the final name holds all of the original's
files if it exists. Up to the first rename and after the restoring one
(`AtFinal`), its files are all under the final name, so deleting the candidate
cannot touch them; between these renames (`AtBackup`) they are all under the
backup. The backup is deleted only once the replacement was accepted. When the
invocation is over, the files may be spread over two names (a rename failed
half-way), but all still exist unless the replacement was accepted.

What an invocation promises of its outcome and of its steps needs more: which
invocation this is (`Course`), under which of the three names the old and the
new disk are with all their files (`Layout`), that what is started or promoted
passed the validation of its mounts (`MountsSettled`), that an original that ran
still runs or its restart was reported (`RunningKept`), whose session is open
(`SessionScoped`). The conjunction is `OutcomeInv`. With it every step of
`Replacement` is shown to be a step of `SafeReplacement` or a stutter, which
gives the refinement.

Beside lock-less commands `OutcomeInv` does not hold, since they stop and delete
what it locates. What is left is conditional: `RaceInv` says that `IInv`
and the outcome of a failure stand as long as no lock-less command deleted a
part of the user's disk, and stopping deletes nothing.

**Lifecycle.** The lock excludes because a process inside the section holds the
lock file it chose and a lock file has one holder (`LockKept`). That the choice
is the same is the hypothesis `OneLockFile`; run `lock_directory` shows that
exclusion fails without it. It holds, for instance, when TMPDIR is the same and
outside all mounts. With it, `MountsChecked` is inductive:
from the check of the mounts to the end of the preparation nobody else can
create a VM of this name, and the lock-less commands remove VMs but change no
mounts. `LockStaysOutside` says that the lock file lies in no mount of the VM
that is asked for, so no guest can reach it; it needs no hypothesis.

**Configuration edits.** `NoLostTrust` speaks of files, but a draft that was
made before is what the next rename publishes. The invariant therefore speaks of
drafts: one that no guest overtook is the edit of the file as it still is
(`DraftCurrent`, by the lock), and every draft keeps what others ensured
(`DraftKeepsTrust`), also one that a guest overtook. The lock excludes others
under the hypothesis `OneLockFile`: two invocations inside the section of one
configuration hold the same lock file (`OneEditor`). `TypeCorrect` needs no
hypothesis.

**GPG.** For the proxy, `Tracking` ties the table to the workers: a socket that
is open is in the table, or the goroutine that has it is about to put it there
under the mutex, where it will see that the proxy is closed. After the critical
section of a close nothing open is in the table (`TrackedClosed`). For the
session, the invariant says for each step of a start and of a close which of
directory, proxy and tunnel may exist, and that of everything older the user
will be told (`LeftoversReported`).

**Wrappers.** `WrapperIsLauncher` compares the two implementations of the rules,
the Go function and the script, over argument vectors of any length; its
hypotheses exclude exactly the form of run `short_option` (`Plain`) and, for
Codex, `--no-daemon=value`. `StateIsOwn`
and `OptionsWin` need that all sessions on the VM prepare the same agents
(`SameAgents`), as run `other_agents` shows: then no wrapper that a running
session relies on is ever removed (`WrappersKept`). The attempt to prove
`LaunchUnchanged` for all vectors failed and found an exception that two words
do not reach: of `--no-daemon --no-daemon ... --no-daemon`, twice in front,
launcher and wrapper take one away each, and one is left. Codex is told the
same, so the property names the exception (`Repeated`) and the run
now contains such vectors.

**Provisioning.** Each conjunct of `IInv` says of one kind of thing (packages,
executables, tools, runtime, agent) that it was seen in the guest since the
last command that could have removed it, or is still to be looked at by the loop
in hand. `ToolsGrounded` orders the tools behind their prerequisites and is the
reason why the installer of a tool meets what it calls. The lists themselves
are recursive functions over any configuration; their properties (what is in the
list, each once, prerequisites first) follow from lemmas on iterated functions
that are proved first. `PresentIsKept` has the hypothesis `AgentFromNpm`, that
no native package provides the agent that `lja` installs with npm; otherwise the
installation of Node could bring the agent after it was found to be absent.

**Git copying.** `CopyInv` consists of the types, the state of the walk and what
has arrived. While the walk is under way (`Walking`), the calls on the stack form
a chain of references from the root, every visited file is copied and had all
its references handled, the visited files have no cycle among them, and nothing
is copied but what the configuration reaches. Completeness
then follows because a visited root with an empty stack makes the visited files
closed under references, and a refusal has the cause that the guard of its
disjunct saw. Reachability is defined by levels, and the proofs use the least
level of a file. `RootComplete` has an
invariant of its own: until the root's turn comes the root in the guest is of an
older preparation (`RootOlder`), and every file of this preparation that is no
longer unpublished was written by it (`OthersWritten`). The assumptions are
`GitConfigAssumption`, in particular that files are finitely many.

**Assumptions.** `StoreAssumption` (a VM has at least one file),
`ReplacementAssumption` (names and disks are distinct), and the typing
assumptions of the other modules; TLC evaluates them on every run.

**Only model-checked.** Liveness: `WaitersProceed`, `PreparationsEnd`,
`CloseReturns`, `AccessEnds`. The prover has no rule for ENABLED, which fairness
is defined by. For the properties proved under `OneLockFile`, `SameAgents` and
`PlainArgs`, the violation runs are the other half of the statement.

## 6. Plan

1. `stop --all` and `delete --all` over several projects with their locks, and
   several agents in one preparation of `Provisioning`.
2. The layers of the configuration and the policy for project directories, as
   operators checked against a reference definition.
3. Proofs: what a plain launch gets when sessions prepare different agents
   (a weaker `OwnState` that the code keeps without `SameAgents`); and that
   `delete --all` loses nothing of projects whose lock is held by nobody.

## 7. Not modelled

Configuration decoding and merging, parsing of limactl's and Git's output,
quoting, path canonicalisation, ownership checks, project discovery, status
output and exit codes are sequential functions of their inputs and have table
tests; a model would repeat them. GitHub tokens are constant data of one
process; that its environment reaches setup and agents but no installer is not
modelled. `Provisioning` prepares one agent and one VM: preparations of
several agents follow one another, and nothing else is assumed to change the
guest's software meanwhile. A killed preparation is a failed command, and what
it left is an initial state of the next. `GitConfigCopy` leaves out the
replacement of `gpg.program`, the form of relative and `~user` paths (a
reference leads to a file or is unsupported) and symbolic links in the guest,
which its script refuses, and takes a transfer that was cut off to have ended
in the guest before the next preparation writes there. `limactl`, `ssh`,
GnuPG, flock and package managers are external and modelled as far as the code
depends on them.

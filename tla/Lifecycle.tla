----------------------------- MODULE Lifecycle -----------------------------
(***************************************************************************)
(* Several lja processes on one project: shell, agent and update           *)
(* (prepareVMLocked without --recreate), create (createVMLocked) and stop, *)
(* each under the project's advisory lock, while another process runs a    *)
(* command that takes no lock.  The processes may select different state   *)
(* roots, hence expect different mounts, and have different temporary      *)
(* directories.                                                            *)
(***************************************************************************)
EXTENDS AdvisoryLock, LockDirectory, LocklessCommands

CONSTANTS
  Vm,          \* the project's VM name
  Project,     \* the project directory
  StateRoots,  \* the directories an invocation may select as state root
  Temporary,   \* the lock directories under the TMPDIR values in use
  Fallbacks,   \* the sequence of the other candidates
  HasAgents,   \* whether default agents are configured
  FirstDisk    \* the guest disk that exists before

ASSUME LifecycleAssumption ==
  /\ Vm \in Name
  /\ Disk = Invocation \cup {FirstDisk}
  /\ MountSet = {{Project, s} : s \in StateRoots}
  /\ HasAgents \in BOOLEAN
  /\ Temporary \subseteq LockFile /\ Fallbacks \in Seq(LockFile)
  /\ FirstDisk \notin Invocation

VARIABLES
  pc,      \* each invocation's next step
  kind,    \* its command
  wanted,  \* the mounts it expects: the project and its state root
  lock     \* its lock file, NoDirectory before it chose one

lifecycleVars == <<store, command, listing, holder, pc, kind, wanted, lock>>

Kinds == {"prepare", "create", "stop"}

GuestWork == {"prepDevelopment", "prepAgents", "createAgents"}

Section ==
  GuestWork \cup
  {"prepInspect", "prepCreate", "prepInspectCreated", "prepStart", "prepReinspect",
   "createInspect", "createStart", "createReinspect", "stopInspect", "stopCall",
   "unlock", "unlockAndRun"}

TypeOK ==
  /\ StoreTypeOK /\ LocklessTypeOK /\ LockTypeOK
  /\ pc \in [Invocation -> {"idle", "wait", "interactive", "over"} \cup Section]
  /\ kind \in [Invocation -> Kinds]
  /\ wanted \in [Invocation -> MountSet]
  /\ lock \in [Invocation -> LockFile \cup {NoDirectory}]

Init ==
  /\ \E vm \in {Absent} \cup {i \in Instance : i.disk = FirstDisk /\ i.parts = Part} :
       store = [n \in Name |-> IF n = Vm THEN vm ELSE Absent]
  /\ LocklessInit /\ LockInit
  /\ pc = [i \in Invocation |-> "idle"]
  /\ kind \in [Invocation -> Kinds]
  /\ wanted \in [Invocation -> MountSet]
  /\ lock = [i \in Invocation |-> NoDirectory]

---------------------------------------------------------------------------
Goto(i, next) == pc' = [pc EXCEPT ![i] = next]

At(i, here) == pc[i] = here /\ UNCHANGED <<kind, wanted, lock, command, listing>>

Fails(i) == Goto(i, "unlock")

(* Resolve the project, choose the lock file, open it.  No directory       *)
(* outside the mounts: the command fails.                                  *)
Begin(i) ==
  /\ pc[i] = "idle"
  /\ \E t \in Temporary :
       LET d == DefaultLockDirectory(<<t>> \o Fallbacks, wanted[i])
       IN /\ lock' = [lock EXCEPT ![i] = d]
          /\ Goto(i, IF d = NoDirectory THEN "over" ELSE "wait")
  /\ UNCHANGED <<store, kind, wanted, command, listing, holder>>

Enter(i) ==
  /\ At(i, "wait")
  /\ Acquire(i, lock[i])
  /\ Goto(i, CASE kind[i] = "prepare" -> "prepInspect"
               [] kind[i] = "create" -> "createInspect"
               [] kind[i] = "stop" -> "stopInspect")
  /\ UNCHANGED store

\* Mutant: the interactive command runs under the lock.
LeaveAfterCommand(i) ==
  /\ \/ At(i, "unlock") /\ Goto(i, "over") /\ Release(i, lock[i])
     \/ At(i, "unlockAndRun") /\ Goto(i, "interactive") /\ UNCHANGED holder
  /\ UNCHANGED store

(* The lock is released before the interactive command starts.             *)
Leave(i) ==
  /\ \/ At(i, "unlock") /\ Goto(i, "over")
     \/ At(i, "unlockAndRun") /\ Goto(i, "interactive")
  /\ Release(i, lock[i])
  /\ UNCHANGED store

InteractiveEnds(i) ==
  /\ At(i, "interactive")
  /\ Goto(i, "over")
  /\ UNCHANGED <<store, holder>>

Succeeds(i) == Goto(i, IF kind[i] = "prepare" THEN "unlockAndRun" ELSE "unlock")

---------------------------------------------------------------------------
(* prepareNamedVMLocked on the project's VM                                *)
StartOrSkip(i, start, skip) ==
  CASE store[Vm].status = "Stopped" -> Goto(i, start)
    [] store[Vm].status = "Running" -> Goto(i, skip)
    [] OTHER -> Fails(i)

PrepInspect(i) ==
  /\ At(i, "prepInspect")
  /\ \/ Fails(i)
     \/ ~Exists(Vm) /\ Goto(i, "prepCreate")
     \/ MountsValidated(Vm, wanted[i]) /\ StartOrSkip(i, "prepStart", "prepReinspect")
  /\ UNCHANGED <<store, holder>>

PrepCreate(i) ==
  /\ At(i, "prepCreate")
  /\ \E ok \in BOOLEAN :
       Create(Vm, i, ok) /\ IF ok THEN Goto(i, "prepInspectCreated") ELSE Fails(i)
  /\ UNCHANGED holder

\* Mutant: limactl is trusted to have mounted what it was asked to.
PrepInspectCreatedUnchecked(i) ==
  /\ At(i, "prepInspectCreated")
  /\ Fails(i) \/ (Exists(Vm) /\ StartOrSkip(i, "prepStart", "prepReinspect"))
  /\ UNCHANGED <<store, holder>>

PrepInspectCreated(i) ==
  /\ At(i, "prepInspectCreated")
  /\ \/ Fails(i)
     \/ MountsValidated(Vm, wanted[i]) /\ StartOrSkip(i, "prepStart", "prepReinspect")
  /\ UNCHANGED <<store, holder>>

PrepStart(i) ==
  /\ At(i, "prepStart")
  /\ \E ok \in BOOLEAN :
       Start(Vm, ok) /\ IF ok THEN Goto(i, "prepReinspect") ELSE Fails(i)
  /\ UNCHANGED holder

PrepReinspect(i) ==
  /\ At(i, "prepReinspect")
  /\ \/ Fails(i)
     \/ ReadyForGuest(Vm, wanted[i]) /\ Goto(i, "prepDevelopment")
  /\ UNCHANGED <<store, holder>>

PrepDevelopment(i) ==
  /\ At(i, "prepDevelopment")
  /\ Fails(i) \/ (store[Vm].status = "Running" /\ Goto(i, "prepAgents"))
  /\ UNCHANGED <<store, holder>>

PrepAgents(i) ==
  /\ At(i, "prepAgents")
  /\ Fails(i) \/ ((HasAgents => store[Vm].status = "Running") /\ Succeeds(i))
  /\ UNCHANGED <<store, holder>>

---------------------------------------------------------------------------
(* Mutant: an existing VM is used whatever its mounts are.                 *)
CreateInspectUnchecked(i) ==
  /\ At(i, "createInspect")
  /\ \/ Fails(i)
     \/ ~Exists(Vm) /\ Goto(i, "prepInspect")
     \/ /\ Exists(Vm)
        /\ IF HasAgents THEN StartOrSkip(i, "createStart", "createAgents") ELSE Succeeds(i)
  /\ UNCHANGED <<store, holder>>

(* createVMLocked: an existing VM is only validated, and started for its   *)
(* default agents; an absent one is prepared like any other.               *)
CreateInspect(i) ==
  /\ At(i, "createInspect")
  /\ \/ Fails(i)
     \/ ~Exists(Vm) /\ Goto(i, "prepInspect")
     \/ /\ MountsValidated(Vm, wanted[i])
        /\ IF HasAgents THEN StartOrSkip(i, "createStart", "createAgents") ELSE Succeeds(i)
  /\ UNCHANGED <<store, holder>>

CreateStart(i) ==
  /\ At(i, "createStart")
  /\ \E ok \in BOOLEAN :
       Start(Vm, ok) /\ IF ok THEN Goto(i, "createReinspect") ELSE Fails(i)
  /\ UNCHANGED holder

(* Only the status is looked at again, not the mounts. *)
CreateReinspect(i) ==
  /\ At(i, "createReinspect")
  /\ Fails(i) \/ (store[Vm].status = "Running" /\ Goto(i, "createAgents"))
  /\ UNCHANGED <<store, holder>>

CreateAgents(i) ==
  /\ At(i, "createAgents")
  /\ Fails(i) \/ (store[Vm].status = "Running" /\ Succeeds(i))
  /\ UNCHANGED <<store, holder>>

---------------------------------------------------------------------------
(* StopVM                                                                  *)
StopInspect(i) ==
  /\ At(i, "stopInspect")
  /\ \/ Fails(i)
     \/ ~Exists(Vm) /\ Succeeds(i)
     \/ /\ MountsValidated(Vm, wanted[i])
        /\ CASE store[Vm].status = "Stopped" -> Succeeds(i)
             [] store[Vm].status = "Running" -> Goto(i, "stopCall")
             [] OTHER -> Fails(i)
  /\ UNCHANGED <<store, holder>>

StopCall(i) ==
  /\ At(i, "stopCall")
  /\ \E ok \in BOOLEAN : Stop(Vm, ok) /\ (IF ok THEN Succeeds(i) ELSE Fails(i))
  /\ UNCHANGED holder

---------------------------------------------------------------------------
Killed(i) ==
  /\ pc[i] \notin {"idle", "over"}
  /\ At(i, pc[i])
  /\ Goto(i, "over")
  /\ ReleaseAll(i)
  /\ UNCHANGED store

LocklessStep == Lockless(Vm) /\ UNCHANGED <<holder, pc, kind, wanted, lock>>

AllOver ==
  /\ \A i \in Invocation : pc[i] = "over"
  /\ command = "over"
  /\ UNCHANGED lifecycleVars

(* The code up to the interactive command: steps that always come.         *)
Advance(i) ==
  \/ Enter(i) \/ Leave(i)
  \/ PrepInspect(i) \/ PrepCreate(i) \/ PrepInspectCreated(i) \/ PrepStart(i)
  \/ PrepReinspect(i) \/ PrepDevelopment(i) \/ PrepAgents(i)
  \/ CreateInspect(i) \/ CreateStart(i) \/ CreateReinspect(i) \/ CreateAgents(i)
  \/ StopInspect(i) \/ StopCall(i)

Next ==
  \/ \E i \in Invocation : Begin(i) \/ Advance(i) \/ InteractiveEnds(i) \/ Killed(i)
  \/ LocklessStep
  \/ AllOver

Spec == Init /\ [][Next]_lifecycleVars

(* Every limactl call and every preparation command returns, and flock is  *)
(* granted when it stays free.  Nothing makes a user's agent end.          *)
FairSpec == Spec /\ \A i \in Invocation : WF_lifecycleVars(Advance(i))

---------------------------------------------------------------------------
InSection(i) == pc[i] \in Section

(* Two processes are never both between the inspection of the project's VM *)
(* and the end of its preparation: CreateVM, PrepareVM, InstallAgent and   *)
(* StopVM take the same project lock.                                      *)
MutualExclusion ==
  \A i, j \in Invocation : InSection(i) /\ InSection(j) => i = j

(* Guest preparation runs only in a VM with exactly the mounts this        *)
(* invocation selected, even while VMs are deleted without the lock and    *)
(* made again by processes with another state root (or it finds no VM).    *)
GuestWorkValidated ==
  \A i \in Invocation :
    pc[i] \in GuestWork /\ Exists(Vm) => store[Vm].mounts = wanted[i]

(* A VM is booted only by a process whose mounts it has.                   *)
BootValidated ==
  [][ (store'[Vm].status = "Running" /\ store[Vm].status # "Running") =>
        \E i \in Invocation : pc'[i] # pc[i] /\ wanted[i] = store[Vm].mounts
    ]_lifecycleVars

(* A process that waits for the project lock gets it, although an agent or *)
(* a shell that another process started may run forever.                   *)
WaitersProceed ==
  \A i \in Invocation : pc[i] = "wait" ~> pc[i] # "wait"
=============================================================================

---------------------------- MODULE Replacement ----------------------------
(***************************************************************************)
(* What one invocation does to the project's VM while it holds the project *)
(* lock: prepareVMLocked, with prepareNamedVMLocked (lima.go) for ordinary *)
(* preparation and replaceVMLocked (recreate.go) for --recreate.           *)
(*                                                                         *)
(* Each step is one external call (limactl, or a command in the guest)     *)
(* with the code up to the next one.  Every call may fail.  The process    *)
(* may be killed between any two calls, and a call that fails just before  *)
(* stands for one that was interrupted.  Guests may go down by themselves. *)
(* No other process touches the store here: ReplacementRaces adds one that *)
(* does, and Lifecycle has several that share the project lock.            *)
(***************************************************************************)
EXTENDS LimaStore

CONSTANTS
  Final, Candidate, Backup,  \* the project's VM name, lja-new-* and lja-old-*
  Original, New, Foreign,    \* the disk the user has, the one being built, and
                             \* one that happens to own a transaction name
  Expected                   \* the mounts that this invocation asks for

ASSUME ReplacementAssumption ==
  /\ Name = {Final, Candidate, Backup}
  /\ Disk = {Original, New, Foreign}
  /\ Final # Candidate /\ Final # Backup /\ Candidate # Backup
  /\ Expected \in MountSet
  /\ Original # New /\ Original # Foreign /\ New # Foreign

VARIABLES
  pc,         \* the next external call
  target,     \* the name prepareNamedVMLocked works on
  old,        \* replaceVMLocked's `old`: the entry read before anything else
  session,    \* the VM whose guest reaches the host GPG agent, {} for none
  wrappers,   \* <<disk, name>>: wrappers written in a guest for a VM name
  validated,  \* startAndValidate has accepted the replacement
  halted,     \* disks whose guest went down by itself (at most once each)
  report      \* what the returned error names

vars == <<store, pc, target, old, session, wrappers, validated, halted, report>>

PreparePC == {"prepInspect", "prepCreate", "prepInspectCreated", "prepStart",
              "prepReinspect", "prepDevelopment", "prepAgents"}

SwapPC == {"inspectOld", "probeRename", "inspectCandidate", "inspectBackup",
           "closeSession", "stopCandidate", "stopOld", "renameOld", "promote",
           "startFinal", "inspectFinal", "probeFinal", "deleteBackup", "finalAgents"}

RecoverPC == {"restoreInspect", "restoreStart",
              "cleanupSession", "cleanupInspect", "cleanupDelete",
              "rollbackInspect", "rollbackStop", "rollbackAside", "rollbackRestore",
              "rollbackRestart", "rollbackStart", "rollbackInspectAside", "rollbackRemove"}

Over == {"ok", "failed", "killed"}

(* "rename": the three names and how to recover by hand; "restart": the    *)
(* original was not started again.                                         *)
Reports == {Candidate, Backup, "rename", "restart"}

TypeOK ==
  /\ StoreTypeOK
  /\ pc \in PreparePC \cup SwapPC \cup RecoverPC \cup Over
  /\ target \in {Final, Candidate}
  /\ old \in Instance \cup {Absent}
  /\ session \in SUBSET Name
  /\ wrappers \in SUBSET (Disk \X Name)
  /\ validated \in BOOLEAN
  /\ halted \in SUBSET Disk
  /\ report \in SUBSET Reports

(* --recreate begins with the inspection of the old VM, other workflows    *)
(* with that of prepareNamedVMLocked.                                      *)
Init ==
  /\ \E final \in {Absent} \cup {i \in Instance : i.disk = Original /\ i.parts = Part},
        taken \in SUBSET {Candidate, Backup}, m \in MountSet :
       store = [n \in Name |->
                  IF n = Final THEN final
                  ELSE IF n \in taken
                       THEN [disk |-> Foreign, parts |-> Part,
                             status |-> "Stopped", mounts |-> m]
                       ELSE Absent]
  /\ pc \in {"inspectOld", "prepInspect"}
  /\ target = Final
  /\ old = Absent
  /\ session = {}
  /\ wrappers = {}
  /\ validated = FALSE
  /\ halted = {}
  /\ report = {}

---------------------------------------------------------------------------
(* Control.  Goto and Ends are for steps that change nothing but pc (and   *)
(* the report) beside the call they make.                                  *)
unchangedByCall == <<target, old, session, wrappers, validated, halted>>

Goto(next) == pc' = next /\ UNCHANGED report
Fail(about) == pc' = "failed" /\ report' = report \cup about

(* An error of prepareNamedVMLocked ends an ordinary preparation; for a    *)
(* candidate, replaceVMLocked's deferred cleanup comes first.              *)
PrepareFails == Goto(IF target = Candidate THEN "cleanupSession" ELSE "failed")

---------------------------------------------------------------------------
(* prepareNamedVMLocked                                                    *)

(* Validate the project, inspect, validate the mounts of an existing VM    *)
(* and make the state directory.  The status decides what comes next.      *)
StartOrSkip(n) ==
  CASE store[n].status = "Stopped" -> Goto("prepStart")
    [] store[n].status = "Running" -> Goto("prepReinspect")
    [] OTHER -> PrepareFails

PrepInspect ==
  /\ pc = "prepInspect"
  /\ \/ PrepareFails
     \/ ~Exists(target) /\ Goto("prepCreate")
     \/ MountsValidated(target, Expected) /\ StartOrSkip(target)
  /\ UNCHANGED <<store, unchangedByCall>>

PrepCreate ==
  /\ pc = "prepCreate"
  /\ \E ok \in BOOLEAN :
       /\ Create(target, New, ok)
       /\ IF ok THEN Goto("prepInspectCreated") ELSE PrepareFails
  /\ UNCHANGED unchangedByCall

\* Mutant: limactl is trusted to have mounted what it was asked to.
PrepInspectCreatedUnchecked ==
  /\ pc = "prepInspectCreated"
  /\ PrepareFails \/ (Exists(target) /\ StartOrSkip(target))
  /\ UNCHANGED <<store, unchangedByCall>>

PrepInspectCreated ==
  /\ pc = "prepInspectCreated"
  /\ \/ PrepareFails
     \/ MountsValidated(target, Expected) /\ StartOrSkip(target)
  /\ UNCHANGED <<store, unchangedByCall>>

PrepStart ==
  /\ pc = "prepStart"
  /\ \E ok \in BOOLEAN :
       /\ Start(target, ok)
       /\ IF ok THEN Goto("prepReinspect") ELSE PrepareFails
  /\ UNCHANGED unchangedByCall

PrepReinspect ==
  /\ pc = "prepReinspect"
  /\ \/ PrepareFails
     \/ ReadyForGuest(target, Expected) /\ Goto("prepDevelopment")
  /\ UNCHANGED <<store, unchangedByCall>>

(* prepareDevelopment: packages, tools and Git, then the GPG session that  *)
(* setup commands run under (when forwarding is configured).               *)
PrepDevelopment ==
  /\ pc = "prepDevelopment"
  /\ session' \in {session, {target}}
  /\ \/ PrepareFails
     \/ store[target].status = "Running" /\ Goto("prepAgents")
  /\ UNCHANGED <<store, target, old, wrappers, validated, halted>>

(* prepareConfiguredAgentsLocked; a candidate gets no wrappers yet.        *)
PrepAgents ==
  /\ pc = "prepAgents"
  /\ \/ PrepareFails /\ UNCHANGED wrappers
     \/ /\ store[target].status = "Running"
        /\ IF target = Candidate
           THEN Goto("closeSession") /\ UNCHANGED wrappers
           ELSE /\ Goto("ok")
                /\ wrappers' = wrappers \cup {<<store[target].disk, target>>}
  /\ UNCHANGED <<store, target, old, session, validated, halted>>

---------------------------------------------------------------------------
(* prepareVMLocked with Recreate, then replaceVMLocked                     *)

(* The old VM is read once; replaceVMLocked goes by this value to the end. *)
InspectOld ==
  /\ pc = "inspectOld"
  /\ \/ Fail({}) /\ UNCHANGED old
     \/ ~Exists(Final) /\ Goto("prepInspect") /\ UNCHANGED old
     \/ /\ Exists(Final)
        /\ old' = store[Final]
        /\ IF store[Final].status = "Installing" THEN Fail({}) ELSE Goto("probeRename")
  /\ UNCHANGED <<store, target, session, wrappers, validated, halted>>

ProbeRename ==
  /\ pc = "probeRename"
  /\ Fail({}) \/ Goto("inspectCandidate")
  /\ UNCHANGED <<store, unchangedByCall>>

(* Mutant: the candidate's name is not checked for being free. *)
InspectCandidateUnchecked ==
  /\ pc = "inspectCandidate"
  /\ Fail({}) \/ Goto("inspectBackup")
  /\ UNCHANGED <<store, unchangedByCall>>

InspectCandidate ==
  /\ pc = "inspectCandidate"
  /\ \/ Fail({})
     \/ Exists(Candidate) /\ Fail({Candidate})
     \/ ~Exists(Candidate) /\ Goto("inspectBackup")
  /\ UNCHANGED <<store, unchangedByCall>>

(* Mutant: the preparation runs under the backup's name. *)
InspectBackupAsTarget ==
  /\ pc = "inspectBackup"
  /\ ~Exists(Backup) /\ Goto("prepInspect") /\ target' = Backup
  /\ UNCHANGED <<store, old, session, wrappers, validated, halted>>

(* From here on an error removes the candidate (cleanupCandidate).         *)
InspectBackup ==
  /\ pc = "inspectBackup"
  /\ \/ Fail({}) /\ UNCHANGED target
     \/ Exists(Backup) /\ Fail({Backup}) /\ UNCHANGED target
     \/ ~Exists(Backup) /\ Goto("prepInspect") /\ target' = Candidate
  /\ UNCHANGED <<store, old, session, wrappers, validated, halted>>

(* closeSession revokes access even when it reports an error.              *)
CloseSession ==
  /\ pc = "closeSession"
  /\ session' = {}
  /\ Goto("cleanupSession") \/ Goto("stopCandidate")
  /\ UNCHANGED <<store, target, old, wrappers, validated, halted>>

StopCandidate ==
  /\ pc = "stopCandidate"
  /\ \E ok \in BOOLEAN :
       /\ Stop(Candidate, ok)
       /\ IF ~ok THEN Goto("cleanupSession")
          ELSE IF old.status = "Running" THEN Goto("stopOld")
          ELSE Goto("renameOld")
  /\ UNCHANGED unchangedByCall

(* Mutant: a failed stop of the original goes to the cleanup at once. *)
StopOldNotRestored ==
  /\ pc = "stopOld"
  /\ \E ok \in BOOLEAN : Stop(Final, ok) /\ Goto(IF ok THEN "renameOld" ELSE "cleanupSession")
  /\ UNCHANGED unchangedByCall

StopOld ==
  /\ pc = "stopOld"
  /\ \E ok \in BOOLEAN :
       /\ Stop(Final, ok)
       /\ Goto(IF ok THEN "renameOld" ELSE "restoreInspect")
  /\ UNCHANGED unchangedByCall

(* Mutant: a failed rename is rolled back like any other failure. *)
RenameStepRolledBack(at, from, to, next) ==
  /\ pc = at
  /\ \E ok \in BOOLEAN :
       /\ Rename(from, to, ok)
       /\ IF ok THEN Goto(next)
          ELSE pc' = "rollbackInspect" /\ report' = report \cup {Candidate, Backup, "rename"}
  /\ UNCHANGED unchangedByCall

(* cleanupCandidate is false from here on.  A rename that failed may be    *)
(* partial: the invocation returns at once and touches nothing more.       *)
RenameStep(at, from, to, next) ==
  /\ pc = at
  /\ \E ok \in BOOLEAN :
       /\ Rename(from, to, ok)
       /\ IF ok THEN Goto(next) ELSE Fail({Candidate, Backup, "rename"})
  /\ UNCHANGED unchangedByCall

RenameOld == RenameStep("renameOld", Final, Backup, "promote")

(* Mutant: the backup is deleted before the replacement was started. *)
PromoteThenDelete == RenameStep("promote", Candidate, Final, "deleteBackup")

Promote == RenameStep("promote", Candidate, Final, "startFinal")

(* Mutant: a start that succeeded counts as validation. *)
StartFinalThenDelete ==
  /\ pc = "startFinal"
  /\ \E ok \in BOOLEAN :
       /\ Start(Final, ok)
       /\ Goto(IF ok THEN "deleteBackup" ELSE "rollbackInspect")
  /\ UNCHANGED unchangedByCall

(* startAndValidate: start, inspect, probe the guest.                      *)
StartFinal ==
  /\ pc = "startFinal"
  /\ \E ok \in BOOLEAN :
       /\ Start(Final, ok)
       /\ Goto(IF ok THEN "inspectFinal" ELSE "rollbackInspect")
  /\ UNCHANGED unchangedByCall

InspectFinal ==
  /\ pc = "inspectFinal"
  /\ \/ Goto("rollbackInspect")
     \/ ReadyForGuest(Final, Expected) /\ Goto("probeFinal")
  /\ UNCHANGED <<store, unchangedByCall>>

ProbeFinal ==
  /\ pc = "probeFinal"
  /\ \/ Goto("rollbackInspect") /\ UNCHANGED validated
     \/ /\ store[Final].status = "Running"
        /\ Goto("deleteBackup")
        /\ validated' = TRUE
  /\ UNCHANGED <<store, target, old, session, wrappers, halted>>

(* Mutant: the wrong side of the transaction is deleted. *)
DeleteFinal ==
  /\ pc = "deleteBackup"
  /\ \E ok \in BOOLEAN : Delete(Final, ok) /\ Fail({Backup})
  /\ UNCHANGED unchangedByCall

(* Errors after validation are reported without rolling back.              *)
DeleteBackup ==
  /\ pc = "deleteBackup"
  /\ \E ok \in BOOLEAN :
       /\ Delete(Backup, ok)
       /\ IF ok THEN Goto("finalAgents") ELSE Fail({Backup})
  /\ UNCHANGED unchangedByCall

(* Mutant: the wrappers are taken from the preparation of the candidate. *)
FinalAgentsWithoutWrappers ==
  /\ pc = "finalAgents"
  /\ Fail({}) \/ Goto("ok")
  /\ UNCHANGED <<store, unchangedByCall>>

FinalAgents ==
  /\ pc = "finalAgents"
  /\ \/ Fail({}) /\ UNCHANGED wrappers
     \/ /\ store[Final].status = "Running"
        /\ Goto("ok")
        /\ wrappers' = wrappers \cup {<<store[Final].disk, Final>>}
  /\ UNCHANGED <<store, target, old, session, validated, halted>>

---------------------------------------------------------------------------
(* restoreRunning, after the original could not be stopped                 *)
RestoreInspect ==
  /\ pc = "restoreInspect"
  /\ \/ pc' = "cleanupSession" /\ report' = report \cup {"restart"}
     \/ /\ Exists(Final)
        /\ Goto(IF store[Final].status = "Running" THEN "cleanupSession" ELSE "restoreStart")
  /\ UNCHANGED <<store, unchangedByCall>>

RestoreStart ==
  /\ pc = "restoreStart"
  /\ \E ok \in BOOLEAN :
       /\ Start(Final, ok)
       /\ pc' = "cleanupSession"
       /\ report' = IF ok THEN report ELSE report \cup {"restart"}
  /\ UNCHANGED unchangedByCall

(* Mutant: the deferred cleanup leaves the GPG session to the workflow. *)
CleanupSessionLater ==
  /\ pc = "cleanupSession"
  /\ Goto("cleanupInspect")
  /\ UNCHANGED <<store, unchangedByCall>>

(* replaceVMLocked's deferred cleanup with removeCandidate                 *)
CleanupSession ==
  /\ pc = "cleanupSession"
  /\ session' = {}
  /\ Goto("cleanupInspect")
  /\ UNCHANGED <<store, target, old, wrappers, validated, halted>>

(* Mutant: a listing that fails counts as "nothing to remove". *)
CleanupInspectSilent ==
  /\ pc = "cleanupInspect"
  /\ Fail({}) \/ (Exists(Candidate) /\ Goto("cleanupDelete"))
  /\ UNCHANGED <<store, unchangedByCall>>

CleanupInspect ==
  /\ pc = "cleanupInspect"
  /\ \/ Fail({Candidate})
     \/ ~Exists(Candidate) /\ Fail({})
     \/ Exists(Candidate) /\ Goto("cleanupDelete")
  /\ UNCHANGED <<store, unchangedByCall>>

CleanupDelete ==
  /\ pc = "cleanupDelete"
  /\ \E ok \in BOOLEAN : Delete(Candidate, ok) /\ Fail(IF ok THEN {} ELSE {Candidate})
  /\ UNCHANGED unchangedByCall

---------------------------------------------------------------------------
(* rollback, after both renames succeeded.  The mutant forgets to name the *)
(* retained backup when the first inspection fails.                        *)
RollbackInspectSilent ==
  /\ pc = "rollbackInspect"
  /\ \/ Fail({})
     \/ /\ Exists(Final)
        /\ Goto(IF store[Final].status = "Stopped" THEN "rollbackAside" ELSE "rollbackStop")
  /\ UNCHANGED <<store, unchangedByCall>>

RollbackInspect ==
  /\ pc = "rollbackInspect"
  /\ \/ Fail({Backup})
     \/ /\ Exists(Final)
        /\ Goto(IF store[Final].status = "Stopped" THEN "rollbackAside" ELSE "rollbackStop")
  /\ UNCHANGED <<store, unchangedByCall>>

RollbackStop ==
  /\ pc = "rollbackStop"
  /\ \E ok \in BOOLEAN :
       /\ Stop(Final, ok)
       /\ IF ok THEN Goto("rollbackAside") ELSE Fail({Backup})
  /\ UNCHANGED unchangedByCall

RollbackAside == RenameStep("rollbackAside", Final, Candidate, "rollbackRestore")

(* Mutant: the restored original is started whatever its state was. *)
RollbackRestoreRunning ==
  RenameStep("rollbackRestore", Backup, Final, "rollbackRestart")

RollbackRestore ==
  RenameStep("rollbackRestore", Backup, Final,
             IF old.status = "Running" THEN "rollbackRestart" ELSE "rollbackInspectAside")

RollbackRestart ==
  /\ pc = "rollbackRestart"
  /\ \/ Fail({Candidate, "restart"})
     \/ /\ Exists(Final)
        /\ Goto(IF store[Final].status = "Running"
                THEN "rollbackInspectAside" ELSE "rollbackStart")
  /\ UNCHANGED <<store, unchangedByCall>>

RollbackStart ==
  /\ pc = "rollbackStart"
  /\ \E ok \in BOOLEAN :
       /\ Start(Final, ok)
       /\ IF ok THEN Goto("rollbackInspectAside") ELSE Fail({Candidate, "restart"})
  /\ UNCHANGED unchangedByCall

(* The rollback itself succeeded, but the caller still returns the error   *)
(* of startAndValidate.                                                    *)
RollbackInspectAside ==
  /\ pc = "rollbackInspectAside"
  /\ \/ Fail({Candidate})
     \/ ~Exists(Candidate) /\ Fail({})
     \/ Exists(Candidate) /\ Goto("rollbackRemove")
  /\ UNCHANGED <<store, unchangedByCall>>

RollbackRemove ==
  /\ pc = "rollbackRemove"
  /\ \E ok \in BOOLEAN : Delete(Candidate, ok) /\ Fail(IF ok THEN {} ELSE {Candidate})
  /\ UNCHANGED unchangedByCall

---------------------------------------------------------------------------
(* The process dies; its GPG proxy dies with it.                           *)
Killed ==
  /\ pc \notin Over
  /\ pc' = "killed"
  /\ session' = {}
  /\ UNCHANGED <<store, target, old, wrappers, validated, halted, report>>

GuestHalts(n) ==
  /\ store[n].disk \notin halted
  /\ Halt(n)
  /\ halted' = halted \cup {store[n].disk}
  /\ UNCHANGED <<pc, target, old, session, wrappers, validated, report>>

Returned == pc \in Over /\ UNCHANGED vars

Preparation ==
  \/ PrepInspect \/ PrepCreate \/ PrepInspectCreated \/ PrepStart \/ PrepReinspect
  \/ PrepDevelopment \/ PrepAgents

Swap ==
  \/ InspectOld \/ ProbeRename \/ InspectCandidate \/ InspectBackup
  \/ CloseSession \/ StopCandidate \/ StopOld \/ RenameOld \/ Promote
  \/ StartFinal \/ InspectFinal \/ ProbeFinal \/ DeleteBackup \/ FinalAgents

Recovery ==
  \/ RestoreInspect \/ RestoreStart \/ CleanupSession \/ CleanupInspect \/ CleanupDelete
  \/ RollbackInspect \/ RollbackStop \/ RollbackAside \/ RollbackRestore
  \/ RollbackRestart \/ RollbackStart \/ RollbackInspectAside \/ RollbackRemove

Invocation == Preparation \/ Swap \/ Recovery

Next ==
  \/ Invocation
  \/ Killed
  \/ \E n \in Name : GuestHalts(n)
  \/ Returned

Spec == Init /\ [][Next]_vars

---------------------------------------------------------------------------
(* Properties                                                              *)

(* Until the replacement has started under the final name, passed mount    *)
(* validation and answered a guest command, every file of the disk the     *)
(* user had still exists: after each failed call, each kill and each       *)
(* partial rename (replaceVMLocked deletes the backup last).               *)
OriginalRecoverable ==
  (old.disk = Original /\ ~validated) => Recoverable(Original)

(* A VM that had a transaction name before is never deleted or renamed,    *)
(* though cleanup deletes by name (replaceVMLocked's name inspection).     *)
ForeignUntouched ==
  [][ \A n \in {Candidate, Backup} :
        store[n].disk = Foreign => store'[n] = store[n]
    ]_vars

(* What an invocation that returns an error leaves behind under a          *)
(* transaction name is named in that error, or the user would not know     *)
(* which VM to recover or delete.                                          *)
LeftoversReported ==
  pc = "failed" =>
    \A n \in {Candidate, Backup} :
      store[n].disk \in {Original, New} => n \in report

(* An error that does not speak of a rename, of a failed restart, or of a  *)
(* retained backup promises that the project's VM is the one from before,  *)
(* complete, and running if it was; only a guest that went down by itself  *)
(* may be down.                                                            *)
FailureRestoresOriginal ==
  (pc = "failed" /\ old.disk = Original /\ ~validated
     /\ report \cap {Backup, "rename"} = {}) =>
    /\ Holds(Final, Original)
    /\ (old.status = "Running" /\ "restart" \notin report) =>
         \/ store[Final].status = "Running"
         \/ Original \in halted

(* Success means the replacement answers under the final name with the     *)
(* requested mounts and its wrappers, and nothing of the transaction is    *)
(* left.                                                                   *)
SuccessLeavesReplacement ==
  (pc = "ok" /\ old.disk = Original) =>
    /\ Holds(Final, New) /\ store[Final].mounts = Expected
    /\ store[Final].status = "Running" \/ New \in halted
    /\ <<New, Final>> \in wrappers
    /\ ~Exists(Candidate) /\ ~Exists(Backup)

(* After a rename reported an error the invocation moves and deletes       *)
(* nothing more, whatever the error left on either side.                   *)
FrozenAfterRenameError ==
  [][ "rename" \in report => FilesUnchanged ]_vars

(* LJA boots a VM only after it validated its mounts, except to restore    *)
(* the running state that the replaced VM had; recreation never boots an   *)
(* old VM that was down, whatever its mounts are.                          *)
NoBootUnvalidated ==
  [][ \A n \in Name :
        (store'[n].status = "Running" /\ store[n].status # "Running"
           /\ store'[n].disk = store[n].disk) =>
          IF store[n].disk = Original /\ old.disk = Original
          THEN old.status = "Running"
          ELSE store[n].mounts = Expected
    ]_vars

(* The candidate's guest loses the host GPG agent before LJA stops,        *)
(* renames or deletes the candidate.                                       *)
SessionClosedFirst ==
  [][ \A n \in Name : (n \in session /\ n = Candidate /\ store'[n] # store[n]) =>
        halted' # halted
    ]_vars
(* The invocation implements the promise of SafeReplacement: recreation    *)
(* step by step, with every failure, against "the old disk goes last".     *)
IntactDisks == {d \in {Original, New} : Recoverable(d)}

AbstractPhase ==
  IF pc \in Over THEN "over" ELSE IF validated THEN "committed" ELSE "preparing"

Promise == INSTANCE SafeReplacement WITH intact <- IntactDisks, phase <- AbstractPhase

ImplementsSafeReplacement == Promise!Spec
=============================================================================

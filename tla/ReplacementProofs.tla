------------------------- MODULE ReplacementProofs -------------------------
(***************************************************************************)
(* For any set of files per VM and any mount sets: the state keeps its     *)
(* type and recreation never loses the disk that the user had; what an     *)
(* invocation leaves behind, step by step: the promise of SafeReplacement, *)
(* and the errors, successes, sessions and boots; and what of it a         *)
(* lockless command beside the invocation cannot break.                    *)
(***************************************************************************)
EXTENDS ReplacementRaces, TLAPS

---------------------------------------------------------------------------
(* What each limactl call keeps, for any names, disks and files            *)
LEMMA NoCall ==
  ASSUME StoreTypeOK, UNCHANGED store
  PROVE  StoreTypeOK' /\ FilesUnchanged
  BY DEF StoreTypeOK, FilesUnchanged

(* A step that changes the status of n at most. *)
OnlyStatus(n) ==
  /\ FilesUnchanged
  /\ \A m \in Name : store'[m].mounts = store[m].mounts /\ (Exists(m)' <=> Exists(m))
  /\ \A m \in Name : m # n => store'[m] = store[m]

(* Starting, stopping or losing a guest changes nothing but a status.      *)
LEMMA StatusEffect ==
  ASSUME StoreTypeOK, NEW n \in Name, Exists(n),
         NEW statuses \in SUBSET Status, SetStatus(n, statuses)
  PROVE  StoreTypeOK' /\ OnlyStatus(n) /\ store'[n].status \in statuses
<1>1. PICK st \in statuses : store' = [store EXCEPT ![n].status = st]
  BY DEF SetStatus
<1>2. store[n] \in Instance
  BY DEF StoreTypeOK, Exists
<1>3. [store[n] EXCEPT !.status = st] \in Instance
  BY <1>2 DEF Instance
<1>4. store'[n].mounts = store[n].mounts /\ store'[n].status = st /\ store'[n].disk # NoDisk
  BY <1>1, <1>2, StoreAssumption DEF StoreTypeOK, Instance
<1>5. Exists(n)'
  BY <1>4 DEF Exists, Absent
<1>6. StoreTypeOK'
  BY <1>1, <1>3 DEF StoreTypeOK
<1>7. FilesUnchanged
  BY <1>1, <1>2 DEF FilesUnchanged, StoreTypeOK, Instance
<1>8. \A m \in Name : m # n => store'[m] = store[m]
  BY <1>1 DEF StoreTypeOK
<1>9. QED
  BY <1>4, <1>5, <1>6, <1>7, <1>8 DEF OnlyStatus, Exists

LEMMA StartEffect ==
  ASSUME StoreTypeOK, NEW n \in Name, NEW ok \in BOOLEAN, Start(n, ok)
  PROVE  /\ StoreTypeOK' /\ OnlyStatus(n)
         /\ ok => Exists(n) /\ store'[n].status = "Running"
         /\ ~ok => (store'[n].status = "Running" => store[n].status = "Running")
<1>1. CASE Exists(n)
  <2>1. (IF ok THEN {"Running"} ELSE {store[n].status, "Stopped", "Broken"}) \in SUBSET Status
    BY <1>1 DEF Status, StoreTypeOK, Exists, Instance
  <2>2. QED
    BY <1>1, <2>1, StatusEffect DEF Start
<1>2. CASE ~Exists(n)
  BY <1>2 DEF Start, StoreTypeOK, FilesUnchanged, OnlyStatus, Exists
<1>3. QED
  BY <1>1, <1>2

LEMMA StopEffect ==
  ASSUME StoreTypeOK, NEW n \in Name, NEW ok \in BOOLEAN, Stop(n, ok)
  PROVE  /\ StoreTypeOK' /\ OnlyStatus(n)
         /\ ok => store'[n].status = "Stopped"
         /\ store'[n].status = "Running" => store[n].status = "Running"
<1>1. CASE Exists(n)
  <2>1. (IF ok THEN {"Stopped"} ELSE {store[n].status, "Stopped", "Broken"}) \in SUBSET Status
    BY <1>1 DEF Status, StoreTypeOK, Exists, Instance
  <2>2. QED
    BY <1>1, <2>1, StatusEffect DEF Stop
<1>2. CASE ~Exists(n)
  BY <1>2 DEF Stop, StoreTypeOK, FilesUnchanged, OnlyStatus, Exists
<1>3. QED
  BY <1>1, <1>2

LEMMA HaltEffect ==
  ASSUME StoreTypeOK, NEW n \in Name, Halt(n)
  PROVE  /\ StoreTypeOK' /\ OnlyStatus(n)
         /\ store[n].disk \in Disk
         /\ store[n].status = "Running" /\ store'[n].status # "Running"
<1>1. Exists(n) /\ store[n].status = "Running"
  BY DEF Halt, Exists, Absent
<1>2. {"Stopped", "Broken"} \in SUBSET Status
  BY DEF Status
<1>3. QED
  BY <1>1, <1>2, StatusEffect DEF Halt, StoreTypeOK, Exists, Instance

(* Creation writes one name, and only one that nothing had.                *)
LEMMA CreateStep ==
  ASSUME StoreTypeOK, NEW n \in Name, NEW d \in Disk, NEW ok \in BOOLEAN, Create(n, d, ok)
  PROVE  /\ StoreTypeOK'
         /\ \A m \in Name : (m # n \/ Exists(m)) => store'[m] = store[m]
<1>1. CASE UNCHANGED store
  BY <1>1 DEF StoreTypeOK
<1>2. ASSUME NEW st \in Status, NEW m \in MountSet, ~Exists(n),
             store' = [store EXCEPT ![n] =
                         [disk |-> d, parts |-> Part, status |-> st, mounts |-> m]]
      PROVE  /\ StoreTypeOK'
             /\ \A k \in Name : (k # n \/ Exists(k)) => store'[k] = store[k]
  <2>1. [disk |-> d, parts |-> Part, status |-> st, mounts |-> m] \in Instance
    BY StoreAssumption DEF Instance
  <2>2. QED
    BY <1>2, <2>1 DEF StoreTypeOK
<1>3. (IF ok THEN {"Stopped"} ELSE Status \ {"Running"}) \in SUBSET Status
  BY DEF Status
<1>4. QED
  BY <1>1, <1>2, <1>3 DEF Create

LEMMA DirectoryType ==
  ASSUME NEW i \in Instance, NEW parts \in SUBSET Part
  PROVE  /\ Directory(i, parts) \in Instance \cup {Absent}
         /\ parts # {} => Directory(i, parts).disk = i.disk
         /\ Directory(i, parts).parts = parts \/ (parts = Part /\ Directory(i, parts) = i)
<1>1. "Broken" \in Status
  BY DEF Status
<1>2. CASE parts = {}
  BY <1>2 DEF Directory, Absent
<1>3. CASE parts = Part /\ parts # {}
  BY <1>3 DEF Directory
<1>4. CASE parts # Part /\ parts # {}
  BY <1>4, <1>1 DEF Directory, Instance
<1>5. QED
  BY <1>2, <1>3, <1>4

(* A rename moves a whole disk or tears it, but loses nothing of it.       *)
LEMMA RenameKeepsFiles ==
  ASSUME StoreTypeOK, NEW from \in Name, NEW to \in Name, from # to,
         NEW ok \in BOOLEAN, Rename(from, to, ok)
  PROVE  /\ StoreTypeOK'
         /\ \A m \in Name \ {from, to} : store'[m] = store[m]
         /\ \A d \in Disk : Holds(from, d) =>
              /\ ok => Holds(to, d)'
              /\ Recoverable(d)'
<1>1. CASE UNCHANGED store /\ ~ok
  BY <1>1 DEF StoreTypeOK, Holds, Recoverable
<1>2. ASSUME NEW left \in SUBSET Part,
             Exists(from), store[from].parts = Part, ok => left = {},
             store' = [store EXCEPT ![from] = Directory(store[from], left),
                                    ![to] = Directory(store[from], Part \ left)]
      PROVE  /\ StoreTypeOK'
             /\ \A m \in Name \ {from, to} : store'[m] = store[m]
             /\ \A d \in Disk : Holds(from, d) =>
                  /\ ok => Holds(to, d)'
                  /\ Recoverable(d)'
  <2>1. store[from] \in Instance
    BY <1>2 DEF StoreTypeOK, Exists
  <2>2. /\ Directory(store[from], left) \in Instance \cup {Absent}
        /\ Directory(store[from], Part \ left) \in Instance \cup {Absent}
    BY <2>1, DirectoryType
  <2>3. StoreTypeOK'
    BY <1>2, <2>2 DEF StoreTypeOK
  <2>4. /\ store'[from] = Directory(store[from], left)
        /\ store'[to] = Directory(store[from], Part \ left)
        /\ \A m \in Name \ {from, to} : store'[m] = store[m]
    BY <1>2 DEF StoreTypeOK
  <2>5. ASSUME NEW d \in Disk, Holds(from, d)
        PROVE  (ok => Holds(to, d)') /\ Recoverable(d)'
    <3>1. /\ left # {} => store'[from].disk = d
          /\ store'[from].parts = left
          /\ Part \ left # {} => store'[to].disk = d
          /\ store'[to].parts = Part \ left
      BY <2>1, <2>4, <2>5, <1>2, DirectoryType DEF Holds
    <3>2. ok => Holds(to, d)'
      BY <3>1, <1>2, StoreAssumption DEF Holds
    <3>3. Recoverable(d)'
      BY <3>1 DEF Recoverable
    <3>4. QED
      BY <3>2, <3>3
  <2>6. QED
    BY <2>3, <2>4, <2>5
<1>3. QED
  BY <1>1, <1>2 DEF Rename

(* Deleting by name touches nothing under other names.                     *)
LEMMA DeleteStep ==
  ASSUME StoreTypeOK, NEW n \in Name, NEW ok \in BOOLEAN, Delete(n, ok)
  PROVE  /\ StoreTypeOK'
         /\ \A m \in Name \ {n} : store'[m] = store[m]
<1>1. CASE ~Exists(n)
  BY <1>1 DEF Delete, StoreTypeOK
<1>2. CASE Exists(n)
  <2>1. store[n] \in Instance /\ store[n].parts \in SUBSET Part
    BY <1>2 DEF StoreTypeOK, Exists, Instance
  <2>2. PICK left \in SUBSET store[n].parts :
          store' = [store EXCEPT ![n] = Directory(store[n], left)]
    BY <1>2 DEF Delete
  <2>3. Directory(store[n], left) \in Instance \cup {Absent}
    BY <2>1, DirectoryType
  <2>4. QED
    BY <2>2, <2>3 DEF StoreTypeOK
<1>3. QED
  BY <1>1, <1>2

(* A creation makes a whole VM that does not run, or nothing.              *)
LEMMA CreateEffect ==
  ASSUME StoreTypeOK, NEW n \in Name, NEW d \in Disk, NEW ok \in BOOLEAN, Create(n, d, ok)
  PROVE  \/ store' = store /\ ~ok
         \/ /\ ~Exists(n) /\ Holds(n, d)' /\ Exists(n)'
            /\ store'[n].status # "Running"
            /\ \A m \in Name : m # n => store'[m] = store[m]
<1>1. CASE store' = store /\ ~ok
  BY <1>1
<1>2. ASSUME NEW st \in Status \ {"Running"}, NEW m \in MountSet, ~Exists(n),
             store' = [store EXCEPT ![n] =
                         [disk |-> d, parts |-> Part, status |-> st, mounts |-> m]]
      PROVE  /\ Holds(n, d)' /\ Exists(n)' /\ store'[n].status # "Running"
             /\ \A k \in Name : k # n => store'[k] = store[k]
  BY <1>2, StoreAssumption DEF StoreTypeOK, Holds, Exists, Absent
<1>3. (IF ok THEN {"Stopped"} ELSE Status \ {"Running"}) \in SUBSET (Status \ {"Running"})
  BY DEF Status
<1>4. QED
  BY <1>1, <1>2, <1>3 DEF Create

(* A rename that succeeded moved the instance as it was; one that failed   *)
(* leaves nothing running that it touched.                                 *)
LEMMA RenameEffect ==
  ASSUME StoreTypeOK, NEW from \in Name, NEW to \in Name, from # to,
         NEW ok \in BOOLEAN, Rename(from, to, ok)
  PROVE  /\ ok => /\ store'[to] = store[from] /\ ~Exists(from)'
                  /\ Exists(from) /\ store[from].parts = Part
         /\ \A m \in Name : store'[m].status = "Running" => store'[m] = store[m]
         /\ \A m \in {from, to} : store'[m].disk \in {NoDisk, store[from].disk, store[m].disk}
         /\ \A m \in Name \ {from, to} : store'[m] = store[m]
<1>1. CASE UNCHANGED store /\ ~ok
  BY <1>1
<1>2. ASSUME NEW left \in SUBSET Part, ok => left = {},
             Exists(from), store[from].parts = Part, store[from].status # "Running",
             store' = [store EXCEPT ![from] = Directory(store[from], left),
                                    ![to] = Directory(store[from], Part \ left)]
      PROVE  /\ ok => /\ store'[to] = store[from] /\ ~Exists(from)'
                      /\ Exists(from) /\ store[from].parts = Part
             /\ \A m \in Name : store'[m].status = "Running" => store'[m] = store[m]
             /\ \A m \in {from, to} : store'[m].disk \in {NoDisk, store[from].disk}
             /\ \A m \in Name \ {from, to} : store'[m] = store[m]
  <2>1. /\ store'[from] = Directory(store[from], left)
        /\ store'[to] = Directory(store[from], Part \ left)
        /\ \A m \in Name \ {from, to} : store'[m] = store[m]
    BY <1>2 DEF StoreTypeOK
  <2>2. store[from] \in Instance
    BY <1>2 DEF StoreTypeOK, Exists
  <2>3. \A parts \in SUBSET Part :
          /\ Directory(store[from], parts).status # "Running"
          /\ Directory(store[from], parts).disk \in {NoDisk, store[from].disk}
    BY <1>2, <2>2 DEF Directory, Absent, Instance
  <2>4. ok => store'[to] = store[from] /\ ~Exists(from)'
    BY <1>2, <2>1, StoreAssumption DEF Directory, Exists
  <2>5. QED
    BY <1>2, <2>1, <2>3, <2>4
<1>3. QED
  BY <1>1, <1>2 DEF Rename

LEMMA DeleteEffect ==
  ASSUME StoreTypeOK, NEW n \in Name, NEW ok \in BOOLEAN, Delete(n, ok)
  PROVE  /\ ok => ~Exists(n)'
         /\ ~Exists(n) => store' = store
         /\ \A m \in Name : store'[m].status = "Running" => store'[m] = store[m]
         /\ store'[n].disk \in {NoDisk, store[n].disk}
         /\ Exists(n)' => store'[n].mounts = store[n].mounts
         /\ \A m \in Name \ {n} : store'[m] = store[m]
<1>1. CASE ~Exists(n)
  BY <1>1 DEF Delete, Exists
<1>2. CASE Exists(n)
  <2>1. store[n] \in Instance
    BY <1>2 DEF StoreTypeOK, Exists
  <2>2. PICK left \in SUBSET store[n].parts :
          (ok => left = {}) /\ store' = [store EXCEPT ![n] = Directory(store[n], left)]
    BY <1>2 DEF Delete
  <2>3. store'[n] = Directory(store[n], left) /\ \A m \in Name \ {n} : store'[m] = store[m]
    BY <2>2 DEF StoreTypeOK
  <2>4. /\ Directory(store[n], left).status = "Running" => Directory(store[n], left) = store[n]
        /\ Directory(store[n], left) # Absent =>
             Directory(store[n], left).mounts = store[n].mounts
        /\ Directory(store[n], left).disk \in {NoDisk, store[n].disk}
    BY <2>1 DEF Directory, Absent, Instance
  <2>5. ok => ~Exists(n)'
    BY <2>2, <2>3 DEF Directory, Exists
  <2>6. QED
    BY <1>2, <2>3, <2>4, <2>5 DEF Exists
<1>3. QED
  BY <1>1, <1>2

(* A disk whose files stay where they are stays whole and recoverable.     *)
LEMMA FilesKept ==
  ASSUME FilesUnchanged, NEW d \in Disk
  PROVE  /\ \A n \in Name : Holds(n, d)' <=> Holds(n, d)
         /\ Recoverable(d)' <=> Recoverable(d)
  BY DEF FilesUnchanged, Holds, Recoverable

LEMMA HeldIsRecoverable ==
  ASSUME NEW n \in Name, NEW d \in Disk, Holds(n, d)
  PROVE  Recoverable(d)
  BY DEF Holds, Recoverable

---------------------------------------------------------------------------
(* The types                                                               *)

LEMMA NamesAndDisks ==
  /\ Final \in Name /\ Candidate \in Name /\ Backup \in Name
  /\ Original \in Disk /\ New \in Disk /\ Foreign \in Disk
  BY ReplacementAssumption

(* What every step keeps of the control variables, whatever the store.     *)
ControlTypeOK ==
  /\ pc \in PreparePC \cup SwapPC \cup RecoverPC \cup Over
  /\ target \in {Final, Candidate}
  /\ session \in SUBSET Name
  /\ validated \in BOOLEAN
  /\ report \in SUBSET Reports

LEMMA ControlType ==
  ASSUME TypeOK, Invocation
  PROVE  ControlTypeOK'
<1> USE DEF TypeOK, ControlTypeOK, unchangedByCall, Goto, Fail, PrepareFails,
            PreparePC, SwapPC, RecoverPC, Over, Reports
<1>1. CASE PrepInspect
  BY <1>1 DEF PrepInspect, StartOrSkip
<1>2. CASE PrepCreate
  BY <1>2 DEF PrepCreate
<1>3. CASE PrepInspectCreated
  BY <1>3 DEF PrepInspectCreated, StartOrSkip
<1>4. CASE PrepStart
  BY <1>4 DEF PrepStart
<1>5. CASE PrepReinspect
  BY <1>5 DEF PrepReinspect
<1>6. CASE PrepDevelopment
  BY <1>6, NamesAndDisks DEF PrepDevelopment
<1>7. CASE PrepAgents
  BY <1>7 DEF PrepAgents
<1>8. CASE InspectOld
  BY <1>8 DEF InspectOld
<1>9. CASE ProbeRename
  BY <1>9 DEF ProbeRename
<1>10. CASE InspectCandidate
  BY <1>10 DEF InspectCandidate
<1>11. CASE InspectBackup
  BY <1>11 DEF InspectBackup
<1>12. CASE CloseSession
  BY <1>12 DEF CloseSession
<1>13. CASE StopCandidate
  BY <1>13 DEF StopCandidate
<1>14. CASE StopOld
  BY <1>14 DEF StopOld
<1>15. CASE RenameOld \/ Promote \/ RollbackAside \/ RollbackRestore
  BY <1>15 DEF RenameOld, Promote, RollbackAside, RollbackRestore, RenameStep
<1>16. CASE StartFinal \/ InspectFinal \/ ProbeFinal
  BY <1>16 DEF StartFinal, InspectFinal, ProbeFinal
<1>23. CASE DeleteBackup \/ FinalAgents
  BY <1>23 DEF DeleteBackup, FinalAgents
<1>17. CASE RestoreInspect \/ RestoreStart
  BY <1>17 DEF RestoreInspect, RestoreStart
<1>18. CASE CleanupSession \/ CleanupInspect \/ CleanupDelete
  BY <1>18 DEF CleanupSession, CleanupInspect, CleanupDelete
<1>19. CASE RollbackInspect \/ RollbackStop
  BY <1>19 DEF RollbackInspect, RollbackStop
<1>20. CASE RollbackRestart \/ RollbackStart
  BY <1>20 DEF RollbackRestart, RollbackStart
<1>21. CASE RollbackInspectAside \/ RollbackRemove
  BY <1>21 DEF RollbackInspectAside, RollbackRemove
<1>22. QED
  BY <1>1, <1>2, <1>3, <1>4, <1>5, <1>6, <1>7, <1>8, <1>9, <1>10, <1>11, <1>12, <1>13,
     <1>14, <1>15, <1>16, <1>17, <1>18, <1>19, <1>20, <1>21, <1>23
     DEF Invocation, Preparation, Swap, Recovery

---------------------------------------------------------------------------
(* Where the user's disk is: the inductive invariant.  While recreation    *)
(* runs, all of it is under one name that pc determines; a rename that     *)
(* failed has torn it at most, and that ends the invocation.               *)
AtFinal ==
  PreparePC \cup
  {"probeRename", "inspectCandidate", "inspectBackup", "closeSession", "stopCandidate",
   "stopOld", "renameOld", "restoreInspect", "restoreStart",
   "cleanupSession", "cleanupInspect", "cleanupDelete",
   "rollbackRestart", "rollbackStart", "rollbackInspectAside", "rollbackRemove"}

AtBackup ==
  {"promote", "startFinal", "inspectFinal", "probeFinal",
   "rollbackInspect", "rollbackStop", "rollbackAside", "rollbackRestore"}

OriginalLocated ==
  /\ pc = "inspectOld" =>
       old = Absent /\ target = Final /\ (Exists(Final) => Holds(Final, Original))
  /\ (pc \in PreparePC /\ target = Final) => old = Absent
  /\ old.disk = Original =>
       /\ pc \in AtFinal => Holds(Final, Original)
       /\ pc \in AtBackup => Holds(Backup, Original)
       /\ pc \in {"deleteBackup", "finalAgents"} => validated
       /\ pc \in Over => validated \/ Recoverable(Original)

IInv == TypeOK /\ OriginalLocated

LEMMA IInvImplies == IInv => OriginalRecoverable
<1> SUFFICES ASSUME IInv, old.disk = Original, ~validated
             PROVE  Recoverable(Original)
  BY DEF OriginalRecoverable
<1>1. old # Absent
  BY StoreAssumption, NamesAndDisks DEF Absent
<1>2. \/ pc \in AtFinal \cup AtBackup \cup Over
      \/ pc \in {"deleteBackup", "finalAgents", "inspectOld"}
  BY DEF IInv, TypeOK, PreparePC, SwapPC, RecoverPC, AtFinal, AtBackup
<1>3. CASE pc \in AtFinal \cup AtBackup
  BY <1>3, HeldIsRecoverable, NamesAndDisks DEF IInv, OriginalLocated
<1>4. QED
  BY <1>1, <1>2, <1>3 DEF IInv, OriginalLocated

LEMMA InitIInv == Init => IInv
<1> SUFFICES ASSUME Init PROVE IInv
  OBVIOUS
<1>1. Absent \notin Instance
  BY StoreAssumption DEF Absent, Instance
<1>2. StoreTypeOK /\ (Exists(Final) => Holds(Final, Original))
  <2>1. PICK final \in {Absent} \cup {i \in Instance : i.disk = Original /\ i.parts = Part},
             taken \in SUBSET {Candidate, Backup}, m \in MountSet :
          store = [n \in Name |->
                     IF n = Final THEN final
                     ELSE IF n \in taken
                          THEN [disk |-> Foreign, parts |-> Part,
                                status |-> "Stopped", mounts |-> m]
                          ELSE Absent]
    BY DEF Init
  <2>2. [disk |-> Foreign, parts |-> Part, status |-> "Stopped", mounts |-> m] \in Instance
    BY NamesAndDisks, StoreAssumption DEF Instance, Status
  <2>3. store[Final] = final
    BY <2>1, NamesAndDisks
  <2>4. QED
    BY <2>1, <2>2, <2>3 DEF StoreTypeOK, Exists, Holds
<1>3. TypeOK
  BY <1>2, NamesAndDisks DEF Init, TypeOK, PreparePC, SwapPC
<1>4. OriginalLocated
  BY <1>2, StoreAssumption, NamesAndDisks
     DEF Init, OriginalLocated, Absent, AtFinal, AtBackup, PreparePC, Over
<1>5. QED
  BY <1>3, <1>4 DEF IInv

---------------------------------------------------------------------------
(* Every step of the invocation keeps the store's type, and keeps the disk *)
(* located.                                                                *)
StoreKept ==
  /\ StoreTypeOK'
  /\ old' \in Instance \cup {Absent}
  /\ wrappers' \in SUBSET (Disk \X Name)
  /\ halted' \in SUBSET Disk
  /\ OriginalLocated'

LEMMA InPlaceStep ==
  ASSUME IInv, FilesUnchanged, StoreTypeOK',
         target' = target, old' = old, wrappers' = wrappers,
         validated' = validated, halted' = halted,
         pc \notin {"inspectOld", "inspectBackup"},
         pc' \notin {"deleteBackup", "finalAgents", "inspectOld"},
         pc' \in PreparePC => pc \in PreparePC,
         pc' \in AtFinal => pc \in AtFinal,
         pc' \in AtBackup => pc \in AtBackup
  PROVE  StoreKept
<1>1. \A n \in Name : Holds(n, Original)' <=> Holds(n, Original)
  BY FilesKept, NamesAndDisks
<1>2. OriginalRecoverable
  BY IInvImplies
<1>3. Recoverable(Original)' <=> Recoverable(Original)
  BY FilesKept, NamesAndDisks
<1>4. OriginalLocated'
  BY <1>1, <1>2, <1>3, NamesAndDisks DEF IInv, OriginalLocated, OriginalRecoverable
<1>5. QED
  BY <1>4 DEF StoreKept, IInv, TypeOK

LEMMA PreparationStep ==
  ASSUME IInv, Preparation
  PROVE  StoreKept
<1> USE NamesAndDisks DEF IInv, TypeOK, unchangedByCall, Goto, Fail, PrepareFails,
        PreparePC, AtFinal, AtBackup
<1>1. CASE PrepInspect
  BY <1>1, NoCall, InPlaceStep DEF PrepInspect, StartOrSkip
<1>2. CASE PrepCreate
  <2>1. PICK ok \in BOOLEAN :
          Create(target, New, ok) /\ (IF ok THEN Goto("prepInspectCreated") ELSE PrepareFails)
    BY <1>2 DEF PrepCreate
  <2>2. StoreTypeOK' /\ \A m \in Name : (m # target \/ Exists(m)) => store'[m] = store[m]
    BY <2>1, CreateStep
  <2>3. ASSUME old.disk = Original PROVE Holds(Final, Original)' /\ Recoverable(Original)'
    <3>1. Holds(Final, Original)
      BY <2>3, <1>2 DEF OriginalLocated, PrepCreate
    <3>2. Exists(Final)
      BY <3>1, StoreAssumption DEF Holds, Exists, Absent
    <3>3. Holds(Final, Original)'
      BY <2>2, <3>1, <3>2 DEF Holds
    <3>4. QED
      BY <3>3 DEF Holds, Recoverable
  <2>4. OriginalLocated'
    BY <2>1, <2>3, <1>2 DEF OriginalLocated, PrepCreate, Over
  <2>5. QED
    BY <2>2, <2>4, <1>2 DEF StoreKept, PrepCreate
<1>3. CASE PrepInspectCreated
  BY <1>3, NoCall, InPlaceStep DEF PrepInspectCreated, StartOrSkip
<1>4. CASE PrepStart
  BY <1>4, StartEffect, InPlaceStep DEF PrepStart, OnlyStatus
<1>5. CASE PrepReinspect
  BY <1>5, NoCall, InPlaceStep DEF PrepReinspect
<1>6. CASE PrepDevelopment
  BY <1>6, NoCall, InPlaceStep DEF PrepDevelopment
<1>7. CASE PrepAgents
  <2>1. StoreTypeOK' /\ FilesUnchanged
    BY <1>7, NoCall DEF PrepAgents
  <2>2. wrappers' \in SUBSET (Disk \X Name)
    <3>1. store[target].status = "Running" => store[target].disk \in Disk
      BY DEF StoreTypeOK, Instance, Absent
    <3>2. QED
      BY <1>7, <3>1 DEF PrepAgents
  <2>3. OriginalLocated'
    BY <1>7, <2>1, FilesKept, HeldIsRecoverable DEF OriginalLocated, PrepAgents, Over
  <2>4. QED
    BY <1>7, <2>1, <2>2, <2>3 DEF StoreKept, PrepAgents
<1>8. QED
  BY <1>1, <1>2, <1>3, <1>4, <1>5, <1>6, <1>7 DEF Preparation

LEMMA SwapStep ==
  ASSUME IInv, Swap
  PROVE  StoreKept
<1> USE NamesAndDisks DEF IInv, TypeOK, unchangedByCall, Goto, Fail,
        PreparePC, AtFinal, AtBackup
<1>a. Absent.disk # Original
  BY StoreAssumption DEF Absent
<1>1. CASE InspectOld
  <2>1. StoreTypeOK' /\ FilesUnchanged
    BY <1>1, NoCall DEF InspectOld
  <2>2. Holds(Final, Original)' <=> Holds(Final, Original)
    BY <2>1, FilesKept
  <2>3. old' \in Instance \cup {Absent}
    BY <1>1 DEF InspectOld, StoreTypeOK
  <2>4. Exists(Final) => Recoverable(Original)'
    BY <1>1, <2>1, FilesKept, HeldIsRecoverable DEF OriginalLocated, InspectOld
  <2>5. OriginalLocated'
    BY <1>1, <1>a, <2>2, <2>4 DEF OriginalLocated, InspectOld, Over
  <2>6. QED
    BY <1>1, <2>1, <2>3, <2>5 DEF StoreKept, InspectOld
<1>2. CASE ProbeRename
  BY <1>2, NoCall, InPlaceStep DEF ProbeRename
<1>3. CASE InspectCandidate
  BY <1>3, NoCall, InPlaceStep DEF InspectCandidate
<1>4. CASE InspectBackup
  <2>1. StoreTypeOK' /\ FilesUnchanged
    BY <1>4, NoCall DEF InspectBackup
  <2>2. /\ Holds(Final, Original)' <=> Holds(Final, Original)
        /\ Recoverable(Original)' <=> Recoverable(Original)
    BY <2>1, FilesKept
  <2>3. OriginalLocated'
    BY <1>4, <2>2, HeldIsRecoverable, ReplacementAssumption DEF OriginalLocated, InspectBackup, Over
  <2>4. QED
    BY <1>4, <2>1, <2>3 DEF StoreKept, InspectBackup
<1>5. CASE CloseSession
  BY <1>5, NoCall, InPlaceStep DEF CloseSession
<1>6. CASE StopCandidate
  BY <1>6, StopEffect, InPlaceStep DEF StopCandidate, OnlyStatus
<1>7. CASE StopOld
  BY <1>7, StopEffect, InPlaceStep DEF StopOld, OnlyStatus
<1>8. CASE RenameOld
  <2>1. PICK ok \in BOOLEAN :
          /\ Rename(Final, Backup, ok)
          /\ IF ok THEN Goto("promote") ELSE Fail({Candidate, Backup, "rename"})
    BY <1>8 DEF RenameOld, RenameStep
  <2>2. /\ StoreTypeOK'
        /\ Holds(Final, Original) =>
             (ok => Holds(Backup, Original)') /\ Recoverable(Original)'
    BY <2>1, RenameKeepsFiles, ReplacementAssumption
  <2>3. OriginalLocated'
    BY <1>8, <2>1, <2>2 DEF OriginalLocated, RenameOld, RenameStep, Over
  <2>4. QED
    BY <1>8, <2>2, <2>3 DEF StoreKept, RenameOld, RenameStep
<1>9. CASE Promote
  <2>1. PICK ok \in BOOLEAN :
          /\ Rename(Candidate, Final, ok)
          /\ IF ok THEN Goto("startFinal") ELSE Fail({Candidate, Backup, "rename"})
    BY <1>9 DEF Promote, RenameStep
  <2>2. StoreTypeOK' /\ store'[Backup] = store[Backup]
    BY <2>1, RenameKeepsFiles, ReplacementAssumption
  <2>3. Holds(Backup, Original) => Holds(Backup, Original)' /\ Recoverable(Original)'
    BY <2>2 DEF Holds, Recoverable
  <2>4. OriginalLocated'
    BY <1>9, <2>1, <2>3 DEF OriginalLocated, Promote, RenameStep, Over
  <2>5. QED
    BY <1>9, <2>2, <2>4 DEF StoreKept, Promote, RenameStep
<1>10. CASE StartFinal
  BY <1>10, StartEffect, InPlaceStep DEF StartFinal, OnlyStatus
<1>11. CASE InspectFinal
  BY <1>11, NoCall, InPlaceStep DEF InspectFinal
<1>12. CASE ProbeFinal
  <2>1. StoreTypeOK' /\ FilesUnchanged
    BY <1>12, NoCall DEF ProbeFinal
  <2>2. Holds(Backup, Original)' <=> Holds(Backup, Original)
    BY <2>1, FilesKept
  <2>3. OriginalLocated'
    BY <1>12, <2>2 DEF OriginalLocated, ProbeFinal, Over
  <2>4. QED
    BY <1>12, <2>1, <2>3 DEF StoreKept, ProbeFinal
<1>13. CASE DeleteBackup
  <2>1. StoreTypeOK'
    BY <1>13, DeleteStep DEF DeleteBackup
  <2>2. OriginalLocated'
    BY <1>13 DEF OriginalLocated, DeleteBackup, Over
  <2>3. QED
    BY <1>13, <2>1, <2>2 DEF StoreKept, DeleteBackup
<1>14. CASE FinalAgents
  <2>1. StoreTypeOK'
    BY <1>14, NoCall DEF FinalAgents
  <2>2. store[Final].status = "Running" => store[Final].disk \in Disk
    BY DEF StoreTypeOK, Instance, Absent
  <2>3. wrappers' \in SUBSET (Disk \X Name)
    BY <1>14, <2>2 DEF FinalAgents
  <2>4. OriginalLocated'
    BY <1>14 DEF OriginalLocated, FinalAgents, Over
  <2>5. QED
    BY <1>14, <2>1, <2>3, <2>4 DEF StoreKept, FinalAgents
<1>15. QED
  BY <1>1, <1>2, <1>3, <1>4, <1>5, <1>6, <1>7, <1>8, <1>9, <1>10, <1>11, <1>12, <1>13, <1>14
     DEF Swap

LEMMA RecoveryStep ==
  ASSUME IInv, Recovery
  PROVE  StoreKept
<1> USE NamesAndDisks DEF IInv, TypeOK, unchangedByCall, Goto, Fail,
        PreparePC, AtFinal, AtBackup
<1>1. CASE RestoreInspect
  BY <1>1, NoCall, InPlaceStep DEF RestoreInspect
<1>2. CASE RestoreStart
  BY <1>2, StartEffect, InPlaceStep DEF RestoreStart, OnlyStatus
<1>3. CASE CleanupSession
  BY <1>3, NoCall, InPlaceStep DEF CleanupSession
<1>4. CASE CleanupInspect
  BY <1>4, NoCall, InPlaceStep DEF CleanupInspect
<1>5. CASE CleanupDelete \/ RollbackRemove
  <2>1. PICK ok \in BOOLEAN : Delete(Candidate, ok)
    BY <1>5 DEF CleanupDelete, RollbackRemove
  <2>2. StoreTypeOK' /\ store'[Final] = store[Final]
    BY <2>1, DeleteStep, ReplacementAssumption
  <2>3. Holds(Final, Original) => Recoverable(Original)'
    BY <2>2 DEF Holds, Recoverable
  <2>4. OriginalLocated'
    BY <1>5, <2>3 DEF OriginalLocated, CleanupDelete, RollbackRemove, Over
  <2>5. QED
    BY <1>5, <2>2, <2>4 DEF StoreKept, CleanupDelete, RollbackRemove
<1>6. CASE RollbackInspect
  BY <1>6, NoCall, InPlaceStep DEF RollbackInspect
<1>7. CASE RollbackStop
  BY <1>7, StopEffect, InPlaceStep DEF RollbackStop, OnlyStatus
<1>8. CASE RollbackAside
  <2>1. PICK ok \in BOOLEAN :
          /\ Rename(Final, Candidate, ok)
          /\ IF ok THEN Goto("rollbackRestore") ELSE Fail({Candidate, Backup, "rename"})
    BY <1>8 DEF RollbackAside, RenameStep
  <2>2. StoreTypeOK' /\ store'[Backup] = store[Backup]
    BY <2>1, RenameKeepsFiles, ReplacementAssumption
  <2>3. Holds(Backup, Original) => Holds(Backup, Original)' /\ Recoverable(Original)'
    BY <2>2 DEF Holds, Recoverable
  <2>4. OriginalLocated'
    BY <1>8, <2>1, <2>3 DEF OriginalLocated, RollbackAside, RenameStep, Over
  <2>5. QED
    BY <1>8, <2>2, <2>4 DEF StoreKept, RollbackAside, RenameStep
<1>9. CASE RollbackRestore
  <2>1. PICK ok \in BOOLEAN :
          /\ Rename(Backup, Final, ok)
          /\ IF ok
             THEN Goto(IF old.status = "Running"
                       THEN "rollbackRestart" ELSE "rollbackInspectAside")
             ELSE Fail({Candidate, Backup, "rename"})
    BY <1>9 DEF RollbackRestore, RenameStep
  <2>2. /\ StoreTypeOK'
        /\ Holds(Backup, Original) =>
             (ok => Holds(Final, Original)') /\ Recoverable(Original)'
    BY <2>1, RenameKeepsFiles, ReplacementAssumption
  <2>3. OriginalLocated'
    BY <1>9, <2>1, <2>2 DEF OriginalLocated, RollbackRestore, RenameStep, Over
  <2>4. QED
    BY <1>9, <2>2, <2>3 DEF StoreKept, RollbackRestore, RenameStep
<1>10. CASE RollbackRestart
  BY <1>10, NoCall, InPlaceStep DEF RollbackRestart
<1>11. CASE RollbackStart
  BY <1>11, StartEffect, InPlaceStep DEF RollbackStart, OnlyStatus
<1>12. CASE RollbackInspectAside
  BY <1>12, NoCall, InPlaceStep DEF RollbackInspectAside
<1>13. QED
  BY <1>1, <1>2, <1>3, <1>4, <1>5, <1>6, <1>7, <1>8, <1>9, <1>10, <1>11, <1>12 DEF Recovery

---------------------------------------------------------------------------
LEMMA NextIInv == IInv /\ [Next]_vars => IInv'
<1> SUFFICES ASSUME IInv, [Next]_vars PROVE IInv'
  OBVIOUS
<1>1. CASE Invocation
  <2>1. StoreKept
    BY <1>1, PreparationStep, SwapStep, RecoveryStep DEF Invocation
  <2>2. ControlTypeOK'
    BY <1>1, ControlType DEF IInv
  <2>3. QED
    BY <2>1, <2>2 DEF StoreKept, ControlTypeOK, IInv, TypeOK
<1>2. CASE Killed
  <2>1. StoreTypeOK' /\ FilesUnchanged
    BY <1>2, NoCall DEF Killed, IInv, TypeOK
  <2>2. OriginalRecoverable /\ (Recoverable(Original)' <=> Recoverable(Original))
    BY <2>1, IInvImplies, FilesKept, NamesAndDisks
  <2>3. OriginalLocated'
    BY <1>2, <2>2 DEF Killed, OriginalLocated, OriginalRecoverable,
                      PreparePC, AtFinal, AtBackup, Over
  <2>4. TypeOK'
    BY <1>2, <2>1 DEF Killed, IInv, TypeOK, Over
  <2>5. QED
    BY <2>3, <2>4 DEF IInv
<1>3. ASSUME NEW n \in Name, GuestHalts(n)
      PROVE  IInv'
  <2>1. StoreTypeOK' /\ FilesUnchanged /\ store[n].disk \in Disk
    BY <1>3, HaltEffect DEF GuestHalts, IInv, TypeOK, OnlyStatus
  <2>2. TypeOK'
    BY <1>3, <2>1 DEF GuestHalts, IInv, TypeOK
  <2>3. /\ \A k \in Name : Holds(k, Original)' <=> Holds(k, Original)
        /\ Recoverable(Original)' <=> Recoverable(Original)
    BY <2>1, FilesKept, NamesAndDisks
  <2>4. Exists(Final)' <=> Exists(Final)
    BY <2>1, NamesAndDisks, StoreAssumption
       DEF FilesUnchanged, Exists, StoreTypeOK, Instance, Absent, IInv, TypeOK
  <2>5. OriginalLocated'
    BY <1>3, <2>3, <2>4, NamesAndDisks DEF GuestHalts, IInv, OriginalLocated
  <2>6. QED
    BY <2>2, <2>5 DEF IInv
<1>4. CASE UNCHANGED vars
  BY <1>4 DEF vars, IInv, TypeOK, StoreTypeOK, OriginalLocated, Exists, Holds, Recoverable
<1>5. QED
  BY <1>1, <1>2, <1>3, <1>4 DEF Next, Returned

(* The variables keep their types.                                         *)
THEOREM TypeCorrect == Spec => []TypeOK
<1>1. IInv => TypeOK
  BY DEF IInv
<1>2. QED
  BY InitIInv, NextIInv, <1>1, PTL DEF Spec

(* replaceVMLocked never loses the disk the user had before the            *)
(* replacement was accepted, whatever calls fail and whenever it is killed.*)
THEOREM OriginalNeverLost == Spec => []OriginalRecoverable
  BY InitIInv, NextIInv, IInvImplies, PTL DEF Spec

---------------------------------------------------------------------------
(* What an invocation leaves behind                                        *)

(* A transaction name that recreation has not found free yet: nothing, or  *)
(* a VM that somebody else left there, which does not run.                 *)
Untouched(n) == Exists(n) => store[n].disk = Foreign /\ store[n].status = "Stopped"

Preparing(n) == pc \in PreparePC /\ target = n

Checks == {"probeRename", "inspectCandidate", "inspectBackup"}

Beside == {"closeSession", "stopCandidate", "stopOld", "renameOld",
           "restoreInspect", "restoreStart"}

Cleanup == {"cleanupSession", "cleanupInspect", "cleanupDelete"}

Promoted == {"startFinal", "inspectFinal", "probeFinal",
             "rollbackInspect", "rollbackStop", "rollbackAside"}

Restored == {"rollbackRestart", "rollbackStart", "rollbackInspectAside", "rollbackRemove"}

(* What invocation this is: every step but the first and those of an       *)
(* ordinary preparation works on a VM that was read, whole, at the start.  *)
Course ==
  /\ old = Absent \/ old.disk = Original
  /\ pc \in {"inspectOld"} \cup Checks => target = Final
  /\ (pc \in {"inspectOld"} \/ Preparing(Final)) => old = Absent
  /\ (pc \in Checks \cup Beside \cup Cleanup \cup Promoted \cup Restored
         \cup {"promote", "rollbackRestore", "deleteBackup", "finalAgents"}
       \/ target = Candidate) => old.disk = Original
  /\ pc \in {"stopOld", "restoreInspect", "restoreStart", "rollbackRestart", "rollbackStart"} =>
       old.status = "Running"
  /\ pc \in {"deleteBackup", "finalAgents"} => validated
  /\ validated => pc \in {"deleteBackup", "finalAgents"} \cup Over
  /\ "rename" \in report => pc = "failed"

(* Under which of the three names the user's disk and the new one are,     *)
(* each with all its files; what is not mentioned is where OriginalLocated *)
(* says.                                                                   *)
Layout ==
  /\ (pc \in {"inspectOld"} \cup Checks \/ Preparing(Final)) =>
       Untouched(Candidate) /\ Untouched(Backup)
  /\ pc = "inspectBackup" => ~Exists(Candidate)
  /\ Preparing(Candidate) =>
       /\ ~Exists(Backup)
       /\ IF pc \in {"prepInspect", "prepCreate"} THEN ~Exists(Candidate)
          ELSE Holds(Candidate, New)
  /\ pc \in Beside => Holds(Candidate, New) /\ ~Exists(Backup)
  /\ pc \in Cleanup => (Exists(Candidate) => Holds(Candidate, New)) /\ ~Exists(Backup)
  /\ pc \in {"promote", "rollbackRestore"} => Holds(Candidate, New) /\ ~Exists(Final)
  /\ pc \in Promoted \cup {"deleteBackup", "finalAgents"} =>
       Holds(Final, New) /\ ~Exists(Candidate)
  /\ pc = "deleteBackup" => Holds(Backup, Original)
  /\ pc = "finalAgents" => ~Exists(Backup)
  /\ pc \in Restored => Holds(Candidate, New) /\ ~Exists(Backup)

(* The VM that is started or promoted has passed mount validation.         *)
MountsSettled ==
  /\ pc \in {"prepStart", "prepReinspect", "prepDevelopment", "prepAgents"} =>
       store[target].mounts = Expected
  /\ pc \in {"closeSession", "stopCandidate", "stopOld", "renameOld", "promote"} =>
       store[Candidate].mounts = Expected
  /\ pc \in {"startFinal", "inspectFinal", "probeFinal", "deleteBackup", "finalAgents"} =>
       store[Final].mounts = Expected

(* An original that ran still runs, except while recreation has it stopped *)
(* or has reported that it could not start it again.                       *)
RunningKept ==
  (/\ old.status = "Running" /\ "restart" \notin report
   /\ \/ pc \in Checks \cup Cleanup \cup
                {"closeSession", "stopCandidate", "stopOld",
                 "rollbackInspectAside", "rollbackRemove"}
      \/ Preparing(Candidate)) =>
    store[Final].status = "Running" \/ Original \in halted

SessionScoped ==
  /\ session \subseteq {target}
  /\ pc \in {"inspectOld"} \cup Checks => session = {}
  /\ Candidate \in session => pc \in {"prepAgents", "closeSession", "cleanupSession"}

(* Somebody else's VM under a transaction name never runs.                 *)
ForeignStopped ==
  \A n \in {Candidate, Backup} : store[n].disk = Foreign => store[n].status = "Stopped"

Outcome == LeftoversReported /\ FailureRestoresOriginal /\ SuccessLeavesReplacement

OutcomeInv ==
  IInv /\ Course /\ Layout /\ MountsSettled /\ RunningKept /\ SessionScoped
  /\ ForeignStopped /\ Outcome

LEMMA DisksApart ==
  /\ \A n \in Name : ~Exists(n) => store[n].disk = NoDisk
  /\ NoDisk # Original /\ NoDisk # New /\ NoDisk # Foreign
  /\ Original # New /\ Original # Foreign /\ New # Foreign
  BY StoreAssumption, ReplacementAssumption DEF Exists, Absent

LEMMA InitOutcome == Init => OutcomeInv
<1> SUFFICES ASSUME Init PROVE OutcomeInv
  OBVIOUS
<1>1. IInv
  BY InitIInv
<1>2. Untouched(Candidate) /\ Untouched(Backup)
  BY ReplacementAssumption DEF Init, Untouched, Exists
<1>3. ForeignStopped
  BY <1>2, DisksApart, NamesAndDisks DEF Untouched, ForeignStopped
<1>4. Course /\ Layout /\ MountsSettled /\ RunningKept /\ SessionScoped
  BY <1>2, DisksApart, ReplacementAssumption
     DEF Init, Course, Layout, MountsSettled, RunningKept, SessionScoped, Preparing,
         PreparePC, Over, Checks, Beside, Cleanup, Promoted, Restored, Absent
<1>5. Outcome
  BY DEF Init, Outcome, LeftoversReported, FailureRestoresOriginal, SuccessLeavesReplacement
<1>6. QED
  BY <1>1, <1>3, <1>4, <1>5 DEF OutcomeInv

(***************************************************************************)
(* Every step keeps the invariant.                                         *)
(***************************************************************************)
Settled ==
  /\ Course /\ Layout /\ MountsSettled /\ RunningKept
  /\ SessionScoped /\ ForeignStopped /\ Outcome

(* The steps that look at the store and do not change it. *)
Quiet ==
  \/ PrepInspect \/ PrepInspectCreated \/ PrepReinspect \/ PrepDevelopment \/ PrepAgents
  \/ InspectOld \/ ProbeRename \/ InspectCandidate \/ InspectBackup \/ CloseSession
  \/ InspectFinal \/ ProbeFinal \/ FinalAgents
  \/ RestoreInspect \/ CleanupSession \/ CleanupInspect
  \/ RollbackInspect \/ RollbackRestart \/ RollbackInspectAside

Starting == PrepStart \/ StartFinal \/ RestoreStart \/ RollbackStart
Stopping == StopCandidate \/ StopOld \/ RollbackStop
Renaming == RenameOld \/ Promote \/ RollbackAside \/ RollbackRestore
Deleting == DeleteBackup \/ CleanupDelete \/ RollbackRemove

LEMMA InvocationSteps ==
  Invocation <=> Quiet \/ PrepCreate \/ Starting \/ Stopping \/ Renaming \/ Deleting
  BY DEF Invocation, Preparation, Swap, Recovery, Quiet, Starting, Stopping, Renaming, Deleting

LEMMA QuietSettled ==
  ASSUME OutcomeInv, Quiet
  PROVE  Settled'
<1> USE DisksApart, ReplacementAssumption
    DEF OutcomeInv, Settled, IInv, OriginalLocated, TypeOK, Course, Layout, MountsSettled,
        RunningKept, SessionScoped, ForeignStopped, Outcome, LeftoversReported,
        FailureRestoresOriginal, SuccessLeavesReplacement, Untouched, Exists, Holds, Absent,
        Goto, Fail, PrepareFails, unchangedByCall, Preparing, PreparePC, Over, Checks,
        Beside, Cleanup, Promoted, Restored, AtFinal, AtBackup
<1>1. CASE PrepInspect
  BY <1>1 DEF PrepInspect, StartOrSkip, MountsValidated
<1>2. CASE PrepInspectCreated
  BY <1>2 DEF PrepInspectCreated, StartOrSkip, MountsValidated
<1>3. CASE PrepReinspect
  BY <1>3 DEF PrepReinspect, ReadyForGuest, MountsValidated
<1>4. CASE PrepDevelopment
  BY <1>4 DEF PrepDevelopment
<1>5. CASE PrepAgents
  BY <1>5 DEF PrepAgents
<1>6. CASE InspectOld
  BY <1>6 DEF InspectOld
<1>7. CASE ProbeRename
  BY <1>7 DEF ProbeRename
<1>8. CASE InspectCandidate
  BY <1>8 DEF InspectCandidate
<1>9. CASE InspectBackup
  BY <1>9 DEF InspectBackup
<1>10. CASE CloseSession
  BY <1>10 DEF CloseSession
<1>11. CASE InspectFinal
  BY <1>11 DEF InspectFinal, ReadyForGuest, MountsValidated
<1>12. CASE ProbeFinal
  BY <1>12 DEF ProbeFinal
<1>13. CASE FinalAgents
  BY <1>13 DEF FinalAgents
<1>14. CASE RestoreInspect
  BY <1>14 DEF RestoreInspect
<1>15. CASE CleanupSession
  BY <1>15 DEF CleanupSession
<1>16. CASE CleanupInspect
  BY <1>16 DEF CleanupInspect
<1>17. CASE RollbackInspect
  BY <1>17 DEF RollbackInspect
<1>18. CASE RollbackRestart
  BY <1>18 DEF RollbackRestart
<1>19. CASE RollbackInspectAside
  BY <1>19 DEF RollbackInspectAside
<1>20. QED
  BY <1>1, <1>2, <1>3, <1>4, <1>5, <1>6, <1>7, <1>8, <1>9, <1>10, <1>11, <1>12, <1>13, <1>14,
     <1>15, <1>16, <1>17, <1>18, <1>19 DEF Quiet

LEMMA CreateSettled ==
  ASSUME OutcomeInv, PrepCreate
  PROVE  Settled'
<1> USE DisksApart, ReplacementAssumption
    DEF OutcomeInv, Settled, IInv, OriginalLocated, TypeOK, Course, Layout, MountsSettled,
        RunningKept, SessionScoped, ForeignStopped, Outcome, LeftoversReported,
        FailureRestoresOriginal, SuccessLeavesReplacement, Untouched, Exists, Holds, Absent,
        Goto, Fail, PrepareFails, unchangedByCall, Preparing, PreparePC, Over, Checks,
        Beside, Cleanup, Promoted, Restored, AtFinal, AtBackup
<1>1. PICK ok \in BOOLEAN :
        Create(target, New, ok) /\ (IF ok THEN Goto("prepInspectCreated") ELSE PrepareFails)
  BY DEF PrepCreate
<1>2. QED
  BY <1>1, CreateEffect, NamesAndDisks DEF PrepCreate

LEMMA StartSettled ==
  ASSUME OutcomeInv, Starting
  PROVE  Settled'
<1> USE DisksApart, ReplacementAssumption
    DEF OutcomeInv, Settled, IInv, OriginalLocated, TypeOK, Course, Layout, MountsSettled,
        RunningKept, SessionScoped, ForeignStopped, Outcome, LeftoversReported,
        FailureRestoresOriginal, SuccessLeavesReplacement, Untouched, Exists, Holds, Absent,
        Goto, Fail, PrepareFails, unchangedByCall, Preparing, PreparePC, Over, Checks,
        Beside, Cleanup, Promoted, Restored, AtFinal, AtBackup
<1> USE NamesAndDisks DEF OnlyStatus, FilesUnchanged
<1>1. CASE PrepStart
  BY <1>1, StartEffect DEF PrepStart
<1>2. CASE StartFinal
  BY <1>2, StartEffect DEF StartFinal
<1>3. CASE RestoreStart
  BY <1>3, StartEffect DEF RestoreStart
<1>4. CASE RollbackStart
  BY <1>4, StartEffect DEF RollbackStart
<1>5. QED
  BY <1>1, <1>2, <1>3, <1>4 DEF Starting

LEMMA StopSettled ==
  ASSUME OutcomeInv, Stopping
  PROVE  Settled'
<1> USE DisksApart, ReplacementAssumption
    DEF OutcomeInv, Settled, IInv, OriginalLocated, TypeOK, Course, Layout, MountsSettled,
        RunningKept, SessionScoped, ForeignStopped, Outcome, LeftoversReported,
        FailureRestoresOriginal, SuccessLeavesReplacement, Untouched, Exists, Holds, Absent,
        Goto, Fail, PrepareFails, unchangedByCall, Preparing, PreparePC, Over, Checks,
        Beside, Cleanup, Promoted, Restored, AtFinal, AtBackup
<1> USE NamesAndDisks DEF OnlyStatus, FilesUnchanged
<1>1. CASE StopCandidate
  BY <1>1, StopEffect DEF StopCandidate
<1>2. CASE StopOld
  BY <1>2, StopEffect DEF StopOld
<1>3. CASE RollbackStop
  BY <1>3, StopEffect DEF RollbackStop
<1>4. QED
  BY <1>1, <1>2, <1>3 DEF Stopping

(* A rename that failed names everything it may have left behind.         *)
LEMMA RenameSettled ==
  ASSUME OutcomeInv, Renaming
  PROVE  Settled'
<1> USE DisksApart, ReplacementAssumption
    DEF OutcomeInv, Settled, IInv, OriginalLocated, TypeOK, Course, Layout, MountsSettled,
        RunningKept, SessionScoped, ForeignStopped, Outcome, LeftoversReported,
        FailureRestoresOriginal, SuccessLeavesReplacement, Untouched, Exists, Holds, Absent,
        Goto, Fail, PrepareFails, unchangedByCall, Preparing, PreparePC, Over, Checks,
        Beside, Cleanup, Promoted, Restored, AtFinal, AtBackup
<1> USE NamesAndDisks DEF RenameStep
<1>1. CASE RenameOld
  <2>1. PICK ok \in BOOLEAN :
          /\ Rename(Final, Backup, ok)
          /\ IF ok THEN Goto("promote") ELSE Fail({Candidate, Backup, "rename"})
    BY <1>1 DEF RenameOld
  <2>2. /\ \A m \in Name : store'[m].status = "Running" => store'[m] = store[m]
        /\ \A m \in Name : store'[m].disk = Foreign =>
             store'[m] = store[m] \/ store[m].disk = Foreign \/ store[Final].disk = Foreign
        /\ store'[Candidate] = store[Candidate]
    BY <2>1, RenameEffect
  <2>3. CASE ok
    <3>1. store'[Backup] = store[Final] /\ ~Exists(Final)'
      BY <2>1, <2>3, RenameEffect
    <3>2. QED
      BY <1>1, <2>1, <2>2, <2>3, <3>1 DEF RenameOld
  <2>4. CASE ~ok
    BY <1>1, <2>1, <2>2, <2>4 DEF RenameOld
  <2>5. QED
    BY <2>3, <2>4
<1>2. CASE Promote
  <2>1. PICK ok \in BOOLEAN :
          /\ Rename(Candidate, Final, ok)
          /\ IF ok THEN Goto("startFinal") ELSE Fail({Candidate, Backup, "rename"})
    BY <1>2 DEF Promote
  <2>2. /\ \A m \in Name : store'[m].status = "Running" => store'[m] = store[m]
        /\ \A m \in Name : store'[m].disk = Foreign =>
             store'[m] = store[m] \/ store[m].disk = Foreign \/ store[Candidate].disk = Foreign
        /\ store'[Backup] = store[Backup]
    BY <2>1, RenameEffect
  <2>3. CASE ok
    <3>1. store'[Final] = store[Candidate] /\ ~Exists(Candidate)'
      BY <2>1, <2>3, RenameEffect
    <3>2. QED
      BY <1>2, <2>1, <2>2, <2>3, <3>1 DEF Promote
  <2>4. CASE ~ok
    BY <1>2, <2>1, <2>2, <2>4 DEF Promote
  <2>5. QED
    BY <2>3, <2>4
<1>3. CASE RollbackAside
  <2>1. PICK ok \in BOOLEAN :
          /\ Rename(Final, Candidate, ok)
          /\ IF ok THEN Goto("rollbackRestore") ELSE Fail({Candidate, Backup, "rename"})
    BY <1>3 DEF RollbackAside
  <2>2. /\ \A m \in Name : store'[m].status = "Running" => store'[m] = store[m]
        /\ \A m \in Name : store'[m].disk = Foreign =>
             store'[m] = store[m] \/ store[m].disk = Foreign \/ store[Final].disk = Foreign
        /\ store'[Backup] = store[Backup]
    BY <2>1, RenameEffect
  <2>3. CASE ok
    <3>1. store'[Candidate] = store[Final] /\ ~Exists(Final)'
      BY <2>1, <2>3, RenameEffect
    <3>2. QED
      BY <1>3, <2>1, <2>2, <2>3, <3>1 DEF RollbackAside
  <2>4. CASE ~ok
    BY <1>3, <2>1, <2>2, <2>4 DEF RollbackAside
  <2>5. QED
    BY <2>3, <2>4
<1>4. CASE RollbackRestore
  <2>1. PICK ok \in BOOLEAN :
          /\ Rename(Backup, Final, ok)
          /\ IF ok
             THEN Goto(IF old.status = "Running"
                       THEN "rollbackRestart" ELSE "rollbackInspectAside")
             ELSE Fail({Candidate, Backup, "rename"})
    BY <1>4 DEF RollbackRestore
  <2>2. /\ \A m \in Name : store'[m].disk = Foreign =>
             store'[m] = store[m] \/ store[m].disk = Foreign \/ store[Backup].disk = Foreign
        /\ store'[Candidate] = store[Candidate]
    BY <2>1, RenameEffect
  <2>3. CASE ok
    <3>1. store'[Final] = store[Backup] /\ ~Exists(Backup)'
      BY <2>1, <2>3, RenameEffect
    <3>2. CASE old.status = "Running"
      BY <1>4, <2>1, <2>2, <2>3, <3>1, <3>2 DEF RollbackRestore
    <3>3. CASE old.status # "Running"
      BY <1>4, <2>1, <2>2, <2>3, <3>1, <3>3 DEF RollbackRestore
    <3>4. QED
      BY <3>2, <3>3
  <2>4. CASE ~ok
    BY <1>4, <2>1, <2>2, <2>4 DEF RollbackRestore
  <2>5. QED
    BY <2>3, <2>4
<1>5. QED
  BY <1>1, <1>2, <1>3, <1>4 DEF Renaming

LEMMA DeleteSettled ==
  ASSUME OutcomeInv, Deleting
  PROVE  Settled'
<1> USE DisksApart, ReplacementAssumption
    DEF OutcomeInv, Settled, IInv, OriginalLocated, TypeOK, Course, Layout, MountsSettled,
        RunningKept, SessionScoped, ForeignStopped, Outcome, LeftoversReported,
        FailureRestoresOriginal, SuccessLeavesReplacement, Untouched, Exists, Holds, Absent,
        Goto, Fail, PrepareFails, unchangedByCall, Preparing, PreparePC, Over, Checks,
        Beside, Cleanup, Promoted, Restored, AtFinal, AtBackup
<1> USE NamesAndDisks
<1>1. CASE DeleteBackup
  <2>1. PICK ok \in BOOLEAN :
          /\ Delete(Backup, ok)
          /\ IF ok THEN Goto("finalAgents") ELSE Fail({Backup})
    BY <1>1 DEF DeleteBackup
  <2>2. /\ ok => ~Exists(Backup)'
        /\ store'[Backup].disk \in {NoDisk, store[Backup].disk}
        /\ \A m \in Name \ {Backup} : store'[m] = store[m]
    BY <2>1, DeleteEffect
  <2>3. CASE ok
    BY <1>1, <2>1, <2>2, <2>3 DEF DeleteBackup
  <2>4. CASE ~ok
    BY <1>1, <2>1, <2>2, <2>4 DEF DeleteBackup
  <2>5. QED
    BY <2>3, <2>4
<1>2. CASE CleanupDelete
  <2>1. PICK ok \in BOOLEAN :
          /\ Delete(Candidate, ok)
          /\ Fail(IF ok THEN {} ELSE {Candidate})
    BY <1>2 DEF CleanupDelete
  <2>2. /\ ok => ~Exists(Candidate)'
        /\ store'[Candidate].disk \in {NoDisk, store[Candidate].disk}
        /\ \A m \in Name \ {Candidate} : store'[m] = store[m]
    BY <2>1, DeleteEffect
  <2>3. CASE ok
    BY <1>2, <2>1, <2>2, <2>3 DEF CleanupDelete
  <2>4. CASE ~ok
    BY <1>2, <2>1, <2>2, <2>4 DEF CleanupDelete
  <2>5. QED
    BY <2>3, <2>4
<1>3. CASE RollbackRemove
  <2>1. PICK ok \in BOOLEAN :
          /\ Delete(Candidate, ok)
          /\ Fail(IF ok THEN {} ELSE {Candidate})
    BY <1>3 DEF RollbackRemove
  <2>2. /\ ok => ~Exists(Candidate)'
        /\ store'[Candidate].disk \in {NoDisk, store[Candidate].disk}
        /\ \A m \in Name \ {Candidate} : store'[m] = store[m]
    BY <2>1, DeleteEffect
  <2>3. CASE ok
    BY <1>3, <2>1, <2>2, <2>3 DEF RollbackRemove
  <2>4. CASE ~ok
    BY <1>3, <2>1, <2>2, <2>4 DEF RollbackRemove
  <2>5. QED
    BY <2>3, <2>4
<1>4. QED
  BY <1>1, <1>2, <1>3 DEF Deleting

LEMMA NextOutcome == OutcomeInv /\ [Next]_vars => OutcomeInv'
<1> SUFFICES ASSUME OutcomeInv, [Next]_vars PROVE Settled'
  BY NextIInv DEF OutcomeInv, Settled
<1> USE DisksApart, NamesAndDisks, ReplacementAssumption
    DEF OutcomeInv, Settled, IInv, OriginalLocated, TypeOK, Course, Layout, MountsSettled,
        RunningKept, SessionScoped, ForeignStopped, Outcome, LeftoversReported,
        FailureRestoresOriginal, SuccessLeavesReplacement, Untouched, Exists, Holds,
        Preparing, PreparePC, Over, Checks, Beside, Cleanup, Promoted, Restored
<1>1. CASE Invocation
  BY <1>1, InvocationSteps, QuietSettled, CreateSettled, StartSettled, StopSettled,
     RenameSettled, DeleteSettled
<1>2. CASE Killed
  BY <1>2 DEF Killed
<1>3. ASSUME NEW n \in Name, GuestHalts(n)
      PROVE  Settled'
  <2>1. /\ OnlyStatus(n) /\ store[n].disk \in Disk
        /\ store[n].status = "Running" /\ store'[n].status # "Running"
    BY <1>3, HaltEffect DEF GuestHalts
  <2>2. /\ UNCHANGED <<pc, target, old, session, wrappers, validated, report>>
        /\ halted' = halted \cup {store[n].disk}
    BY <1>3 DEF GuestHalts
  <2>3. \A m \in Name :
          /\ store'[m].disk = store[m].disk /\ store'[m].parts = store[m].parts
          /\ store'[m].mounts = store[m].mounts
          /\ store'[m] = Absent <=> store[m] = Absent
          /\ m # n => store'[m] = store[m]
    BY <2>1 DEF OnlyStatus, FilesUnchanged
  <2>4. Course' /\ Layout' /\ MountsSettled' /\ SessionScoped' /\ ForeignStopped'
    BY <2>1, <2>2, <2>3
  <2>5. RunningKept'
    <3>1. CASE n = Final
      BY <3>1, <2>2 DEF AtFinal, Absent
    <3>2. CASE n # Final
      BY <3>2, <2>2, <2>3
    <3>3. QED
      BY <3>1, <3>2
  <2>6. Outcome'
    BY <2>1, <2>2, <2>3
  <2>7. QED
    BY <2>4, <2>5, <2>6
<1>4. CASE UNCHANGED vars
  BY <1>4 DEF vars
<1>5. QED
  BY <1>1, <1>2, <1>3, <1>4 DEF Next, Returned

---------------------------------------------------------------------------
(* What a returned error, a success and a failed rename mean.              *)

(* An error that replaceVMLocked returns names every VM of the user's that *)
(* it leaves under lja-new-* or lja-old-*, whatever failed before.         *)
THEOREM LeftoversAlwaysReported == Spec => []LeftoversReported
<1>1. OutcomeInv => LeftoversReported
  BY DEF OutcomeInv, Outcome
<1>2. QED
  BY InitOutcome, NextOutcome, <1>1, PTL DEF Spec

(* An error that names neither a backup nor a rename leaves the original   *)
(* whole under its name, and running if it ran and no restart failed.      *)
THEOREM FailureLeavesOriginal == Spec => []FailureRestoresOriginal
<1>1. OutcomeInv => FailureRestoresOriginal
  BY DEF OutcomeInv, Outcome
<1>2. QED
  BY InitOutcome, NextOutcome, <1>1, PTL DEF Spec

(* A recreation that succeeds leaves the new VM, validated and with its    *)
(* wrappers, under the project's name and nothing beside it.               *)
THEOREM SuccessIsComplete == Spec => []SuccessLeavesReplacement
<1>1. OutcomeInv => SuccessLeavesReplacement
  BY DEF OutcomeInv, Outcome
<1>2. QED
  BY InitOutcome, NextOutcome, <1>1, PTL DEF Spec

(* After a failed rename no call of the invocation follows.                *)
THEOREM RenameErrorIsFinal == Spec => FrozenAfterRenameError
<1>1. OutcomeInv /\ [Next]_vars => ["rename" \in report => FilesUnchanged]_vars
  <2> SUFFICES ASSUME OutcomeInv, [Next]_vars, "rename" \in report PROVE FilesUnchanged
    OBVIOUS
  <2>1. pc = "failed"
    BY DEF OutcomeInv, Course
  <2>2. CASE \E n \in Name : GuestHalts(n)
    BY <2>2, HaltEffect DEF GuestHalts, OnlyStatus, OutcomeInv, IInv, TypeOK
  <2>3. CASE UNCHANGED vars
    BY <2>3 DEF vars, FilesUnchanged
  <2>4. ~Invocation /\ ~Killed
    BY <2>1 DEF Invocation, Preparation, Swap, Recovery, Killed, Over,
         PrepInspect, PrepCreate, PrepInspectCreated, PrepStart, PrepReinspect,
         PrepDevelopment, PrepAgents, InspectOld, ProbeRename, InspectCandidate,
         InspectBackup, CloseSession, StopCandidate, StopOld, RenameOld, Promote,
         StartFinal, InspectFinal, ProbeFinal, DeleteBackup, FinalAgents,
         RestoreInspect, RestoreStart, CleanupSession, CleanupInspect, CleanupDelete,
         RollbackInspect, RollbackStop, RollbackAside, RollbackRestore, RollbackRestart,
         RollbackStart, RollbackInspectAside, RollbackRemove, RenameStep
  <2>5. QED
    BY <2>2, <2>3, <2>4 DEF Next, Returned
<1>2. QED
  BY InitOutcome, NextOutcome, <1>1, PTL DEF Spec, FrozenAfterRenameError

---------------------------------------------------------------------------
(* What a step of the invocation does to a VM.                             *)

ForeignKept == \A n \in {Candidate, Backup} : store[n].disk = Foreign => store'[n] = store[n]

ClosedFirst ==
  \A n \in Name : (n \in session /\ n = Candidate /\ store'[n] # store[n]) => halted' # halted

BootAllowed ==
  \A n \in Name :
    (store'[n].status = "Running" /\ store[n].status # "Running"
       /\ store'[n].disk = store[n].disk) =>
      IF store[n].disk = Original /\ old.disk = Original
      THEN old.status = "Running"
      ELSE store[n].mounts = Expected

Guarded == ForeignKept /\ ClosedFirst /\ BootAllowed

LEMMA UnchangedGuarded ==
  ASSUME UNCHANGED store
  PROVE  Guarded
  BY ReplacementAssumption DEF Guarded, ForeignKept, ClosedFirst, BootAllowed

LEMMA QuietUnchanged ==
  ASSUME Quiet
  PROVE  UNCHANGED store
  BY DEF Quiet, PrepInspect, PrepInspectCreated, PrepReinspect, PrepDevelopment, PrepAgents,
         InspectOld, ProbeRename, InspectCandidate, InspectBackup, CloseSession,
         InspectFinal, ProbeFinal, FinalAgents, RestoreInspect, CleanupSession,
         CleanupInspect, RollbackInspect, RollbackRestart, RollbackInspectAside

LEMMA InvocationGuarded ==
  ASSUME OutcomeInv, Invocation
  PROVE  Guarded
<1> USE NamesAndDisks, DisksApart, ReplacementAssumption
    DEF OutcomeInv, IInv, OriginalLocated, TypeOK, Course, Layout, MountsSettled,
        SessionScoped, Untouched, Exists, Holds, Preparing, PreparePC, Over, Checks,
        Beside, Cleanup, Promoted, Restored, AtFinal, AtBackup,
        Guarded, ForeignKept, ClosedFirst, BootAllowed
<1>1. CASE Quiet
  BY <1>1, QuietUnchanged, UnchangedGuarded
<1>2. CASE PrepCreate
  BY <1>2, CreateEffect DEF PrepCreate
<1>3. CASE PrepStart
  BY <1>3, StartEffect DEF PrepStart, OnlyStatus, FilesUnchanged, Absent
<1>4. CASE StartFinal
  BY <1>4, StartEffect DEF StartFinal, OnlyStatus, FilesUnchanged
<1>5. CASE RestoreStart
  BY <1>5, StartEffect DEF RestoreStart, OnlyStatus, FilesUnchanged
<1>6. CASE RollbackStart
  BY <1>6, StartEffect DEF RollbackStart, OnlyStatus, FilesUnchanged
<1>7. CASE StopCandidate
  BY <1>7, StopEffect DEF StopCandidate, OnlyStatus, FilesUnchanged
<1>8. CASE StopOld
  BY <1>8, StopEffect DEF StopOld, OnlyStatus, FilesUnchanged
<1>9. CASE RollbackStop
  BY <1>9, StopEffect DEF RollbackStop, OnlyStatus, FilesUnchanged
<1>10. CASE RenameOld
  BY <1>10, RenameEffect DEF RenameOld, RenameStep
<1>11. CASE Promote
  BY <1>11, RenameEffect DEF Promote, RenameStep
<1>12. CASE RollbackAside
  BY <1>12, RenameEffect DEF RollbackAside, RenameStep
<1>13. CASE RollbackRestore
  BY <1>13, RenameEffect DEF RollbackRestore, RenameStep
<1>14. CASE DeleteBackup
  BY <1>14, DeleteEffect DEF DeleteBackup
<1>15. CASE CleanupDelete
  BY <1>15, DeleteEffect DEF CleanupDelete
<1>16. CASE RollbackRemove
  BY <1>16, DeleteEffect DEF RollbackRemove
<1>17. QED
  BY <1>1, <1>2, <1>3, <1>4, <1>5, <1>6, <1>7, <1>8, <1>9, <1>10, <1>11, <1>12, <1>13,
     <1>14, <1>15, <1>16, InvocationSteps DEF Starting, Stopping, Renaming, Deleting

LEMMA NextGuarded == OutcomeInv /\ [Next]_vars => Guarded
<1> SUFFICES ASSUME OutcomeInv, [Next]_vars PROVE Guarded
  OBVIOUS
<1>1. CASE Invocation
  BY <1>1, InvocationGuarded
<1>2. CASE Killed \/ UNCHANGED vars
  BY <1>2, UnchangedGuarded DEF Killed, vars
<1>3. ASSUME NEW n \in Name, GuestHalts(n)
      PROVE  Guarded
  <2>1. /\ OnlyStatus(n) /\ store[n].status = "Running" /\ store'[n].status # "Running"
    BY <1>3, HaltEffect DEF GuestHalts, OutcomeInv, IInv, TypeOK
  <2>2. halted' # halted
    BY <1>3 DEF GuestHalts
  <2>3. QED
    BY <2>1, <2>2, ReplacementAssumption
       DEF OnlyStatus, OutcomeInv, ForeignStopped, Guarded, ForeignKept, ClosedFirst,
           BootAllowed
<1>4. QED
  BY <1>1, <1>2, <1>3 DEF Next, Returned

(* A VM that had a transaction name before keeps it, untouched.            *)
THEOREM ForeignNeverTouched == Spec => ForeignUntouched
<1>1. OutcomeInv /\ [Next]_vars =>
        [ \A n \in {Candidate, Backup} :
            store[n].disk = Foreign => store'[n] = store[n] ]_vars
  BY NextGuarded DEF Guarded, ForeignKept
<1>2. QED
  BY InitOutcome, NextOutcome, <1>1, PTL DEF Spec, ForeignUntouched

(* closeSession comes before every change of the candidate.                *)
THEOREM SessionAlwaysClosedFirst == Spec => SessionClosedFirst
<1>1. OutcomeInv /\ [Next]_vars =>
        [ \A n \in Name : (n \in session /\ n = Candidate /\ store'[n] # store[n]) =>
            halted' # halted ]_vars
  BY NextGuarded DEF Guarded, ClosedFirst
<1>2. QED
  BY InitOutcome, NextOutcome, <1>1, PTL DEF Spec, SessionClosedFirst

(* A VM boots after its mounts were validated, or to run as it ran.        *)
THEOREM BootsAreValidated == Spec => NoBootUnvalidated
<1>1. OutcomeInv /\ [Next]_vars =>
        [ \A n \in Name :
            (store'[n].status = "Running" /\ store[n].status # "Running"
               /\ store'[n].disk = store[n].disk) =>
              IF store[n].disk = Original /\ old.disk = Original
              THEN old.status = "Running"
              ELSE store[n].mounts = Expected ]_vars
  BY NextGuarded DEF Guarded, BootAllowed
<1>2. QED
  BY InitOutcome, NextOutcome, <1>1, PTL DEF Spec, NoBootUnvalidated

---------------------------------------------------------------------------
(* The refinement.  Abstractly a disk is intact or not, so that most steps *)
(* stutter; the others create or drop the new disk, accept it, or discard  *)
(* the original.                                                           *)
LEMMA FilesIntact ==
  ASSUME FilesUnchanged
  PROVE  IntactDisks' = IntactDisks
  BY FilesKept, NamesAndDisks DEF IntactDisks

LEMMA HeldIntact ==
  \A n \in Name : /\ Holds(n, Original) => Original \in IntactDisks
                  /\ Holds(n, New) => New \in IntactDisks
  BY HeldIsRecoverable, NamesAndDisks DEF IntactDisks

(* A torn or absent directory leaves every other disk as it was. *)
LEMMA OthersIntact ==
  ASSUME NEW n \in Name, NEW d \in Disk, NEW e \in Disk, d # e,
         \A m \in Name \ {n} : store'[m] = store[m],
         store[n].disk \in {NoDisk, e}, store'[n].disk \in {NoDisk, e}
  PROVE  Recoverable(d)' <=> Recoverable(d)
  BY StoreAssumption DEF Recoverable

AbstractStep == Promise!Next \/ UNCHANGED Promise!vars

LEMMA CreateRefines ==
  ASSUME OutcomeInv, PrepCreate
  PROVE  AbstractStep
<1>1. PICK ok \in BOOLEAN :
        Create(target, New, ok) /\ (IF ok THEN Goto("prepInspectCreated") ELSE PrepareFails)
  BY DEF PrepCreate
<1>2. StoreTypeOK /\ target \in Name /\ target' = target /\ ~validated /\ validated' = validated
  BY NamesAndDisks DEF OutcomeInv, IInv, TypeOK, Course, PrepCreate, unchangedByCall, Over
<1>3. AbstractPhase = "preparing" /\ AbstractPhase' \in {"preparing", "over"}
  BY <1>2 DEF AbstractPhase, PrepCreate, Over
<1>4. CASE store' = store
  <2>1. IntactDisks' = IntactDisks
    BY <1>4, FilesIntact DEF FilesUnchanged
  <2>2. QED
    BY <2>1, <1>3 DEF AbstractStep, Promise!Next, Promise!Finish, Promise!vars
<1>5. CASE store' # store
  <2>1. /\ ~Exists(target) /\ Holds(target, New)'
        /\ \A m \in Name : m # target => store'[m] = store[m]
    BY <1>1, <1>2, <1>5, CreateEffect, NamesAndDisks
  <2>2. New \in IntactDisks'
    BY <2>1, <1>2 DEF IntactDisks, Recoverable, Holds
  <2>3. Recoverable(Original)' <=> Recoverable(Original)
    BY <2>1, <1>2, OthersIntact, DisksApart, NamesAndDisks DEF Holds
  <2>4. IntactDisks' = IntactDisks \cup {New}
    BY <2>2, <2>3, DisksApart DEF IntactDisks
  <2>5. QED
    BY <2>4, <1>3 DEF AbstractStep, Promise!Next, Promise!Build
<1>6. QED
  BY <1>4, <1>5

LEMMA RenameRefines ==
  ASSUME OutcomeInv, Renaming
  PROVE  AbstractStep
<1>1. /\ AbstractPhase = "preparing" /\ AbstractPhase' \in {"preparing", "over"}
      /\ StoreTypeOK
  BY DEF AbstractPhase, Renaming, RenameOld, Promote, RollbackAside, RollbackRestore,
         RenameStep, OutcomeInv, IInv, TypeOK, Course, unchangedByCall, Goto, Fail, Over
<1>2. ASSUME NEW from \in Name, NEW to \in Name, NEW third \in Name,
             from # to, from # third, to # third,
             NEW ok \in BOOLEAN, Rename(from, to, ok),
             \/ Holds(from, New) /\ Holds(third, Original)
             \/ Holds(from, Original) /\ Holds(third, New)
      PROVE  IntactDisks = {Original, New} /\ IntactDisks' = {Original, New}
  <2>1. \A d \in Disk : Holds(from, d) => Recoverable(d)'
    BY <1>1, <1>2, RenameKeepsFiles
  <2>2. \A d \in Disk : Holds(third, d) => Recoverable(d)'
    BY <1>1, <1>2, RenameKeepsFiles DEF Holds, Recoverable
  <2>3. QED
    BY <1>2, <2>1, <2>2, HeldIsRecoverable, NamesAndDisks DEF IntactDisks
<1>3. IntactDisks = {Original, New} /\ IntactDisks' = {Original, New}
  <2> USE NamesAndDisks, ReplacementAssumption
      DEF OutcomeInv, IInv, OriginalLocated, Course, Layout, RenameStep,
          Beside, Promoted, Restored, AtFinal, AtBackup
  <2>1. CASE RenameOld
    BY <1>2, <2>1 DEF RenameOld
  <2>2. CASE Promote
    BY <1>2, <2>2 DEF Promote
  <2>3. CASE RollbackAside
    BY <1>2, <2>3 DEF RollbackAside
  <2>4. CASE RollbackRestore
    BY <1>2, <2>4 DEF RollbackRestore
  <2>5. QED
    BY <2>1, <2>2, <2>3, <2>4 DEF Renaming
<1>4. QED
  BY <1>1, <1>3 DEF AbstractStep, Promise!Next, Promise!Finish, Promise!vars

LEMMA DeleteRefines ==
  ASSUME OutcomeInv, Deleting
  PROVE  AbstractStep
<1> USE NamesAndDisks, DisksApart, ReplacementAssumption
    DEF OutcomeInv, IInv, TypeOK, OriginalLocated, Course, Layout,
        Cleanup, Promoted, Restored, AtFinal
<1>1. CASE DeleteBackup
  <2>1. PICK ok \in BOOLEAN : Delete(Backup, ok)
    BY <1>1 DEF DeleteBackup
  <2>2. /\ store'[Backup].disk \in {NoDisk, Original}
        /\ \A m \in Name \ {Backup} : store'[m] = store[m]
    BY <1>1, <2>1, DeleteEffect DEF DeleteBackup, Holds
  <2>3. Holds(Final, New) /\ Holds(Final, New)'
    BY <1>1, <2>2 DEF DeleteBackup, Holds
  <2>4. Holds(Backup, Original)
    BY <1>1 DEF DeleteBackup
  <2>5. IntactDisks = {Original, New} /\ IntactDisks' \in {{New}, {Original, New}}
    BY <2>3, <2>4 DEF IntactDisks, Holds, Recoverable
  <2>6. AbstractPhase = "committed" /\ AbstractPhase' \in {"committed", "over"}
    BY <1>1 DEF DeleteBackup, AbstractPhase, Over, unchangedByCall, Goto, Fail
  <2>7. CASE IntactDisks' = {New}
    BY <2>5, <2>6, <2>7 DEF AbstractStep, Promise!Next, Promise!Discard
  <2>8. CASE IntactDisks' = {Original, New}
    BY <2>5, <2>6, <2>8 DEF AbstractStep, Promise!Next, Promise!Finish, Promise!vars
  <2>9. QED
    BY <2>5, <2>7, <2>8
<1>2. CASE CleanupDelete \/ RollbackRemove
  <2>1. PICK ok \in BOOLEAN : Delete(Candidate, ok)
    BY <1>2 DEF CleanupDelete, RollbackRemove
  <2>2. /\ ~Exists(Candidate) => store' = store
        /\ \A m \in Name \ {Candidate} : store'[m] = store[m]
    BY <2>1, DeleteEffect
  <2>3. /\ Holds(Final, Original)
        /\ Exists(Candidate) => Holds(Candidate, New)
    BY <1>2 DEF CleanupDelete, RollbackRemove
  <2>4. AbstractPhase = "preparing" /\ AbstractPhase' = "over"
    BY <1>2 DEF CleanupDelete, RollbackRemove, AbstractPhase, Over, unchangedByCall, Fail
  <2>5. Recoverable(Original) /\ Recoverable(Original)'
    BY <2>2, <2>3 DEF Holds, Recoverable
  <2>6. CASE ~Exists(Candidate)
    <3>1. IntactDisks' = IntactDisks
      BY <2>2, <2>6, FilesIntact DEF FilesUnchanged
    <3>2. QED
      BY <3>1, <2>4 DEF AbstractStep, Promise!Next, Promise!Finish
  <2>7. CASE Exists(Candidate)
    <3>1. IntactDisks = {Original, New} /\ IntactDisks' \in {{Original}, {Original, New}}
      BY <2>3, <2>5, <2>7, HeldIntact DEF IntactDisks
    <3>2. IntactDisks' = IntactDisks \/ IntactDisks' = IntactDisks \ {New}
      BY <3>1
    <3>3. QED
      BY <3>2, <2>4 DEF AbstractStep, Promise!Next, Promise!Finish, Promise!Drop
  <2>8. QED
    BY <2>6, <2>7
<1>3. QED
  BY <1>1, <1>2 DEF Deleting

(* A step that keeps the files advances the phase, if anything. *)
LEMMA InPlaceRefines ==
  ASSUME OutcomeInv, FilesUnchanged,
         validated' = validated \/ (pc = "probeFinal" /\ validated' /\ ~validated),
         pc \in Over => pc' = pc
  PROVE  AbstractStep
<1>1. IntactDisks' = IntactDisks
  BY FilesIntact
<1>2. CASE pc' \in Over
  BY <1>1, <1>2 DEF AbstractStep, AbstractPhase, Promise!Next, Promise!Finish
<1>3. CASE pc' \notin Over /\ validated' = validated
  BY <1>1, <1>3 DEF AbstractStep, AbstractPhase, Promise!vars
<1>4. CASE pc' \notin Over /\ pc = "probeFinal" /\ validated' /\ ~validated
  <2>1. New \in IntactDisks
    BY <1>4, HeldIntact, NamesAndDisks DEF OutcomeInv, Layout, Promoted
  <2>2. AbstractPhase = "preparing" /\ AbstractPhase' = "committed"
    BY <1>4 DEF AbstractPhase, Over
  <2>3. QED
    BY <1>1, <2>1, <2>2 DEF AbstractStep, Promise!Next, Promise!Commit
<1>5. QED
  BY <1>2, <1>3, <1>4

LEMMA NextRefines == OutcomeInv /\ [Next]_vars => AbstractStep
<1> SUFFICES ASSUME OutcomeInv, [Next]_vars PROVE AbstractStep
  OBVIOUS
<1>1. CASE Quiet
  <2>1. FilesUnchanged
    BY <1>1, QuietUnchanged DEF FilesUnchanged
  <2>2. pc \notin Over
    BY <1>1 DEF Quiet, Over, PrepInspect, PrepInspectCreated, PrepReinspect,
         PrepDevelopment, PrepAgents, InspectOld, ProbeRename, InspectCandidate,
         InspectBackup, CloseSession, InspectFinal, ProbeFinal, FinalAgents,
         RestoreInspect, CleanupSession, CleanupInspect, RollbackInspect,
         RollbackRestart, RollbackInspectAside
  <2>3. CASE ProbeFinal
    BY <2>1, <2>2, <2>3, InPlaceRefines DEF ProbeFinal, OutcomeInv, Course, Over
  <2>4. CASE ~ProbeFinal
    <3>1. validated' = validated
      BY <1>1, <2>4 DEF Quiet, unchangedByCall, PrepInspect, PrepInspectCreated, PrepReinspect,
           PrepDevelopment, PrepAgents, InspectOld, ProbeRename, InspectCandidate,
           InspectBackup, CloseSession, InspectFinal, FinalAgents, RestoreInspect,
           CleanupSession, CleanupInspect, RollbackInspect, RollbackRestart,
           RollbackInspectAside
    <3>2. QED
      BY <2>1, <2>2, <3>1, InPlaceRefines
  <2>5. QED
    BY <2>3, <2>4
<1>2. CASE Starting \/ Stopping
  <2>1. FilesUnchanged
    BY <1>2, StartEffect, StopEffect, NamesAndDisks
       DEF Starting, Stopping, PrepStart, StartFinal, RestoreStart, RollbackStart,
           StopCandidate, StopOld, RollbackStop, OnlyStatus, OutcomeInv, IInv, TypeOK
  <2>2. pc \notin Over /\ validated' = validated
    BY <1>2 DEF Starting, Stopping, PrepStart, StartFinal, RestoreStart, RollbackStart,
           StopCandidate, StopOld, RollbackStop, unchangedByCall, Over
  <2>3. QED
    BY <2>1, <2>2, InPlaceRefines
<1>3. CASE PrepCreate \/ Renaming \/ Deleting
  BY <1>3, CreateRefines, RenameRefines, DeleteRefines
<1>4. CASE Killed
  BY <1>4, InPlaceRefines DEF Killed, FilesUnchanged
<1>5. ASSUME NEW n \in Name, GuestHalts(n)
      PROVE  AbstractStep
  BY <1>5, HaltEffect, InPlaceRefines DEF GuestHalts, OnlyStatus, OutcomeInv, IInv, TypeOK
<1>6. CASE UNCHANGED vars
  BY <1>6, InPlaceRefines DEF vars, FilesUnchanged
<1>7. QED
  BY <1>1, <1>2, <1>3, <1>4, <1>5, <1>6, InvocationSteps DEF Next, Returned

LEMMA InitRefines == Init => Promise!Init
<1> SUFFICES ASSUME Init PROVE Promise!Init
  OBVIOUS
<1>1. \A n \in Name : store[n].disk # New
  BY ReplacementAssumption, DisksApart DEF Init, Absent
<1>2. New \notin IntactDisks
  BY <1>1, StoreAssumption DEF IntactDisks, Recoverable
<1>3. QED
  BY <1>2 DEF Init, IntactDisks, AbstractPhase, Over, Promise!Init

(* Recreation, with every failure, kill and torn rename, implements the    *)
(* promise: the old disk goes only after the new VM was accepted, and the  *)
(* new disk stays from then on.                                            *)
THEOREM KeepsThePromise == Spec => ImplementsSafeReplacement
<1>1. OutcomeInv /\ [Next]_vars => [Promise!Next]_(Promise!vars)
  BY NextRefines DEF AbstractStep
<1>2. QED
  BY InitOutcome, NextOutcome, InitRefines, <1>1, PTL
     DEF Spec, ImplementsSafeReplacement, Promise!Spec

---------------------------------------------------------------------------
(* Beside a lockless command                                               *)

(* An error that does not speak of the backup or of a rename leaves the    *)
(* user's disk whole under its name.                                       *)
FailedKeeps ==
  (pc = "failed" /\ old.disk = Original /\ ~validated /\ report \cap {Backup, "rename"} = {}) =>
    Holds(Final, Original)

(* All that recreation itself guarantees of the user's disk still holds    *)
(* while no lockless command has deleted a part of that disk.              *)
RaceInv == Original \notin doomed => IInv /\ FailedKeeps

LEMMA FailureKeeps ==
  ASSUME IInv, FailedKeeps, [Next]_vars
  PROVE  FailedKeeps'
<1> SUFFICES ASSUME pc' = "failed", old'.disk = Original, ~validated',
                    report' \cap {Backup, "rename"} = {}
             PROVE  Holds(Final, Original)'
  BY DEF FailedKeeps
<1> USE NamesAndDisks DEF IInv, TypeOK, unchangedByCall, Goto, Fail, PrepareFails
<1>1. Absent.disk # Original
  BY StoreAssumption DEF Absent
<1>2. ASSUME FilesUnchanged PROVE Holds(Final, Original)' <=> Holds(Final, Original)
  BY <1>2, FilesKept
<1>3. CASE Preparation
  <2>1. pc \in PreparePC /\ target = Final /\ old' = old
    BY <1>3 DEF Preparation, PrepInspect, StartOrSkip, PrepCreate, PrepInspectCreated,
                PrepStart, PrepReinspect, PrepDevelopment, PrepAgents, PreparePC
  <2> QED
    BY <1>1, <2>1 DEF OriginalLocated
<1>4. CASE InspectOld
  <2>1. FilesUnchanged
    BY <1>4, NoCall DEF InspectOld
  <2> QED
    BY <1>1, <1>2, <1>4, <2>1 DEF InspectOld, OriginalLocated
<1>5. CASE ProbeRename \/ InspectCandidate \/ InspectBackup
  <2>1. FilesUnchanged /\ pc \in AtFinal /\ old' = old
    BY <1>5, NoCall DEF ProbeRename, InspectCandidate, InspectBackup, AtFinal
  <2> QED
    BY <1>2, <2>1 DEF OriginalLocated
<1>6. CASE CloseSession \/ StopCandidate \/ StopOld \/ RestoreInspect \/ RestoreStart
           \/ CleanupSession
  BY <1>6 DEF CloseSession, StopCandidate, StopOld, RestoreInspect, RestoreStart, CleanupSession
<1>7. CASE RenameOld \/ Promote \/ RollbackAside \/ RollbackRestore
  BY <1>7 DEF RenameOld, Promote, RollbackAside, RollbackRestore, RenameStep
<1>8. CASE StartFinal \/ InspectFinal \/ ProbeFinal \/ RollbackInspect \/ RollbackStop
  BY <1>8 DEF StartFinal, InspectFinal, ProbeFinal, RollbackInspect, RollbackStop
<1>9. CASE DeleteBackup \/ FinalAgents
  BY <1>9 DEF DeleteBackup, FinalAgents, OriginalLocated
<1>10. CASE CleanupInspect \/ RollbackRestart \/ RollbackInspectAside
  <2>1. FilesUnchanged /\ pc \in AtFinal /\ old' = old
    BY <1>10, NoCall DEF CleanupInspect, RollbackRestart, RollbackInspectAside, AtFinal
  <2> QED
    BY <1>2, <2>1 DEF OriginalLocated
<1>11. CASE RollbackStart
  <2>1. FilesUnchanged /\ pc \in AtFinal /\ old' = old
    BY <1>11, StartEffect DEF RollbackStart, OnlyStatus, AtFinal
  <2> QED
    BY <1>2, <2>1 DEF OriginalLocated
<1>12. CASE CleanupDelete \/ RollbackRemove
  <2>1. PICK ok \in BOOLEAN : Delete(Candidate, ok)
    BY <1>12 DEF CleanupDelete, RollbackRemove
  <2>2. store'[Final] = store[Final]
    BY <2>1, DeleteStep, ReplacementAssumption
  <2>3. pc \in AtFinal /\ old' = old
    BY <1>12 DEF CleanupDelete, RollbackRemove, AtFinal
  <2> QED
    BY <2>2, <2>3 DEF OriginalLocated, Holds
<1>13. CASE Killed
  BY <1>13 DEF Killed
<1>14. ASSUME NEW n \in Name, GuestHalts(n) PROVE Holds(Final, Original)'
  <2>1. FilesUnchanged /\ UNCHANGED <<pc, old, validated, report>>
    BY <1>14, HaltEffect DEF GuestHalts, OnlyStatus
  <2> QED
    BY <1>2, <2>1 DEF FailedKeeps
<1>15. CASE UNCHANGED vars
  BY <1>15 DEF vars, FailedKeeps, Holds
<1> QED
  BY <1>3, <1>4, <1>5, <1>6, <1>7, <1>8, <1>9, <1>10, <1>11, <1>12, <1>13, <1>14, <1>15
     DEF Next, Invocation, Swap, Recovery, Returned

(* A lockless command creates and moves nothing, and a disk of which it    *)
(* deleted a part is doomed.                                               *)
LEMMA LocklessEffect ==
  ASSUME StoreTypeOK, LocklessStep
  PROVE  /\ StoreTypeOK'
         /\ \A n \in Name : store[n].disk \in doomed' \/
              /\ Exists(n)' <=> Exists(n)
              /\ store'[n].disk = store[n].disk /\ store'[n].parts = store[n].parts
         /\ \A n \in Name : store'[n].disk \in {store[n].disk, NoDisk}
         /\ doomed \subseteq doomed'
         /\ UNCHANGED <<pc, target, old, session, wrappers, validated, halted, report>>
<1>1. /\ doomed \subseteq doomed'
      /\ \A n \in Name : store'[n].parts # store[n].parts => store[n].disk \in doomed'
      /\ UNCHANGED <<pc, target, old, session, wrappers, validated, halted, report>>
  BY DEF LocklessStep
<1>2. CASE UNCHANGED store
  BY <1>1, <1>2, NoCall DEF Exists
<1>3. ASSUME NEW n \in Name, StopNext(n), ~UNCHANGED store
      PROVE  \E ok \in BOOLEAN : Stop(n, ok)
  BY <1>3 DEF StopNext
<1>4. ASSUME NEW n \in Name, NEW ok \in BOOLEAN, Stop(n, ok)
      PROVE  StoreTypeOK' /\ OnlyStatus(n)
  BY <1>4, StopEffect
<1>5. ASSUME NEW n \in Name, DeleteNext(n)
      PROVE  \E ok \in BOOLEAN : Delete(n, ok)
  BY <1>5 DEF DeleteNext
<1>6. ASSUME NEW n \in Name, NEW ok \in BOOLEAN, Delete(n, ok)
      PROVE  /\ StoreTypeOK'
             /\ \A m \in Name : m # n => store'[m] = store[m]
             /\ store'[n].disk \in {store[n].disk, NoDisk}
             /\ store'[n].parts = store[n].parts =>
                  store'[n].disk = store[n].disk /\ (Exists(n)' <=> Exists(n))
  <2>1. StoreTypeOK' /\ \A m \in Name : m # n => store'[m] = store[m]
    BY <1>6, DeleteStep
  <2>2. store'[n].disk \in {store[n].disk, NoDisk} /\ (~Exists(n) => store' = store)
    BY <1>6, DeleteEffect
  <2>3. ASSUME Exists(n), store'[n].parts = store[n].parts
        PROVE  store'[n].disk = store[n].disk /\ Exists(n)'
    <3>1. store[n].parts # {} /\ store'[n].parts # {}
      BY <2>3 DEF StoreTypeOK, Instance, Exists
    <3>2. store'[n] \in Instance
      BY <2>1, <3>1 DEF StoreTypeOK, Absent
    <3> QED
      BY <2>2, <3>1, <3>2, StoreAssumption DEF Instance, Exists, Absent
  <2> QED
    BY <2>1, <2>2, <2>3 DEF Exists
<1>7. UNCHANGED store \/ (\E n \in Name, ok \in BOOLEAN : Stop(n, ok) \/ Delete(n, ok))
  BY <1>3, <1>5
     DEF LocklessStep, Lockless, StopAllBegin, DeleteAllBegin, DeleteBegin, LocklessEnd
<1>8. ASSUME NEW n \in Name, NEW ok \in BOOLEAN, Stop(n, ok) \/ Delete(n, ok)
      PROVE  /\ StoreTypeOK'
             /\ \A m \in Name : store[m].disk \in doomed' \/
                  /\ Exists(m)' <=> Exists(m)
                  /\ store'[m].disk = store[m].disk /\ store'[m].parts = store[m].parts
             /\ \A m \in Name : store'[m].disk \in {store[m].disk, NoDisk}
  <2>1. CASE Stop(n, ok)
    BY <1>4, <2>1 DEF OnlyStatus, FilesUnchanged
  <2>2. CASE Delete(n, ok)
    BY <1>1, <1>6, <2>2 DEF Exists
  <2> QED
    BY <1>8, <2>1, <2>2
<1> QED
  BY <1>1, <1>2, <1>7, <1>8

LEMMA InitRaceInv == RaceInit => RaceInv
BY InitIInv DEF RaceInit, RaceInv, Init, FailedKeeps, Absent

LEMMA RaceStep == RaceInv /\ [RaceNext]_raceVars => RaceInv'
<1> SUFFICES ASSUME RaceInv, [RaceNext]_raceVars, Original \notin doomed'
             PROVE  (IInv /\ FailedKeeps)'
  BY DEF RaceInv
<1>1. CASE InvocationStep
  BY <1>1, NextIInv, FailureKeeps DEF InvocationStep, RaceInv
<1>2. CASE LocklessStep
  <2>1. doomed \subseteq doomed'
    BY <1>2 DEF LocklessStep
  <2>2. IInv /\ FailedKeeps
    BY <2>1 DEF RaceInv
  <2>3. /\ StoreTypeOK'
        /\ UNCHANGED <<pc, target, old, session, wrappers, validated, halted, report>>
    BY <1>2, <2>2, LocklessEffect DEF IInv, TypeOK
  <2>4. \A n \in Name :
          /\ store[n].disk = Original =>
               store'[n].disk = Original /\ store'[n].parts = store[n].parts
          /\ store'[n].disk = Original => store[n].disk = Original
          /\ Exists(n)' => Exists(n)
    <3> SUFFICES ASSUME NEW n \in Name
                 PROVE  /\ store[n].disk = Original =>
                             store'[n].disk = Original /\ store'[n].parts = store[n].parts
                        /\ store'[n].disk = Original => store[n].disk = Original
                        /\ Exists(n)' => Exists(n)
      OBVIOUS
    <3>1. StoreTypeOK
      BY <2>2 DEF IInv, TypeOK
    <3>2. /\ store[n].disk \in doomed' \/
               /\ Exists(n)' <=> Exists(n)
               /\ store'[n].disk = store[n].disk /\ store'[n].parts = store[n].parts
          /\ store'[n].disk \in {store[n].disk, NoDisk}
      BY <1>2, <3>1, LocklessEffect
    <3>3. NoDisk # Original
      BY StoreAssumption, NamesAndDisks
    <3>4. Exists(n)' => Exists(n)
      BY <2>3, <3>1, <3>2, StoreAssumption DEF StoreTypeOK, Instance, Exists, Absent
    <3> QED
      BY <3>2, <3>3, <3>4
  <2>5. /\ \A n \in Name : Holds(n, Original)' <=> Holds(n, Original)
        /\ Recoverable(Original)' <=> Recoverable(Original)
    BY <2>4 DEF Holds, Recoverable
  <2>6. IInv'
    BY <2>2, <2>3, <2>4, <2>5, NamesAndDisks DEF IInv, TypeOK, OriginalLocated
  <2>7. FailedKeeps'
    BY <2>2, <2>3, <2>5, NamesAndDisks DEF FailedKeeps
  <2> QED
    BY <2>6, <2>7
<1>3. CASE UNCHANGED raceVars
  BY <1>3, NextIInv, FailureKeeps DEF raceVars, RaceInv
<1> QED
  BY <1>1, <1>2, <1>3 DEF RaceNext

(* A recreation that races with a lockless command loses the user's disk   *)
(* only to that command: stop --all cannot make it lose anything, and a    *)
(* deletion of the transaction's other VMs cannot either.                  *)
THEOREM RacesLoseOnlyOnRequest == RaceSpec => []OriginalLostOnlyOnRequest
<1>1. RaceInv => OriginalLostOnlyOnRequest
  BY IInvImplies DEF RaceInv, OriginalLostOnlyOnRequest, OriginalRecoverable
<1> QED
  BY InitRaceInv, RaceStep, <1>1, PTL DEF RaceSpec

(* stop --all beside a recreation that fails, without speaking of a backup *)
(* or a rename, leaves the original whole under its own name.              *)
THEOREM StopAllIsHarmless == RaceSpec => []StopAllKeepsOriginal
<1>1. RaceInv => StopAllKeepsOriginal
  BY DEF RaceInv, FailedKeeps, StopAllKeepsOriginal
<1> QED
  BY InitRaceInv, RaceStep, <1>1, PTL DEF RaceSpec
=============================================================================

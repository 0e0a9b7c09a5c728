----------------------------- MODULE LimaStore -----------------------------
(***************************************************************************)
(* The instance directories that limactl keeps, as LJA sees and uses them. *)
(* LJA never touches a VM except by calling limactl, so each operator that *)
(* changes the store is one limactl call with what it may leave behind     *)
(* when it fails.  The code relies on three facts about limactl:           *)
(*   - a rename moves the files of an instance one by one, and one that    *)
(*     fails may leave some of them on each side (recreate.go, rename);    *)
(*   - a call addresses a VM by its name only, whatever the name denotes   *)
(*     by then;                                                            *)
(*   - any call may fail, and after a failure nothing is known of the      *)
(*     status.                                                             *)
(***************************************************************************)
EXTENDS FiniteSets

CONSTANTS
  Name,     \* the names that instances can have
  Disk,     \* the guest disks that ever exist: what the user can lose
  Part,     \* the files of an instance directory
  MountSet, \* the sets of host directories a VM can have mounted
  NoDisk    \* the disk of a name that no instance has

ASSUME StoreAssumption ==
  /\ Part # {}
  /\ NoDisk \notin Disk

VARIABLE store   \* name -> what `limactl list` reports under it

Status == {"Uninitialized", "Installing", "Broken", "Stopped", "Running"}

Instance ==
  [disk: Disk, parts: (SUBSET Part) \ {{}}, status: Status, mounts: MountSet]

Absent == [disk |-> NoDisk, parts |-> {}, status |-> "Absent", mounts |-> NoDisk]

StoreTypeOK == store \in [Name -> Instance \cup {Absent}]

---------------------------------------------------------------------------
Exists(n) == store[n] # Absent

(* All the files of disk d are together under the name n. *)
Holds(n, d) == store[n].disk = d /\ store[n].parts = Part

(* Every file of d still exists, under one name or spread over several:    *)
(* what an operator needs to put the VM together again by hand.            *)
Recoverable(d) == \A p \in Part : \E n \in Name : store[n].disk = d /\ p \in store[n].parts

(* A step that moves and deletes nothing. *)
FilesUnchanged ==
  \A n \in Name : store'[n].disk = store[n].disk /\ store'[n].parts = store[n].parts

(* ValidateProjectMount accepts the instance under n: its mounts are       *)
(* exactly the project and the selected state root, writable and at the    *)
(* same paths.                                                             *)
MountsValidated(n, expected) == Exists(n) /\ store[n].mounts = expected

ReadyForGuest(n, expected) == MountsValidated(n, expected) /\ store[n].status = "Running"

---------------------------------------------------------------------------
(* `limactl create --name n`.  The new VM is stopped; whether its mounts   *)
(* are the requested ones is left open, since LJA validates them.          *)
Create(n, d, ok) ==
  IF Exists(n)
  THEN ~ok /\ UNCHANGED store
  ELSE \/ /\ \E st \in (IF ok THEN {"Stopped"} ELSE Status \ {"Running"}), m \in MountSet :
               store' = [store EXCEPT ![n] =
                           [disk |-> d, parts |-> Part, status |-> st, mounts |-> m]]
       \/ ~ok /\ UNCHANGED store

SetStatus(n, statuses) ==
  \E st \in statuses : store' = [store EXCEPT ![n].status = st]

(* `limactl start n`: a torn directory never boots. *)
Start(n, ok) ==
  IF Exists(n)
  THEN /\ ok => store[n].parts = Part
       /\ SetStatus(n, IF ok THEN {"Running"}
                       ELSE {store[n].status, "Stopped", "Broken"})
  ELSE ~ok /\ UNCHANGED store

(* `limactl stop n`: refused for an instance that is not running. *)
Stop(n, ok) ==
  IF Exists(n)
  THEN /\ ok => store[n].status = "Running"
       /\ SetStatus(n, IF ok THEN {"Stopped"}
                       ELSE {store[n].status, "Stopped", "Broken"})
  ELSE ~ok /\ UNCHANGED store

(* The directory of an instance when only the files `parts` are in it. *)
Directory(instance, parts) ==
  IF parts = {} THEN Absent
  ELSE IF parts = Part THEN instance
  ELSE [instance EXCEPT !.parts = parts, !.status = "Broken"]

(* `limactl rename from to`: refused when the target exists or the source  *)
(* is absent, running or torn; a failure under way leaves some of the      *)
(* files on either side.                                                   *)
Rename(from, to, ok) ==
  LET movable == /\ Exists(from) /\ store[from].parts = Part
                 /\ store[from].status # "Running" /\ ~Exists(to)
      \* `left` stays under the old name and the rest is under the new one
      Moved(left) == [store EXCEPT ![from] = Directory(store[from], left),
                                   ![to] = Directory(store[from], Part \ left)]
  IN IF movable
     THEN \E left \in SUBSET Part : (ok => left = {}) /\ store' = Moved(left)
     ELSE ~ok /\ UNCHANGED store

(* `limactl delete -f n`: a failure may have removed some of the files;    *)
(* deleting an absent instance succeeds.                                   *)
Delete(n, ok) ==
  IF Exists(n)
  THEN \E left \in SUBSET store[n].parts :
         /\ ok => left = {}
         /\ store' = [store EXCEPT ![n] = Directory(store[n], left)]
  ELSE ok /\ UNCHANGED store

(* A running guest goes down by itself: a shutdown inside it, a crash of   *)
(* the hypervisor.                                                         *)
Halt(n) ==
  /\ store[n].status = "Running"
  /\ SetStatus(n, {"Stopped", "Broken"})
=============================================================================

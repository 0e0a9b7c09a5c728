--------------------------- MODULE LifecycleProofs ---------------------------
(***************************************************************************)
(* For any number of processes, state roots and temporary directories: the *)
(* project lock excludes, and what a guest is used for was validated.      *)
(***************************************************************************)
EXTENDS Lifecycle, TLAPS, WellFoundedInduction, SequenceTheorems

(* The least-number principle, for the first usable candidate.             *)
LEMMA LeastElement ==
  ASSUME NEW S \in SUBSET Nat, S # {}
  PROVE  \E k \in S : \A l \in S : k <= l
<1> DEFINE R == {ss \in Nat \X Nat : ss[1] < ss[2]}
<1>1. IsWellFoundedOn(R, Nat)
  BY NatLessThanWellFounded, Zenon DEF OpToRel
<1> HIDE DEF R
<1>2. PICK k \in S : \A l \in S : ~ (<<l, k>> \in R)
  BY <1>1, WFMin
<1>3. ASSUME NEW l \in S PROVE k <= l
  <2>1. k \in Nat /\ l \in Nat
    OBVIOUS
  <2>2. l < k => <<l, k>> \in R
    BY <2>1 DEF R
  <2>3. QED
    BY <1>2, <2>1, <2>2
<1>4. QED
  BY <1>3

(* defaultLockDirectory returns a candidate that no mount contains.        *)
LEMMA ChosenDirectory ==
  ASSUME NEW candidates \in Seq(LockFile), NEW mounts,
         DefaultLockDirectory(candidates, mounts) # NoDirectory
  PROVE  /\ DefaultLockDirectory(candidates, mounts) \in LockFile
         /\ OutsideMounts(DefaultLockDirectory(candidates, mounts), mounts)
<1> DEFINE usable == {k \in 1..Len(candidates) : OutsideMounts(candidates[k], mounts)}
           First(k) == k \in usable /\ \A l \in usable : k <= l
<1>1. usable # {} /\ usable \in SUBSET Nat
  BY DEF DefaultLockDirectory
<1>2. \E k \in usable : \A l \in usable : k <= l
  BY <1>1, LeastElement
<1>3. DefaultLockDirectory(candidates, mounts)
        = candidates[CHOOSE k \in usable : \A l \in usable : k <= l]
  BY <1>1 DEF DefaultLockDirectory
<1>4. (CHOOSE k \in usable : \A l \in usable : k <= l) \in usable
  BY <1>2
<1>5. QED
  BY <1>3, <1>4, ElementOfSeq

Candidates(t) == <<t>> \o Fallbacks

LEMMA CandidatesType ==
  ASSUME NEW t \in Temporary
  PROVE  Candidates(t) \in Seq(LockFile)
  BY LifecycleAssumption, ConcatProperties DEF Candidates

---------------------------------------------------------------------------
(* A lock file that was chosen was chosen for this invocation's mounts; it *)
(* is held throughout the section, and by nobody else.                     *)
LockChosen ==
  \A i \in Invocation :
    /\ lock[i] # NoDirectory =>
         \E t \in Temporary : lock[i] = DefaultLockDirectory(Candidates(t), wanted[i])
    /\ pc[i] \in {"wait"} \cup Section => lock[i] # NoDirectory

LockKept ==
  /\ \A i \in Invocation : pc[i] \in Section => i \in holder[lock[i]]
  /\ \A f \in LockFile : \A i, j \in holder[f] : i = j

IInv == TypeOK /\ LockChosen /\ LockKept

(* The hypothesis of mutual exclusion: the processes' TMPDIR and mounts    *)
(* lead them to one lock file.  The run lock_directory shows what happens  *)
(* when they do not.                                                       *)
OneLockFile ==
  \A s, t \in Temporary, m, n \in MountSet :
    DefaultLockDirectory(Candidates(s), m) = DefaultLockDirectory(Candidates(t), n)

(* No guest of this invocation's VM can reach the lock file.               *)
LockOutOfReach ==
  \A i \in Invocation : lock[i] # NoDirectory => OutsideMounts(lock[i], wanted[i])

LEMMA ChosenIsOutside == IInv => LockOutOfReach
<1> SUFFICES ASSUME IInv, NEW i \in Invocation, lock[i] # NoDirectory
             PROVE  OutsideMounts(lock[i], wanted[i])
  BY DEF LockOutOfReach
<1>1. PICK t \in Temporary : lock[i] = DefaultLockDirectory(Candidates(t), wanted[i])
  BY DEF IInv, LockChosen
<1>2. QED
  BY <1>1, CandidatesType, ChosenDirectory

LEMMA OneHolder == OneLockFile /\ IInv => MutualExclusion
<1> SUFFICES ASSUME OneLockFile, IInv, NEW i \in Invocation, NEW j \in Invocation,
                    pc[i] \in Section, pc[j] \in Section
             PROVE  i = j
  BY DEF MutualExclusion, InSection
<1>1. lock[i] # NoDirectory /\ lock[j] # NoDirectory
  BY DEF IInv, LockChosen
<1>2. PICK s \in Temporary : lock[i] = DefaultLockDirectory(Candidates(s), wanted[i])
  BY <1>1 DEF IInv, LockChosen
<1>3. PICK t \in Temporary : lock[j] = DefaultLockDirectory(Candidates(t), wanted[j])
  BY <1>1 DEF IInv, LockChosen
<1>4. lock[i] = lock[j]
  BY <1>2, <1>3 DEF OneLockFile, IInv, TypeOK
<1>5. lock[i] \in LockFile
  BY <1>1 DEF IInv, TypeOK
<1>6. QED
  BY <1>4, <1>5 DEF IInv, LockKept

---------------------------------------------------------------------------
LEMMA NoListing == <<>> \in UNION {[names -> Status] : names \in SUBSET Name}
  OBVIOUS

LEMMA InitIInv == Init => IInv
<1> SUFFICES ASSUME Init PROVE IInv
  OBVIOUS
<1>1. StoreTypeOK
  BY DEF Init, StoreTypeOK
<1>2. LocklessTypeOK /\ LockTypeOK
  BY NoListing DEF Init, LocklessInit, LockInit, LocklessTypeOK, LockTypeOK
<1>3. QED
  BY <1>1, <1>2 DEF Init, LockInit, IInv, TypeOK, LockChosen, LockKept, Section, GuestWork

(* What the steps of an invocation do to pc, whatever they call.           *)
LEMMA GotoType ==
  ASSUME TypeOK, NEW i \in Invocation,
         NEW next \in {"idle", "wait", "interactive", "over"} \cup Section, Goto(i, next)
  PROVE  /\ pc' \in [Invocation -> {"idle", "wait", "interactive", "over"} \cup Section]
         /\ pc'[i] = next
         /\ \A j \in Invocation : j # i => pc'[j] = pc[j]
  BY DEF TypeOK, Goto

(* The steps between two calls of the section.                             *)
InSectionStep(i) ==
  \/ PrepInspect(i) \/ PrepCreate(i) \/ PrepInspectCreated(i) \/ PrepStart(i)
  \/ PrepReinspect(i) \/ PrepDevelopment(i) \/ PrepAgents(i)
  \/ CreateInspect(i) \/ CreateStart(i) \/ CreateReinspect(i) \/ CreateAgents(i)
  \/ StopInspect(i) \/ StopCall(i)

LEMMA SectionControl ==
  ASSUME TypeOK, NEW i \in Invocation, InSectionStep(i)
  PROVE  /\ pc[i] \in Section
         /\ \E next \in Section : Goto(i, next)
         /\ UNCHANGED <<kind, wanted, lock, command, listing, holder>>
<1> USE DEF At, Fails, Succeeds, StartOrSkip, Section, GuestWork
<1>1. CASE PrepInspect(i)
  BY <1>1 DEF PrepInspect
<1>2. CASE PrepCreate(i)
  BY <1>2 DEF PrepCreate
<1>3. CASE PrepInspectCreated(i)
  BY <1>3 DEF PrepInspectCreated
<1>4. CASE PrepStart(i)
  BY <1>4 DEF PrepStart
<1>5. CASE PrepReinspect(i) \/ PrepDevelopment(i) \/ PrepAgents(i)
  BY <1>5 DEF PrepReinspect, PrepDevelopment, PrepAgents
<1>6. CASE CreateInspect(i)
  BY <1>6 DEF CreateInspect
<1>7. CASE CreateStart(i) \/ CreateReinspect(i) \/ CreateAgents(i)
  BY <1>7 DEF CreateStart, CreateReinspect, CreateAgents
<1>8. CASE StopInspect(i)
  BY <1>8 DEF StopInspect
<1>9. CASE StopCall(i)
  BY <1>9 DEF StopCall
<1>10. QED
  BY <1>1, <1>2, <1>3, <1>4, <1>5, <1>6, <1>7, <1>8, <1>9 DEF InSectionStep

(* What a step of anybody does to the VM: only a creation changes its      *)
(* mounts, only a start boots it.                                          *)
KeepsMounts == Exists(Vm)' => Exists(Vm) /\ store'[Vm].mounts = store[Vm].mounts

BootsNothing == store'[Vm].status = "Running" => store[Vm].status = "Running"

LEMMA QuietStore ==
  ASSUME UNCHANGED store
  PROVE  (StoreTypeOK => StoreTypeOK') /\ KeepsMounts /\ BootsNothing
  BY DEF StoreTypeOK, KeepsMounts, BootsNothing, Exists

(* The calls of limactl that a command makes beside the creation.          *)
LEMMA CreateBootsNothing ==
  ASSUME StoreTypeOK, NEW d \in Disk, NEW ok \in BOOLEAN, Create(Vm, d, ok), Vm \in Name
  PROVE  StoreTypeOK' /\ BootsNothing
<1>1. CASE UNCHANGED store
  BY <1>1, QuietStore
<1>2. ASSUME NEW st \in Status \ {"Running"}, NEW m \in MountSet,
             store' = [store EXCEPT ![Vm] =
                         [disk |-> d, parts |-> Part, status |-> st, mounts |-> m]]
      PROVE  StoreTypeOK' /\ BootsNothing
  <2>1. [disk |-> d, parts |-> Part, status |-> st, mounts |-> m] \in Instance
    BY StoreAssumption DEF Instance
  <2>2. QED
    BY <1>2, <2>1 DEF StoreTypeOK, BootsNothing
<1>3. (IF ok THEN {"Stopped"} ELSE Status \ {"Running"}) \in SUBSET (Status \ {"Running"})
  BY DEF Status
<1>4. QED
  BY <1>1, <1>2, <1>3 DEF Create

LEMMA StatusKeepsMounts ==
  ASSUME StoreTypeOK, Vm \in Name, NEW n \in Name, Exists(n),
         NEW statuses \in SUBSET Status, SetStatus(n, statuses)
  PROVE  /\ StoreTypeOK' /\ KeepsMounts
         /\ statuses \subseteq {store[n].status, "Stopped", "Broken"} => BootsNothing
<1>1. PICK st \in statuses : store' = [store EXCEPT ![n].status = st]
  BY DEF SetStatus
<1>2. store[n] \in Instance /\ [store[n] EXCEPT !.status = st] \in Instance
  BY DEF StoreTypeOK, Exists, Instance
<1>3. StoreTypeOK'
  BY <1>1, <1>2 DEF StoreTypeOK
<1>4. store'[Vm].mounts = store[Vm].mounts
  BY <1>1, <1>2 DEF StoreTypeOK, Instance
<1>5. Exists(Vm)' => Exists(Vm)
  BY <1>1 DEF StoreTypeOK, Exists
<1>6. statuses \subseteq {store[n].status, "Stopped", "Broken"} => BootsNothing
  BY <1>1, <1>2 DEF StoreTypeOK, Instance, BootsNothing
<1>7. QED
  BY <1>3, <1>4, <1>5, <1>6 DEF KeepsMounts

LEMMA StopKeeps ==
  ASSUME StoreTypeOK, Vm \in Name, NEW n \in Name, NEW ok \in BOOLEAN, Stop(n, ok)
  PROVE  StoreTypeOK' /\ KeepsMounts /\ BootsNothing
<1>1. CASE ~Exists(n)
  BY <1>1, QuietStore DEF Stop
<1>2. CASE Exists(n)
  <2> DEFINE statuses == IF ok THEN {"Stopped"} ELSE {store[n].status, "Stopped", "Broken"}
  <2>1. statuses \in SUBSET Status /\ SetStatus(n, statuses)
    BY <1>2 DEF Stop, StoreTypeOK, Exists, Instance, Status
  <2>2. statuses \subseteq {store[n].status, "Stopped", "Broken"}
    OBVIOUS
  <2> HIDE DEF statuses
  <2>3. QED
    BY <1>2, <2>1, <2>2, StatusKeepsMounts
<1>3. QED
  BY <1>1, <1>2

LEMMA StartKeepsMounts ==
  ASSUME StoreTypeOK, Vm \in Name, NEW ok \in BOOLEAN, Start(Vm, ok)
  PROVE  StoreTypeOK' /\ KeepsMounts
<1>1. CASE ~Exists(Vm)
  BY <1>1, QuietStore DEF Start
<1>2. CASE Exists(Vm)
  <2> DEFINE statuses == IF ok THEN {"Running"} ELSE {store[Vm].status, "Stopped", "Broken"}
  <2>1. statuses \in SUBSET Status /\ SetStatus(Vm, statuses)
    BY <1>2 DEF Start, StoreTypeOK, Exists, Instance, Status
  <2> HIDE DEF statuses
  <2>2. QED
    BY <1>2, <2>1, StatusKeepsMounts
<1>3. QED
  BY <1>1, <1>2

LEMMA DeleteKeeps ==
  ASSUME StoreTypeOK, Vm \in Name, NEW n \in Name, NEW ok \in BOOLEAN, Delete(n, ok)
  PROVE  StoreTypeOK' /\ KeepsMounts /\ BootsNothing
<1>1. CASE ~Exists(n)
  BY <1>1, QuietStore DEF Delete
<1>2. CASE Exists(n)
  <2>1. store[n] \in Instance
    BY <1>2 DEF StoreTypeOK, Exists
  <2>2. PICK left \in SUBSET store[n].parts :
          store' = [store EXCEPT ![n] = Directory(store[n], left)]
    BY <1>2 DEF Delete
  <2> DEFINE d == Directory(store[n], left)
  <2>3. /\ d \in Instance \cup {Absent}
        /\ d # Absent => d.mounts = store[n].mounts
        /\ d.status = "Running" => store[n].status = "Running"
    BY <2>1 DEF Directory, Absent, Instance, Status
  <2> HIDE DEF d
  <2>4. store'[n] = d /\ \A m \in Name \ {n} : store'[m] = store[m]
    BY <2>2 DEF StoreTypeOK, d
  <2>5. StoreTypeOK'
    BY <2>2, <2>3 DEF StoreTypeOK, d
  <2>6. QED
    BY <1>2, <2>3, <2>4, <2>5 DEF KeepsMounts, BootsNothing, Exists
<1>3. QED
  BY <1>1, <1>2

LEMMA SectionStore ==
  ASSUME TypeOK, NEW i \in Invocation, InSectionStep(i)
  PROVE  /\ StoreTypeOK'
         /\ pc[i] # "prepCreate" => KeepsMounts
         /\ pc[i] \notin {"prepStart", "createStart"} => BootsNothing
<1> USE LifecycleAssumption DEF TypeOK, At
<1>1. CASE UNCHANGED store
  BY <1>1, QuietStore
<1>2. CASE PrepCreate(i)
  <2>1. PICK ok \in BOOLEAN : Create(Vm, i, ok)
    BY <1>2 DEF PrepCreate
  <2>2. StoreTypeOK' /\ BootsNothing
    BY <2>1, CreateBootsNothing
  <2>3. QED
    BY <1>2, <2>2 DEF PrepCreate
<1>3. CASE PrepStart(i) \/ CreateStart(i)
  <2>1. PICK ok \in BOOLEAN : Start(Vm, ok)
    BY <1>3 DEF PrepStart, CreateStart
  <2>2. StoreTypeOK' /\ KeepsMounts
    BY <2>1, StartKeepsMounts
  <2>3. QED
    BY <1>3, <2>2 DEF PrepStart, CreateStart
<1>4. CASE StopCall(i)
  BY <1>4, StopKeeps DEF StopCall
<1>5. QED
  BY <1>1, <1>2, <1>3, <1>4
     DEF InSectionStep, PrepInspect, PrepInspectCreated, PrepReinspect, PrepDevelopment,
         PrepAgents, CreateInspect, CreateReinspect, CreateAgents, StopInspect

LEMMA LocklessStore ==
  ASSUME TypeOK, Lockless(Vm)
  PROVE  StoreTypeOK' /\ KeepsMounts /\ BootsNothing
<1> USE LifecycleAssumption DEF TypeOK
<1>1. CASE UNCHANGED store
  BY <1>1, QuietStore
<1>2. ASSUME NEW n \in Name, NEW ok \in BOOLEAN, Stop(n, ok)
      PROVE  StoreTypeOK' /\ KeepsMounts /\ BootsNothing
  BY <1>2, StopKeeps
<1>3. ASSUME NEW n \in Name, NEW ok \in BOOLEAN, Delete(n, ok)
      PROVE  StoreTypeOK' /\ KeepsMounts /\ BootsNothing
  BY <1>3, DeleteKeeps
<1>4. QED
  BY <1>1, <1>2, <1>3
     DEF Lockless, StopAllBegin, DeleteAllBegin, DeleteBegin, StopNext, DeleteNext, LocklessEnd

LEMMA ListedType ==
  ASSUME StoreTypeOK, NEW names \in SUBSET Name
  PROVE  Listed(names) \in UNION {[m -> Status] : m \in SUBSET Name}
<1> DEFINE there == {m \in names : Exists(m)}
<1>1. Listed(names) \in [there -> Status]
  BY DEF Listed, StoreTypeOK, Exists, Instance
<1>2. QED
  BY <1>1

LEMMA RestrictedType ==
  ASSUME listing \in UNION {[m -> Status] : m \in SUBSET Name}, NEW n
  PROVE  Restrict(listing, DOMAIN listing \ {n}) \in UNION {[m -> Status] : m \in SUBSET Name}
<1>1. PICK names \in SUBSET Name : listing \in [names -> Status]
  OBVIOUS
<1>2. Restrict(listing, DOMAIN listing \ {n}) \in [names \ {n} -> Status]
  BY <1>1 DEF Restrict
<1>3. QED
  BY <1>2

LEMMA LocklessType ==
  ASSUME TypeOK, Lockless(Vm)
  PROVE  LocklessTypeOK'
<1> DEFINE Listings == UNION {[m -> Status] : m \in SUBSET Name}
<1>a. StoreTypeOK /\ listing \in Listings /\ command \in {"none", "over"} \cup Commands
  BY DEF TypeOK, LocklessTypeOK
<1>b. /\ <<>> \in Listings
      /\ \A names \in SUBSET Name : Listed(names) \in Listings
      /\ \A n : Restrict(listing, DOMAIN listing \ {n}) \in Listings
  BY <1>a, NoListing, ListedType, RestrictedType
<1> HIDE DEF Listings
<1>1. ASSUME NEW c \in {"none", "over"} \cup Commands, NEW l \in Listings, Run(c, l)
      PROVE  LocklessTypeOK'
  BY <1>1 DEF LocklessTypeOK, Run, Listings
<1>2. CASE StopAllBegin
  BY <1>2, <1>b, <1>1 DEF StopAllBegin
<1>3. CASE DeleteAllBegin
  BY <1>3, <1>b, <1>1 DEF DeleteAllBegin
<1>4. CASE DeleteBegin(Vm)
  <2>1. Listed({Vm}) \in Listings
    BY <1>b, LifecycleAssumption
  <2>2. QED
    BY <1>4, <1>b, <2>1, <1>1 DEF DeleteBegin
<1>5. ASSUME NEW n \in Name, StopNext(n)
      PROVE  LocklessTypeOK'
  BY <1>5, <1>a, <1>b, <1>1 DEF StopNext
<1>6. ASSUME NEW n \in Name, DeleteNext(n)
      PROVE  LocklessTypeOK'
  BY <1>6, <1>a, <1>b, <1>1 DEF DeleteNext
<1>7. CASE LocklessEnd
  BY <1>7, <1>b, <1>1 DEF LocklessEnd
<1>8. QED
  BY <1>2, <1>3, <1>4, <1>5, <1>6, <1>7 DEF Lockless

---------------------------------------------------------------------------
LEMMA NextIInv == IInv /\ [Next]_lifecycleVars => IInv'
<1> SUFFICES ASSUME IInv, [Next]_lifecycleVars PROVE IInv'
  OBVIOUS
<1>a. TypeOK /\ LockChosen /\ LockKept
  BY DEF IInv
<1>1. ASSUME NEW i \in Invocation, Begin(i) PROVE IInv'
  <2>1. PICK t \in Temporary :
          LET d == DefaultLockDirectory(Candidates(t), wanted[i])
          IN /\ lock' = [lock EXCEPT ![i] = d]
             /\ Goto(i, IF d = NoDirectory THEN "over" ELSE "wait")
    BY <1>1 DEF Begin, Candidates
  <2>2. DefaultLockDirectory(Candidates(t), wanted[i]) \in LockFile \cup {NoDirectory}
    BY CandidatesType, ChosenDirectory
  <2>3. TypeOK'
    BY <1>1, <1>a, <2>1, <2>2, QuietStore
       DEF Begin, TypeOK, Goto, LocklessTypeOK, LockTypeOK
  <2>4. LockChosen'
    BY <1>1, <1>a, <2>1, <2>2 DEF Begin, TypeOK, Goto, LockChosen, Section, GuestWork
  <2>5. LockKept'
    BY <1>1, <1>a, <2>1 DEF Begin, TypeOK, Goto, LockKept, Section, GuestWork
  <2>6. QED
    BY <2>3, <2>4, <2>5 DEF IInv
<1>2. ASSUME NEW i \in Invocation, Enter(i) PROVE IInv'
  <2>1. PICK next \in Section : Goto(i, next)
    BY <1>2, <1>a DEF Enter, TypeOK, Kinds, Section
  <2>2. lock[i] \in LockFile
    BY <1>2, <1>a DEF Enter, At, TypeOK, LockChosen
  <2>3. TypeOK'
    BY <1>2, <1>a, <2>1, <2>2, QuietStore, GotoType
       DEF Enter, At, Acquire, TypeOK, LocklessTypeOK, LockTypeOK
  <2>4. LockChosen'
    BY <1>2, <1>a, <2>1 DEF Enter, At, TypeOK, Goto, LockChosen
  <2>5. LockKept'
    BY <1>2, <1>a, <2>1, <2>2 DEF Enter, At, Acquire, TypeOK, LockTypeOK, Goto, LockKept
  <2>6. QED
    BY <2>3, <2>4, <2>5 DEF IInv
<1>3. ASSUME NEW i \in Invocation, Leave(i) PROVE IInv'
  <2>1. PICK next \in {"over", "interactive"} : Goto(i, next)
    BY <1>3 DEF Leave
  <2>2. pc[i] \in Section /\ lock[i] \in LockFile
    BY <1>3, <1>a DEF Leave, At, TypeOK, LockChosen, Section
  <2>3. TypeOK'
    BY <1>3, <1>a, <2>1, <2>2, QuietStore, GotoType
       DEF Leave, At, Release, TypeOK, LocklessTypeOK, LockTypeOK
  <2>4. LockChosen'
    BY <1>3, <1>a, <2>1 DEF Leave, At, TypeOK, Goto, LockChosen, Section, GuestWork
  <2>5. LockKept'
    BY <1>3, <1>a, <2>1, <2>2
       DEF Leave, At, Release, TypeOK, LockTypeOK, Goto, LockKept, Section, GuestWork
  <2>6. QED
    BY <2>3, <2>4, <2>5 DEF IInv
<1>4. ASSUME NEW i \in Invocation, InSectionStep(i) PROVE IInv'
  <2>1. /\ pc[i] \in Section
        /\ UNCHANGED <<kind, wanted, lock, command, listing, holder>>
    BY <1>4, <1>a, SectionControl
  <2>2. PICK next \in Section : Goto(i, next)
    BY <1>4, <1>a, SectionControl
  <2>3. TypeOK'
    BY <1>4, <1>a, <2>1, <2>2, SectionStore, GotoType DEF TypeOK, LocklessTypeOK, LockTypeOK
  <2>4. LockChosen' /\ LockKept'
    BY <1>a, <2>1, <2>2 DEF TypeOK, Goto, LockChosen, LockKept
  <2>5. QED
    BY <2>3, <2>4 DEF IInv
<1>5. ASSUME NEW i \in Invocation, InteractiveEnds(i) \/ Killed(i) PROVE IInv'
  <2>1. /\ Goto(i, "over")
        /\ UNCHANGED <<store, kind, wanted, lock, command, listing>>
        /\ holder' = holder \/ holder' = [f \in LockFile |-> holder[f] \ {i}]
    BY <1>5 DEF InteractiveEnds, Killed, At, ReleaseAll
  <2>2. TypeOK'
    BY <1>a, <2>1, QuietStore, GotoType DEF TypeOK, LocklessTypeOK, LockTypeOK
  <2>3. LockChosen'
    BY <1>a, <2>1 DEF TypeOK, Goto, LockChosen, Section, GuestWork
  <2>4. LockKept'
    BY <1>a, <2>1 DEF TypeOK, LockTypeOK, Goto, LockChosen, LockKept, Section, GuestWork
  <2>5. QED
    BY <2>2, <2>3, <2>4 DEF IInv
<1>6. CASE LocklessStep
  BY <1>6, <1>a, LocklessStore, LocklessType
     DEF LocklessStep, IInv, TypeOK, LockTypeOK, LockChosen, LockKept
<1>7. CASE UNCHANGED lifecycleVars
  BY <1>7, <1>a
     DEF lifecycleVars, IInv, TypeOK, StoreTypeOK, LocklessTypeOK, LockTypeOK, LockChosen, LockKept
<1>8. QED
  BY <1>1, <1>2, <1>3, <1>4, <1>5, <1>6, <1>7 DEF Next, Advance, InSectionStep, AllOver

(* The variables keep their types.                                         *)
THEOREM TypeCorrect == Spec => []TypeOK
<1>1. IInv => TypeOK
  BY DEF IInv
<1>2. QED
  BY InitIInv, NextIInv, <1>1, PTL DEF Spec

(* defaultLockDirectory keeps the lock file out of every mount of the VM   *)
(* that the invocation asks for.                                           *)
THEOREM LockStaysOutside == Spec => []LockOutOfReach
  BY InitIInv, NextIInv, ChosenIsOutside, PTL DEF Spec

(* Processes that agree on the lock file are never together in the locked  *)
(* part, however many there are and whenever they are killed.              *)
THEOREM LockExcludes == OneLockFile => (Spec => []MutualExclusion)
<1> SUFFICES ASSUME OneLockFile PROVE Spec => []MutualExclusion
  OBVIOUS
<1>1. IInv => MutualExclusion
  BY OneHolder
<1>2. QED
  BY InitIInv, NextIInv, <1>1, PTL DEF Spec

---------------------------------------------------------------------------
(* From the check of the mounts to the end of the preparation the VM has   *)
(* the mounts that its invocation expects, unless it is deleted: nobody    *)
(* else creates one under this name, and only a creation changes mounts.   *)
Checked == GuestWork \cup {"prepStart", "createStart", "createReinspect"}

MountsChecked ==
  \A i \in Invocation :
    pc[i] \in Checked /\ Exists(Vm) => store[Vm].mounts = wanted[i]

CheckedInv == IInv /\ MountsChecked

LEMMA InitChecked == Init => CheckedInv
  BY InitIInv DEF CheckedInv, Init, MountsChecked, Checked, GuestWork

(* A step of one invocation leaves those outside the section where they    *)
(* are, and no other is inside it.                                         *)
LEMMA OwnCheck ==
  ASSUME CheckedInv, NEW i \in Invocation, InSectionStep(i)
  PROVE  pc'[i] \in Checked /\ Exists(Vm)' => store'[Vm].mounts = wanted'[i]
<1> USE DEF CheckedInv, IInv, MountsChecked, Checked, GuestWork, At, Goto, Fails, Succeeds,
            StartOrSkip, MountsValidated, ReadyForGuest, Exists
<1>1. pc \in [Invocation -> {"idle", "wait", "interactive", "over"} \cup Section]
  BY DEF TypeOK
<1>2. pc[i] # "prepCreate" => KeepsMounts
  BY SectionStore
<1>3. CASE PrepInspect(i)
  BY <1>1, <1>3 DEF PrepInspect
<1>4. CASE PrepCreate(i)
  BY <1>1, <1>4 DEF PrepCreate
<1>5. CASE PrepInspectCreated(i)
  BY <1>1, <1>5 DEF PrepInspectCreated
<1>6. CASE PrepStart(i)
  BY <1>1, <1>2, <1>6 DEF PrepStart
<1>7. CASE PrepReinspect(i)
  BY <1>1, <1>7 DEF PrepReinspect
<1>8. CASE PrepDevelopment(i) \/ PrepAgents(i)
  BY <1>1, <1>8 DEF PrepDevelopment, PrepAgents
<1>9. CASE CreateInspect(i)
  BY <1>1, <1>9 DEF CreateInspect
<1>10. CASE CreateStart(i)
  BY <1>1, <1>2, <1>10 DEF CreateStart, KeepsMounts
<1>11. CASE CreateReinspect(i) \/ CreateAgents(i)
  BY <1>1, <1>11 DEF CreateReinspect, CreateAgents
<1>12. CASE StopInspect(i) \/ StopCall(i)
  BY <1>1, <1>12 DEF StopInspect, StopCall
<1>13. QED
  BY <1>3, <1>4, <1>5, <1>6, <1>7, <1>8, <1>9, <1>10, <1>11, <1>12 DEF InSectionStep

LEMMA NextChecked == OneLockFile /\ CheckedInv /\ [Next]_lifecycleVars => CheckedInv'
<1> SUFFICES ASSUME OneLockFile, CheckedInv, [Next]_lifecycleVars PROVE MountsChecked'
  BY NextIInv DEF CheckedInv
<1>a. TypeOK /\ MountsChecked /\ MutualExclusion
  BY OneHolder DEF CheckedInv, IInv
<1>1. ASSUME NEW i \in Invocation, InSectionStep(i) PROVE MountsChecked'
  <2>1. pc[i] \in Section /\ wanted' = wanted
    BY <1>1, <1>a, SectionControl
  <2>2. PICK next \in Section : Goto(i, next)
    BY <1>1, <1>a, SectionControl
  <2>3. \A j \in Invocation \ {i} : pc'[j] = pc[j] /\ pc[j] \notin Checked
    BY <2>1, <2>2, <1>a DEF Goto, TypeOK, MutualExclusion, InSection, Checked, Section
  <2>4. QED
    BY <1>1, <2>1, <2>3, OwnCheck DEF MountsChecked, Checked, GuestWork
<1>2. ASSUME KeepsMounts, wanted' = wanted,
             \A i \in Invocation : pc'[i] \in Checked => pc[i] \in Checked
      PROVE  MountsChecked'
  BY <1>2, <1>a DEF MountsChecked, KeepsMounts
<1>3. ASSUME NEW i \in Invocation, Begin(i) \/ Enter(i) \/ Leave(i) PROVE MountsChecked'
  <2>1. UNCHANGED store /\ wanted' = wanted
    BY <1>3 DEF Begin, Enter, Leave, At
  <2>2. \E next \in {"wait", "over", "interactive", "prepInspect", "createInspect", "stopInspect"} :
          Goto(i, next)
    BY <1>3, <1>a DEF Begin, Enter, Leave, TypeOK, Kinds
  <2>3. QED
    BY <1>2, <1>a, <2>1, <2>2, QuietStore DEF Goto, TypeOK, Checked, GuestWork
<1>4. ASSUME NEW i \in Invocation, InteractiveEnds(i) \/ Killed(i) PROVE MountsChecked'
  <2>1. UNCHANGED store /\ wanted' = wanted /\ Goto(i, "over")
    BY <1>4 DEF InteractiveEnds, Killed, At
  <2>2. QED
    BY <1>2, <1>a, <2>1, QuietStore DEF Goto, TypeOK, Checked, GuestWork
<1>5. CASE LocklessStep
  BY <1>2, <1>5, <1>a, LocklessStore DEF LocklessStep
<1>6. CASE UNCHANGED lifecycleVars
  BY <1>2, <1>6, QuietStore DEF lifecycleVars
<1>7. QED
  BY <1>1, <1>3, <1>4, <1>5, <1>6 DEF Next, Advance, InSectionStep, AllOver

(* No guest command runs in a VM whose mounts this invocation did not      *)
(* select, even with deletions that take no lock.                          *)
THEOREM GuestWorkIsValidated == OneLockFile => (Spec => []GuestWorkValidated)
<1> SUFFICES ASSUME OneLockFile PROVE Spec => []GuestWorkValidated
  OBVIOUS
<1>1. CheckedInv /\ [Next]_lifecycleVars => CheckedInv'
  BY NextChecked
<1>2. CheckedInv => GuestWorkValidated
  BY DEF CheckedInv, MountsChecked, Checked, GuestWorkValidated
<1>3. QED
  BY InitChecked, <1>1, <1>2, PTL DEF Spec

(* A VM is booted by a process only with the mounts that it asked for.     *)
THEOREM BootsOwnMounts == OneLockFile => (Spec => BootValidated)
<1> SUFFICES ASSUME OneLockFile PROVE Spec => BootValidated
  OBVIOUS
<1>1. CheckedInv /\ [Next]_lifecycleVars => CheckedInv'
  BY NextChecked
<1>2. CheckedInv /\ [Next]_lifecycleVars =>
        [ (store'[Vm].status = "Running" /\ store[Vm].status # "Running") =>
            \E i \in Invocation : pc'[i] # pc[i] /\ wanted[i] = store[Vm].mounts
          ]_lifecycleVars
  <2> SUFFICES ASSUME CheckedInv, [Next]_lifecycleVars, ~BootsNothing
               PROVE  \E i \in Invocation : pc'[i] # pc[i] /\ wanted[i] = store[Vm].mounts
    BY DEF BootsNothing
  <2>a. TypeOK /\ MountsChecked
    BY DEF CheckedInv, IInv
  <2>1. ~LocklessStep /\ store' # store
    BY <2>a, LocklessStore, QuietStore DEF LocklessStep
  <2>2. PICK i \in Invocation : InSectionStep(i)
    BY <2>1 DEF Next, Advance, InSectionStep, AllOver, lifecycleVars,
                Begin, Enter, Leave, InteractiveEnds, Killed
  <2>3. pc[i] \in {"prepStart", "createStart"}
    BY <2>a, <2>2, SectionStore
  <2>4. PrepStart(i) \/ CreateStart(i)
    BY <2>2, <2>3 DEF InSectionStep, At, PrepInspect, PrepCreate, PrepInspectCreated,
         PrepReinspect, PrepDevelopment, PrepAgents, CreateInspect, CreateReinspect,
         CreateAgents, StopInspect, StopCall
  <2>5. Exists(Vm)
    BY <2>1, <2>4 DEF PrepStart, CreateStart, Start
  <2>6. wanted[i] = store[Vm].mounts
    BY <2>a, <2>3, <2>5 DEF MountsChecked, Checked
  <2>7. pc'[i] # pc[i]
    BY <2>a, <2>4 DEF PrepStart, CreateStart, At, Goto, Fails, TypeOK
  <2>8. QED
    BY <2>6, <2>7
<1>3. QED
  BY InitChecked, <1>1, <1>2, PTL DEF Spec, BootValidated
=============================================================================

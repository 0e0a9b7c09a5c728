-------------------------- MODULE TrustStoreProofs --------------------------
(***************************************************************************)
(* What TLAPS proves of the edits of a shared state root, for any number   *)
(* of invocations, projects, directories and writes by guests: the lock on *)
(* a configuration makes the edit between its read and its rename exact    *)
(* (OnlyWantedChanges), and no edit undoes the trust that another one      *)
(* ensured (NoLostTrust), although the guests write under no lock.  Both   *)
(* are of invocations that choose the same lock files (OneLockFile).       *)
(***************************************************************************)
EXTENDS TrustStore, TLAPS, WellFoundedInduction, SequenceTheorems

Editing == {"write", "publish"}

(* Where an invocation is in the fixed order of the files. *)
Position ==
  \A i \in Invocation :
    /\ pc[i] \in {"idle", "refresh"} => at[i] = "instructions"
    /\ pc[i] \in {"lock", "read"} => at[i] \in Configs

(* Who reads or replaces a configuration holds the lock file that it chose *)
(* for it, and holds it alone.                                             *)
ConfigLocked ==
  /\ \A i \in Invocation :
       (pc[i] \in {"read"} \cup Editing /\ at[i] \in Configs) =>
         /\ LockPath(i, at[i]) \in LockFile
         /\ i \in holder[LockPath(i, at[i])]
  /\ \A f \in LockFile : \A i, j \in holder[f] : i = j

(* What is ready to be published is the edit of the file as it still is,   *)
(* unless a guest wrote it meanwhile, or a version of the instructions.    *)
DraftCurrent ==
  \A i \in Invocation :
    pc[i] \in Editing =>
      IF at[i] \in Configs
      THEN ~dirty[i] => /\ Editable(at[i], file[at[i]], Directories[i])
                        /\ draft[i] = Edited(at[i], file[at[i]], Directories[i])
      ELSE \E v \in 0..source : draft[i] = [Blank("document") EXCEPT !.rest = v]

(* A draft keeps the trust that other invocations ensured, and adds its    *)
(* own.  This holds of a draft that a guest overtook as well.              *)
DraftKeepsTrust ==
  \A i \in Invocation :
    (pc[i] \in Editing /\ at[i] \in Configs) =>
      /\ \A d \in Directories[i] : draft[i].trust[d] = "trusted"
      /\ \A j \in Invocation, d \in Dir :
           (<<j, at[i]>> \in ensured /\ d \in Directories[j] /\ <<at[i], d>> \notin revoked) =>
             draft[i].trust[d] = "trusted"

IInv ==
  /\ TypeOK /\ Position /\ ConfigLocked
  /\ DraftCurrent /\ DraftKeepsTrust /\ NoLostTrust

(* The part of it that the choice of the lock files has no influence on.   *)
TypeInv ==
  /\ TypeOK /\ Position /\ ConfigLocked

(* A publication that succeeds. *)
Published(i) ==
  /\ file' = [file EXCEPT ![at[i]] = draft[i]]
  /\ ReleaseConfig(i)
  /\ Proceed(i, at[i])
  /\ IF at[i] \in Configs
     THEN /\ ensured' = ensured \cup {<<i, at[i]>>}
          /\ revoked' = revoked \ ({at[i]} \X Directories[i])
     ELSE UNCHANGED <<ensured, revoked>>
  /\ UNCHANGED litter

---------------------------------------------------------------------------
(* Lock files *)

(* The least-number principle, for the first usable candidate.             *)
LEMMA FirstOf ==
  ASSUME NEW S \in SUBSET Nat, S # {}
  PROVE  \E k \in S : \A l \in S : k <= l
<1> DEFINE Less == {ss \in Nat \X Nat : ss[1] < ss[2]}
<1>1. IsWellFoundedOn(Less, Nat)
  BY NatLessThanWellFounded, Zenon DEF OpToRel
<1> HIDE DEF Less
<1>2. PICK k \in S : \A l \in S : <<l, k>> \notin Less
  BY <1>1, WFMin
<1>3. ASSUME NEW l \in S PROVE k <= l
  <2>1. k \in Nat /\ l \in Nat
    OBVIOUS
  <2>2. l < k => <<l, k>> \in Less
    BY <2>1 DEF Less
  <2> QED
    BY <1>2, <2>1, <2>2
<1> QED
  BY <1>3

(* A chosen lock file lies in one of the candidate directories, outside    *)
(* the mounts.                                                             *)
LEMMA LockPathType ==
  ASSUME NEW i \in Invocation, NEW name \in Projects \cup Configs,
         ChosenDirectory(i, name) # NoDirectory
  PROVE  LockPath(i, name) \in LockFile
<1> DEFINE candidates == <<Temporary[i]>> \o Fallbacks
           usable == {k \in 1..Len(candidates) : OutsideMounts(candidates[k], Mounts[name])}
<1>1. candidates \in Seq(LockDirectories)
  BY TrustAssumption, ConcatProperties
<1>2. usable \in SUBSET Nat /\ usable # {}
  BY DEF ChosenDirectory, DefaultLockDirectory
<1>3. (CHOOSE k \in usable : \A l \in usable : k <= l) \in usable
  BY <1>2, FirstOf
<1>4. ChosenDirectory(i, name) = candidates[CHOOSE k \in usable : \A l \in usable : k <= l]
  BY <1>2 DEF ChosenDirectory, DefaultLockDirectory
<1>5. ChosenDirectory(i, name) \in LockDirectories
  BY <1>1, <1>3, <1>4, ElementOfSeq
<1> QED
  BY <1>5, TrustAssumption DEF LockPath

(* With one lock file, a configuration is read and replaced by one         *)
(* invocation at a time.                                                   *)
LEMMA OneEditor ==
  ASSUME OneLockFile, ConfigLocked, NEW i \in Invocation, NEW j \in Invocation,
         pc[i] \in {"read"} \cup Editing, pc[j] \in {"read"} \cup Editing,
         at[i] \in Configs, at[j] = at[i]
  PROVE  i = j
<1>1. LockPath(i, at[i]) = LockPath(j, at[j])
  BY DEF OneLockFile, LockPath
<1> QED
  BY <1>1 DEF ConfigLocked

---------------------------------------------------------------------------
(* Operators *)

LEMMA BlankType ==
  ASSUME NEW form \in {"missing", "malformed", "link", "torn", "document"}
  PROVE  Blank(form) \in Content
BY TrustAssumption DEF Blank, Content, Trust, Updates, Version

LEMMA InstructionsType ==
  ASSUME NEW v \in Version
  PROVE  [Blank("document") EXCEPT !.rest = v] \in Content
BY TrustAssumption DEF Blank, Content, Trust, Updates, Version

(* An edit gives the directories trust and takes none away. *)
LEMMA EditedEffect ==
  ASSUME NEW c \in Configs, NEW content \in Content, NEW dirs \in SUBSET Dir
  PROVE  /\ Edited(c, content, dirs) \in Content
         /\ \A d \in dirs : Edited(c, content, dirs).trust[d] = "trusted"
         /\ \A d \in Dir : content.trust[d] = "trusted" =>
                             Edited(c, content, dirs).trust[d] = "trusted"
BY DEF Edited, Content, Trust, Updates

(* The next file, or the end. *)
LEMMA ProceedEffect ==
  ASSUME NEW i \in Invocation, NEW f \in File, TypeOK, Proceed(i, f)
  PROVE  \E next \in {"leave", "lock"}, g \in File :
           /\ pc' = [pc EXCEPT ![i] = next]
           /\ at' = [at EXCEPT ![i] = g]
           /\ next = "lock" => g \in Configs
<1>1. CASE After(i, f) = "end"
  <2>1. at' = [at EXCEPT ![i] = at[i]] /\ at[i] \in File
    BY <1>1 DEF TypeOK, Proceed
  <2> QED
    BY <1>1, <2>1 DEF Proceed, Goto
<1>2. CASE After(i, f) # "end"
  <2>1. After(i, f) \in Configs
    BY <1>2 DEF After, Configs
  <2> QED
    BY <1>2, <2>1 DEF Proceed, Goto, File
<1> QED
  BY <1>1, <1>2

(* What a guest may leave in a configuration. *)
LEMMA GuestWritesEffect ==
  ASSUME NEW c \in Configs, TypeOK, GuestWrites(c)
  PROVE  /\ \E content \in Content :
              /\ file' = [file EXCEPT ![c] = content]
              /\ revoked' =
                   revoked \cup {<<c, d>> : d \in {e \in Dir : content.trust[e] # "trusted"}}
         /\ dirty' = [i \in Invocation |->
                        dirty[i] \/ (at[i] = c /\ pc[i] \in Editing)]
         /\ writes' = writes + 1 /\ writes < MaxWrites
         /\ UNCHANGED <<source, holder, pc, at, draft, litter, ensured>>
<1>1. file[c] \in Content
  BY DEF TypeOK, File
<1>2. \A v \in Version : [file[c] EXCEPT !.form = "document", !.rest = v] \in Content
  BY <1>1 DEF Content
<1>3. \A d \in Dir : [file[c] EXCEPT !.form = "document", !.trust[d] = "untrusted"] \in Content
  BY <1>1 DEF Content, Trust
<1>4. Blank("malformed") \in Content
  BY BlankType
<1>5. PICK content \in
          {[file[c] EXCEPT !.form = "document", !.rest = v] : v \in Version}
          \cup {[file[c] EXCEPT !.form = "document", !.trust[d] = "untrusted"] : d \in Dir}
          \cup {Blank("malformed")} :
        /\ file' = [file EXCEPT ![c] = content]
        /\ revoked' =
             revoked \cup {<<c, d>> : d \in {e \in Dir : content.trust[e] # "trusted"}}
  BY DEF GuestWrites
<1>6. content \in Content
  BY <1>2, <1>3, <1>4, <1>5
<1>7. /\ dirty' = [i \in Invocation |-> dirty[i] \/ (at[i] = c /\ pc[i] \in Editing)]
      /\ writes' = writes + 1 /\ writes < MaxWrites
      /\ UNCHANGED <<source, holder, pc, at, draft, litter, ensured>>
  BY DEF GuestWrites, Editing
<1> QED
  BY <1>5, <1>6, <1>7

---------------------------------------------------------------------------
(* Types and locks *)

LEMMA InitInvariant == Init => IInv
<1> SUFFICES ASSUME Init PROVE IInv
  OBVIOUS
<1>1. TypeOK
  BY TrustAssumption, BlankType DEF Init, TypeOK, LockInit, LockTypeOK, Version, File, Configs
<1>2. Position /\ ConfigLocked /\ DraftCurrent /\ DraftKeepsTrust /\ NoLostTrust
  BY DEF Init, LockInit, Position, ConfigLocked, DraftCurrent, DraftKeepsTrust,
         NoLostTrust, Editing
<1> QED
  BY <1>1, <1>2 DEF IInv

(* The two ways in which a reading ends without an error. *)
FoundSatisfied(i) ==
  /\ Satisfied(at[i], file[at[i]], Directories[i])
  /\ ReleaseConfig(i)
  /\ ensured' = ensured \cup {<<i, at[i]>>}
  /\ Proceed(i, at[i])
  /\ UNCHANGED <<file, source, draft, dirty, litter, revoked, writes>>

HasEdited(i) ==
  /\ Editable(at[i], file[at[i]], Directories[i])
  /\ draft' = [draft EXCEPT ![i] = Edited(at[i], file[at[i]], Directories[i])]
  /\ dirty' = [dirty EXCEPT ![i] = FALSE]
  /\ Goto(i, "write")
  /\ UNCHANGED <<file, source, holder, at, litter, ensured, revoked, writes>>

LEMMA ReadEffect ==
  ASSUME NEW i \in Invocation, TypeOK, Position, Read(i)
  PROVE  /\ pc[i] = "read" /\ at[i] \in Configs /\ at[i] \in File
         /\ file[at[i]] \in Content /\ Directories[i] \in SUBSET Dir
         /\ \/ /\ Abort(i)
               /\ UNCHANGED <<file, source, draft, dirty, litter, ensured, revoked, writes>>
            \/ FoundSatisfied(i)
            \/ HasEdited(i)
<1>1. pc[i] = "read" /\ at[i] \in Configs /\ at[i] \in File
  BY DEF Read, Position, File
<1>2. file[at[i]] \in Content /\ Directories[i] \in SUBSET Dir
  BY <1>1, TrustAssumption DEF TypeOK
<1> QED
  BY <1>1, <1>2 DEF Read, FoundSatisfied, HasEdited

(* The assumptions but for the candidates of a lock file. *)
LEMMA Constants ==
  /\ ProjectOf \in [Invocation -> Projects]
  /\ Directories \in [Invocation -> SUBSET Dir]
  /\ MaxVersion \in Nat /\ MaxWrites \in Nat
BY TrustAssumption

LEMMA TypeStep == TypeOK /\ Position /\ [Next]_trustVars => TypeOK'
<1> SUFFICES ASSUME TypeOK, Position, [Next]_trustVars PROVE TypeOK'
  OBVIOUS
<1> USE Constants DEF TypeOK, LockTypeOK
<1>1. ASSUME NEW i \in Invocation, Enter(i) PROVE TypeOK'
  <2>1. CASE Abort(i)
    BY <1>1, <2>1 DEF Enter, Abort, ReleaseAll, Goto
  <2>2. CASE AcquireLock(i, ProjectOf[i]) /\ Goto(i, "refresh") /\ UNCHANGED at
    <3>1. holder' \in [LockFile -> SUBSET Invocation]
      BY <2>2 DEF AcquireLock, Acquire
    <3> QED
      BY <1>1, <2>2, <3>1 DEF Enter, Goto
  <2> QED
    BY <1>1, <2>1, <2>2 DEF Enter
<1>2. ASSUME NEW i \in Invocation, Refresh(i) PROVE TypeOK'
  <2>1. CASE Abort(i) /\ UNCHANGED draft
    BY <1>2, <2>1 DEF Refresh, Abort, ReleaseAll, Goto
  <2>2. CASE Proceed(i, "instructions") /\ UNCHANGED <<holder, draft>>
    BY <1>2, <2>2, ProceedEffect DEF Refresh, File
  <2>3. CASE /\ draft' = [draft EXCEPT ![i] = [Blank("document") EXCEPT !.rest = source]]
             /\ Goto(i, "write")
             /\ UNCHANGED <<holder, at>>
    BY <1>2, <2>3, InstructionsType DEF Refresh, Goto
  <2> QED
    BY <1>2, <2>1, <2>2, <2>3 DEF Refresh
<1>3. ASSUME NEW i \in Invocation, LockConfig(i) PROVE TypeOK'
  <2>1. CASE Abort(i)
    BY <1>3, <2>1 DEF LockConfig, Abort, ReleaseAll, Goto
  <2>2. CASE AcquireLock(i, at[i]) /\ Goto(i, "read") /\ UNCHANGED at
    <3>1. holder' \in [LockFile -> SUBSET Invocation]
      BY <2>2 DEF AcquireLock, Acquire
    <3> QED
      BY <1>3, <2>2, <3>1 DEF LockConfig, Goto
  <2> QED
    BY <1>3, <2>1, <2>2 DEF LockConfig
<1>4. ASSUME NEW i \in Invocation, Read(i) PROVE TypeOK'
  <2>1. /\ at[i] \in Configs /\ at[i] \in File
        /\ file[at[i]] \in Content /\ Directories[i] \in SUBSET Dir
    BY <1>4, ReadEffect
  <2>2. CASE /\ Abort(i)
             /\ UNCHANGED <<file, source, draft, dirty, litter, ensured, revoked, writes>>
    BY <2>2 DEF Abort, ReleaseAll, Goto
  <2>3. CASE FoundSatisfied(i)
    <3>1. holder' \in [LockFile -> SUBSET Invocation]
      BY <2>1, <2>3 DEF FoundSatisfied, ReleaseConfig, Release
    <3>2. pc' \in [Invocation -> {"idle", "refresh", "lock", "read", "write", "publish",
                                  "leave", "ok", "failed", "killed"}]
          /\ at' \in [Invocation -> File]
      BY <2>1, <2>3, ProceedEffect DEF FoundSatisfied
    <3> QED
      BY <2>1, <2>3, <3>1, <3>2 DEF FoundSatisfied
  <2>4. CASE HasEdited(i)
    BY <2>1, <2>4, EditedEffect DEF HasEdited, Goto
  <2> QED
    BY <1>4, ReadEffect, <2>2, <2>3, <2>4
<1>5. ASSUME NEW i \in Invocation, Write(i) PROVE TypeOK'
  <2>1. CASE Abort(i) /\ Forget(i) /\ litter' \in {litter, litter \cup {i}}
    <3>1. draft' \in [Invocation -> Content] /\ dirty' \in [Invocation -> BOOLEAN]
      BY <2>1, BlankType DEF Forget
    <3> QED
      BY <1>5, <2>1, <3>1 DEF Write, Abort, ReleaseAll, Goto
  <2>2. CASE Goto(i, "publish") /\ UNCHANGED <<holder, at, draft, dirty, litter>>
    BY <1>5, <2>2 DEF Write, Goto
  <2> QED
    BY <1>5, <2>1, <2>2 DEF Write
<1>6. ASSUME NEW i \in Invocation, Publish(i) PROVE TypeOK'
  <2>1. CASE /\ Abort(i) /\ litter' \in {litter, litter \cup {i}}
             /\ UNCHANGED <<file, ensured, revoked>>
    BY <1>6, <2>1, BlankType DEF Publish, Abort, ReleaseAll, Forget, Goto
  <2>2. CASE Published(i)
    <3>1. /\ file' \in [File -> Content] /\ draft' \in [Invocation -> Content]
          /\ dirty' \in [Invocation -> BOOLEAN]
      BY <1>6, <2>2, BlankType DEF Publish, Published, Forget
    <3>2. holder' \in [LockFile -> SUBSET Invocation]
      BY <1>6, <2>2 DEF Publish, Published, ReleaseConfig, Release
    <3>3. ensured' \in SUBSET (Invocation \X Configs) /\ revoked' \in SUBSET (Configs \X Dir)
      BY <1>6, <2>2 DEF Publish, Published
    <3>4. at[i] \in File /\ Proceed(i, at[i])
      BY <1>6, <2>2 DEF Publish, Published
    <3>5. pc' \in [Invocation -> {"idle", "refresh", "lock", "read", "write", "publish",
                                  "leave", "ok", "failed", "killed"}]
          /\ at' \in [Invocation -> File]
      BY <3>4, ProceedEffect
    <3>6. litter' = litter /\ UNCHANGED <<source, writes>>
      BY <1>6, <2>2 DEF Publish, Published
    <3> QED
      BY <3>1, <3>2, <3>3, <3>5, <3>6
  <2> QED
    BY <1>6, <2>1, <2>2 DEF Publish, Published
<1>7. ASSUME NEW i \in Invocation, Leave(i) PROVE TypeOK'
  BY <1>7 DEF Leave, Release, Goto
<1>8. ASSUME NEW i \in Invocation, Killed(i) PROVE TypeOK'
  BY <1>8, BlankType DEF Killed, ReleaseAll, Forget, Goto
<1>9. ASSUME NEW c \in Configs, GuestWrites(c) PROVE TypeOK'
  <2>1. PICK content \in Content :
          /\ file' = [file EXCEPT ![c] = content]
          /\ revoked' =
               revoked \cup {<<c, d>> : d \in {e \in Dir : content.trust[e] # "trusted"}}
    BY <1>9, GuestWritesEffect
  <2>2. file' \in [File -> Content]
    BY <2>1
  <2>3. {<<c, d>> : d \in {e \in Dir : content.trust[e] # "trusted"}} \subseteq Configs \X Dir
    OBVIOUS
  <2>4. revoked' \in SUBSET (Configs \X Dir)
    BY <2>1, <2>3
  <2>5. dirty' \in [Invocation -> BOOLEAN]
    <3>1. dirty' = [i \in Invocation |-> dirty[i] \/ (at[i] = c /\ pc[i] \in Editing)]
      BY <1>9, GuestWritesEffect
    <3> QED
      BY <3>1
  <2>6. writes' \in 0..MaxWrites
    <3>1. writes' = writes + 1 /\ writes < MaxWrites
      BY <1>9, GuestWritesEffect
    <3> QED
      BY <3>1
  <2> QED
    BY <1>9, <2>2, <2>4, <2>5, <2>6 DEF GuestWrites
<1>10. CASE HostEdits
  BY <1>10 DEF HostEdits, Version
<1>11. CASE UNCHANGED trustVars
  BY <1>11 DEF trustVars
<1> QED
  BY <1>1, <1>2, <1>3, <1>4, <1>5, <1>6, <1>7, <1>8, <1>9, <1>10, <1>11
     DEF Next, Advance, AllOver

LEMMA LockStep ==
  TypeOK /\ Position /\ ConfigLocked /\ [Next]_trustVars => Position' /\ ConfigLocked'
<1> SUFFICES ASSUME TypeOK, Position, ConfigLocked, [Next]_trustVars
             PROVE  Position' /\ ConfigLocked'
  OBVIOUS
<1> USE Constants DEF TypeOK, LockTypeOK, Position, ConfigLocked, Editing
<1>1. ASSUME NEW i \in Invocation, Abort(i) PROVE Position' /\ ConfigLocked'
  BY <1>1 DEF Abort, ReleaseAll, Goto
<1>2. ASSUME NEW i \in Invocation, Enter(i) PROVE Position' /\ ConfigLocked'
  <2>1. CASE AcquireLock(i, ProjectOf[i]) /\ Goto(i, "refresh") /\ UNCHANGED at
    BY <1>2, <2>1 DEF Enter, AcquireLock, Acquire, Goto
  <2> QED
    BY <1>1, <1>2, <2>1 DEF Enter
<1>3. ASSUME NEW i \in Invocation, ReleaseConfig(i), Proceed(i, at[i])
      PROVE  Position' /\ ConfigLocked'
  <2>1. at[i] \in File
    OBVIOUS
  <2>2. PICK next \in {"leave", "lock"}, g \in File :
          /\ pc' = [pc EXCEPT ![i] = next]
          /\ at' = [at EXCEPT ![i] = g]
          /\ next = "lock" => g \in Configs
    BY <1>3, <2>1, ProceedEffect
  <2>3. holder' \in [LockFile -> SUBSET Invocation]
        /\ \A f \in LockFile : holder'[f] \in {holder[f], holder[f] \ {i}}
    BY <1>3 DEF ReleaseConfig, Release
  <2> QED
    BY <2>2, <2>3
<1>4. ASSUME NEW i \in Invocation, Refresh(i) PROVE Position' /\ ConfigLocked'
  <2>1. at[i] = "instructions" /\ at[i] \in File /\ "instructions" \notin Configs
    BY <1>4 DEF Refresh, Configs
  <2>2. CASE Proceed(i, "instructions") /\ UNCHANGED <<holder, draft>>
    BY <1>3, <2>1, <2>2 DEF ReleaseConfig
  <2>3. CASE Goto(i, "write") /\ UNCHANGED <<holder, at>>
    BY <1>4, <2>1, <2>3 DEF Refresh, Goto
  <2> QED
    BY <1>1, <1>4, <2>2, <2>3 DEF Refresh
<1>5. ASSUME NEW i \in Invocation, LockConfig(i) PROVE Position' /\ ConfigLocked'
  <2>1. CASE AcquireLock(i, at[i]) /\ Goto(i, "read") /\ UNCHANGED at
    <3>1. LockPath(i, at[i]) \in LockFile
      BY <1>5, <2>1, LockPathType DEF LockConfig, AcquireLock
    <3> QED
      BY <1>5, <2>1, <3>1 DEF LockConfig, AcquireLock, Acquire, Goto
  <2> QED
    BY <1>1, <1>5, <2>1 DEF LockConfig
<1>6. ASSUME NEW i \in Invocation, Read(i) PROVE Position' /\ ConfigLocked'
  <2>1. /\ pc[i] = "read" /\ at[i] \in Configs
        /\ Abort(i) \/ FoundSatisfied(i) \/ HasEdited(i)
    BY <1>6, ReadEffect
  <2>2. CASE HasEdited(i)
    BY <2>1, <2>2 DEF HasEdited, Goto
  <2> QED
    BY <1>1, <1>3, <2>1, <2>2 DEF FoundSatisfied
<1>7. ASSUME NEW i \in Invocation, Write(i) PROVE Position' /\ ConfigLocked'
  <2>1. CASE Goto(i, "publish") /\ UNCHANGED <<holder, at, draft, dirty, litter>>
    BY <1>7, <2>1 DEF Write, Goto
  <2> QED
    BY <1>1, <1>7, <2>1 DEF Write
<1>8. ASSUME NEW i \in Invocation, Publish(i) PROVE Position' /\ ConfigLocked'
  BY <1>1, <1>3, <1>8 DEF Publish
<1>9. ASSUME NEW i \in Invocation, Leave(i) PROVE Position' /\ ConfigLocked'
  BY <1>9 DEF Leave, Release, Goto
<1>10. ASSUME NEW i \in Invocation, Killed(i) PROVE Position' /\ ConfigLocked'
  BY <1>10 DEF Killed, ReleaseAll, Goto
<1>11. ASSUME NEW c \in Configs, GuestWrites(c) PROVE Position' /\ ConfigLocked'
  BY <1>11 DEF GuestWrites
<1>12. CASE HostEdits
  BY <1>12 DEF HostEdits
<1>13. CASE UNCHANGED trustVars
  BY <1>13 DEF trustVars
<1> QED
  BY <1>2, <1>4, <1>5, <1>6, <1>7, <1>8, <1>9, <1>10, <1>11, <1>12, <1>13
     DEF Next, Advance, AllOver

---------------------------------------------------------------------------
(* Drafts and trust *)

(* A step of an invocation that neither reads nor publishes. *)
LEMMA Bystanding ==
  ASSUME IInv, NEW i \in Invocation,
         pc'[i] \notin Editing,
         \A j \in Invocation \ {i} :
           pc'[j] = pc[j] /\ at'[j] = at[j] /\ draft'[j] = draft[j] /\ dirty'[j] = dirty[j],
         UNCHANGED <<file, source, ensured, revoked>>
  PROVE  DraftCurrent' /\ DraftKeepsTrust' /\ NoLostTrust'
<1>1. DraftCurrent'
  BY DEF IInv, DraftCurrent
<1>2. DraftKeepsTrust'
  BY DEF IInv, DraftKeepsTrust
<1>3. NoLostTrust'
  BY DEF IInv, NoLostTrust
<1> QED
  BY <1>1, <1>2, <1>3

LEMMA ReadKeepsTrust ==
  ASSUME OneLockFile, IInv, NEW i \in Invocation, Read(i)
  PROVE  DraftCurrent' /\ DraftKeepsTrust' /\ NoLostTrust'
<1> USE DEF IInv, TypeOK
<1>1. /\ pc[i] = "read" /\ at[i] \in Configs /\ at[i] \in File
      /\ file[at[i]] \in Content /\ Directories[i] \in SUBSET Dir
  BY ReadEffect
<1>2. CASE /\ Abort(i)
           /\ UNCHANGED <<file, source, draft, dirty, litter, ensured, revoked, writes>>
  BY <1>2, Bystanding DEF Abort, Goto, Editing
<1>3. CASE FoundSatisfied(i)
  <2>1. PICK next \in {"leave", "lock"}, g \in File :
          pc' = [pc EXCEPT ![i] = next] /\ at' = [at EXCEPT ![i] = g]
    BY <1>1, <1>3, ProceedEffect DEF FoundSatisfied
  <2>2. \A d \in Directories[i] : file[at[i]].trust[d] = "trusted"
    BY <1>1, <1>3, EditedEffect DEF FoundSatisfied, Satisfied
  <2>3. NoLostTrust'
    BY <1>1, <1>3, <2>2 DEF FoundSatisfied, NoLostTrust
  <2>4. ASSUME NEW j \in Invocation, pc'[j] \in Editing, at'[j] \in Configs
        PROVE  j # i /\ at'[j] # at[i] /\ pc'[j] = pc[j] /\ at'[j] = at[j]
    BY <1>1, <2>1, <2>4, OneEditor DEF Editing
  <2>5. DraftCurrent'
    BY <1>1, <1>3, <2>1 DEF FoundSatisfied, DraftCurrent, Editing
  <2>6. DraftKeepsTrust'
    BY <1>1, <1>3, <2>4 DEF FoundSatisfied, DraftKeepsTrust
  <2> QED
    BY <2>3, <2>5, <2>6
<1>4. CASE HasEdited(i)
  <2>1. /\ \A d \in Directories[i] :
             Edited(at[i], file[at[i]], Directories[i]).trust[d] = "trusted"
        /\ \A d \in Dir : file[at[i]].trust[d] = "trusted" =>
             Edited(at[i], file[at[i]], Directories[i]).trust[d] = "trusted"
    BY <1>1, EditedEffect
  <2>2. NoLostTrust'
    BY <1>4 DEF HasEdited, NoLostTrust
  <2>3. DraftCurrent'
    BY <1>1, <1>4 DEF HasEdited, DraftCurrent, Goto, Editing
  <2>4. DraftKeepsTrust'
    BY <1>1, <1>4, <2>1 DEF HasEdited, DraftKeepsTrust, NoLostTrust, Goto, Editing
  <2> QED
    BY <2>2, <2>3, <2>4
<1> QED
  BY <1>2, <1>3, <1>4, ReadEffect

LEMMA PublishKeepsTrust ==
  ASSUME OneLockFile, IInv, NEW i \in Invocation, Publish(i)
  PROVE  DraftCurrent' /\ DraftKeepsTrust' /\ NoLostTrust'
<1> USE DEF IInv, TypeOK
<1>1. CASE Abort(i) /\ UNCHANGED <<file, ensured, revoked>>
  BY <1>1, Bystanding DEF Publish, Abort, Forget, Goto, Editing
<1>2. CASE Published(i)
  <2>1. at[i] \in File /\ pc[i] = "publish"
    BY DEF Publish
  <2>2. PICK next \in {"leave", "lock"}, g \in File :
          pc' = [pc EXCEPT ![i] = next] /\ at' = [at EXCEPT ![i] = g]
    BY <1>2, <2>1, ProceedEffect DEF Published
  <2>3. ASSUME NEW j \in Invocation, pc'[j] \in Editing
        PROVE  /\ j # i /\ pc'[j] = pc[j] /\ at'[j] = at[j] /\ at[j] \in File
               /\ draft'[j] = draft[j] /\ dirty'[j] = dirty[j]
               /\ at[j] \in Configs => at[j] # at[i] /\ file'[at[j]] = file[at[j]]
    <3>1. j # i
      BY <2>1, <2>2, <2>3 DEF Editing
    <3>2. /\ pc'[j] = pc[j] /\ at'[j] = at[j] /\ at[j] \in File
          /\ draft'[j] = draft[j] /\ dirty'[j] = dirty[j]
      BY <2>2, <3>1 DEF Publish, Forget
    <3>3. at[j] \in Configs => at[j] # at[i]
      BY <2>1, <2>3, <3>1, <3>2, OneEditor DEF Editing
    <3> QED
      BY <1>2, <2>1, <3>1, <3>2, <3>3 DEF Published
  <2>4. source' = source
    BY DEF Publish
  <2>5. DraftCurrent'
    BY <2>3, <2>4 DEF DraftCurrent
  <2>6. DraftKeepsTrust'
    BY <1>2, <2>3 DEF DraftKeepsTrust, Published
  <2>7. CASE at[i] \in Configs
    <3>1. /\ \A d \in Directories[i] : draft[i].trust[d] = "trusted"
          /\ \A j \in Invocation, d \in Dir :
               (<<j, at[i]>> \in ensured /\ d \in Directories[j] /\ <<at[i], d>> \notin revoked) =>
                 draft[i].trust[d] = "trusted"
      BY <2>1, <2>7 DEF DraftKeepsTrust, Editing
    <3> QED
      BY <1>2, <2>1, <2>5, <2>6, <2>7, <3>1 DEF NoLostTrust, Published, File
  <2>8. CASE at[i] \notin Configs
    BY <1>2, <2>1, <2>5, <2>6, <2>8 DEF NoLostTrust, Published, File
  <2> QED
    BY <2>7, <2>8
<1> QED
  BY <1>1, <1>2 DEF Publish, Published

LEMMA GuestKeepsDrafts ==
  ASSUME IInv, NEW c \in Configs, GuestWrites(c)
  PROVE  DraftCurrent' /\ DraftKeepsTrust' /\ NoLostTrust'
<1> USE DEF IInv, TypeOK
<1>1. PICK content \in Content :
        /\ file' = [file EXCEPT ![c] = content]
        /\ revoked' =
             revoked \cup {<<c, d>> : d \in {e \in Dir : content.trust[e] # "trusted"}}
  BY GuestWritesEffect
<1>2. /\ dirty' = [i \in Invocation |-> dirty[i] \/ (at[i] = c /\ pc[i] \in Editing)]
      /\ UNCHANGED <<source, holder, pc, at, draft, litter, ensured>>
  BY GuestWritesEffect
<1>3. DraftCurrent'
  BY <1>1, <1>2 DEF DraftCurrent, File
<1>4. DraftKeepsTrust'
  BY <1>1, <1>2 DEF DraftKeepsTrust
<1>5. NoLostTrust'
  BY <1>1, <1>2 DEF NoLostTrust, File
<1> QED
  BY <1>3, <1>4, <1>5

LEMMA TrustStep ==
  OneLockFile /\ IInv /\ [Next]_trustVars =>
    DraftCurrent' /\ DraftKeepsTrust' /\ NoLostTrust'
<1> SUFFICES ASSUME OneLockFile, IInv, [Next]_trustVars
             PROVE  DraftCurrent' /\ DraftKeepsTrust' /\ NoLostTrust'
  OBVIOUS
<1> DEFINE Goal == DraftCurrent /\ DraftKeepsTrust /\ NoLostTrust
<1>1. ASSUME NEW i \in Invocation, Enter(i) \/ LockConfig(i) \/ Leave(i) PROVE Goal'
  BY <1>1, Bystanding
     DEF Enter, LockConfig, AcquireLock, Abort, Leave, Goto, Editing, IInv, TypeOK
<1>2. ASSUME NEW i \in Invocation, Refresh(i) PROVE Goal'
  <2>1. at[i] = "instructions" /\ pc[i] = "refresh" /\ "instructions" \notin Configs
    BY <1>2 DEF Refresh, IInv, Position, Configs
  <2>2. CASE Abort(i) /\ UNCHANGED draft
    BY <1>2, <2>2, Bystanding DEF Refresh, Abort, Goto, Editing, IInv, TypeOK
  <2>3. CASE Proceed(i, "instructions") /\ UNCHANGED <<holder, draft>>
    <3>1. PICK next \in {"leave", "lock"}, g \in File :
            pc' = [pc EXCEPT ![i] = next] /\ at' = [at EXCEPT ![i] = g]
      BY <2>3, ProceedEffect DEF File, IInv
    <3> QED
      BY <1>2, <2>3, <3>1, Bystanding DEF Refresh, Editing, IInv, TypeOK
  <2>4. CASE /\ draft' = [draft EXCEPT ![i] = [Blank("document") EXCEPT !.rest = source]]
             /\ Goto(i, "write")
             /\ UNCHANGED <<holder, at>>
    <3>1. source \in 0..source
      BY TrustAssumption DEF IInv, TypeOK, Version
    <3>2. DraftCurrent'
      BY <1>2, <2>1, <2>4, <3>1 DEF Refresh, DraftCurrent, Goto, Editing, IInv, TypeOK
    <3>3. DraftKeepsTrust'
      BY <1>2, <2>1, <2>4 DEF Refresh, DraftKeepsTrust, Goto, Editing, IInv, TypeOK
    <3>4. NoLostTrust'
      BY <1>2 DEF Refresh, NoLostTrust, IInv
    <3> QED
      BY <3>2, <3>3, <3>4
  <2> QED
    BY <1>2, <2>2, <2>3, <2>4 DEF Refresh
<1>3. ASSUME NEW i \in Invocation, Read(i) PROVE Goal'
  BY <1>3, ReadKeepsTrust
<1>4. ASSUME NEW i \in Invocation, Write(i) PROVE Goal'
  <2>1. CASE Abort(i) /\ Forget(i)
    BY <1>4, <2>1, Bystanding DEF Write, Abort, Forget, Goto, Editing, IInv, TypeOK
  <2>2. CASE Goto(i, "publish") /\ UNCHANGED <<holder, at, draft, dirty, litter>>
    <3>1. DraftCurrent'
      BY <1>4, <2>2 DEF Write, DraftCurrent, Goto, Editing, IInv, TypeOK
    <3>2. DraftKeepsTrust'
      BY <1>4, <2>2 DEF Write, DraftKeepsTrust, Goto, Editing, IInv, TypeOK
    <3>3. NoLostTrust'
      BY <1>4 DEF Write, NoLostTrust, IInv
    <3> QED
      BY <3>1, <3>2, <3>3
  <2> QED
    BY <1>4, <2>1, <2>2 DEF Write
<1>5. ASSUME NEW i \in Invocation, Publish(i) PROVE Goal'
  BY <1>5, PublishKeepsTrust
<1>6. ASSUME NEW i \in Invocation, Killed(i) PROVE Goal'
  BY <1>6, Bystanding DEF Killed, Forget, Goto, Editing, IInv, TypeOK
<1>7. ASSUME NEW c \in Configs, GuestWrites(c) PROVE Goal'
  BY <1>7, GuestKeepsDrafts
<1>8. CASE HostEdits
  <2>1. 0..source \subseteq 0..source'
    BY <1>8, TrustAssumption DEF HostEdits, IInv, TypeOK, Version
  <2>2. DraftCurrent'
    BY <1>8, <2>1 DEF HostEdits, DraftCurrent, IInv
  <2>3. DraftKeepsTrust' /\ NoLostTrust'
    BY <1>8 DEF HostEdits, DraftKeepsTrust, NoLostTrust, IInv
  <2> QED
    BY <2>2, <2>3
<1>9. CASE UNCHANGED trustVars
  BY <1>9 DEF trustVars, DraftCurrent, DraftKeepsTrust, NoLostTrust, IInv
<1> QED
  BY <1>1, <1>2, <1>3, <1>4, <1>5, <1>6, <1>7, <1>8, <1>9
     DEF Next, Advance, AllOver

LEMMA NextInvariant == OneLockFile /\ IInv /\ [Next]_trustVars => IInv'
BY TypeStep, LockStep, TrustStep DEF IInv

---------------------------------------------------------------------------
(* The state of the model keeps its types. *)
THEOREM TypeCorrect == Spec => []TypeOK
<1>1. Init => TypeInv
  BY InitInvariant DEF IInv, TypeInv
<1>2. TypeInv /\ [Next]_trustVars => TypeInv'
  BY TypeStep, LockStep DEF TypeInv
<1>3. TypeInv => TypeOK
  BY DEF TypeInv
<1> QED
  BY <1>1, <1>2, <1>3, PTL DEF Spec

(* Any number of invocations that edit the configurations of one state     *)
(* root (ensureCodexConfiguration, ensureClaudeDirectoryTrust) and whose   *)
(* TMPDIR lead them to the same lock files never undo the trust that one   *)
(* of them ensured, whatever the guests write: only a guest's own write    *)
(* withdraws trust.                                                        *)
THEOREM TrustIsKept == OneLockFile => (Spec => []NoLostTrust)
<1> SUFFICES ASSUME OneLockFile PROVE Spec => []NoLostTrust
  OBVIOUS
<1>1. IInv => NoLostTrust
  BY DEF IInv
<1> QED
  BY InitInvariant, NextInvariant, <1>1, PTL DEF Spec

(* Among invocations that choose the same lock files, every change that    *)
(* one makes to a file is the whole of an edit of what the file held at    *)
(* that moment (a guest's write since the reading excepted), or a whole    *)
(* version of the host's instructions (writeAtomicFile).                   *)
THEOREM ChangesAreWanted == OneLockFile => (Spec => OnlyWantedChanges)
<1> SUFFICES ASSUME OneLockFile PROVE Spec => OnlyWantedChanges
  OBVIOUS
<1> DEFINE Wants ==
      \A f \in File :
        (file'[f] # file[f] /\ writes' = writes) =>
          \E i \in Invocation :
            IF f \in Configs
            THEN /\ file'[f] = draft[i]
                 /\ ~dirty[i] => /\ Editable(f, file[f], Directories[i])
                                 /\ file'[f] = Edited(f, file[f], Directories[i])
            ELSE \E v \in 0..source : file'[f] = [Blank("document") EXCEPT !.rest = v]
<1>1. IInv /\ [Next]_trustVars => [Wants]_trustVars
  <2> SUFFICES ASSUME IInv, Next PROVE Wants
    OBVIOUS
  <2> USE DEF IInv, TypeOK
  <2>1. ASSUME NEW i \in Invocation, Publish(i) PROVE Wants
    <3>1. CASE UNCHANGED file
      BY <3>1
    <3>2. CASE file' = [file EXCEPT ![at[i]] = draft[i]]
      <4>1. /\ at[i] \in File
            /\ IF at[i] \in Configs
               THEN ~dirty[i] => /\ Editable(at[i], file[at[i]], Directories[i])
                                 /\ draft[i] = Edited(at[i], file[at[i]], Directories[i])
               ELSE \E v \in 0..source : draft[i] = [Blank("document") EXCEPT !.rest = v]
        BY <2>1 DEF DraftCurrent, Publish, Editing
      <4>2. ASSUME NEW f \in File, file'[f] # file[f] PROVE f = at[i] /\ file'[f] = draft[i]
        BY <3>2, <4>1, <4>2
      <4> QED
        BY <4>1, <4>2
    <3> QED
      BY <2>1, <3>1, <3>2 DEF Publish
  <2>2. ASSUME NEW c \in Configs, GuestWrites(c) PROVE writes' # writes
    <3>1. writes' = writes + 1
      BY <2>2, GuestWritesEffect
    <3> QED
      BY <3>1, TrustAssumption
  <2>3. CASE UNCHANGED file
    BY <2>3
  <2>4. ASSUME NEW i \in Invocation, Advance(i) \/ Killed(i), ~Publish(i) PROVE UNCHANGED file
    BY <2>4 DEF Advance, Enter, Refresh, LockConfig, Read, Write, Leave, Killed
  <2>5. HostEdits \/ AllOver => UNCHANGED file
    BY DEF HostEdits, AllOver, trustVars
  <2> QED
    BY <2>1, <2>2, <2>3, <2>4, <2>5 DEF Next
<1> QED
  BY InitInvariant, NextInvariant, <1>1, PTL DEF Spec, OnlyWantedChanges
=============================================================================

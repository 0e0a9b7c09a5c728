----------------------------- MODULE TrustStore -----------------------------
(***************************************************************************)
(* The files of the selected state root that agent preparation edits on    *)
(* the host: Codex' config.toml and Claude's .claude.json                  *)
(* (ensureCodexConfiguration, ensureClaudeDirectoryTrust) and the copy of  *)
(* the host's instructions (RefreshAgentInstructions).                     *)
(*                                                                         *)
(* Invocations on different projects share the default state root.  Each   *)
(* holds the lock of its project throughout; an edit of a configuration    *)
(* nests the lock of that file.  Where a lock file lies each invocation    *)
(* decides for itself, from its TMPDIR and the mounts.  The state root is  *)
(* mounted in the guests, whose agents write the same files and know none  *)
(* of the locks.                                                           *)
(***************************************************************************)
EXTENDS AdvisoryLock, LockDirectory, FiniteSets

CONSTANTS
  Projects,     \* the names of the project locks
  ProjectOf,    \* invocation -> its project
  LockDirectories, \* where lock files may lie
  Temporary,    \* invocation -> the lock directory below its TMPDIR
  Fallbacks,    \* the other candidates, in order
  Mounts,       \* name of a lock -> the mounts that its file must lie outside of
  Dir,          \* directories
  Directories,  \* invocation -> the directories it trusts, {} for a login
  Requested,    \* invocation -> the agents it prepares
  InitialFiles, \* what the files may hold before
  MaxVersion,   \* bound: edits of the host's instructions
  MaxWrites     \* bound: writes by agents in the guests

Configs == {"codex", "claude"}
File == Configs \cup {"instructions"}

Trust == {"none", "untrusted", "trusted", "bad"}
Updates == {"unset", "on", "off", "bad"}
Version == 0..MaxVersion

(* "missing", "malformed" (not a document of the agent's format), "link",  *)
(* "torn" (part of what a writer meant to write), or a document.  `updates`*)
(* stands for the settings that Codex preparation turns off, `rest` for    *)
(* everything else a document says; a "bad" value has the wrong type.      *)
Content ==
  [form: {"missing", "malformed", "link", "torn", "document"},
   trust: [Dir -> Trust], updates: Updates, rest: Version]

Blank(form) ==
  [form |-> form, trust |-> [d \in Dir |-> "none"], updates |-> "unset", rest |-> 0]

ASSUME TrustAssumption ==
  /\ Projects \cap Configs = {}
  /\ LockFile = LockDirectories \X (Projects \cup Configs)
  /\ Temporary \in [Invocation -> LockDirectories]
  /\ Fallbacks \in Seq(LockDirectories)
  /\ NoDirectory \notin LockDirectories
  /\ ProjectOf \in [Invocation -> Projects]
  /\ Directories \in [Invocation -> SUBSET Dir]
  /\ Requested \in [Invocation -> SUBSET Configs]
  /\ MaxVersion \in Nat /\ MaxWrites \in Nat
  /\ InitialFiles \subseteq Content

VARIABLES
  file,     \* the files of the state root
  source,   \* the version of the host's instructions
  pc,       \* each invocation's next step
  at,       \* the file it works on
  draft,    \* the content it is going to publish
  dirty,    \* a guest wrote that file after the invocation read it
  litter,   \* the invocations that left a temporary file behind
  ensured,  \* <<i, c>>: i found or made its directories trusted in c
  revoked,  \* <<c, d>>: a guest wrote c without trust in d since
  writes    \* the writes of guests so far

trustVars == <<file, source, holder, pc, at, draft, dirty, litter, ensured, revoked, writes>>

TypeOK ==
  /\ LockTypeOK
  /\ file \in [File -> Content]
  /\ source \in Version
  /\ pc \in [Invocation -> {"idle", "refresh", "lock", "read", "write", "publish",
                            "leave", "ok", "failed", "killed"}]
  /\ at \in [Invocation -> File]
  /\ draft \in [Invocation -> Content]
  /\ dirty \in [Invocation -> BOOLEAN]
  /\ litter \in SUBSET Invocation
  /\ ensured \in SUBSET (Invocation \X Configs)
  /\ revoked \in SUBSET (Configs \X Dir)
  /\ writes \in 0..MaxWrites

Init ==
  /\ file \in [File -> InitialFiles]
  /\ file["instructions"] \in {Blank("missing"), Blank("link")}
  /\ source = 0
  /\ LockInit
  /\ pc = [i \in Invocation |-> "idle"]
  /\ at = [i \in Invocation |-> "instructions"]
  /\ draft = [i \in Invocation |-> Blank("missing")]
  /\ dirty = [i \in Invocation |-> FALSE]
  /\ litter = {} /\ ensured = {} /\ revoked = {} /\ writes = 0

---------------------------------------------------------------------------
(* codexConfiguredConfig and claudeTrustedConfig as what they do to a      *)
(* document.  An incompatible value is an error, never replaced.           *)
Editable(c, content, dirs) ==
  /\ content.form \in {"missing", "document"}
  /\ \A d \in dirs : content.trust[d] # "bad"
  /\ c = "codex" => content.updates # "bad"

\* Mutant: a value is written that the agent does not know.
EditedUnknownValue(c, content, dirs) ==
  [content EXCEPT !.form = "document",
                  !.trust = [d \in Dir |-> IF d \in dirs THEN "accepted" ELSE content.trust[d]]]

Edited(c, content, dirs) ==
  [content EXCEPT
     !.form = "document",
     !.trust = [d \in Dir |-> IF d \in dirs THEN "trusted" ELSE content.trust[d]],
     !.updates = IF c = "codex" THEN "off" ELSE @]

(* Nothing has to be written (the code compares the texts). *)
Satisfied(c, content, dirs) == Edited(c, content, dirs) = content

---------------------------------------------------------------------------
\* Mutant: the mounts are not looked at.
DirectoryBelowTMPDIR(i, name) == Temporary[i]

(* The CLI names no lock directory, so each lock gets the default one: of  *)
(* a project outside the mounts of its VM, of a configuration outside the  *)
(* state root.  The name says which project or which file of which state   *)
(* root is locked; the directory comes from the caller's environment.      *)
ChosenDirectory(i, name) == DefaultLockDirectory(<<Temporary[i]>> \o Fallbacks, Mounts[name])

LockPath(i, name) == <<ChosenDirectory(i, name), name>>

(* What exclusion depends on, and the code does not ensure: the TMPDIR of  *)
(* all invocations lead to one lock file of each configuration.            *)
OneLockFile ==
  \A i, j \in Invocation, c \in Configs : ChosenDirectory(i, c) = ChosenDirectory(j, c)

AcquireLock(i, name) ==
  /\ ChosenDirectory(i, name) # NoDirectory
  /\ Acquire(i, LockPath(i, name))

Goto(i, next) == pc' = [pc EXCEPT ![i] = next]

(* An agent that is not prepared, and any agent on a login command, has    *)
(* its configuration left alone.                                           *)
Wanted(i) == IF Directories[i] = {} THEN {} ELSE Requested[i]

(* Codex before Claude, whatever order the agents were named in. *)
After(i, f) ==
  IF f = "instructions" /\ "codex" \in Wanted(i) THEN "codex"
  ELSE IF f # "claude" /\ "claude" \in Wanted(i) THEN "claude"
  ELSE "end"

Proceed(i, f) ==
  IF After(i, f) = "end"
  THEN Goto(i, "leave") /\ UNCHANGED at
  ELSE Goto(i, "lock") /\ at' = [at EXCEPT ![i] = After(i, f)]

(* The lock on the configuration goes with withAdvisoryLock's return; the  *)
(* project's lock goes with the whole preparation.                         *)
ReleaseConfig(i) ==
  IF at[i] \in Configs THEN Release(i, LockPath(i, at[i])) ELSE UNCHANGED holder

Forget(i) ==
  /\ draft' = [draft EXCEPT ![i] = Blank("missing")]
  /\ dirty' = [dirty EXCEPT ![i] = FALSE]

Abort(i) ==
  /\ ReleaseAll(i)
  /\ Goto(i, "failed")
  /\ UNCHANGED at

(* No directory outside the mounts, a failing open or flock: an error.     *)
Enter(i) ==
  /\ pc[i] = "idle"
  /\ \/ Abort(i)
     \/ AcquireLock(i, ProjectOf[i]) /\ Goto(i, "refresh") /\ UNCHANGED at
  /\ UNCHANGED <<file, source, draft, dirty, litter, ensured, revoked, writes>>

(* RefreshAgentInstructions up to its temporary file.  It takes no lock of *)
(* its own.  A missing source leaves the copy alone.                       *)
Refresh(i) ==
  /\ pc[i] = "refresh"
  /\ \/ Abort(i) /\ UNCHANGED draft
     \/ Proceed(i, "instructions") /\ UNCHANGED <<holder, draft>>
     \/ /\ file["instructions"].form # "link"
        /\ draft' = [draft EXCEPT ![i] = [Blank("document") EXCEPT !.rest = source]]
        /\ Goto(i, "write")
        /\ UNCHANGED <<holder, at>>
  /\ UNCHANGED <<file, source, dirty, litter, ensured, revoked, writes>>

LockConfig(i) ==
  /\ pc[i] = "lock"
  /\ \/ Abort(i)
     \/ AcquireLock(i, at[i]) /\ Goto(i, "read") /\ UNCHANGED at
  /\ UNCHANGED <<file, source, draft, dirty, litter, ensured, revoked, writes>>

(* Mutant: the early return for an unchanged text keeps the lock. *)
ReadKeepsLock(i) ==
  /\ pc[i] = "read"
  /\ LET content == file[at[i]]
         wanted == Directories[i]
     IN \/ Abort(i) /\ UNCHANGED <<draft, dirty, ensured>>
        \/ /\ Editable(at[i], content, wanted)
           /\ IF Satisfied(at[i], content, wanted)
              THEN /\ ensured' = ensured \cup {<<i, at[i]>>}
                   /\ Proceed(i, at[i])
                   /\ UNCHANGED <<holder, draft, dirty>>
              ELSE /\ draft' = [draft EXCEPT ![i] = Edited(at[i], content, wanted)]
                   /\ dirty' = [dirty EXCEPT ![i] = FALSE]
                   /\ Goto(i, "write")
                   /\ UNCHANGED <<holder, at, ensured>>
  /\ UNCHANGED <<file, source, litter, revoked, writes>>

(* Read and edit under the lock; an error or nothing to do ends the edit.  *)
Read(i) ==
  /\ pc[i] = "read"
  /\ LET content == file[at[i]]
         wanted == Directories[i]
     IN \/ Abort(i) /\ UNCHANGED <<draft, dirty, ensured>>
        \/ /\ Editable(at[i], content, wanted)
           /\ IF Satisfied(at[i], content, wanted)
              THEN /\ ReleaseConfig(i)
                   /\ ensured' = ensured \cup {<<i, at[i]>>}
                   /\ Proceed(i, at[i])
                   /\ UNCHANGED <<draft, dirty>>
              ELSE /\ draft' = [draft EXCEPT ![i] = Edited(at[i], content, wanted)]
                   /\ dirty' = [dirty EXCEPT ![i] = FALSE]
                   /\ Goto(i, "write")
                   /\ UNCHANGED <<holder, at, ensured>>
  /\ UNCHANGED <<file, source, litter, revoked, writes>>

(* Mutant: the file itself is truncated and written. *)
WriteInPlace(i) ==
  /\ pc[i] = "write"
  /\ file' = [file EXCEPT ![at[i]] = Blank("torn")]
  /\ Goto(i, "publish")
  /\ UNCHANGED <<source, holder, at, draft, dirty, litter, ensured, revoked, writes>>

(* Create the temporary file, write and sync it.  The deferred removal of  *)
(* a temporary file may fail, with a warning.                              *)
Write(i) ==
  /\ pc[i] = "write"
  /\ \/ Abort(i) /\ Forget(i) /\ litter' \in {litter, litter \cup {i}}
     \/ Goto(i, "publish") /\ UNCHANGED <<holder, at, draft, dirty, litter>>
  /\ UNCHANGED <<file, source, ensured, revoked, writes>>

Publish(i) ==
  /\ pc[i] = "publish"
  /\ \/ /\ Abort(i) /\ litter' \in {litter, litter \cup {i}}
        /\ UNCHANGED <<file, ensured, revoked>>
     \/ /\ file' = [file EXCEPT ![at[i]] = draft[i]]
        /\ ReleaseConfig(i)
        /\ Proceed(i, at[i])
        /\ IF at[i] \in Configs
           THEN /\ ensured' = ensured \cup {<<i, at[i]>>}
                /\ revoked' = revoked \ ({at[i]} \X Directories[i])
           ELSE UNCHANGED <<ensured, revoked>>
        /\ UNCHANGED litter
  /\ Forget(i)
  /\ UNCHANGED <<source, writes>>

Leave(i) ==
  /\ pc[i] = "leave"
  /\ Release(i, LockPath(i, ProjectOf[i]))
  /\ Goto(i, "ok")
  /\ UNCHANGED <<file, source, at, draft, dirty, litter, ensured, revoked, writes>>

Killed(i) ==
  /\ pc[i] \notin {"idle", "ok", "failed", "killed"}
  /\ ReleaseAll(i)
  /\ Goto(i, "killed")
  /\ Forget(i)
  /\ litter' = IF pc[i] \in {"write", "publish"} THEN litter \cup {i} ELSE litter
  /\ UNCHANGED <<file, source, at, ensured, revoked, writes>>

(* An agent in a guest replaces its configuration: it changes something    *)
(* that LJA does not know, withdraws trust, or spoils the file.            *)
GuestWrites(c) ==
  /\ writes < MaxWrites /\ writes' = writes + 1
  /\ \E content \in
        {[file[c] EXCEPT !.form = "document", !.rest = v] : v \in Version}
        \cup {[file[c] EXCEPT !.form = "document", !.trust[d] = "untrusted"] : d \in Dir}
        \cup {Blank("malformed")} :
       /\ file' = [file EXCEPT ![c] = content]
       /\ revoked' = revoked \cup {<<c, d>> : d \in {e \in Dir : content.trust[e] # "trusted"}}
  /\ dirty' = [i \in Invocation |->
               dirty[i] \/ (at[i] = c /\ pc[i] \in {"write", "publish"})]
  /\ UNCHANGED <<source, holder, pc, at, draft, litter, ensured>>

HostEdits ==
  /\ source < MaxVersion /\ source' = source + 1
  /\ UNCHANGED <<file, holder, pc, at, draft, dirty, litter, ensured, revoked, writes>>

AllOver ==
  /\ \A i \in Invocation : pc[i] \in {"ok", "failed", "killed"}
  /\ UNCHANGED trustVars

Advance(i) ==
  \/ Enter(i) \/ Refresh(i) \/ LockConfig(i) \/ Read(i) \/ Write(i) \/ Publish(i) \/ Leave(i)

Next ==
  \/ \E i \in Invocation : Advance(i) \/ Killed(i)
  \/ \E c \in Configs : GuestWrites(c)
  \/ HostEdits
  \/ AllOver

Spec == Init /\ [][Next]_trustVars

(* Host file operations return, and flock is granted when it stays free.   *)
(* Locking may also fail, but need not: an error is no way out of a wait.  *)
Progress(i) ==
  /\ Advance(i)
  /\ pc[i] \in {"idle", "lock"} => pc'[i] # "failed"

FairSpec == Spec /\ \A i \in Invocation : WF_trustVars(Progress(i))

---------------------------------------------------------------------------
(* Under OneLockFile, two invocations that edit one configuration never    *)
(* undo each other (ensureCodexConfiguration, ensureClaudeDirectoryTrust): *)
(* what one of them ensured stays trusted until a guest writes otherwise.  *)
NoLostTrust ==
  \A i \in Invocation, c \in Configs, d \in Dir :
    (<<i, c>> \in ensured /\ d \in Directories[i] /\ <<c, d>> \notin revoked) =>
      file[c].trust[d] = "trusted"

(* The code of an invocation changes a file only by replacing all of it:   *)
(* by the edit of exactly what the file held, with everything it does not  *)
(* mean to change kept and nothing that it cannot read replaced (unless a  *)
(* guest wrote in between), or by a version of the host's instructions.    *)
(* So no kill and no error leaves a part of a file.  That no other         *)
(* invocation wrote in between depends on OneLockFile.                     *)
OnlyWantedChanges ==
  [][ \A f \in File :
        (file'[f] # file[f] /\ writes' = writes) =>
          \E i \in Invocation :
            IF f \in Configs
            THEN /\ file'[f] = draft[i]
                 /\ ~dirty[i] => /\ Editable(f, file[f], Directories[i])
                                 /\ file'[f] = Edited(f, file[f], Directories[i])
            ELSE \E v \in 0..source : file'[f] = [Blank("document") EXCEPT !.rest = v]
    ]_trustVars

(* Nested locks never leave a preparation waiting for ever.                *)
PreparationsEnd ==
  \A i \in Invocation : <>(pc[i] \in {"ok", "failed", "killed"})
=============================================================================

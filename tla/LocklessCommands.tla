-------------------------- MODULE LocklessCommands --------------------------
(***************************************************************************)
(* One process that runs a lifecycle command without taking any advisory   *)
(* lock: stop --all, delete --all, delete (lima.go).  Each lists the       *)
(* instances once and then acts on that listing, name by name, while other *)
(* processes go on changing the store.                                     *)
(***************************************************************************)
EXTENDS LimaStore, Functions

CONSTANTS
  Commands   \* the commands this process may run

ASSUME CommandsAssumption == Commands \subseteq {"stopAll", "deleteAll", "delete"}

VARIABLES
  command,   \* "none" before the listing, the command, "over"
  listing    \* the names still to be handled -> the status in the listing

locklessVars == <<command, listing>>

LocklessTypeOK ==
  /\ command \in {"none", "over"} \cup Commands
  /\ listing \in UNION {[names -> Status] : names \in SUBSET Name}

LocklessInit == command = "none" /\ listing = <<>>

\* Mutant: a name that the listing does not have is handled like the others.
ListedAll(names) == [n \in names |-> store[n].status]

Listed(names) == [n \in {m \in names : Exists(m)} |-> store[n].status]

Run(c, l) == command' = c /\ listing' = l

(* StopAllVMs refuses to begin when a listed VM is neither running nor     *)
(* stopped.                                                                *)
StopAllBegin ==
  /\ command = "none" /\ "stopAll" \in Commands
  /\ \/ Run("over", <<>>)
     \/ LET all == Listed(Name)
        IN IF \A n \in DOMAIN all : all[n] \in {"Stopped", "Running"}
           THEN Run("stopAll", all) ELSE Run("over", <<>>)
  /\ UNCHANGED store

(* DeleteAllVMs takes every VM of LJA's namespace, transaction names too.  *)
DeleteAllBegin ==
  /\ command = "none" /\ "deleteAll" \in Commands
  /\ Run("over", <<>>) \/ Run("deleteAll", Listed(Name))
  /\ UNCHANGED store

(* DeleteVM takes the project's VM, whatever its state and mounts.         *)
DeleteBegin(n) ==
  /\ command = "none" /\ "delete" \in Commands
  /\ Run("over", <<>>) \/ Run("delete", Listed({n}))
  /\ UNCHANGED store

(* A VM that was stopped in the listing is reported and left alone.  The   *)
(* first failure ends the command.                                         *)
StopNext(n) ==
  /\ command = "stopAll" /\ n \in DOMAIN listing
  /\ IF listing[n] = "Running"
     THEN \E ok \in BOOLEAN :
            /\ Stop(n, ok)
            /\ IF ok THEN Run("stopAll", Restrict(listing, DOMAIN listing \ {n}))
               ELSE Run("over", <<>>)
     ELSE /\ Run("stopAll", Restrict(listing, DOMAIN listing \ {n}))
          /\ UNCHANGED store

(* By name: the VM that is deleted need not be the one that was listed.    *)
DeleteNext(n) ==
  /\ command \in {"deleteAll", "delete"} /\ n \in DOMAIN listing
  /\ \E ok \in BOOLEAN :
       /\ Delete(n, ok)
       /\ IF ok THEN Run(command, Restrict(listing, DOMAIN listing \ {n}))
          ELSE Run("over", <<>>)

LocklessEnd ==
  /\ command \in Commands /\ DOMAIN listing = {}
  /\ Run("over", <<>>)
  /\ UNCHANGED store

(* `project` is the name that `lja delete` computes for its project.       *)
Lockless(project) ==
  \/ StopAllBegin \/ DeleteAllBegin \/ DeleteBegin(project)
  \/ \E n \in Name : StopNext(n) \/ DeleteNext(n)
  \/ LocklessEnd
=============================================================================

--------------------------- MODULE AgentInvocation ---------------------------
(***************************************************************************)
(* How an agent's arguments and environment reach its executable: built by *)
(* the launcher on the host (BuildAgentInvocation), by the wrapper scripts *)
(* that preparation writes into the guest (agentWrapperContent), or by     *)
(* both, since a launch with several agents puts the wrappers first in     *)
(* PATH.  The wrappers of a VM are one directory for all the invocations   *)
(* of lja on it, which go on running after they gave up the project lock.  *)
(***************************************************************************)
EXTENDS Naturals, Sequences, FiniteSets

CONSTANTS
  Session,    \* invocations of lja on one VM
  Selected,   \* session -> the agent it launches, "shell" for a shell
  Prepared,   \* session -> the agents it prepares
  Args,       \* the argument vectors that users and agents pass
  MaxCalls    \* bound: agents called by name in a session

Agent == {"codex", "claude", "opencode"}

(* Arguments as the code tells them apart: --no-daemon, --no-daemon=value, *)
(* `exec`, the agent's login subcommand, LJA's permission flag, another    *)
(* permission option (alone or as --option=value), a one-letter permission *)
(* option as -o=value, anything else.                                      *)
Word == {"noDaemon", "noDaemonValue", "exec", "login", "flag", "option", "shortOption", "other"}

ASSUME InvocationAssumption ==
  /\ Selected \in [Session -> Agent \cup {"shell"}]
  /\ Prepared \in [Session -> SUBSET Agent]
  /\ \A s \in Session : Selected[s] # "shell" => Selected[s] \in Prepared[s]
  /\ Args \subseteq Seq(Word)
  /\ MaxCalls \in Nat

VARIABLES
  pc,        \* session -> its step
  missing,   \* session -> the wrappers it has still to write
  wrappers,  \* the wrappers in the VM
  installed, \* the agents installed in the VM
  process,   \* session -> what runs in it
  calls      \* session -> calls so far

agentVars == <<pc, missing, wrappers, installed, process, calls>>

(* given: what the caller passed; argv: what the executable gets; states:  *)
(* the agents whose state variables are set; by: how it was started.       *)
Process ==
  [agent: Agent \cup {"shell"}, given: Seq(Word), argv: Seq(Word), states: SUBSET Agent,
   by: {"launch", "call"}]

Nothing == [agent |-> "shell", given |-> <<>>, argv |-> <<>>, states |-> {}, by |-> "launch"]

(* More than one agent, or a shell with agents: the wrappers are in PATH.  *)
WithWrappers(s) ==
  Prepared[s] # (IF Selected[s] = "shell" THEN {} ELSE {Selected[s]})

Init ==
  /\ pc = [s \in Session |-> "prepare"]
  /\ missing = [s \in Session |-> {}]
  /\ wrappers = {} /\ installed = {}
  /\ process = [s \in Session |-> Nothing]
  /\ calls = [s \in Session |-> 0]

---------------------------------------------------------------------------
First(args) == IF args = <<>> THEN "" ELSE Head(args)

HasAny(args, words) == \E k \in DOMAIN args : args[k] \in words

HasDefault(a) == a \in {"codex", "claude"}

IsLoginCommand(a, args) == HasDefault(a) /\ First(args) = "login"

WithoutLeading(a, args) ==
  IF a = "codex" /\ First(args) = "noDaemon" THEN Tail(args) ELSE args

\* `flag` after `exec` for Codex, in front otherwise
InsertFlag(a, args) ==
  IF a = "codex" /\ First(args) = "exec"
  THEN <<"exec", "flag">> \o Tail(args)
  ELSE <<"flag">> \o args

(* Codex gets --no-daemon unless the arguments have one of its `forms`.    *)
WithNoDaemon(a, args, forms) ==
  IF a = "codex" /\ ~HasAny(args, forms) THEN <<"noDaemon">> \o args ELSE args

(* BuildAgentInvocation: hasOption knows every option as o and as o=value. *)
Launcher(a, args) ==
  LET rest == WithoutLeading(a, args)
  IN WithNoDaemon(a,
       IF /\ HasDefault(a)
          /\ ~IsLoginCommand(a, rest)
          /\ ~HasAny(rest, {"flag", "option", "shortOption"})
       THEN InsertFlag(a, rest) ELSE rest,
       {"noDaemon", "noDaemonValue"})

\* Mutant: the script looks at its first argument before it shifts.
WrapperUnshifted(a, args) ==
  WithNoDaemon(a,
    IF HasDefault(a) /\ ~IsLoginCommand(a, args) /\ ~HasAny(args, {"flag", "option"})
    THEN InsertFlag(a, args) ELSE args,
    {"noDaemon"})

\* Mutant: `exec` is handled before the explicit options are looked for.
WrapperExecFirst(a, args) ==
  LET rest == WithoutLeading(a, args)
  IN WithNoDaemon(a,
       IF /\ HasDefault(a)
          /\ ~IsLoginCommand(a, rest)
          /\ First(rest) = "exec" \/ ~HasAny(rest, {"flag", "option"})
       THEN InsertFlag(a, rest) ELSE rest,
       {"noDaemon"})

(* The wrapper's script: its patterns know o=value for long permission     *)
(* options only, and --no-daemon as that one word.                         *)
Wrapper(a, args) ==
  LET rest == WithoutLeading(a, args)
  IN WithNoDaemon(a,
       IF /\ HasDefault(a)
          /\ ~IsLoginCommand(a, rest)
          /\ ~HasAny(rest, {"flag", "option"})
       THEN InsertFlag(a, rest) ELSE rest,
       {"noDaemon"})

\* Mutant: the variables of the other agents are not unset.
WrapperStatesAdded(a, states) == states \cup {a}

WrapperStates(a, states) == {a}

---------------------------------------------------------------------------
(* Preparation under the project lock, one session after the other: the    *)
(* agents are installed, the script removes the wrappers of agents that    *)
(* this session did not ask for and replaces its own one by one.  It may   *)
(* fail anywhere.                                                          *)
Unlocked(s) == \A t \in Session \ {s} : pc[t] # "wrappers"

Prepare(s) ==
  /\ pc[s] = "prepare" /\ Unlocked(s)
  /\ installed' = installed \cup Prepared[s]
  /\ IF WithWrappers(s)
     THEN /\ wrappers' = wrappers \cap Prepared[s]
          /\ missing' = [missing EXCEPT ![s] = Prepared[s]]
          /\ pc' = [pc EXCEPT ![s] = "wrappers"]
     ELSE /\ pc' = [pc EXCEPT ![s] = "launch"]
          /\ UNCHANGED <<wrappers, missing>>
  /\ UNCHANGED <<process, calls>>

WriteWrapper(s, a) ==
  /\ pc[s] = "wrappers" /\ a \in missing[s]
  /\ wrappers' = wrappers \cup {a}
  /\ missing' = [missing EXCEPT ![s] = @ \ {a}]
  /\ UNCHANGED <<pc, installed, process, calls>>

Unlock(s) ==
  /\ pc[s] = "wrappers" /\ missing[s] = {}
  /\ pc' = [pc EXCEPT ![s] = "launch"]
  /\ UNCHANGED <<missing, wrappers, installed, process, calls>>

Fails(s) ==
  /\ pc[s] \in {"prepare", "wrappers"}
  /\ pc' = [pc EXCEPT ![s] = "over"]
  /\ missing' = [missing EXCEPT ![s] = {}]
  /\ UNCHANGED <<wrappers, installed, process, calls>>

---------------------------------------------------------------------------
(* The shell's or env's search for an executable named `a`                 *)
Executed(s, a, given, args, states, by) ==
  IF WithWrappers(s) /\ a \in wrappers
  THEN [agent |-> a, given |-> given, argv |-> Wrapper(a, args),
        states |-> WrapperStates(a, states), by |-> by]
  ELSE [agent |-> a, given |-> given, argv |-> args, states |-> states, by |-> by]

Launch(s) ==
  /\ pc[s] = "launch" /\ Selected[s] # "shell"
  /\ \E args \in Args :
       process' = [process EXCEPT ![s] =
                     Executed(s, Selected[s], args, Launcher(Selected[s], args),
                              {Selected[s]}, "launch")]
  /\ pc' = [pc EXCEPT ![s] = "running"]
  /\ UNCHANGED <<missing, wrappers, installed, calls>>

OpenShell(s) ==
  /\ pc[s] = "launch" /\ Selected[s] = "shell"
  /\ pc' = [pc EXCEPT ![s] = "running"]
  /\ UNCHANGED <<missing, wrappers, installed, process, calls>>

(* In the guest, the user or an agent calls an agent by name.              *)
Call(s, a) ==
  /\ pc[s] = "running" /\ calls[s] < MaxCalls
  /\ WithWrappers(s) /\ a \in Prepared[s] \cap installed
  /\ \E args \in Args :
       process' = [process EXCEPT ![s] =
                     Executed(s, a, args, args, process[s].states, "call")]
  /\ calls' = [calls EXCEPT ![s] = @ + 1]
  /\ UNCHANGED <<pc, missing, wrappers, installed>>

Ends(s) ==
  /\ pc[s] = "running"
  /\ pc' = [pc EXCEPT ![s] = "over"]
  /\ process' = [process EXCEPT ![s] = Nothing]
  /\ UNCHANGED <<missing, wrappers, installed, calls>>

AllOver == (\A s \in Session : pc[s] = "over") /\ UNCHANGED agentVars

Next ==
  \/ \E s \in Session :
       \/ Prepare(s) \/ Unlock(s) \/ Fails(s) \/ Launch(s) \/ OpenShell(s)
       \/ Ends(s)
       \/ \E a \in Agent : WriteWrapper(s, a) \/ Call(s, a)
  \/ AllOver

Spec == Init /\ [][Next]_agentVars

---------------------------------------------------------------------------
Agents == {s \in Session : pc[s] = "running" /\ process[s].agent \in Agent}

Count(args, word) == Cardinality({k \in DOMAIN args : args[k] = word})

(* An explicit permission option of the user, and a login, leave the       *)
(* agent's permissions alone; any other start of Codex or Claude gets      *)
(* LJA's flag exactly once, however many layers it went through.           *)
ExplicitOptionsWin ==
  \A s \in Agents :
    LET p == process[s]
        rest == WithoutLeading(p.agent, p.given)
        own == \/ ~HasDefault(p.agent)
               \/ IsLoginCommand(p.agent, rest)
               \/ HasAny(rest, {"flag", "option", "shortOption"})
    IN Count(p.argv, "flag") = Count(p.given, "flag") + (IF own THEN 0 ELSE 1)

(* --no-daemon three times, twice of it in front: the launcher and the     *)
(* wrapper take one away each.                                             *)
Repeated(a, args) ==
  /\ a = "codex" /\ First(args) = "noDaemon" /\ First(Tail(args)) = "noDaemon"
  /\ HasAny(Tail(Tail(args)), {"noDaemon"})

(* A launch that goes through a wrapper starts what a direct launch would  *)
(* start: the wrapper takes away nothing of what the launcher built but a  *)
(* needless repetition, and adds nothing, except --no-daemon in front of   *)
(* arguments that have it as --no-daemon=value only, which the launcher    *)
(* takes for the same option (hasOption) and the script's case does not.   *)
LaunchUnchanged ==
  \A s \in Agents :
    LET built == Launcher(process[s].agent, process[s].given)
    IN process[s].by = "launch" /\ ~Repeated(process[s].agent, process[s].given) =>
         \/ process[s].argv = built
         \/ /\ HasAny(built, {"noDaemonValue"}) /\ ~HasAny(built, {"noDaemon"})
            /\ process[s].argv = <<"noDaemon">> \o built

(* An agent runs with its own state and no other agent's, also when        *)
(* another agent calls it by name and while other sessions prepare theirs. *)
OwnState == \A s \in Agents : process[s].states = {process[s].agent}
=============================================================================

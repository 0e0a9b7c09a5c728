-------------------------- MODULE GPGSessionProofs --------------------------
(***************************************************************************)
(* What TLAPS proves of the GPG forwarding of a workflow, for any number   *)
(* of VMs and guest commands: a command gets the session of the VM it runs *)
(* in, nothing is left behind unreported, and closing a session does not   *)
(* cancel the workflow.                                                    *)
(***************************************************************************)
EXTENDS GPGSession, TLAPS

(* What the steps of a start and of a close have made or removed. *)
Homed == {"guestSetup", "hostDirectory", "listen", "tunnel", "probe"}
Directed == {"listen", "tunnel", "probe"}
ProxyShut == {"cancelSSH", "reap", "removeHost", "removeGuest"}
TunnelReaped == {"removeHost", "removeGuest"}

(* The workflow knows a session only while it uses it, and that one has    *)
(* its directory in the guest.                                             *)
CurrentSession ==
  /\ pc \in StartPC \cup ClosePC \cup {"over"} => current = NoVM
  /\ current # NoVM => sessionVM = current /\ guestHome[current]
  /\ pc = "run" => current = wish
  /\ pc \in ClosePC => closing \in CloseFor

(* A start is for the VM of the next guest command. *)
StartedSession ==
  /\ pc \in StartPC \ {"hostChecks"} => sessionVM = wish
  /\ pc \in Homed => guestHome[sessionVM]

(* A proxy and a tunnel exist for a session in use, from the step of the   *)
(* start that makes them to the step of the close that ends them.          *)
ProxyOfSession ==
  proxy = "open" =>
    current # NoVM \/ pc \in {"tunnel", "probe", "killed"} \cup (ClosePC \ ProxyShut)

TunnelOfSession ==
  ssh # "none" =>
    current # NoVM \/ pc \in {"probe", "killed"} \cup (ClosePC \ TunnelReaped)

(* Of what earlier sessions left behind the user will be told. *)
LeftoversReported ==
  pc # "killed" =>
    /\ hostDir =>
         \/ "cleanup" \in reported
         \/ current # NoVM \/ pc \in Directed \cup (ClosePC \ {"removeGuest"})
    /\ \A v \in VM : guestHome[v] =>
         \/ "cleanup" \in reported
         \/ v = sessionVM /\ (current # NoVM \/ pc \in Homed \cup ClosePC)

CauseReported == pc = "over" /\ ~Live => "cause" \in reported

(* Why a tunnel ended. *)
TunnelExplained ==
  /\ ssh = "exited" => lonely
  /\ ssh = "killed" => sshCancelled \/ ~Live

IInv ==
  /\ TypeOK /\ CurrentSession /\ StartedSession
  /\ ProxyOfSession /\ TunnelOfSession /\ LeftoversReported
  /\ CauseReported /\ TunnelExplained /\ NoSelfCancel

(* TypeOK in three parts. *)
ControlType ==
  /\ pc \in {"plan", "environment", "run", "cleanup", "over", "killed"}
            \cup StartPC \cup ClosePC
  /\ closing \in CloseFor \cup {"no"}
  /\ uses \in 0..MaxUses
  /\ wish \in VM
  /\ current \in VM \cup {NoVM} /\ sessionVM \in VM \cup {NoVM}
  /\ pc \in (StartPC \ {"hostChecks"}) \cup ClosePC => sessionVM \in VM

ResourceType ==
  /\ guestHome \in [VM -> BOOLEAN]
  /\ hostDir \in BOOLEAN /\ reaped \in BOOLEAN /\ sshCancelled \in BOOLEAN
  /\ armed \in BOOLEAN
  /\ proxy \in {"none", "open", "closed"}
  /\ ssh \in {"none", "running", "exited", "killed"}

ReportType ==
  /\ lonely \in BOOLEAN
  /\ cause \in {"none", "signal", "proxy", "ssh"}
  /\ reported \in SUBSET {"start", "home", "cleanup", "command", "cause"}

(* The workflow itself, and what runs beside it. *)
Workflow == Use \/ CloseExplicitly \/ Cleanup \/ Environment \/ CommandEnds
Beside == TunnelEnds \/ TunnelWaited \/ Revocation \/ Interrupted \/ ProxyFails \/ Killed

---------------------------------------------------------------------------
LEMMA InitInvariant == Init => IInv
<1> SUFFICES ASSUME Init PROVE IInv
  OBVIOUS
<1>1. TypeOK
  <2>1. ControlType
    BY SessionAssumption DEF Init, ControlType, CloseFor, StartPC, ClosePC
  <2>2. ResourceType
    BY DEF Init, ResourceType
  <2>3. ReportType
    BY DEF Init, ReportType
  <2> QED
    BY <2>1, <2>2, <2>3 DEF TypeOK, ControlType, ResourceType, ReportType
<1>2. CurrentSession /\ StartedSession /\ ProxyOfSession /\ TunnelOfSession
  BY DEF Init, CurrentSession, StartedSession, ProxyOfSession, TunnelOfSession, StartPC,
         ClosePC, Homed
<1>3. LeftoversReported /\ CauseReported /\ TunnelExplained /\ NoSelfCancel
  BY DEF Init, LeftoversReported, CauseReported, TunnelExplained, NoSelfCancel, Live
<1> QED
  BY <1>1, <1>2, <1>3 DEF IInv

(* Control stays where the code can be. *)
LEMMA ControlStep == IInv /\ [Next]_sessionVars => ControlType'
<1> SUFFICES ASSUME IInv, [Next]_sessionVars PROVE ControlType'
  OBVIOUS
<1> USE SessionAssumption
    DEF IInv, TypeOK, ControlType, CurrentSession,
        StartPC, ClosePC, CloseFor, Goto, resources
<1>1. CASE Workflow
  BY <1>1 DEF Workflow, Use, CloseExplicitly, Cleanup, Environment, CommandEnds,
         CloseSession, CloseFirst
<1>2. CASE Starting
  BY <1>2 DEF Starting, HostChecks, GuestHome, GuestSetup, HostDirectory, Listen, Tunnel,
         Probe, StartFails, CloseFirst, Succeeds
<1>3. CASE ClosingStep
  BY <1>3 DEF ClosingStep, StopRevocation, CloseProxy, CancelSSH, Reap, RemoveHost,
         RemoveGuest, AfterClose
<1>4. CASE Beside
  BY <1>4 DEF Beside, TunnelEnds, TunnelWaited, Revocation, Interrupted, ProxyFails, Killed, Cancel
<1>5. CASE UNCHANGED sessionVars
  BY <1>5 DEF sessionVars, Live
<1> QED
  BY <1>1, <1>2, <1>3, <1>4, <1>5 DEF Next, Workflow, Beside, Over

LEMMA ResourceStep == IInv /\ [Next]_sessionVars => ResourceType'
<1> SUFFICES ASSUME IInv, [Next]_sessionVars PROVE ResourceType'
  OBVIOUS
<1> USE SessionAssumption
    DEF IInv, TypeOK, ResourceType,
        StartPC, ClosePC, CloseFor, Goto, resources
<1>1. CASE Workflow
  BY <1>1 DEF Workflow, Use, CloseExplicitly, Cleanup, Environment, CommandEnds,
         CloseSession, CloseFirst
<1>2. CASE Starting
  BY <1>2 DEF Starting, HostChecks, GuestHome, GuestSetup, HostDirectory, Listen, Tunnel,
         Probe, StartFails, CloseFirst, Succeeds
<1>3. CASE ClosingStep
  BY <1>3 DEF ClosingStep, StopRevocation, CloseProxy, CancelSSH, Reap, RemoveHost,
         RemoveGuest, AfterClose
<1>4. CASE Beside
  BY <1>4 DEF Beside, TunnelEnds, TunnelWaited, Revocation, Interrupted, ProxyFails, Killed, Cancel
<1>5. CASE UNCHANGED sessionVars
  BY <1>5 DEF sessionVars, Live
<1> QED
  BY <1>1, <1>2, <1>3, <1>4, <1>5 DEF Next, Workflow, Beside, Over

LEMMA ReportStep == IInv /\ [Next]_sessionVars => ReportType'
<1> SUFFICES ASSUME IInv, [Next]_sessionVars PROVE ReportType'
  OBVIOUS
<1> USE SessionAssumption
    DEF IInv, TypeOK, ReportType,
        StartPC, ClosePC, CloseFor, Goto, resources
<1>1. CASE Workflow
  BY <1>1 DEF Workflow, Use, CloseExplicitly, Cleanup, Environment, CommandEnds,
         CloseSession, CloseFirst
<1>2. CASE Starting
  BY <1>2 DEF Starting, HostChecks, GuestHome, GuestSetup, HostDirectory, Listen, Tunnel,
         Probe, StartFails, CloseFirst, Succeeds
<1>3. CASE ClosingStep
  BY <1>3 DEF ClosingStep, StopRevocation, CloseProxy, CancelSSH, Reap, RemoveHost,
         RemoveGuest, AfterClose
<1>4. CASE Beside
  BY <1>4 DEF Beside, TunnelEnds, TunnelWaited, Revocation, Interrupted, ProxyFails, Killed, Cancel
<1>5. CASE UNCHANGED sessionVars
  BY <1>5 DEF sessionVars, Live
<1> QED
  BY <1>1, <1>2, <1>3, <1>4, <1>5 DEF Next, Workflow, Beside, Over

(* Which session the workflow knows, starts and uses. *)
LEMMA SessionStep == IInv /\ [Next]_sessionVars => CurrentSession' /\ StartedSession'
<1> SUFFICES ASSUME IInv, [Next]_sessionVars PROVE CurrentSession' /\ StartedSession'
  OBVIOUS
<1> USE SessionAssumption
    DEF IInv, TypeOK, CurrentSession, StartedSession, Homed,
        StartPC, ClosePC, CloseFor, Goto, resources
<1>1. CASE Workflow
  BY <1>1 DEF Workflow, Use, CloseExplicitly, Cleanup, Environment, CommandEnds,
         CloseSession, CloseFirst
<1>2. CASE Starting
  BY <1>2 DEF Starting, HostChecks, GuestHome, GuestSetup, HostDirectory, Listen, Tunnel,
         Probe, StartFails, CloseFirst, Succeeds
<1>3. CASE ClosingStep
  BY <1>3 DEF ClosingStep, StopRevocation, CloseProxy, CancelSSH, Reap, RemoveHost,
         RemoveGuest, AfterClose
<1>4. CASE Beside
  BY <1>4 DEF Beside, TunnelEnds, TunnelWaited, Revocation, Interrupted, ProxyFails, Killed, Cancel
<1>5. CASE UNCHANGED sessionVars
  BY <1>5 DEF sessionVars, Live
<1> QED
  BY <1>1, <1>2, <1>3, <1>4, <1>5 DEF Next, Workflow, Beside, Over

(* What forwards, and for whom. *)
LEMMA ForwardingStep == IInv /\ [Next]_sessionVars => ProxyOfSession' /\ TunnelOfSession'
<1> SUFFICES ASSUME IInv, [Next]_sessionVars PROVE ProxyOfSession' /\ TunnelOfSession'
  OBVIOUS
<1> USE SessionAssumption
    DEF IInv, TypeOK, CurrentSession, ProxyOfSession, TunnelOfSession,
        ProxyShut, TunnelReaped,
        StartPC, ClosePC, CloseFor, Goto, resources
<1>1. CASE Workflow
  BY <1>1 DEF Workflow, Use, CloseExplicitly, Cleanup, Environment, CommandEnds,
         CloseSession, CloseFirst
<1>2. CASE Starting
  BY <1>2 DEF Starting, HostChecks, GuestHome, GuestSetup, HostDirectory, Listen, Tunnel,
         Probe, StartFails, CloseFirst, Succeeds
<1>3. CASE ClosingStep
  BY <1>3 DEF ClosingStep, StopRevocation, CloseProxy, CancelSSH, Reap, RemoveHost,
         RemoveGuest, AfterClose
<1>4. CASE Beside
  BY <1>4 DEF Beside, TunnelEnds, TunnelWaited, Revocation, Interrupted, ProxyFails, Killed, Cancel
<1>5. CASE UNCHANGED sessionVars
  BY <1>5 DEF sessionVars, Live
<1> QED
  BY <1>1, <1>2, <1>3, <1>4, <1>5 DEF Next, Workflow, Beside, Over

(* What stays in guests and on the host. *)
LEMMA LeftoversStep == IInv /\ [Next]_sessionVars => LeftoversReported'
<1> SUFFICES ASSUME IInv, [Next]_sessionVars PROVE LeftoversReported'
  OBVIOUS
<1> USE SessionAssumption
    DEF IInv, TypeOK, CurrentSession, StartedSession, LeftoversReported,
        Homed, Directed,
        StartPC, ClosePC, CloseFor, Goto, resources
<1>1. CASE Workflow
  BY <1>1 DEF Workflow, Use, CloseExplicitly, Cleanup, Environment, CommandEnds,
         CloseSession, CloseFirst
<1>2. CASE Starting
  BY <1>2 DEF Starting, HostChecks, GuestHome, GuestSetup, HostDirectory, Listen, Tunnel,
         Probe, StartFails, CloseFirst, Succeeds
<1>3. CASE ClosingStep
  BY <1>3 DEF ClosingStep, StopRevocation, CloseProxy, CancelSSH, Reap, RemoveHost,
         RemoveGuest, AfterClose
<1>4. CASE Beside
  BY <1>4 DEF Beside, TunnelEnds, TunnelWaited, Revocation, Interrupted, ProxyFails, Killed, Cancel
<1>5. CASE UNCHANGED sessionVars
  BY <1>5 DEF sessionVars, Live
<1> QED
  BY <1>1, <1>2, <1>3, <1>4, <1>5 DEF Next, Workflow, Beside, Over

(* Why the workflow and its tunnel end. *)
LEMMA CauseStep ==
  IInv /\ [Next]_sessionVars => CauseReported' /\ TunnelExplained' /\ NoSelfCancel'
<1> SUFFICES ASSUME IInv, [Next]_sessionVars
             PROVE  CauseReported' /\ TunnelExplained' /\ NoSelfCancel'
  OBVIOUS
<1> USE SessionAssumption
    DEF IInv, TypeOK, CurrentSession, TunnelOfSession, CauseReported,
        TunnelExplained, NoSelfCancel, Live, TunnelReaped,
        StartPC, ClosePC, CloseFor, Goto, resources
<1>1. CASE Workflow
  BY <1>1 DEF Workflow, Use, CloseExplicitly, Cleanup, Environment, CommandEnds,
         CloseSession, CloseFirst
<1>2. CASE Starting
  BY <1>2 DEF Starting, HostChecks, GuestHome, GuestSetup, HostDirectory, Listen, Tunnel,
         Probe, StartFails, CloseFirst, Succeeds
<1>3. CASE ClosingStep
  BY <1>3 DEF ClosingStep, StopRevocation, CloseProxy, CancelSSH, Reap, RemoveHost,
         RemoveGuest, AfterClose
<1>4. CASE Beside
  BY <1>4 DEF Beside, TunnelEnds, TunnelWaited, Revocation, Interrupted, ProxyFails, Killed, Cancel
<1>5. CASE UNCHANGED sessionVars
  BY <1>5 DEF sessionVars
<1> QED
  BY <1>1, <1>2, <1>3, <1>4, <1>5 DEF Next, Workflow, Beside, Over

LEMMA NextInvariant == IInv /\ [Next]_sessionVars => IInv'
<1>1. IInv /\ [Next]_sessionVars => TypeOK'
  <2>1. TypeOK' <=> ControlType' /\ ResourceType' /\ ReportType'
    BY DEF TypeOK, ControlType, ResourceType, ReportType
  <2> QED
    BY <2>1, ControlStep, ResourceStep, ReportStep
<1> QED
  BY <1>1, SessionStep, ForwardingStep, LeftoversStep, CauseStep DEF IInv

---------------------------------------------------------------------------
(* The state of the model keeps its types. *)
THEOREM TypeCorrect == Spec => []TypeOK
<1>1. IInv => TypeOK
  BY DEF IInv
<1> QED
  BY InitInvariant, NextInvariant, <1>1, PTL DEF Spec

(* Every guest command that gpgWorkflow.environment gave a GNUPGHOME runs  *)
(* in the VM of the workflow's session, in which that directory exists.    *)
THEOREM CommandsUseTheirSession == Spec => []SessionOfRightVM
<1>1. IInv => SessionOfRightVM
  <2> SUFFICES ASSUME IInv, pc = "run" PROVE sessionVM = wish /\ guestHome[wish]
    BY DEF SessionOfRightVM
  <2>1. current = wish /\ wish # NoVM
    BY SessionAssumption DEF IInv, TypeOK, CurrentSession
  <2> QED
    BY <2>1 DEF IInv, CurrentSession
<1> QED
  BY InitInvariant, NextInvariant, <1>1, PTL DEF Spec

(* When the workflow returned, its sessions are cleaned up, or its error   *)
(* says that they are not (gpgSession.close, gpgWorkflow.cleanup).         *)
THEOREM NothingLeftUnreported == Spec => []CleanedUpOrReported
<1>1. IInv => CleanedUpOrReported
  BY DEF IInv, CurrentSession, ProxyOfSession, TunnelOfSession, LeftoversReported,
         CauseReported, CleanedUpOrReported, Homed, Directed, StartPC, ClosePC, ProxyShut,
         TunnelReaped
<1> QED
  BY InitInvariant, NextInvariant, <1>1, PTL DEF Spec

(* The end of a tunnel that gpgSession.close ended is not mistaken for a   *)
(* failure, however late the goroutine that waits for it comes to run.     *)
THEOREM ClosingCancelsNothing == Spec => []NoSelfCancel
<1>1. IInv => NoSelfCancel
  BY DEF IInv
<1> QED
  BY InitInvariant, NextInvariant, <1>1, PTL DEF Spec
=============================================================================

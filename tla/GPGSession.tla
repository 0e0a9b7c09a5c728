----------------------------- MODULE GPGSession -----------------------------
(***************************************************************************)
(* The GPG forwarding of one workflow (gpgWorkflow, gpgSession): a session *)
(* is started for the VM in which the next guest command runs, replaced    *)
(* when the workflow goes on in another VM, as recreation does, and closed *)
(* at the end.  The proxy appears as open or closed only; GPGProxy is the  *)
(* detailed model of it.                                                   *)
(*                                                                         *)
(* Beside the workflow run the goroutine that waits for the SSH tunnel,    *)
(* the revocation that a cancellation starts, and signals.                 *)
(***************************************************************************)
EXTENDS Naturals, FiniteSets

CONSTANTS
  VM,       \* the VMs that the workflow may use
  NoVM,     \* no session
  MaxUses   \* bound: guest commands of the workflow

ASSUME SessionAssumption == NoVM \notin VM /\ MaxUses \in Nat \ {0}

VARIABLES
  pc,          \* the workflow's next step
  closing,     \* what the session is closed for, "no" before the first close
  uses,        \* guest commands it has begun
  wish,        \* the VM of the next guest command
  current,     \* the VM of workflow.session
  sessionVM,   \* the VM of the session that is being started, used or closed
  guestHome,   \* VM -> a session directory exists in that guest
  hostDir,     \* the proxy's directory exists
  proxy,       \* "none", "open", "closed"
  ssh,         \* "none", "running", "exited", "killed": the tunnel
  reaped,      \* sshDone is closed
  sshCancelled,\* cancelSSH was called
  armed,       \* the revocation is registered and was not stopped
  cause,       \* why the workflow's context is cancelled, "none" if it is not
  lonely,      \* the tunnel of some session ended by itself
  reported     \* what the returned error speaks of

sessionVars == <<pc, closing, uses, wish, current, sessionVM, guestHome, hostDir, proxy, ssh,
                 reaped, sshCancelled, armed, cause, lonely, reported>>

resources == <<guestHome, hostDir, proxy, ssh, reaped, sshCancelled, armed>>

StartPC == {"hostChecks", "guestHome", "guestSetup", "hostDirectory", "listen", "tunnel", "probe"}

(* session.close, and what follows it: the error of a failed start, the    *)
(* start of the next session, or the workflow.                             *)
ClosePC == {"stopRevocation", "closeProxy", "cancelSSH", "reap", "removeHost", "removeGuest"}
CloseFor == {"startFailed", "switch", "explicit", "end"}

TypeOK ==
  /\ pc \in {"plan", "environment", "run", "cleanup", "over", "killed"}
            \cup StartPC \cup ClosePC
  /\ closing \in CloseFor \cup {"no"}
  /\ uses \in 0..MaxUses
  /\ wish \in VM
  /\ current \in VM \cup {NoVM} /\ sessionVM \in VM \cup {NoVM}
  /\ pc \in (StartPC \ {"hostChecks"}) \cup ClosePC => sessionVM \in VM
  /\ guestHome \in [VM -> BOOLEAN]
  /\ hostDir \in BOOLEAN /\ reaped \in BOOLEAN /\ sshCancelled \in BOOLEAN
  /\ armed \in BOOLEAN /\ lonely \in BOOLEAN
  /\ proxy \in {"none", "open", "closed"}
  /\ ssh \in {"none", "running", "exited", "killed"}
  /\ cause \in {"none", "signal", "proxy", "ssh"}
  /\ reported \in SUBSET {"start", "home", "cleanup", "command", "cause"}

Init ==
  /\ pc = "plan" /\ closing = "no" /\ uses = 0 /\ wish \in VM
  /\ current = NoVM /\ sessionVM = NoVM
  /\ guestHome = [v \in VM |-> FALSE] /\ hostDir = FALSE
  /\ proxy = "none" /\ ssh = "none"
  /\ reaped = FALSE /\ sshCancelled = FALSE /\ armed = FALSE
  /\ cause = "none" /\ lonely = FALSE /\ reported = {}

---------------------------------------------------------------------------
Live == cause = "none"

Cancel(why) == cause' = IF Live THEN why ELSE cause

(* A call that runs under the workflow's context, or its child with the    *)
(* startup timeout: it may fail, and it fails once that is cancelled.      *)
Succeeds == Live

Goto(step) == pc' = step /\ UNCHANGED closing

CloseFirst(for) == pc' = "stopRevocation" /\ closing' = for

---------------------------------------------------------------------------
(* The workflow: guest commands in one VM or another, a session closed on  *)
(* purpose (replaceVMLocked, before the candidate is stopped), the end.    *)
Use ==
  /\ pc = "plan" /\ uses < MaxUses
  /\ uses' = uses + 1
  /\ wish' \in VM
  /\ Goto("environment")
  /\ UNCHANGED <<current, sessionVM, resources, cause, lonely, reported>>

(* closeSession forgets the session first, and then closes it. *)
CloseSession(for, otherwise) ==
  /\ current' = NoVM
  /\ IF current # NoVM THEN CloseFirst(for) ELSE Goto(otherwise)

CloseExplicitly ==
  /\ pc = "plan"
  /\ CloseSession("explicit", "plan")
  /\ current # NoVM
  /\ UNCHANGED <<uses, wish, sessionVM, resources, cause, lonely, reported>>

Cleanup ==
  /\ pc \in {"plan", "cleanup"}
  /\ CloseSession("end", "over")
  /\ reported' = reported \cup (IF current = NoVM /\ ~Live THEN {"cause"} ELSE {})
  /\ UNCHANGED <<uses, wish, sessionVM, resources, cause, lonely>>

\* Mutant: any session will do.
EnvironmentOfAny ==
  /\ pc = "environment"
  /\ \/ ~Live /\ Goto("cleanup") /\ reported' = reported \cup {"cause"} /\ UNCHANGED current
     \/ Live /\ current # NoVM /\ Goto("run") /\ UNCHANGED <<current, reported>>
     \/ Live /\ current = NoVM /\ CloseSession("switch", "hostChecks") /\ UNCHANGED reported
  /\ UNCHANGED <<uses, wish, sessionVM, resources, cause, lonely>>

(* gpgWorkflow.environment *)
Environment ==
  /\ pc = "environment"
  /\ \/ ~Live /\ Goto("cleanup") /\ reported' = reported \cup {"cause"} /\ UNCHANGED current
     \/ Live /\ current = wish /\ Goto("run") /\ UNCHANGED <<current, reported>>
     \/ Live /\ current # wish /\ CloseSession("switch", "hostChecks") /\ UNCHANGED reported
  /\ UNCHANGED <<uses, wish, sessionVM, resources, cause, lonely>>

(* A command may run for ever, unless the cancelled context kills it.      *)
CommandEnds ==
  /\ pc = "run"
  /\ \/ Goto("plan") /\ UNCHANGED reported
     \/ Goto("cleanup") /\ reported' = reported \cup {"command"}
  /\ UNCHANGED <<uses, wish, current, sessionVM, resources, cause, lonely>>

---------------------------------------------------------------------------
(* startGPGSession.  A step that fails closes what the earlier ones made.  *)
StartFails ==
  /\ CloseFirst("startFailed")
  /\ reported' = reported \cup {"start"}

\* Mutant: the session is started for the VM of the old one.
HostChecksOfCurrent ==
  /\ pc = "hostChecks"
  /\ sessionVM' = current
  /\ \/ StartFails
     \/ Succeeds /\ Goto("guestHome") /\ UNCHANGED reported
  /\ proxy' = IF proxy = "closed" THEN "none" ELSE proxy
  /\ UNCHANGED <<uses, wish, current, guestHome, hostDir, ssh, reaped, sshCancelled, armed,
                 cause, lonely>>

(* The new session has no proxy yet. *)
HostChecks ==
  /\ pc = "hostChecks"
  /\ sessionVM' = wish
  /\ \/ StartFails
     \/ Succeeds /\ Goto("guestHome") /\ UNCHANGED reported
  /\ proxy' = IF proxy = "closed" THEN "none" ELSE proxy
  /\ UNCHANGED <<uses, wish, current, guestHome, hostDir, ssh, reaped, sshCancelled, armed,
                 cause, lonely>>

(* mktemp in the guest: when its answer is lost, so is the directory.      *)
GuestHome ==
  /\ pc = "guestHome"
  /\ \/ /\ CloseFirst("startFailed")
        /\ reported' = reported \cup {"start", "home"}
        /\ UNCHANGED guestHome
     \/ /\ Succeeds /\ Goto("guestSetup")
        /\ guestHome' = [guestHome EXCEPT ![sessionVM] = TRUE]
        /\ UNCHANGED reported
  /\ UNCHANGED <<uses, wish, current, sessionVM, hostDir, proxy, ssh, reaped, sshCancelled,
                 armed, cause, lonely>>

GuestSetup ==
  /\ pc = "guestSetup"
  /\ \/ StartFails
     \/ Succeeds /\ Goto("hostDirectory") /\ UNCHANGED reported
  /\ UNCHANGED <<uses, wish, current, sessionVM, resources, cause, lonely>>

HostDirectory ==
  /\ pc = "hostDirectory"
  /\ \/ StartFails /\ UNCHANGED hostDir
     \/ Goto("listen") /\ hostDir' = TRUE /\ UNCHANGED reported
  /\ UNCHANGED <<uses, wish, current, sessionVM, guestHome, proxy, ssh, reaped,
                 sshCancelled, armed, cause, lonely>>

(* newGPGProxy, then context.AfterFunc *)
Listen ==
  /\ pc = "listen"
  /\ \/ StartFails /\ UNCHANGED <<proxy, armed>>
     \/ Goto("tunnel") /\ proxy' = "open" /\ armed' = TRUE /\ UNCHANGED reported
  /\ UNCHANGED <<uses, wish, current, sessionVM, guestHome, hostDir, ssh, reaped,
                 sshCancelled, cause, lonely>>

Tunnel ==
  /\ pc = "tunnel"
  /\ reaped' = FALSE /\ sshCancelled' = FALSE
  /\ \/ StartFails /\ ssh' = "none"
     \/ Live /\ Goto("probe") /\ ssh' = "running" /\ UNCHANGED reported
  /\ UNCHANGED <<uses, wish, current, sessionVM, guestHome, hostDir, proxy, armed, cause,
                 lonely>>

Probe ==
  /\ pc = "probe"
  /\ \/ StartFails /\ UNCHANGED current
     \/ Succeeds /\ Goto("run") /\ current' = sessionVM /\ UNCHANGED reported
  /\ UNCHANGED <<uses, wish, sessionVM, resources, cause, lonely>>

---------------------------------------------------------------------------
(* gpgSession.close: every part is tried, whatever the others report, and  *)
(* a part that was never made is skipped.                                  *)
StopRevocation ==
  /\ pc = "stopRevocation" /\ Goto("closeProxy")
  /\ armed' = FALSE
  /\ UNCHANGED <<uses, wish, current, sessionVM, guestHome, hostDir, proxy, ssh, reaped,
                 sshCancelled, cause, lonely, reported>>

(* Whether or not its listener's close reports an error, the proxy serves  *)
(* nobody afterwards.                                                      *)
CloseProxy ==
  /\ pc = "closeProxy" /\ Goto("cancelSSH")
  /\ proxy' = IF proxy = "open" THEN "closed" ELSE proxy
  /\ \/ UNCHANGED reported
     \/ proxy # "none" /\ reported' = reported \cup {"cleanup"}
  /\ UNCHANGED <<uses, wish, current, sessionVM, guestHome, hostDir, ssh, reaped,
                 sshCancelled, armed, cause, lonely>>

CancelSSH ==
  /\ pc = "cancelSSH" /\ Goto("reap")
  /\ sshCancelled' = TRUE
  /\ UNCHANGED <<uses, wish, current, sessionVM, guestHome, hostDir, proxy, ssh, reaped,
                 armed, cause, lonely, reported>>

(* How the tunnel exited does not matter now; that waiting for it failed   *)
(* for another reason does.                                                *)
Reap ==
  /\ pc = "reap" /\ Goto("removeHost")
  /\ \/ ssh = "none" /\ UNCHANGED reported
     \/ ssh # "none" /\ reaped /\ reported' \in {reported, reported \cup {"cleanup"}}
  /\ ssh' = "none"
  /\ UNCHANGED <<uses, wish, current, sessionVM, guestHome, hostDir, proxy, reaped,
                 sshCancelled, armed, cause, lonely>>

RemoveHost ==
  /\ pc = "removeHost" /\ Goto("removeGuest")
  /\ \/ hostDir' = FALSE /\ UNCHANGED reported
     \/ hostDir /\ UNCHANGED hostDir /\ reported' = reported \cup {"cleanup"}
  /\ UNCHANGED <<uses, wish, current, sessionVM, guestHome, proxy, ssh, reaped,
                 sshCancelled, armed, cause, lonely>>

(* A cleanup error ends the workflow's use of guests, too. *)
AfterClose(failed) ==
  CASE closing = "end" -> "over"
    [] closing = "startFailed" -> "cleanup"
    [] closing = "switch" -> IF failed THEN "cleanup" ELSE "hostChecks"
    [] closing = "explicit" -> IF failed THEN "cleanup" ELSE "plan"

\* Mutant: what is left in the guest is only logged.
RemoveGuestQuiet ==
  /\ pc = "removeGuest"
  /\ guestHome' \in {guestHome, [guestHome EXCEPT ![sessionVM] = FALSE]}
  /\ reported' = reported \cup (IF closing = "end" /\ ~Live THEN {"cause"} ELSE {})
  /\ Goto(AfterClose("cleanup" \in reported))
  /\ UNCHANGED <<uses, wish, current, sessionVM, hostDir, proxy, ssh, reaped, sshCancelled,
                 armed, cause, lonely>>

(* The guest is cleaned up under a context of its own, with a timeout.  At *)
(* the end the workflow's cause is joined to its error.                    *)
RemoveGuest ==
  /\ pc = "removeGuest"
  /\ LET known == guestHome[sessionVM]
         cancelled == IF closing = "end" /\ ~Live THEN {"cause"} ELSE {}
     IN \/ /\ guestHome' = [guestHome EXCEPT ![sessionVM] = FALSE]
           /\ reported' = reported \cup cancelled
           /\ Goto(AfterClose("cleanup" \in reported))
        \/ /\ known /\ UNCHANGED guestHome
           /\ reported' = reported \cup cancelled \cup {"cleanup"}
           /\ Goto(AfterClose(TRUE))
  /\ UNCHANGED <<uses, wish, current, sessionVM, hostDir, proxy, ssh, reaped, sshCancelled,
                 armed, cause, lonely>>

---------------------------------------------------------------------------
(* The tunnel ends by itself, or is killed through its context.            *)
TunnelEnds ==
  /\ ssh = "running" /\ pc # "killed"
  /\ \/ ssh' = "exited" /\ lonely' = TRUE
     \/ (sshCancelled \/ ~Live) /\ ssh' = "killed" /\ UNCHANGED lonely
  /\ UNCHANGED <<pc, closing, uses, wish, current, sessionVM, guestHome, hostDir, proxy, reaped,
                 sshCancelled, armed, cause, reported>>

\* Mutant: every end of the tunnel counts as unexpected.
TunnelWaitedAlways ==
  /\ ssh \in {"exited", "killed"} /\ ~reaped /\ pc # "killed"
  /\ reaped' = TRUE /\ Cancel("ssh")
  /\ UNCHANGED <<pc, closing, uses, wish, current, sessionVM, guestHome, hostDir, proxy, ssh,
                 sshCancelled, armed, lonely, reported>>

\* Mutant: an end without an exit error counts as expected.
TunnelWaitedQuietly ==
  /\ ssh \in {"exited", "killed"} /\ ~reaped /\ pc # "killed"
  /\ reaped' = TRUE /\ UNCHANGED cause
  /\ UNCHANGED <<pc, closing, uses, wish, current, sessionVM, guestHome, hostDir, proxy, ssh,
                 sshCancelled, armed, lonely, reported>>

(* The goroutine that waits for it cancels the workflow unless the         *)
(* tunnel's context ended first.                                           *)
TunnelWaited ==
  /\ ssh \in {"exited", "killed"} /\ ~reaped /\ pc # "killed"
  /\ reaped' = TRUE
  /\ IF sshCancelled \/ ~Live THEN UNCHANGED cause ELSE Cancel("ssh")
  /\ UNCHANGED <<pc, closing, uses, wish, current, sessionVM, guestHome, hostDir, proxy, ssh,
                 sshCancelled, armed, lonely, reported>>

Revocation ==
  /\ ~Live /\ armed /\ proxy = "open" /\ pc # "killed"
  /\ proxy' = "closed" /\ armed' = FALSE
  /\ UNCHANGED <<pc, closing, uses, wish, current, sessionVM, guestHome, hostDir, ssh, reaped,
                 sshCancelled, cause, lonely, reported>>

(* SIGINT or SIGTERM *)
Interrupted ==
  /\ pc \notin {"over", "killed"} /\ Live
  /\ Cancel("signal")
  /\ UNCHANGED <<pc, closing, uses, wish, current, sessionVM, resources, lonely, reported>>

(* A failure in the open proxy *)
ProxyFails ==
  /\ pc \notin {"over", "killed"} /\ Live
  /\ proxy = "open" /\ Cancel("proxy")
  /\ UNCHANGED <<pc, closing, uses, wish, current, sessionVM, resources, lonely, reported>>

(* SIGKILL: the kernel closes the proxy's sockets, the tunnel may survive. *)
Killed ==
  /\ pc \notin {"over", "killed"}
  /\ Goto("killed")
  /\ proxy' = IF proxy = "open" THEN "closed" ELSE proxy
  /\ UNCHANGED <<uses, wish, current, sessionVM, guestHome, hostDir, ssh, reaped,
                 sshCancelled, armed, cause, lonely, reported>>

Over == pc \in {"over", "killed"} /\ UNCHANGED sessionVars

Starting ==
  HostChecks \/ GuestHome \/ GuestSetup \/ HostDirectory \/ Listen \/ Tunnel \/ Probe

ClosingStep ==
  StopRevocation \/ CloseProxy \/ CancelSSH \/ Reap \/ RemoveHost
  \/ RemoveGuest

(* What always goes on.  A guest command must end only when it is killed.  *)
Advance ==
  \/ Environment \/ Starting \/ ClosingStep
  \/ (~Live /\ CommandEnds) \/ (pc = "cleanup" /\ Cleanup)

Next ==
  \/ Use \/ CloseExplicitly \/ Cleanup \/ CommandEnds
  \/ Environment \/ Starting \/ ClosingStep
  \/ TunnelEnds \/ TunnelWaited \/ Revocation
  \/ Interrupted \/ ProxyFails \/ Killed \/ Over

Spec == Init /\ [][Next]_sessionVars

FairSpec ==
  /\ Spec
  /\ WF_sessionVars(Advance)
  /\ WF_sessionVars((sshCancelled \/ ~Live) /\ TunnelEnds)
  /\ WF_sessionVars(TunnelWaited)
  /\ WF_sessionVars(Revocation)

---------------------------------------------------------------------------
(* A guest command that was given a GNUPGHOME runs in the VM that this     *)
(* session belongs to, in particular after recreation went on from the     *)
(* candidate to the final VM.                                              *)
SessionOfRightVM == pc = "run" => sessionVM = wish /\ guestHome[wish]

(* When the workflow returned, the guests reach no host agent, no tunnel   *)
(* is left unreaped, and a directory that is left in the guest or on the   *)
(* host goes with an error, whatever failed or was cancelled before.       *)
CleanedUpOrReported ==
  pc = "over" =>
    /\ proxy # "open" /\ ssh = "none"
    /\ (hostDir \/ \E v \in VM : guestHome[v]) => "cleanup" \in reported
    /\ ~Live => "cause" \in reported

(* Closing a session on purpose does not cancel the workflow: a workflow   *)
(* cancelled because of its tunnel had one that ended by itself.           *)
NoSelfCancel == cause = "ssh" => lonely

(* No guest command goes on for ever without its tunnel, and a cancelled   *)
(* workflow always loses the access to the host agent.                     *)
AccessEnds ==
  /\ (pc = "run" /\ ssh = "exited") ~> (pc # "run")
  /\ (cause # "none") ~> (proxy # "open")
=============================================================================

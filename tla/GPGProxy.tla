------------------------------ MODULE GPGProxy ------------------------------
(***************************************************************************)
(* The proxy between a guest and the host's GPG agent (gpgProxy): a        *)
(* listener, an accepting goroutine, and for each connection a relay with  *)
(* a second goroutine that copies from the guest to the agent.  It may be  *)
(* closed at any time, by the session and by the revocation that a         *)
(* cancelled workflow starts, at once and twice.                           *)
(*                                                                         *)
(* A step is what a goroutine does between two points where another one    *)
(* can interfere: a critical section of the mutex, or one socket call.     *)
(***************************************************************************)
EXTENDS FiniteSets

CONSTANTS Conn   \* the connections that the guest may make

Side == {"guest", "agent"}
Socket == Conn \X Side
Closer == {"session", "revocation"}
Free == "free"

VARIABLES
  pending,   \* connections that wait to be accepted
  listening, \* the listener is open
  open,      \* the sockets that the proxy has open
  tracked,   \* proxy.connections
  mutex,     \* Free, or the closer that holds proxy.mutex over several steps
  closed,    \* proxy.closed
  acceptor,  \* the step of proxy.accept and the connection it handles
  relay,     \* connection -> the step of proxy.relay, which copies to the guest
  upload,    \* connection -> the step of the goroutine that copies to the agent
  closer,    \* the step of each call of proxy.close
  stopped,   \* stopRevocation was called
  cancelled  \* the workflow's context is cancelled

proxyVars == <<pending, listening, open, tracked, mutex, closed, acceptor, relay,
               upload, closer, stopped, cancelled>>

(* proxy.fail is two steps of the accepting goroutine, since the failure   *)
(* may be the proxy's own closing of the listener ("own").                 *)
AcceptorStep == {"accept", "done", "ownError", "foreignError", "cancelOwn", "cancelForeign"}

TypeOK ==
  /\ pending \in SUBSET Conn
  /\ listening \in BOOLEAN /\ closed \in BOOLEAN
  /\ stopped \in BOOLEAN /\ cancelled \in BOOLEAN
  /\ open \in SUBSET Socket
  /\ tracked \in SUBSET Socket
  /\ mutex \in {Free} \cup Closer
  /\ acceptor \in (AcceptorStep \X {{}}) \cup ({"track"} \X {{c} : c \in Conn})
  /\ relay \in [Conn -> {"none", "dial", "trackAgent", "copy", "closeGuest", "wait",
                         "releaseAgent", "releaseGuest", "done"}]
  /\ upload \in [Conn -> {"none", "copy", "closeWrite", "done"}]
  /\ closer \in [Closer -> {"idle", "lock", "closeListener", "closeTracked", "wait", "done"}]

Init ==
  /\ pending = {} /\ open = {} /\ tracked = {}
  /\ listening = TRUE /\ closed = FALSE /\ mutex = Free
  /\ acceptor = <<"accept", {}>>
  /\ relay = [c \in Conn |-> "none"]
  /\ upload = [c \in Conn |-> "none"]
  /\ closer = [k \in Closer |-> "idle"]
  /\ stopped = FALSE /\ cancelled = FALSE

---------------------------------------------------------------------------
unchangedByRelays == <<pending, listening, mutex, closed, acceptor, closer, stopped>>

RelayTo(c, step) == relay' = [relay EXCEPT ![c] = step]
UploadTo(c, step) == upload' = [upload EXCEPT ![c] = step]
Close(sockets) == open' = open \ sockets

(* proxy.fail with an error that the proxy's closing did not cause *)
Fail == mutex = Free /\ cancelled' = (cancelled \/ ~closed)

---------------------------------------------------------------------------
(* proxy.accept                                                            *)
\* Mutant: one accept takes all the connections that wait.
AcceptAll(c) ==
  /\ acceptor = <<"accept", {}>> /\ c \in pending /\ listening
  /\ pending' = {}
  /\ open' = open \cup (pending \X {"guest"})
  /\ acceptor' = <<"track", pending>>
  /\ UNCHANGED <<listening, tracked, mutex, closed, relay, upload, closer, stopped, cancelled>>

AcceptConnection(c) ==
  /\ acceptor = <<"accept", {}>> /\ c \in pending /\ listening
  /\ pending' = pending \ {c}
  /\ open' = open \cup {<<c, "guest">>}
  /\ acceptor' = <<"track", {c}>>
  /\ UNCHANGED <<listening, tracked, mutex, closed, relay, upload, closer, stopped, cancelled>>

AcceptError ==
  /\ acceptor = <<"accept", {}>>
  /\ acceptor' = <<IF listening THEN "foreignError" ELSE "ownError", {}>>
  /\ UNCHANGED <<pending, listening, open, tracked, mutex, closed, relay, upload, closer,
                 stopped, cancelled>>

(* A connection that was accepted while the proxy was being closed is not  *)
(* tracked, so that the closing cannot miss it.                            *)
AcceptTrack(c) ==
  /\ acceptor = <<"track", {c}>> /\ mutex = Free
  /\ IF closed
     THEN /\ Close({<<c, "guest">>})
          /\ acceptor' = <<"done", {}>>
          /\ UNCHANGED <<tracked, relay>>
     ELSE /\ tracked' = tracked \cup {<<c, "guest">>}
          /\ RelayTo(c, "dial")
          /\ acceptor' = <<"accept", {}>>
          /\ UNCHANGED open
  /\ UNCHANGED <<pending, listening, mutex, closed, upload, closer, stopped, cancelled>>

AcceptFail ==
  /\ acceptor[1] \in {"ownError", "foreignError"} /\ mutex = Free
  /\ acceptor' = <<CASE closed -> "done"
                     [] ~closed /\ acceptor[1] = "ownError" -> "cancelOwn"
                     [] ~closed /\ acceptor[1] = "foreignError" -> "cancelForeign", {}>>
  /\ UNCHANGED <<pending, listening, open, tracked, mutex, closed, relay, upload, closer,
                 stopped, cancelled>>

AcceptCancel ==
  /\ acceptor[1] \in {"cancelOwn", "cancelForeign"}
  /\ cancelled' = TRUE
  /\ acceptor' = <<"done", {}>>
  /\ UNCHANGED <<pending, listening, open, tracked, mutex, closed, relay, upload, closer,
                 stopped>>

---------------------------------------------------------------------------
(* proxy.relay                                                             *)
Dial(c) ==
  /\ relay[c] = "dial"
  /\ \/ Fail /\ RelayTo(c, "releaseGuest") /\ UNCHANGED open
     \/ open' = open \cup {<<c, "agent">>} /\ RelayTo(c, "trackAgent") /\ UNCHANGED cancelled
  /\ UNCHANGED <<unchangedByRelays, tracked, upload>>

TrackAgent(c) ==
  /\ relay[c] = "trackAgent" /\ mutex = Free
  /\ IF closed
     THEN /\ Close({<<c, "agent">>})
          /\ RelayTo(c, "releaseGuest")
          /\ UNCHANGED <<tracked, upload>>
     ELSE /\ tracked' = tracked \cup {<<c, "agent">>}
          /\ RelayTo(c, "copy") /\ UploadTo(c, "copy")
          /\ UNCHANGED open
  /\ UNCHANGED <<unchangedByRelays, cancelled>>

(* A copy ends with its sockets (net.ErrClosed is no failure), ...         *)
LocallyClosed(c) == {<<c, "guest">>, <<c, "agent">>} \cap open # {<<c, "guest">>, <<c, "agent">>}

DownloadCut(c) ==
  /\ relay[c] = "copy" /\ LocallyClosed(c)
  /\ RelayTo(c, "closeGuest")
  /\ UNCHANGED <<unchangedByRelays, open, tracked, upload, cancelled>>

UploadCut(c) ==
  /\ upload[c] = "copy" /\ LocallyClosed(c)
  /\ UploadTo(c, "closeWrite")
  /\ UNCHANGED <<unchangedByRelays, open, tracked, relay, cancelled>>

(* ... or when the peer is done or fails: the agent here, the guest below. *)
DownloadEnds(c) ==
  /\ relay[c] = "copy" /\ RelayTo(c, "closeGuest")
  /\ Fail \/ UNCHANGED cancelled
  /\ UNCHANGED <<unchangedByRelays, open, tracked, upload>>

UploadEnds(c) ==
  /\ upload[c] = "copy" /\ UploadTo(c, "closeWrite")
  /\ Fail \/ UNCHANGED cancelled
  /\ UNCHANGED <<unchangedByRelays, open, tracked, relay>>

CloseWrite(c) ==
  /\ upload[c] = "closeWrite" /\ UploadTo(c, "done")
  /\ (<<c, "agent">> \in open /\ Fail) \/ UNCHANGED cancelled
  /\ UNCHANGED <<unchangedByRelays, open, tracked, relay>>

CloseGuest(c) ==
  /\ relay[c] = "closeGuest" /\ RelayTo(c, "wait")
  /\ Close({<<c, "guest">>})
  /\ UNCHANGED <<unchangedByRelays, tracked, upload, cancelled>>

WaitUpload(c) ==
  /\ relay[c] = "wait" /\ upload[c] = "done"
  /\ RelayTo(c, "releaseAgent")
  /\ UNCHANGED <<unchangedByRelays, open, tracked, upload, cancelled>>

(* Deferred: forget the socket under the mutex, then close it; nobody else *)
(* reaches it in between.                                                  *)
Release(c, here, side, next) ==
  /\ relay[c] = here /\ mutex = Free
  /\ tracked' = tracked \ {<<c, side>>}
  /\ Close({<<c, side>>})
  /\ RelayTo(c, next)
  /\ UNCHANGED <<unchangedByRelays, upload, cancelled>>

ReleaseAgent(c) == Release(c, "releaseAgent", "agent", "releaseGuest")
ReleaseGuest(c) == Release(c, "releaseGuest", "guest", "done")

---------------------------------------------------------------------------
(* proxy.close, by session.close after it called stopRevocation, and by    *)
(* the function that context.AfterFunc runs after a cancellation           *)
unchangedByClosers == <<acceptor, relay, upload, cancelled>>

CloserTo(k, step) == closer' = [closer EXCEPT ![k] = step]

SessionCloses ==
  /\ closer["session"] = "idle" /\ CloserTo("session", "lock")
  /\ stopped' = TRUE
  /\ UNCHANGED <<pending, listening, open, tracked, mutex, closed, unchangedByClosers>>

RevocationStarts ==
  /\ cancelled /\ ~stopped
  /\ closer["revocation"] = "idle" /\ CloserTo("revocation", "lock")
  /\ UNCHANGED <<pending, listening, open, tracked, mutex, closed, stopped, unchangedByClosers>>

\* Mutant: nothing says that the proxy is being closed.
CloserLockUnmarked(k) ==
  /\ closer[k] = "lock" /\ mutex = Free
  /\ mutex' = k /\ CloserTo(k, "closeListener")
  /\ UNCHANGED <<pending, listening, open, tracked, closed, stopped, unchangedByClosers>>

CloserLock(k) ==
  /\ closer[k] = "lock" /\ mutex = Free
  /\ mutex' = k /\ closed' = TRUE
  /\ CloserTo(k, "closeListener")
  /\ UNCHANGED <<pending, listening, open, tracked, stopped, unchangedByClosers>>

CloserListener(k) ==
  /\ closer[k] = "closeListener"
  /\ listening' = FALSE /\ pending' = {}
  /\ CloserTo(k, "closeTracked")
  /\ UNCHANGED <<open, tracked, mutex, closed, stopped, unchangedByClosers>>

\* Mutant: only the guests' ends are closed.
CloserGuestsOnly(k) ==
  /\ closer[k] = "closeTracked"
  /\ Close({s \in tracked : s[2] = "guest"})
  /\ mutex' = Free
  /\ CloserTo(k, "wait")
  /\ UNCHANGED <<pending, listening, tracked, closed, stopped, unchangedByClosers>>

CloserTracked(k) ==
  /\ closer[k] = "closeTracked"
  /\ Close(tracked)
  /\ mutex' = Free
  /\ CloserTo(k, "wait")
  /\ UNCHANGED <<pending, listening, tracked, closed, stopped, unchangedByClosers>>

(* proxy.workers counts the accepting goroutine and the relays. *)
WorkersDone ==
  /\ acceptor = <<"done", {}>>
  /\ \A c \in Conn : relay[c] \in {"none", "done"}

\* Mutant: close does not wait for the goroutines.
CloserWaitNot(k) ==
  /\ closer[k] = "wait"
  /\ CloserTo(k, "done")
  /\ UNCHANGED <<pending, listening, open, tracked, mutex, closed, stopped, unchangedByClosers>>

CloserWait(k) ==
  /\ closer[k] = "wait" /\ WorkersDone
  /\ CloserTo(k, "done")
  /\ UNCHANGED <<pending, listening, open, tracked, mutex, closed, stopped, unchangedByClosers>>

---------------------------------------------------------------------------
GuestConnects(c) ==
  /\ listening /\ relay[c] = "none" /\ c \notin pending /\ acceptor # <<"track", {c}>>
  /\ <<c, "guest">> \notin open
  /\ pending' = pending \cup {c}
  /\ UNCHANGED <<listening, open, tracked, mutex, closed, acceptor, relay, upload, closer,
                 stopped, cancelled>>

(* A signal, or the SSH tunnel's end, cancels the workflow. *)
Cancelled ==
  /\ ~cancelled /\ cancelled' = TRUE
  /\ UNCHANGED <<pending, listening, open, tracked, mutex, closed, acceptor, relay, upload,
                 closer, stopped>>

Closed == closer["session"] = "done" /\ closer["revocation"] \in {"idle", "done"} /\ UNCHANGED proxyVars

(* What the proxy's own goroutines always come to do. *)
Progress(c) ==
  \/ Dial(c) \/ TrackAgent(c) \/ DownloadCut(c) \/ CloseGuest(c) \/ WaitUpload(c)
  \/ ReleaseAgent(c) \/ ReleaseGuest(c)

Accepting ==
  \/ \E c \in Conn : AcceptConnection(c) \/ AcceptTrack(c)
  \/ ~listening /\ AcceptError
  \/ AcceptFail \/ AcceptCancel

Closing(k) == CloserLock(k) \/ CloserListener(k) \/ CloserTracked(k) \/ CloserWait(k)

Next ==
  \/ Accepting \/ AcceptError
  \/ \E c \in Conn :
       \/ Progress(c) \/ UploadCut(c) \/ CloseWrite(c)
       \/ DownloadEnds(c) \/ UploadEnds(c) \/ GuestConnects(c)
  \/ \E k \in Closer : Closing(k)
  \/ SessionCloses \/ RevocationStarts \/ Cancelled
  \/ Closed

Spec == Init /\ [][Next]_proxyVars

(* Goroutines are scheduled, a dial ends after its timeout, and a          *)
(* sync.Mutex is not withheld from a waiting goroutine for ever.  Neither  *)
(* peer ever has to be done, and an agent that reads nothing can hold a    *)
(* writing upload until its socket is closed.                              *)
FairSpec ==
  /\ Spec
  /\ SF_proxyVars(Accepting)
  /\ \A c \in Conn :
       /\ SF_proxyVars(Progress(c))
       /\ WF_proxyVars(<<c, "agent">> \notin open /\ UploadCut(c))
       /\ WF_proxyVars(CloseWrite(c))
  /\ \A k \in Closer : SF_proxyVars(Closing(k))
  /\ WF_proxyVars(RevocationStarts)

---------------------------------------------------------------------------
(* Once a close left its critical section no guest is connected to the     *)
(* agent any more, although relays may be anywhere in their set-up; and    *)
(* once it returned, nothing is open.                                      *)
AccessRevoked ==
  \A k \in Closer :
    /\ closer[k] \in {"wait", "done"} => \A c \in Conn : LocallyClosed(c)
    /\ closer[k] = "done" => open = {}

(* Closing the proxy is not itself taken for a failure of the forwarding,  *)
(* which would cancel a workflow that only closes its session.             *)
NoSpuriousFailure == acceptor[1] # "cancelOwn"

(* Every close returns, and a cancellation revokes the access, whatever    *)
(* the guest and the agent do with their connections.                      *)
CloseReturns ==
  /\ \A k \in Closer : closer[k] = "lock" ~> closer[k] = "done"
  /\ cancelled ~> (\E k \in Closer : closer[k] = "done")
=============================================================================

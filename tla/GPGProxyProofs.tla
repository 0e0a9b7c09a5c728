--------------------------- MODULE GPGProxyProofs ---------------------------
(***************************************************************************)
(* What TLAPS proves of the GPG proxy, for any number of connections and   *)
(* every interleaving of its goroutines: a close leaves no guest connected *)
(* to the host's agent, and is never taken for a failure of the forwarding *)
(* itself.  TLC checks two connections.                                    *)
(***************************************************************************)
EXTENDS GPGProxy, TLAPS

AgentTracked == {"copy", "closeGuest", "wait", "releaseAgent"}
Locked == {"closeListener", "closeTracked"}
Revoking == {"wait", "done"}

(* proxy.mutex is what excludes the closers from each other, and closed    *)
(* is set in the first of their critical sections, the listener closed in  *)
(* it as well.                                                             *)
ClosersExclusive ==
  /\ \A k \in Closer : closer[k] \in Locked <=> mutex = k
  /\ closed <=> \E k \in Closer : closer[k] \notin {"idle", "lock"}
  /\ \A k \in Closer : closer[k] \in {"closeTracked"} \cup Revoking => ~listening
  /\ ~listening => closed

(* A connection is in one place: waiting, accepted, or with its relay. *)
OnePlace ==
  /\ \A c \in pending : relay[c] = "none" /\ acceptor # <<"track", {c}>>
  /\ \A c \in Conn : acceptor = <<"track", {c}>> => relay[c] = "none"

(* proxy.connections holds the sockets of the relays, and a socket that is *)
(* open and not yet in it is about to be put there or closed.              *)
Tracking ==
  \A c \in Conn :
    /\ <<c, "guest">> \in tracked <=> relay[c] \notin {"none", "done"}
    /\ <<c, "agent">> \in tracked <=> relay[c] \in AgentTracked
    /\ <<c, "guest">> \in open => <<c, "guest">> \in tracked \/ acceptor = <<"track", {c}>>
    /\ <<c, "agent">> \in open => <<c, "agent">> \in tracked \/ relay[c] = "trackAgent"

(* After a close's critical section all that is open is not yet tracked,   *)
(* and nothing can become tracked; a close that returned left no worker.   *)
TrackedClosed ==
  /\ (\E k \in Closer : closer[k] \in Revoking) => open \cap tracked = {}
  /\ (\E k \in Closer : closer[k] = "done") => WorkersDone

OwnErrorKnown == acceptor[1] = "ownError" => closed

IInv ==
  /\ TypeOK /\ ClosersExclusive /\ OnePlace /\ Tracking /\ TrackedClosed
  /\ OwnErrorKnown /\ NoSpuriousFailure

---------------------------------------------------------------------------
LEMMA InitInvariant == Init => IInv
<1> SUFFICES ASSUME Init PROVE IInv
  OBVIOUS
<1>1. TypeOK
  BY DEF Init, TypeOK, AcceptorStep, Closer, Socket
<1>2. ClosersExclusive /\ TrackedClosed
  BY DEF Init, ClosersExclusive, TrackedClosed, Locked, Revoking, Closer, Free
<1>3. OnePlace /\ Tracking /\ OwnErrorKnown /\ NoSpuriousFailure
  BY DEF Init, OnePlace, Tracking, AgentTracked, OwnErrorKnown, NoSpuriousFailure
<1> QED
  BY <1>1, <1>2, <1>3 DEF IInv

(* Every step of every goroutine keeps it. *)
LEMMA NextInvariant == IInv /\ [Next]_proxyVars => IInv'
<1> SUFFICES ASSUME IInv, [Next]_proxyVars PROVE IInv'
  OBVIOUS
<1> USE DEF IInv, TypeOK, AcceptorStep, ClosersExclusive, OnePlace, Tracking, TrackedClosed,
        WorkersDone, OwnErrorKnown, NoSpuriousFailure, AgentTracked, Locked, Revoking,
        Closer, Socket, Side, Free
<1>1. ASSUME NEW c \in Conn, AcceptConnection(c) PROVE IInv'
  BY <1>1 DEF AcceptConnection
<1>2. ASSUME AcceptError PROVE IInv'
  BY <1>2 DEF AcceptError
<1>3. ASSUME NEW c \in Conn, AcceptTrack(c) PROVE IInv'
  <2>1. CASE closed
    BY <1>3, <2>1 DEF AcceptTrack, Close
  <2>2. CASE ~closed
    <3>1. TypeOK' /\ ClosersExclusive' /\ OwnErrorKnown' /\ NoSpuriousFailure'
      BY <1>3, <2>2 DEF AcceptTrack, RelayTo
    <3>2. OnePlace' /\ TrackedClosed'
      BY <1>3, <2>2 DEF AcceptTrack, RelayTo
    <3>3. Tracking'
      <4>1. /\ tracked' = tracked \cup {<<c, "guest">>} /\ open' = open
            /\ relay' = [relay EXCEPT ![c] = "dial"] /\ relay[c] = "none"
        BY <1>3, <2>2 DEF AcceptTrack, RelayTo
      <4>2. \A b \in Conn : acceptor = <<"track", {b}>> => b = c
        BY <1>3 DEF AcceptTrack
      <4> QED
        BY <4>1, <4>2
    <3> QED
      BY <3>1, <3>2, <3>3
  <2> QED
    BY <2>1, <2>2
<1>4. ASSUME AcceptFail PROVE IInv'
  BY <1>4 DEF AcceptFail
<1>5. ASSUME AcceptCancel PROVE IInv'
  BY <1>5 DEF AcceptCancel
<1>6. ASSUME NEW c \in Conn, Dial(c) PROVE IInv'
  <2>1. CASE Fail /\ RelayTo(c, "releaseGuest") /\ UNCHANGED open
    BY <1>6, <2>1 DEF Dial, Fail, RelayTo, unchangedByRelays
  <2>2. CASE /\ open' = open \cup {<<c, "agent">>} /\ RelayTo(c, "trackAgent")
             /\ UNCHANGED cancelled
    <3>1. TypeOK' /\ ClosersExclusive'
      BY <1>6, <2>2 DEF Dial, RelayTo, unchangedByRelays
    <3>2. OnePlace' /\ OwnErrorKnown' /\ NoSpuriousFailure'
      BY <1>6, <2>2 DEF Dial, RelayTo, unchangedByRelays
    <3>3. Tracking'
      BY <1>6, <2>2 DEF Dial, RelayTo, unchangedByRelays
    <3>4. <<c, "agent">> \notin tracked
      BY <1>6 DEF Dial
    <3>5. TrackedClosed'
      BY <1>6, <2>2, <3>4 DEF Dial, RelayTo, unchangedByRelays
    <3> QED
      BY <3>1, <3>2, <3>3, <3>5
  <2> QED
    BY <1>6, <2>1, <2>2 DEF Dial
<1>7. ASSUME NEW c \in Conn, TrackAgent(c) PROVE IInv'
  <2>1. CASE closed
    BY <1>7, <2>1 DEF TrackAgent, Close, RelayTo, unchangedByRelays
  <2>2. CASE ~closed
    <3>1. TypeOK' /\ ClosersExclusive' /\ OnePlace' /\ OwnErrorKnown' /\ NoSpuriousFailure'
      BY <1>7, <2>2 DEF TrackAgent, RelayTo, UploadTo, unchangedByRelays
    <3>2. Tracking' /\ TrackedClosed'
      BY <1>7, <2>2 DEF TrackAgent, RelayTo, UploadTo, unchangedByRelays
    <3> QED
      BY <3>1, <3>2
  <2> QED
    BY <2>1, <2>2
<1>8. ASSUME NEW c \in Conn, DownloadCut(c) PROVE IInv'
  BY <1>8 DEF DownloadCut, RelayTo, unchangedByRelays
<1>9. ASSUME NEW c \in Conn, UploadCut(c) PROVE IInv'
  BY <1>9 DEF UploadCut, UploadTo, unchangedByRelays
<1>10. ASSUME NEW c \in Conn, DownloadEnds(c) PROVE IInv'
  BY <1>10 DEF DownloadEnds, Fail, RelayTo, unchangedByRelays
<1>11. ASSUME NEW c \in Conn, UploadEnds(c) PROVE IInv'
  BY <1>11 DEF UploadEnds, Fail, UploadTo, unchangedByRelays
<1>12. ASSUME NEW c \in Conn, CloseWrite(c) PROVE IInv'
  BY <1>12 DEF CloseWrite, Fail, UploadTo, unchangedByRelays
<1>13. ASSUME NEW c \in Conn, CloseGuest(c) PROVE IInv'
  BY <1>13 DEF CloseGuest, Close, RelayTo, unchangedByRelays
<1>14. ASSUME NEW c \in Conn, WaitUpload(c) PROVE IInv'
  BY <1>14 DEF WaitUpload, RelayTo, unchangedByRelays
<1>15. ASSUME NEW c \in Conn, ReleaseAgent(c) PROVE IInv'
  BY <1>15 DEF ReleaseAgent, Release, Close, RelayTo, unchangedByRelays
<1>16. ASSUME NEW c \in Conn, ReleaseGuest(c) PROVE IInv'
  BY <1>16 DEF ReleaseGuest, Release, Close, RelayTo, unchangedByRelays
<1>17. ASSUME SessionCloses PROVE IInv'
  BY <1>17 DEF SessionCloses, CloserTo, unchangedByClosers
<1>18. ASSUME RevocationStarts PROVE IInv'
  BY <1>18 DEF RevocationStarts, CloserTo, unchangedByClosers
<1>19. ASSUME NEW k \in Closer, CloserLock(k) PROVE IInv'
  BY <1>19 DEF CloserLock, CloserTo, unchangedByClosers
<1>20. ASSUME NEW k \in Closer, CloserListener(k) PROVE IInv'
  BY <1>20 DEF CloserListener, CloserTo, unchangedByClosers
<1>21. ASSUME NEW k \in Closer, CloserTracked(k) PROVE IInv'
  BY <1>21 DEF CloserTracked, Close, CloserTo, unchangedByClosers
<1>22. ASSUME NEW k \in Closer, CloserWait(k) PROVE IInv'
  BY <1>22 DEF CloserWait, CloserTo, unchangedByClosers
<1>23. ASSUME NEW c \in Conn, GuestConnects(c) PROVE IInv'
  BY <1>23 DEF GuestConnects
<1>24. ASSUME Cancelled PROVE IInv'
  BY <1>24 DEF Cancelled
<1>25. CASE UNCHANGED proxyVars
  BY <1>25 DEF proxyVars
<1> QED
  BY <1>1, <1>2, <1>3, <1>4, <1>5, <1>6, <1>7, <1>8, <1>9, <1>10, <1>11, <1>12, <1>13,
     <1>14, <1>15, <1>16, <1>17, <1>18, <1>19, <1>20, <1>21, <1>22, <1>23, <1>24, <1>25
     DEF Next, Accepting, Progress, Closing, Closed

---------------------------------------------------------------------------
(* The state of the model keeps its types. *)
THEOREM TypeCorrect == Spec => []TypeOK
<1>1. IInv => TypeOK
  BY DEF IInv
<1> QED
  BY InitInvariant, NextInvariant, <1>1, PTL DEF Spec

(* Once gpgProxy.close left its critical section no guest is connected to  *)
(* the agent, however far the relays' set-up had come, and once it         *)
(* returned nothing is open.                                               *)
THEOREM CloseRevokesAccess == Spec => []AccessRevoked
<1>1. IInv => AccessRevoked
  <2> SUFFICES ASSUME IInv, NEW k \in Closer
               PROVE  /\ closer[k] \in {"wait", "done"} => \A c \in Conn : LocallyClosed(c)
                      /\ closer[k] = "done" => open = {}
    BY DEF AccessRevoked
  <2> USE DEF IInv
  <2>1. ASSUME closer[k] \in {"wait", "done"}, NEW c \in Conn PROVE LocallyClosed(c)
    <3>1. <<c, "guest">> \in open => acceptor = <<"track", {c}>>
      BY <2>1 DEF TrackedClosed, Tracking, Revoking
    <3>2. <<c, "agent">> \in open => relay[c] = "trackAgent"
      BY <2>1 DEF TrackedClosed, Tracking, Revoking
    <3> QED
      BY <3>1, <3>2 DEF OnePlace, LocallyClosed
  <2>2. ASSUME closer[k] = "done", NEW s \in open PROVE FALSE
    <3>1. PICK c \in Conn, side \in Side : s = <<c, side>>
      BY DEF TypeOK, Socket
    <3>2. WorkersDone /\ open \cap tracked = {}
      BY <2>2 DEF TrackedClosed, Revoking
    <3> QED
      BY <3>1, <3>2 DEF Tracking, WorkersDone, Side
  <2> QED
    BY <2>1, <2>2
<1> QED
  BY InitInvariant, NextInvariant, <1>1, PTL DEF Spec

(* proxy.fail never takes the closing of the listener by proxy.close for a *)
(* failure, because proxy.close set proxy.closed in the same critical      *)
(* section.                                                                *)
THEOREM ClosingIsNoFailure == Spec => []NoSpuriousFailure
<1>1. IInv => NoSpuriousFailure
  BY DEF IInv
<1> QED
  BY InitInvariant, NextInvariant, <1>1, PTL DEF Spec
=============================================================================

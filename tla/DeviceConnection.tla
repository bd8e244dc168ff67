--------------------------- MODULE DeviceConnection ---------------------------
(***************************************************************************)
(* The browser's connection to one RayZ device, as                         *)
(* DeviceConnectionsProvider keeps it                                      *)
(* (web/apps/frontend/src/lib/websocket/DeviceConnectionContext.tsx).      *)
(* Everything there is keyed by the device's address, so one address       *)
(* stands for all.                                                         *)
(*                                                                         *)
(* JavaScript runs one callback at a time: a click, an effect, a timer or  *)
(* an event of a socket is one action.  What interleaves are the events of *)
(* several sockets: close() only begins to close, and the close event of   *)
(* an old socket may come long after a new one was made for the same       *)
(* address.  The handlers know their own socket but look things up by      *)
(* address.                                                                *)
(*                                                                         *)
(* Modelled is a local page over http (autoConnect, autoReconnect).  The   *)
(* timeout of an attempt may strike whenever the socket is connecting, or  *)
(* never.  Heartbeats and messages leave this state alone.                 *)
(***************************************************************************)
EXTENDS Integers, FiniteSets

CONSTANTS
  Sockets,    \* bound: WebSocket objects alive at a time
  NoSocket,
  MaxRetries  \* maxRetries

ASSUME ConnectionAssumption ==
  /\ IsFiniteSet(Sockets) /\ NoSocket \notin Sockets
  /\ MaxRetries \in Nat \ {0}

VARIABLES
  sock,  \* readyState of each socket; "closed" also before its creation
  conn,  \* the entries of the provider's maps for the address
  page   \* the provider is new, mounted or gone

vars == <<sock, conn, page>>

ReadyState == {"connecting", "open", "closing", "closed"}

ConnectionState == {"absent", "disconnected", "connecting", "connected", "error"}

\* The maps: websocketsRef, connectingRef, shouldReconnectRef, retryCountRef and
\* deviceStates; pending counts the reconnect timers that are armed, and held says
\* that the one in reconnectTimeoutsRef is among them.
Connection ==
  [ref : Sockets \cup {NoSocket}, connecting : BOOLEAN, should : BOOLEAN,
   retries : 0..MaxRetries, pending : Nat, held : BOOLEAN, state : ConnectionState]

Init ==
  /\ sock = [s \in Sockets |-> "closed"]
  /\ conn = [ref |-> NoSocket, connecting |-> FALSE, should |-> FALSE, retries |-> 0,
             pending |-> 0, held |-> FALSE, state |-> "disconnected"]
  /\ page = "new"

-----------------------------------------------------------------------------
(* The parts the handlers share. *)

\* Seeded fault: one attempt too many.
ExhaustedLate(n) == n > MaxRetries

Exhausted(n) == n >= MaxRetries

\* clearDeviceTimeouts: clearTimeout is for the timer in the map only.
ClearTimers(c) == [c EXCEPT !.pending = IF c.held THEN @ - 1 ELSE @, !.held = FALSE]

\* setTimeout and the entry in the map.
ArmTimer(c) == [c EXCEPT !.pending = @ + 1, !.held = TRUE]

\* ws.close().
BeginClose(s) ==
  IF s # NoSocket /\ sock[s] \in {"connecting", "open"}
  THEN [sock EXCEPT ![s] = "closing"] ELSE sock

\* connectDevice refuses while a connection is pending or there.
Refused(c) == c.connecting \/ (c.ref # NoSocket /\ sock[c.ref] \in {"connecting", "open"})

\* connectDevice once it has passed its guards: the device is to be reconnected.
Connecting(c) == [ClearTimers(c) EXCEPT !.connecting = TRUE, !.should = TRUE,
                                        !.state = "connecting"]

\* The constructor of the socket throws (the address makes no URL, or the page may not
\* use it): no close event will follow, and nothing is armed.
Thrown(c) == [Connecting(c) EXCEPT !.connecting = FALSE, !.state = "error"]

\* connectDevice, called with the maps as in c and the sockets as in k.  A call that
\* has set ref to NoSocket has just begun to close its socket.
ConnectDevice(c, k) ==
  \/ /\ Refused(c)
     /\ conn' = c
     /\ sock' = k
  \/ /\ ~Refused(c) /\ Exhausted(c.retries)
     /\ conn' = [c EXCEPT !.state = "error", !.should = FALSE]
     /\ sock' = k
  \/ /\ ~Refused(c) /\ ~Exhausted(c.retries)
     /\ \E s \in Sockets :
          /\ k[s] = "closed"
          /\ conn' = [Connecting(c) EXCEPT !.ref = s]
          /\ sock' = [k EXCEPT ![s] = "connecting"]
  \/ /\ ~Refused(c) /\ ~Exhausted(c.retries)
     /\ conn' = Thrown(c)
     /\ sock' = k

\* disconnectDevice: the address is no longer connecting only when the socket says so.
Disconnected(c) ==
  [ClearTimers(c) EXCEPT !.should = FALSE, !.ref = NoSocket, !.state = "disconnected"]

-----------------------------------------------------------------------------
(* The page and its user *)

\* The effect of the mounted provider connects its initial devices.
Mount ==
  /\ page = "new"
  /\ page' = "mounted"
  /\ ConnectDevice(conn, sock)

\* React's Strict Mode runs the effect, its cleanup and the effect again: the second
\* run finds the socket of the first in the map and leaves it at that.  (If there is
\* none, because its constructor threw, the second run is like a Mount.)
StrictMount ==
  /\ page = "new"
  /\ page' = "mounted"
  /\ \E s \in Sockets :
       /\ sock' = [sock EXCEPT ![s] = "closing"]
       /\ conn' = [conn EXCEPT !.ref = s, !.state = "connecting"]

\* The Connect button, or Connect All while no device is online.
Connect ==
  /\ conn.state \notin {"absent", "connected"}
  /\ ConnectDevice(conn, sock)
  /\ UNCHANGED page

\* The Disconnect button, or Disconnect All while some device is online.
Disconnect ==
  /\ conn.state # "absent"
  /\ conn' = Disconnected(conn)
  /\ sock' = BeginClose(conn.ref)
  /\ UNCHANGED page

\* removeDevice.
Remove ==
  /\ conn.state # "absent"
  /\ conn' = [Disconnected(conn) EXCEPT !.state = "absent"]
  /\ sock' = BeginClose(conn.ref)
  /\ UNCHANGED page

\* addDevice ignores an address of which anything is left.
Add ==
  /\ conn.state = "absent" /\ conn.ref = NoSocket /\ ~conn.connecting
  /\ ConnectDevice([conn EXCEPT !.retries = 0, !.should = TRUE, !.state = "disconnected"], sock)
  /\ UNCHANGED page

\* The Retry button, shown in the error state.
Retry ==
  /\ conn.state = "error"
  /\ ConnectDevice([ClearTimers(conn) EXCEPT !.retries = 0, !.should = TRUE, !.ref = NoSocket],
                   BeginClose(conn.ref))
  /\ UNCHANGED page

User ==
  /\ page = "mounted"
  /\ Connect \/ Disconnect \/ Remove \/ Add \/ Retry

\* Seeded fault: the cleanup forgets the reconnect timer.
UnmountKeepsTimers ==
  /\ page = "mounted"
  /\ page' = "gone"
  /\ conn' = [conn EXCEPT !.connecting = FALSE, !.should = @ /\ conn.ref = NoSocket]
  /\ sock' = BeginClose(conn.ref)

\* The cleanup of the provider's effect.
Unmount ==
  /\ page = "mounted"
  /\ page' = "gone"
  /\ conn' = [ClearTimers(conn) EXCEPT !.connecting = FALSE,
                                       !.should = @ /\ conn.ref = NoSocket]
  /\ sock' = BeginClose(conn.ref)

-----------------------------------------------------------------------------
(* Timers and sockets *)

\* A reconnect timer goes off, the one in the map or one that is no longer there.
ReconnectTimer ==
  /\ conn.pending > 0
  /\ \E own \in BOOLEAN :
       LET c == [conn EXCEPT !.pending = @ - 1, !.held = @ /\ ~own] IN
       /\ own => conn.held
       /\ ~own => conn.pending > 1 \/ ~conn.held
       /\ IF conn.should THEN ConnectDevice(c, sock)
          ELSE conn' = c /\ UNCHANGED sock
  /\ UNCHANGED page

\* The timeout of an attempt.
AttemptTimesOut(s) ==
  /\ sock[s] = "connecting"
  /\ sock' = BeginClose(s)
  /\ UNCHANGED <<conn, page>>

OnOpen(s) ==
  /\ sock[s] = "connecting"
  /\ sock' = [sock EXCEPT ![s] = "open"]
  /\ conn' = [conn EXCEPT !.connecting = FALSE, !.retries = 0, !.state = "connected"]
  /\ UNCHANGED page

\* Seeded faults: the address stays marked as connecting; a timer stays armed.
DroppedStaysConnecting(c) ==
  [ClearTimers(c) EXCEPT !.ref = NoSocket, !.state = "disconnected"]

DroppedKeepsTimers(c) ==
  [c EXCEPT !.connecting = FALSE, !.ref = NoSocket, !.state = "disconnected"]

\* onclose, whichever socket of the address it is for.
Dropped(c) ==
  [ClearTimers(c) EXCEPT !.connecting = FALSE, !.ref = NoSocket, !.state = "disconnected"]

\* Seeded fault: the attempt that is counted is not followed by another.
FollowUpOnce(c) ==
  LET n == c.retries + 1 IN
  IF Exhausted(n) THEN [c EXCEPT !.retries = n, !.should = FALSE, !.state = "error"]
  ELSE IF n > 1 THEN [c EXCEPT !.retries = n]
  ELSE ArmTimer([c EXCEPT !.retries = n])

\* The rest of onclose: the next attempt, unless that was the last.
FollowUp(c) ==
  LET n == c.retries + 1 IN
  IF Exhausted(n) THEN [c EXCEPT !.retries = n, !.should = FALSE, !.state = "error"]
  ELSE ArmTimer([c EXCEPT !.retries = n])

\* The attempt fails, the peer closes or vanishes, or close() has run its course.
OnClose(s) ==
  /\ sock[s] # "closed"
  /\ sock' = [sock EXCEPT ![s] = "closed"]
  /\ conn' = IF page = "mounted" /\ conn.should THEN FollowUp(Dropped(conn)) ELSE Dropped(conn)
  /\ UNCHANGED page

Next ==
  \/ Mount \/ StrictMount \/ User \/ Unmount
  \/ ReconnectTimer
  \/ \E s \in Sockets : AttemptTimesOut(s) \/ OnOpen(s) \/ OnClose(s)

\* Timers go off, and browsers bring an attempt or a closing handshake to an end.
Fairness ==
  /\ WF_vars(ReconnectTimer)
  /\ \A s \in Sockets : WF_vars(sock[s] \in {"connecting", "closing"} /\ (OnOpen(s) \/ OnClose(s)))

Spec == Init /\ [][Next]_vars

FairSpec == Spec /\ Fairness

-----------------------------------------------------------------------------
(* Properties *)

\* Every variable has its type; the retries never exceed their limit.
TypeOK ==
  /\ sock \in [Sockets -> ReadyState]
  /\ conn \in Connection
  /\ page \in {"new", "mounted", "gone"}

\* A device that is to be reconnected never falls between the chairs: when no socket
\* is left, a reconnect timer is armed (a Retry or a timer may be refused because an
\* attempt is pending, but then its close event is still to come), or the user is shown
\* the error of an attempt that could not even be made, and with it the Retry button.
NeverStranded ==
  page = "mounted" /\ conn.should /\ (\A s \in Sockets : sock[s] = "closed")
    => conn.pending > 0 \/ conn.state = "error"

\* There is one reconnect loop: close events of several sockets do not multiply the
\* timers, and the one that is armed can be cancelled.
OneLoop == conn.pending = IF conn.held THEN 1 ELSE 0

\* A provider that is gone makes no further connection: its cleanup has reached the
\* only timer, and late close events arm none.
UnmountIsFinal ==
  [][page = "gone" => \A s \in Sockets : sock'[s] = "connecting" => sock[s] = "connecting"]_vars

\* A live socket is orphaned when the map of the provider does not lead to it: nothing
\* can close it then but its peer.  onclose, which looks the device up by its address,
\* is the only handler that orphans one: the close event of another socket does it, and
\* connectDevice, disconnectDevice, retryDevice and the effects never do.
Orphans == {s \in Sockets : sock[s] \in {"connecting", "open"} /\ conn.ref # s}

OrphanedByOnClose ==
  [][\A s \in Orphans' \ Orphans :
       \E t \in Sockets \ {s} : sock[t] # "closed" /\ sock'[t] = "closed"]_vars

\* A device that is to be connected is connected in the end, or given up, or shown with
\* the error of an attempt that could not be made.
SettlesOrGivesUp ==
  (page = "mounted" /\ conn.should)
    ~> \/ page = "gone" \/ ~conn.should \/ conn.state = "error"
       \/ \E s \in Sockets : sock[s] = "open"

\* "Guard: Check if already connecting (prevents Strict Mode double-connect)": a
\* device has one connection, or its events are handled twice.
OneConnection ==
  \A s, t \in Sockets :
    sock[s] \in {"connecting", "open"} /\ sock[t] \in {"connecting", "open"} => s = t
=============================================================================

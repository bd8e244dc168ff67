------------------------------- MODULE LocalComm -------------------------------
(***************************************************************************)
(* The direct connections of the browser to the devices, as LocalComm      *)
(* keeps them (web/apps/frontend/src/lib/comm/LocalComm.ts), for one       *)
(* address.                                                                *)
(*                                                                         *)
(* The map holds one DeviceConnection object per address.  The handlers of *)
(* a socket keep the object they were made for, while the timers and the   *)
(* close handler look the address up in the map: after the device was      *)
(* removed and added again they meet another object there.  A socket is    *)
(* stored in its object only when it opens, so removing a device closes an *)
(* open socket and leaves one that is still connecting alone.              *)
(*                                                                         *)
(* JavaScript runs one callback at a time, and the error and the close     *)
(* event of a socket come in the same task.  The page came over http and   *)
(* isValidIp has seen four numbers up to 255 in the address, so the        *)
(* constructor of a socket does not throw (it would for a number like 08), *)
(* and autoReconnect is on, as by default.  Messages leave this state      *)
(* alone; StatusStream has them.                                           *)
(***************************************************************************)
EXTENDS Naturals, FiniteSetsExt

CONSTANTS
  Objects,  \* bound: DeviceConnection objects alive at a time
  Sockets,  \* bound: WebSocket objects alive at a time
  None,
  MaxPending \* bound: timers armed and sockets alive when a device is added

\* What the constants are assumed to be; Parts assumes it of its instance.
CommAssumption ==
  /\ IsFiniteSet(Objects) /\ IsFiniteSet(Sockets)
  /\ Cardinality(Objects) <= Cardinality(Sockets)
  /\ MaxPending \in Nat
  /\ None \notin Objects /\ None \notin Sockets

VARIABLES
  reachable, \* the device answers
  current,  \* the object in the map, or None
  object,   \* the DeviceConnection objects, without their reconnect timers
  timer,    \* reconnect timers per object: how many are armed, and whether
            \* reconnectTimeout holds one of them
  socket,   \* the sockets: readyState and the object of their handlers
  orphans   \* history: the sockets that were connecting when their device was removed

commVars == <<reachable, current, object, timer, socket, orphans>>

DeviceConnection ==
  [ws : Sockets \cup {None}, connected : BOOLEAN, reconnecting : BOOLEAN, heartbeat : BOOLEAN]

NewConnection ==
  [ws |-> None, connected |-> FALSE, reconnecting |-> FALSE, heartbeat |-> FALSE]

ReadyState == {"connecting", "open", "closing", "closed"}

Init ==
  /\ reachable \in BOOLEAN
  /\ current = None
  /\ object = [o \in Objects |-> NewConnection]
  /\ timer = [o \in Objects |-> [armed |-> 0, held |-> FALSE]]
  /\ socket = [s \in Sockets |-> [state |-> "closed", owner |-> None]]
  /\ orphans = {}

SocketsOf(o) == {s \in Sockets : socket[s].owner = o /\ socket[s].state # "closed"}

-----------------------------------------------------------------------------
(* The parts the handlers share. *)

\* scheduleReconnect overwrites reconnectTimeout.
ScheduleReconnect(o, t) == [t EXCEPT ![o] = [armed |-> @.armed + 1, held |-> TRUE]]

\* Seeded fault: an attempt that is under way does not stop another.
EngagedOnceOpen(d) == d.connected

Engaged(d) == d.connected \/ d.reconnecting

\* connectToDevice, for the object o with the fields d and the timers t.
ConnectToDevice(o, d, t) ==
  \/ /\ Engaged(d)
     /\ timer' = t
     /\ UNCHANGED <<object, socket, orphans>>
  \/ \E s \in Sockets :
       /\ ~Engaged(d) /\ socket[s].state = "closed"
       /\ socket' = [socket EXCEPT ![s] = [state |-> "connecting", owner |-> o]]
       /\ object' = [object EXCEPT ![o] = [d EXCEPT !.reconnecting = TRUE]]
       /\ orphans' = orphans \ {s}
       /\ timer' = t

\* Seeded fault: the socket is forgotten, not closed.
Forget(s) == socket

Close(s) == IF s = None THEN socket ELSE [socket EXCEPT ![s].state = "closing"]

-----------------------------------------------------------------------------
(* The user. *)

\* Removing a device disarms the timer in reconnectTimeout alone, so adding and
\* removing it again and again leaves more and more of them behind.
Pending ==
  MapThenSumSet(LAMBDA o : timer[o].armed + Cardinality(SocketsOf(o)), Objects)

AddDevice ==
  /\ current = None /\ Pending <= MaxPending
  /\ \E o \in Objects :
       /\ SocketsOf(o) = {} /\ timer[o].armed = 0
       /\ current' = o
       /\ ConnectToDevice(o, NewConnection, timer)
  /\ UNCHANGED reachable

\* removeDevice, and disconnect, which does the same for every device.  connected and
\* reconnecting stay as they are until the socket closes.
RemoveDevice ==
  /\ current # None
  /\ current' = None
  /\ timer' = [timer EXCEPT ![current] =
       [armed |-> IF @.held THEN @.armed - 1 ELSE @.armed, held |-> FALSE]]
  /\ socket' = Close(object[current].ws)
  /\ object' = [object EXCEPT ![current].ws = None, ![current].heartbeat = FALSE]
  /\ orphans' = orphans \cup {s \in SocketsOf(current) : socket[s].state = "connecting"}
  /\ UNCHANGED reachable

-----------------------------------------------------------------------------
(* Timers and sockets. *)

\* A reconnect timer fires, the one in reconnectTimeout or one armed before it.  It
\* connects the object that the map has now.
ReconnectTimer(o) ==
  /\ timer[o].armed > 0
  /\ \E held \in {timer[o].held /\ timer[o].armed > 1, FALSE} :
       LET fired == [timer EXCEPT ![o] = [armed |-> @.armed - 1, held |-> held]]
       IN  IF current = None
             THEN timer' = fired /\ UNCHANGED <<object, socket, orphans>>
             ELSE ConnectToDevice(current, object[current], fired)
  /\ UNCHANGED <<reachable, current>>

ConnectionTimeout(s) ==
  /\ socket[s].state = "connecting" /\ ~reachable
  /\ ~object[socket[s].owner].connected
  /\ socket' = Close(s)
  /\ UNCHANGED <<reachable, current, object, timer, orphans>>

OnOpen(s) ==
  /\ socket[s].state = "connecting" /\ reachable
  /\ socket' = [socket EXCEPT ![s].state = "open"]
  /\ object' = [object EXCEPT ![socket[s].owner] =
       [ws |-> s, connected |-> TRUE, reconnecting |-> FALSE, heartbeat |-> TRUE]]
  /\ UNCHANGED <<reachable, current, timer, orphans>>

\* Seeded fault: nothing follows a socket that never opened.
AfterCloseOpened(o) ==
  IF current # None /\ object[o].connected THEN ScheduleReconnect(o, timer) ELSE timer

AfterClose(o) == IF current # None THEN ScheduleReconnect(o, timer) ELSE timer

\* Seeded fault: the mark of the attempt stays.
ClosedStillTrying(d) == [NewConnection EXCEPT !.reconnecting = d.reconnecting]

Closed(d) == NewConnection

\* handleWebSocketClose, and handleWebSocketError right before it when the connection
\* failed.
OnClose(s) ==
  /\ socket[s].state # "closed"
  /\ socket[s].state = "connecting" => ~reachable
  /\ socket' = [socket EXCEPT ![s].state = "closed"]
  /\ object' = [object EXCEPT ![socket[s].owner] = Closed(@)]
  /\ timer' = AfterClose(socket[s].owner)
  /\ orphans' = orphans \ {s}
  /\ UNCHANGED <<reachable, current>>

Reach ==
  /\ reachable' = ~reachable
  /\ UNCHANGED <<current, object, timer, socket, orphans>>

Next ==
  \/ Reach
  \/ AddDevice \/ RemoveDevice
  \/ \E o \in Objects : ReconnectTimer(o)
  \/ \E s \in Sockets : ConnectionTimeout(s) \/ OnOpen(s) \/ OnClose(s)

\* Timers fire, an attempt comes to an end, and a socket that is closing gets its
\* close event.
Fairness ==
  /\ \A o \in Objects : WF_commVars(ReconnectTimer(o))
  /\ \A s \in Sockets :
       /\ WF_commVars(OnOpen(s) \/ ConnectionTimeout(s))
       /\ WF_commVars(socket[s].state = "closing" /\ OnClose(s))

Spec == Init /\ [][Next]_commVars /\ Fairness

-----------------------------------------------------------------------------
(* Properties. *)

\* Every variable has its type.
TypeOK ==
  /\ reachable \in BOOLEAN
  /\ current \in Objects \cup {None}
  /\ object \in [Objects -> DeviceConnection]
  /\ timer \in [Objects -> [armed : Nat, held : BOOLEAN]]
  /\ socket \in [Sockets -> [state : ReadyState, owner : Objects \cup {None}]]
  /\ orphans \subseteq Sockets

\* Where the connection to the device in the list is, by its sockets and timers.
Phase ==
  IF current = None THEN "absent"
  ELSE IF \E s \in SocketsOf(current) : socket[s].state = "open" THEN "up"
  ELSE IF SocketsOf(current) # {} THEN "trying"
  ELSE IF \E o \in Objects : timer[o].armed > 0 THEN "waiting" ELSE "forgotten"

\* handleWebSocketClose: a device in the list without a connection is always getting
\* at one: a socket is on its way or a timer of this or an earlier object is armed.
BrowserKeepsTrying ==
  current # None /\ ~object[current].connected =>
    SocketsOf(current) # {} \/ \E o \in Objects : timer[o].armed > 0

\* connectToDevice: an object has one socket at a time, however many timers fire.
OneSocketPerObject ==
  \A s1, s2 \in Sockets :
    socket[s1].owner = socket[s2].owner /\ socket[s1].state # "closed"
      /\ socket[s2].state # "closed" => s1 = s2

\* removeDevice: a socket stays open for a device that is gone only if it was still
\* connecting when the device was removed.
OnlyOrphansStay ==
  \A s \in Sockets : socket[s].state = "open" /\ socket[s].owner # current => s \in orphans

\* scheduleReconnect: while a device stays in the list and answers, the browser gets
\* connected to it again and again, however often a connection is lost.
BrowserComesBack ==
  <>[](current # None /\ reachable) => []<>(current # None /\ object[current].connected)
=============================================================================

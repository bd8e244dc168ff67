---------------------------- MODULE LocalCommProofs ----------------------------
(***************************************************************************)
(* What LocalComm and WsBridge guarantee for any number of objects,        *)
(* sockets and pending timers.                                             *)
(*                                                                         *)
(* The argument rests on one equivalence: an object is marked as connected *)
(* or reconnecting exactly as long as a socket with its handlers is not    *)
(* closed (Backed, Marked).  connectToDevice refuses a marked object, so   *)
(* there is never a second socket; and a marked object has a close event   *)
(* to come, so a refused attempt is never the last.                        *)
(***************************************************************************)
EXTENDS Parts, Sequences, FiniteSets, TLAPS

\* A timer in reconnectTimeout is one of those that are armed.
Held == \A o \in Objects : timer[o].held => timer[o].armed > 0

\* A socket that is not closed belongs to an object that is marked for it.
Backed ==
  \A s \in Sockets : socket[s].state # "closed" =>
    socket[s].owner \in Objects /\ Comm!Engaged(object[socket[s].owner])

\* An object that is marked has a socket that is not closed.
Marked ==
  \A o \in Objects : Comm!Engaged(object[o]) =>
    \E s \in Sockets : socket[s].owner = o /\ socket[s].state # "closed"

\* A socket that an object stores is open, and its own.
Stored ==
  \A o \in Objects : object[o].ws # None =>
    /\ object[o].connected
    /\ socket[object[o].ws].state = "open" /\ socket[object[o].ws].owner = o

\* An open socket is stored.
Opened == \A s \in Sockets : socket[s].state = "open" => object[socket[s].owner].ws = s

\* A socket on its way that the map does not know was left by removeDevice.
Expected ==
  \A s \in Sockets :
    socket[s].state = "connecting" /\ socket[s].owner # current => s \in orphans

SocketInv ==
  /\ Backed /\ Marked /\ Stored /\ Opened /\ Expected
  /\ Comm!OneSocketPerObject /\ Comm!OnlyOrphansStay

CommInv == Comm!TypeOK /\ Held /\ SocketInv /\ Comm!BrowserKeepsTrying

-----------------------------------------------------------------------------

\* The types of the fields.
LEMMA CommFields ==
  ASSUME Comm!TypeOK
  PROVE  /\ \A o \in Objects :
              /\ object[o] \in Comm!DeviceConnection
              /\ object[o].ws \in Sockets \cup {None} /\ object[o].connected \in BOOLEAN
              /\ object[o].reconnecting \in BOOLEAN
              /\ timer[o].armed \in Nat /\ timer[o].held \in BOOLEAN
         /\ \A s \in Sockets :
              /\ socket[s].state \in Comm!ReadyState
              /\ socket[s].owner \in Objects \cup {None}
BY DEF Comm!TypeOK, Comm!DeviceConnection

\* connectToDevice on an object without a socket: a socket is made for it.
LEMMA CommConnectStep ==
  ASSUME Comm!CommAssumption, Comm!TypeOK, SocketInv,
         NEW o \in Objects, NEW d \in Comm!DeviceConnection, NEW t,
         d.ws = None, ~d.connected, ~d.reconnecting, Comm!SocketsOf(o) = {},
         current \in {None, o}, current' = o,
         Comm!ConnectToDevice(o, d, t)
  PROVE  /\ object' \in [Objects -> Comm!DeviceConnection]
         /\ socket' \in [Sockets -> [state : Comm!ReadyState, owner : Objects \cup {None}]]
         /\ orphans' \subseteq Sockets /\ timer' = t
         /\ SocketInv' /\ Comm!SocketsOf(o)' # {}
<1>1. PICK s \in Sockets :
        /\ socket[s].state = "closed" /\ timer' = t
        /\ socket' = [socket EXCEPT ![s] = [state |-> "connecting", owner |-> o]]
        /\ object' = [object EXCEPT ![o] = [d EXCEPT !.reconnecting = TRUE]]
        /\ orphans' = orphans \ {s}
  BY DEF Comm!ConnectToDevice, Comm!Engaged
<1>2. /\ socket' \in [Sockets -> [state : Comm!ReadyState, owner : Objects \cup {None}]]
      /\ socket'[s].state = "connecting" /\ socket'[s].owner = o
      /\ \A x \in Sockets : x # s => socket'[x] = socket[x]
  BY <1>1 DEF Comm!TypeOK, Comm!ReadyState
<1>3. [d EXCEPT !.reconnecting = TRUE] \in Comm!DeviceConnection
  BY Zenon DEF Comm!DeviceConnection
<1>4. object' \in [Objects -> Comm!DeviceConnection]
  BY <1>1, <1>3 DEF Comm!TypeOK
<1>5. /\ object'[o].ws = None /\ object'[o].reconnecting /\ ~object'[o].connected
      /\ \A x \in Objects : x # o => object'[x] = object[x]
  BY <1>1 DEF Comm!TypeOK, Comm!DeviceConnection
<1>6. \A x \in Sockets : socket[x].owner = o => socket[x].state = "closed"
  BY DEF Comm!SocketsOf
<1>7. None \notin Objects /\ None \notin Sockets
  BY DEF Comm!CommAssumption
<1>8. Backed'
  BY <1>1, <1>2, <1>5, <1>6 DEF SocketInv, Backed, Comm!Engaged
<1>9. Marked'
  <2> SUFFICES ASSUME NEW x \in Objects, Comm!Engaged(object[x])'
               PROVE  \E y \in Sockets : socket'[y].owner = x /\ socket'[y].state # "closed"
    BY DEF Marked
  <2>1. CASE x = o
    BY <1>2, <2>1
  <2>2. CASE x # o
    <3>1. PICK y \in Sockets : socket[y].owner = x /\ socket[y].state # "closed"
      BY <1>5, <2>2 DEF SocketInv, Marked, Comm!Engaged
    <3>. QED BY <1>1, <1>2, <3>1
  <2>. QED BY <2>1, <2>2
<1>10. Stored'
  <2> SUFFICES ASSUME NEW x \in Objects, object'[x].ws # None
               PROVE  /\ object'[x].connected
                      /\ socket'[object'[x].ws].state = "open"
                      /\ socket'[object'[x].ws].owner = x
    BY DEF Stored
  <2>1. x # o /\ object'[x] = object[x]
    BY <1>5
  <2>2. /\ object[x].ws \in Sockets /\ object[x].connected
        /\ socket[object[x].ws].state = "open" /\ socket[object[x].ws].owner = x
    BY <2>1, CommFields DEF SocketInv, Stored
  <2>. QED BY <1>1, <1>2, <2>1, <2>2
<1>11. Opened' /\ Expected' /\ Comm!OnlyOrphansStay'
  BY <1>1, <1>2, <1>5, <1>6, <1>7, CommFields DEF SocketInv, Opened, Expected,
    Comm!OnlyOrphansStay, Backed
<1>12. Comm!OneSocketPerObject'
  BY <1>1, <1>2, <1>6 DEF SocketInv, Comm!OneSocketPerObject
<1>13. Comm!SocketsOf(o)' # {}
  BY <1>2 DEF Comm!SocketsOf
<1>. QED BY <1>1, <1>2, <1>4, <1>8, <1>9, <1>10, <1>11, <1>12, <1>13 DEF SocketInv,
  Comm!TypeOK

-----------------------------------------------------------------------------
(* The steps. *)

\* Adding a device: the map gets an object, the object a socket.
LEMMA AddStep ==
  ASSUME Comm!CommAssumption, CommInv, Comm!AddDevice
  PROVE  CommInv'
<1>1. PICK o \in Objects :
        /\ Comm!SocketsOf(o) = {} /\ current' = o
        /\ Comm!ConnectToDevice(o, Comm!NewConnection, timer)
  BY DEF Comm!AddDevice
<1>2. Comm!NewConnection \in Comm!DeviceConnection
  BY DEF Comm!NewConnection, Comm!DeviceConnection
<1>3. /\ Comm!NewConnection.ws = None
      /\ ~Comm!NewConnection.connected /\ ~Comm!NewConnection.reconnecting
  BY DEF Comm!NewConnection
<1>4. current \in {None, o}
  BY DEF Comm!AddDevice
<1>5. /\ object' \in [Objects -> Comm!DeviceConnection]
      /\ socket' \in [Sockets -> [state : Comm!ReadyState, owner : Objects \cup {None}]]
      /\ orphans' \subseteq Sockets /\ timer' = timer
      /\ SocketInv' /\ Comm!SocketsOf(o)' # {}
  BY <1>1, <1>2, <1>3, <1>4, CommConnectStep DEF CommInv
<1>6. Comm!TypeOK'
  BY <1>1, <1>5 DEF Comm!AddDevice, CommInv, Comm!TypeOK
<1>7. Held'
  BY <1>5 DEF CommInv, Held
<1>8. Comm!BrowserKeepsTrying'
  <2>1. Comm!SocketsOf(current)' # {}
    BY <1>1, <1>5 DEF Comm!SocketsOf
  <2>. QED BY <2>1 DEF Comm!BrowserKeepsTrying
<1>. QED BY <1>5, <1>6, <1>7, <1>8 DEF CommInv

\* Removing a device: its stored socket begins to close, one on its way goes on.
LEMMA RemoveStep ==
  ASSUME Comm!CommAssumption, CommInv, Comm!RemoveDevice
  PROVE  CommInv'
<1> DEFINE c == current
           w == object[c].ws
<1>1. c \in Objects /\ current' = None /\ None \notin Objects /\ None \notin Sockets
  BY DEF Comm!RemoveDevice, CommInv, Comm!TypeOK, Comm!CommAssumption
<1>2. /\ object' \in [Objects -> Comm!DeviceConnection]
      /\ object'[c].ws = None
      /\ object'[c].connected = object[c].connected
      /\ object'[c].reconnecting = object[c].reconnecting
      /\ \A o \in Objects : o # c => object'[o] = object[o]
  BY <1>1 DEF Comm!RemoveDevice, CommInv, Comm!TypeOK, Comm!DeviceConnection
<1>3. /\ w = None => socket' = socket
      /\ w # None => /\ w \in Sockets /\ socket[w].state = "open" /\ socket[w].owner = c
                     /\ socket' = [socket EXCEPT ![w].state = "closing"]
  BY <1>1, CommFields DEF Comm!RemoveDevice, Comm!Close, CommInv, SocketInv, Stored
<1>4. /\ socket' \in [Sockets -> [state : Comm!ReadyState, owner : Objects \cup {None}]]
      /\ \A s \in Sockets : /\ socket'[s].owner = socket[s].owner
                            /\ s # w => socket'[s].state = socket[s].state
                            /\ s = w => socket'[s].state = "closing" /\ socket[s].state = "open"
  <2>1. CASE w = None
    BY <1>1, <1>3, <2>1 DEF CommInv, Comm!TypeOK
  <2>2. CASE w # None
    BY <1>3, <2>2 DEF CommInv, Comm!TypeOK, Comm!ReadyState
  <2>. QED BY <2>1, <2>2
<1>5. /\ orphans' \subseteq Sockets /\ orphans \subseteq orphans'
      /\ \A s \in Sockets : socket[s].owner = c /\ socket[s].state = "connecting" => s \in orphans'
  BY DEF Comm!RemoveDevice, CommInv, Comm!TypeOK, Comm!SocketsOf
<1>6. /\ timer' \in [Objects -> [armed : Nat, held : BOOLEAN]]
      /\ Held'
  BY <1>1 DEF Comm!RemoveDevice, CommInv, Comm!TypeOK, Held
<1>7. \A o \in Objects : Comm!Engaged(object'[o]) <=> Comm!Engaged(object[o])
  BY <1>2 DEF Comm!Engaged
<1>8. Backed' /\ Marked'
  BY <1>4, <1>7 DEF CommInv, SocketInv, Backed, Marked
<1>9. Stored'
  BY <1>1, <1>2, <1>3, <1>4, CommFields DEF CommInv, SocketInv, Stored
<1>10. Opened'
  BY <1>2, <1>4, CommFields DEF CommInv, SocketInv, Opened, Backed
<1>11. Expected'
  BY <1>4, <1>5 DEF CommInv, SocketInv, Expected
<1>12. Comm!OnlyOrphansStay'
  BY <1>4, <1>5 DEF CommInv, SocketInv, Comm!OnlyOrphansStay, Opened
<1>13. Comm!OneSocketPerObject'
  BY <1>4 DEF CommInv, SocketInv, Comm!OneSocketPerObject
<1>14. Comm!BrowserKeepsTrying'
  BY <1>1 DEF Comm!BrowserKeepsTrying
<1>15. Comm!TypeOK'
  BY <1>1, <1>2, <1>4, <1>5, <1>6 DEF Comm!RemoveDevice, CommInv, Comm!TypeOK
<1>. QED BY <1>6, <1>8, <1>9, <1>10, <1>11, <1>12, <1>13, <1>14, <1>15 DEF CommInv,
  SocketInv

\* A reconnect timer: it is spent, and the object of the map dialled if it needs it.
LEMMA TimerStep ==
  ASSUME Comm!CommAssumption, CommInv, NEW o \in Objects, Comm!ReconnectTimer(o)
  PROVE  CommInv'
<1>1. PICK held \in {timer[o].held /\ timer[o].armed > 1, FALSE} :
        LET fired == [timer EXCEPT ![o] = [armed |-> @.armed - 1, held |-> held]]
        IN  IF current = None
              THEN timer' = fired /\ UNCHANGED <<object, socket, orphans>>
              ELSE Comm!ConnectToDevice(current, object[current], fired)
  BY DEF Comm!ReconnectTimer
<1> DEFINE fired == [timer EXCEPT ![o] = [armed |-> timer[o].armed - 1, held |-> held]]
<1>2. timer[o].armed > 0 /\ reachable' = reachable /\ current' = current
  BY DEF Comm!ReconnectTimer
<1>3. /\ fired \in [Objects -> [armed : Nat, held : BOOLEAN]]
      /\ \A x \in Objects : fired[x].held => fired[x].armed > 0
  <2>1. held \in BOOLEAN /\ timer[o].held \in BOOLEAN
    BY <1>1, CommFields, Zenon DEF CommInv
  <2>2. timer[o].armed - 1 \in Nat /\ (held => timer[o].armed - 1 > 0)
    <3>1. held => timer[o].armed > 1
      BY <1>1, Zenon
    <3>2. timer[o].armed \in Nat
      BY CommFields DEF CommInv
    <3>3. timer[o].armed > 1 => timer[o].armed - 1 > 0
      BY <3>2
    <3>4. timer[o].armed - 1 \in Nat
      BY <1>2, <3>2
    <3>. QED BY <3>1, <3>3, <3>4, Zenon
  <2>3. [armed |-> timer[o].armed - 1, held |-> held] \in [armed : Nat, held : BOOLEAN]
    BY <2>1, <2>2
  <2>4. fired \in [Objects -> [armed : Nat, held : BOOLEAN]]
    BY <2>3 DEF CommInv, Comm!TypeOK
  <2>5. ASSUME NEW x \in Objects, fired[x].held PROVE fired[x].armed > 0
    <3>1. CASE x = o
      BY <2>2, <2>5, <3>1 DEF CommInv, Comm!TypeOK
    <3>2. CASE x # o
      BY <2>5, <3>2 DEF CommInv, Comm!TypeOK, Held
    <3>. QED BY <3>1, <3>2
  <2>. QED BY <2>4, <2>5
<1>4. ASSUME timer' = fired, UNCHANGED <<object, socket, orphans>>,
             current # None => Comm!Engaged(object[current])
      PROVE  CommInv'
  <2>1. Comm!TypeOK' /\ Held'
    BY <1>2, <1>3, <1>4 DEF CommInv, Comm!TypeOK, Held
  <2>2. SocketInv'
    BY <1>2, <1>4 DEF CommInv, SocketInv, Backed, Marked, Stored, Opened, Expected,
      Comm!OneSocketPerObject, Comm!OnlyOrphansStay
  <2>3. Comm!BrowserKeepsTrying'
    BY <1>2, <1>4 DEF CommInv, Comm!TypeOK, SocketInv, Marked, Comm!BrowserKeepsTrying,
      Comm!SocketsOf
  <2>. QED BY <2>1, <2>2, <2>3 DEF CommInv
<1>5. CASE current = None
  BY <1>1, <1>4, <1>5
<1>6. CASE current # None /\ Comm!Engaged(object[current])
  BY <1>1, <1>4, <1>6 DEF Comm!ConnectToDevice
<1>7. CASE current # None /\ ~Comm!Engaged(object[current])
  <2>1. current \in Objects /\ object[current] \in Comm!DeviceConnection
    BY <1>7 DEF CommInv, Comm!TypeOK
  <2>2. /\ ~object[current].connected /\ ~object[current].reconnecting
        /\ object[current].ws = None
    BY <1>7, <2>1 DEF Comm!Engaged, CommInv, SocketInv, Stored
  <2>3. Comm!SocketsOf(current) = {}
    BY <1>7, <2>1 DEF Comm!SocketsOf, CommInv, SocketInv, Backed
  <2>4. Comm!ConnectToDevice(current, object[current], fired)
    BY <1>1, <1>7
  <2>5. /\ object' \in [Objects -> Comm!DeviceConnection]
        /\ socket' \in [Sockets -> [state : Comm!ReadyState, owner : Objects \cup {None}]]
        /\ orphans' \subseteq Sockets /\ timer' = fired
        /\ SocketInv' /\ Comm!SocketsOf(current)' # {}
    BY <1>2, <2>1, <2>2, <2>3, <2>4, CommConnectStep DEF CommInv, Comm!SocketsOf
  <2>6. Comm!TypeOK' /\ Held'
    BY <1>2, <1>3, <2>5 DEF CommInv, Comm!TypeOK, Held
  <2>7. Comm!BrowserKeepsTrying'
    BY <2>5 DEF Comm!BrowserKeepsTrying
  <2>. QED BY <2>5, <2>6, <2>7 DEF CommInv
<1>. QED BY <1>5, <1>6, <1>7

\* The time-out of an attempt: the socket begins to close.
LEMMA TimeoutStep ==
  ASSUME Comm!CommAssumption, CommInv, NEW s \in Sockets, Comm!ConnectionTimeout(s)
  PROVE  CommInv'
<1>1. /\ socket[s].state = "connecting" /\ None \notin Sockets
      /\ UNCHANGED <<reachable, current, object, timer, orphans>>
  BY DEF Comm!ConnectionTimeout, Comm!CommAssumption
<1>2. /\ socket' \in [Sockets -> [state : Comm!ReadyState, owner : Objects \cup {None}]]
      /\ \A x \in Sockets : socket'[x].owner = socket[x].owner
      /\ \A x \in Sockets : x # s => socket'[x].state = socket[x].state
      /\ socket'[s].state = "closing"
  BY <1>1 DEF Comm!ConnectionTimeout, Comm!Close, CommInv, Comm!TypeOK, Comm!ReadyState
<1>3. /\ Backed' /\ Marked' /\ Opened' /\ Expected'
      /\ Comm!OneSocketPerObject' /\ Comm!OnlyOrphansStay'
  BY <1>1, <1>2 DEF CommInv, SocketInv, Backed, Marked, Opened, Expected,
    Comm!OneSocketPerObject,
    Comm!OnlyOrphansStay
<1>4. Stored'
  BY <1>1, <1>2, CommFields DEF CommInv, SocketInv, Stored
<1>5. Comm!BrowserKeepsTrying'
  BY <1>1, <1>2 DEF CommInv, Comm!BrowserKeepsTrying, Comm!SocketsOf
<1>6. Comm!TypeOK' /\ Held'
  BY <1>1, <1>2 DEF CommInv, Comm!TypeOK, Held
<1>. QED BY <1>3, <1>4, <1>5, <1>6 DEF CommInv, SocketInv

\* A socket opens and is stored in its object.
LEMMA OpenStep ==
  ASSUME Comm!CommAssumption, CommInv, NEW s \in Sockets, Comm!OnOpen(s)
  PROVE  CommInv'
<1> DEFINE o == socket[s].owner
<1>1. /\ socket[s].state = "connecting" /\ o \in Objects
      /\ UNCHANGED <<current, timer, orphans>> /\ reachable' = reachable
      /\ None \notin Objects /\ None \notin Sockets
  BY DEF Comm!OnOpen, CommInv, SocketInv, Backed, Comm!CommAssumption
<1>2. /\ socket' \in [Sockets -> [state : Comm!ReadyState, owner : Objects \cup {None}]]
      /\ \A x \in Sockets : socket'[x].owner = socket[x].owner
      /\ \A x \in Sockets : x # s => socket'[x].state = socket[x].state
      /\ socket'[s].state = "open"
  BY <1>1 DEF Comm!OnOpen, CommInv, Comm!TypeOK, Comm!ReadyState
<1>3. /\ object' \in [Objects -> Comm!DeviceConnection]
      /\ object'[o].ws = s /\ object'[o].connected
      /\ \A x \in Objects : x # o => object'[x] = object[x]
  <2>1. [ws |-> s, connected |-> TRUE, reconnecting |-> FALSE, heartbeat |-> TRUE]
          \in Comm!DeviceConnection
    BY DEF Comm!DeviceConnection
  <2>2. object' = [object EXCEPT ![o] =
          [ws |-> s, connected |-> TRUE, reconnecting |-> FALSE, heartbeat |-> TRUE]]
    BY DEF Comm!OnOpen
  <2>. QED BY <1>1, <2>1, <2>2 DEF CommInv, Comm!TypeOK
<1>4. \A x \in Sockets : x # s /\ socket[x].owner = o => socket[x].state = "closed"
  BY <1>1 DEF CommInv, SocketInv, Comm!OneSocketPerObject
<1>5. Backed' /\ Marked'
  <2>1. ASSUME NEW x \in Objects
        PROVE  Comm!Engaged(object'[x]) <=> (x = o \/ Comm!Engaged(object[x]))
    <3>1. CASE x = o
      BY <1>3, <3>1 DEF Comm!Engaged
    <3>2. CASE x # o
      BY <1>3, <3>2
    <3>. QED BY <3>1, <3>2
  <2>2. Backed'
    BY <1>1, <1>2, <2>1, CommFields DEF CommInv, SocketInv, Backed
  <2>3. ASSUME NEW x \in Objects, Comm!Engaged(object'[x])
        PROVE  \E y \in Sockets : socket'[y].owner = x /\ socket'[y].state # "closed"
    <3>1. CASE x = o
      BY <1>2, <3>1
    <3>2. CASE x # o
      <4>1. PICK y \in Sockets : socket[y].owner = x /\ socket[y].state # "closed"
        BY <2>1, <2>3, <3>2 DEF CommInv, SocketInv, Marked
      <4>. QED BY <1>2, <3>2, <4>1
    <3>. QED BY <3>1, <3>2
  <2>. QED BY <2>2, <2>3 DEF Marked
<1>6. Stored'
  <2> SUFFICES ASSUME NEW x \in Objects, object'[x].ws # None
               PROVE  /\ object'[x].connected
                      /\ socket'[object'[x].ws].state = "open"
                      /\ socket'[object'[x].ws].owner = x
    BY DEF Stored
  <2>1. CASE x = o
    BY <1>2, <1>3, <2>1
  <2>2. CASE x # o
    <3>1. /\ object[x].ws \in Sockets /\ object[x].connected /\ object'[x] = object[x]
          /\ socket[object[x].ws].state = "open" /\ socket[object[x].ws].owner = x
      BY <1>3, <2>2, CommFields DEF CommInv, SocketInv, Stored
    <3>. QED BY <1>1, <1>2, <3>1
  <2>. QED BY <2>1, <2>2
<1>7. Opened'
  BY <1>1, <1>2, <1>3, <1>4, CommFields DEF CommInv, SocketInv, Opened, Backed
<1>8. Expected' /\ Comm!OnlyOrphansStay'
  BY <1>1, <1>2 DEF CommInv, SocketInv, Expected, Comm!OnlyOrphansStay
<1>9. Comm!OneSocketPerObject'
  BY <1>1, <1>2 DEF CommInv, SocketInv, Comm!OneSocketPerObject
<1>10. Comm!BrowserKeepsTrying'
  <2> SUFFICES ASSUME current # None, ~object'[current].connected
               PROVE  \/ \E x \in Sockets : socket'[x].owner = current /\ socket'[x].state # "closed"
                      \/ \E x \in Objects : timer[x].armed > 0
    BY <1>1 DEF Comm!BrowserKeepsTrying, Comm!SocketsOf
  <2>1. current \in Objects /\ current # o
    BY <1>3 DEF CommInv, Comm!TypeOK
  <2>2. ~object[current].connected
    BY <1>3, <2>1
  <2>3. \/ \E x \in Sockets : socket[x].owner = current /\ socket[x].state # "closed"
        \/ \E x \in Objects : timer[x].armed > 0
    BY <2>2 DEF CommInv, Comm!BrowserKeepsTrying, Comm!SocketsOf
  <2>. QED BY <1>2, <2>1, <2>3
<1>11. Comm!TypeOK' /\ Held'
  BY <1>1, <1>2, <1>3 DEF CommInv, Comm!TypeOK, Held
<1>. QED BY <1>5, <1>6, <1>7, <1>8, <1>9, <1>10, <1>11 DEF CommInv, SocketInv

\* A socket closes: its object is as new, and a timer is armed for a listed device.
LEMMA CloseStep ==
  ASSUME Comm!CommAssumption, CommInv, NEW s \in Sockets, Comm!OnClose(s)
  PROVE  CommInv'
<1> DEFINE o == socket[s].owner
<1>1. /\ socket[s].state # "closed" /\ o \in Objects
      /\ UNCHANGED <<reachable, current>> /\ orphans' = orphans \ {s}
      /\ None \notin Objects /\ None \notin Sockets
  BY DEF Comm!OnClose, CommInv, SocketInv, Backed, Comm!CommAssumption
<1>2. /\ socket' \in [Sockets -> [state : Comm!ReadyState, owner : Objects \cup {None}]]
      /\ \A x \in Sockets : socket'[x].owner = socket[x].owner
      /\ \A x \in Sockets : x # s => socket'[x].state = socket[x].state
      /\ socket'[s].state = "closed"
  BY <1>1 DEF Comm!OnClose, CommInv, Comm!TypeOK, Comm!ReadyState
<1>3. /\ object' \in [Objects -> Comm!DeviceConnection]
      /\ object'[o].ws = None /\ ~object'[o].connected /\ ~object'[o].reconnecting
      /\ \A x \in Objects : x # o => object'[x] = object[x]
  <2>1. Comm!NewConnection \in Comm!DeviceConnection
    BY DEF Comm!NewConnection, Comm!DeviceConnection
  <2>2. /\ Comm!NewConnection.ws = None
        /\ ~Comm!NewConnection.connected /\ ~Comm!NewConnection.reconnecting
    BY DEF Comm!NewConnection
  <2>3. object' = [object EXCEPT ![o] = Comm!NewConnection]
    BY DEF Comm!OnClose, Comm!Closed
  <2>. QED BY <1>1, <2>1, <2>2, <2>3 DEF CommInv, Comm!TypeOK
<1>4. \A x \in Sockets : x # s /\ socket[x].owner = o => socket[x].state = "closed"
  BY <1>1 DEF CommInv, SocketInv, Comm!OneSocketPerObject
<1>5. /\ timer' \in [Objects -> [armed : Nat, held : BOOLEAN]] /\ Held'
      /\ current # None => timer'[o].armed > 0
  <2>1. CASE current = None
    BY <1>1, <2>1 DEF Comm!OnClose, Comm!AfterClose, CommInv, Comm!TypeOK, Held
  <2>2. CASE current # None
    <3>1. timer' = [timer EXCEPT ![o] = [armed |-> timer[o].armed + 1, held |-> TRUE]]
      BY <2>2 DEF Comm!OnClose, Comm!AfterClose, Comm!ScheduleReconnect
    <3>2. [armed |-> timer[o].armed + 1, held |-> TRUE] \in [armed : Nat, held : BOOLEAN]
      BY <1>1, CommFields DEF CommInv
    <3>3. timer' \in [Objects -> [armed : Nat, held : BOOLEAN]]
      BY <1>1, <3>1, <3>2 DEF CommInv, Comm!TypeOK
    <3>4. timer'[o].armed = timer[o].armed + 1 /\ \A x \in Objects : x # o => timer'[x] = timer[x]
      BY <1>1, <3>1 DEF CommInv, Comm!TypeOK
    <3>5. timer[o].armed \in Nat
      BY <1>1, CommFields DEF CommInv
    <3>. QED BY <3>3, <3>4, <3>5 DEF CommInv, Held
  <2>. QED BY <2>1, <2>2
<1>6. Backed'
  BY <1>1, <1>2, <1>3, <1>4 DEF CommInv, SocketInv, Backed
<1>7. Marked'
  <2> SUFFICES ASSUME NEW x \in Objects, Comm!Engaged(object[x])'
               PROVE  \E y \in Sockets : socket'[y].owner = x /\ socket'[y].state # "closed"
    BY DEF Marked
  <2>1. x # o /\ Comm!Engaged(object[x])
    BY <1>3 DEF Comm!Engaged
  <2>2. PICK y \in Sockets : socket[y].owner = x /\ socket[y].state # "closed"
    BY <2>1 DEF CommInv, SocketInv, Marked
  <2>. QED BY <1>2, <2>1, <2>2
<1>8. Stored'
  <2> SUFFICES ASSUME NEW x \in Objects, object'[x].ws # None
               PROVE  /\ object'[x].connected
                      /\ socket'[object'[x].ws].state = "open"
                      /\ socket'[object'[x].ws].owner = x
    BY DEF Stored
  <2>1. x # o /\ object'[x] = object[x]
    BY <1>3
  <2>2. /\ object[x].ws \in Sockets /\ object[x].connected
        /\ socket[object[x].ws].state = "open" /\ socket[object[x].ws].owner = x
    BY <2>1, CommFields DEF CommInv, SocketInv, Stored
  <2>. QED BY <1>2, <2>1, <2>2
<1>9. Opened'
  BY <1>1, <1>2, <1>3, <1>4, CommFields DEF CommInv, SocketInv, Opened, Backed
<1>10. Expected' /\ Comm!OnlyOrphansStay'
  BY <1>1, <1>2 DEF CommInv, SocketInv, Expected, Comm!OnlyOrphansStay
<1>11. Comm!OneSocketPerObject'
  BY <1>1, <1>2 DEF CommInv, SocketInv, Comm!OneSocketPerObject
<1>12. Comm!BrowserKeepsTrying'
  BY <1>1, <1>5 DEF Comm!BrowserKeepsTrying
<1>13. Comm!TypeOK'
  BY <1>1, <1>2, <1>3, <1>5 DEF CommInv, Comm!TypeOK
<1>. QED BY <1>5, <1>6, <1>7, <1>8, <1>9, <1>10, <1>11, <1>12, <1>13 DEF CommInv,
  SocketInv

-----------------------------------------------------------------------------

\* Every click, timer and socket event keeps the invariant.
THEOREM CommInductive == Spec => []CommInv
<1>. Comm!CommAssumption
  BY PartsAssumption DEF PartsAssumption
<1>1. ASSUME Comm!Init PROVE CommInv
  <2>1. Comm!TypeOK
    <3>1. Comm!NewConnection \in Comm!DeviceConnection
      BY DEF Comm!NewConnection, Comm!DeviceConnection
    <3>. QED BY <1>1, <3>1 DEF Comm!Init, Comm!TypeOK, Comm!ReadyState
  <2>2. Held /\ Comm!BrowserKeepsTrying
    BY <1>1 DEF Comm!Init, Held, Comm!BrowserKeepsTrying
  <2>3. SocketInv
    BY <1>1 DEF Comm!Init, SocketInv, Backed, Marked, Stored, Opened, Expected,
      Comm!OneSocketPerObject,
      Comm!OnlyOrphansStay, Comm!NewConnection, Comm!Engaged
  <2>. QED BY <2>1, <2>2, <2>3 DEF CommInv
<1>2. CommInv /\ [Comm!Next]_commVars => CommInv'
  <2> SUFFICES ASSUME CommInv, [Comm!Next]_commVars PROVE CommInv'
    OBVIOUS
  <2>1. CASE Comm!Reach \/ UNCHANGED commVars
    <3>1. UNCHANGED <<current, object, timer, socket, orphans>>
      BY <2>1 DEF Comm!Reach, commVars
    <3>2. reachable' \in BOOLEAN
      BY <2>1 DEF Comm!Reach, commVars, CommInv, Comm!TypeOK
    <3>3. Comm!TypeOK' /\ Held' /\ Comm!BrowserKeepsTrying'
      BY <3>1, <3>2 DEF CommInv, Comm!TypeOK, Held, Comm!BrowserKeepsTrying,
        Comm!SocketsOf
    <3>4. SocketInv'
      BY <3>1 DEF CommInv, SocketInv, Backed, Marked, Stored, Opened, Expected,
        Comm!OneSocketPerObject, Comm!OnlyOrphansStay
    <3>. QED BY <3>3, <3>4 DEF CommInv
  <2>2. CASE Comm!AddDevice
    BY <2>2, AddStep
  <2>3. CASE Comm!RemoveDevice
    BY <2>3, RemoveStep
  <2>4. ASSUME NEW o \in Objects, Comm!ReconnectTimer(o) PROVE CommInv'
    BY <2>4, TimerStep
  <2>5. ASSUME NEW s \in Sockets, Comm!ConnectionTimeout(s) PROVE CommInv'
    BY <2>5, TimeoutStep
  <2>6. ASSUME NEW s \in Sockets, Comm!OnOpen(s) PROVE CommInv'
    BY <2>6, OpenStep
  <2>7. ASSUME NEW s \in Sockets, Comm!OnClose(s) PROVE CommInv'
    BY <2>7, CloseStep
  <2>. QED BY <2>1, <2>2, <2>3, <2>4, <2>5, <2>6, <2>7 DEF Comm!Next
<1>3. Init => Comm!Init
  BY DEF Init
<1>4. [Next]_vars => [Comm!Next]_commVars
  BY DEF Next, ScreenStep, WifiStep, StatusStep, CommStep, BridgeStep, vars
<1>. QED BY <1>1, <1>2, <1>3, <1>4, PTL DEF Spec

\* The map, the objects and the sockets keep their types.
THEOREM CommTypeCorrect == Spec => []Comm!TypeOK
<1>1. CommInv => Comm!TypeOK
  BY DEF CommInv
<1>. QED BY <1>1, CommInductive, PTL

\* connectToDevice: however many timers fire for an address, and however often it is
\* removed and added, no object ever has two sockets.
THEOREM SingleSocket == Spec => []OneSocketPerObject
<1>1. CommInv => OneSocketPerObject
  BY DEF CommInv, SocketInv, OneSocketPerObject
<1>. QED BY <1>1, CommInductive, PTL

\* removeDevice leaves no connection behind but one that was not yet made.
THEOREM OrphansOnly == Spec => []OnlyOrphansStay
<1>1. CommInv => OnlyOrphansStay
  BY DEF CommInv, SocketInv, OnlyOrphansStay
<1>. QED BY <1>1, CommInductive, PTL

\* handleWebSocketClose: a listed device without a connection is never forgotten.
THEOREM NotForgotten == Spec => []BrowserKeepsTrying
<1>1. CommInv => BrowserKeepsTrying
  BY DEF CommInv, BrowserKeepsTrying
<1>. QED BY <1>1, CommInductive, PTL
\* The phases of the browser's connection, socket by socket: no device is forgotten.
BrowserPhase ==
  /\ current = None => Comm!Phase = "absent"
  /\ \A s \in Sockets :
       current # None /\ socket[s].owner = current /\ socket[s].state # "closed" =>
         Comm!Phase = IF socket[s].state = "open" THEN "up" ELSE "trying"
  /\ current # None
       /\ (\A s \in Sockets : socket[s].owner = current => socket[s].state = "closed") =>
     Comm!Phase = "waiting"

LEMMA BrowserPhases == CommInv => BrowserPhase
<1> SUFFICES ASSUME CommInv PROVE BrowserPhase
  OBVIOUS
<1>1. ASSUME NEW s \in Sockets, current # None, socket[s].owner = current,
             socket[s].state # "closed"
      PROVE  Comm!Phase = IF socket[s].state = "open" THEN "up" ELSE "trying"
  <2>1. s \in Comm!SocketsOf(current) /\ \A x \in Comm!SocketsOf(current) : x = s
    BY <1>1 DEF Comm!SocketsOf, CommInv, SocketInv, Comm!OneSocketPerObject
  <2>. QED BY <1>1, <2>1 DEF Comm!Phase
<1>2. ASSUME current # None,
             \A s \in Sockets : socket[s].owner = current => socket[s].state = "closed"
      PROVE  Comm!Phase = "waiting"
  <2>1. Comm!SocketsOf(current) = {}
    BY <1>2 DEF Comm!SocketsOf
  <2>2. ~object[current].connected
    BY <1>2 DEF CommInv, Comm!TypeOK, SocketInv, Marked, Comm!Engaged
  <2>3. \E o \in Objects : timer[o].armed > 0
    BY <1>2, <2>1, <2>2 DEF CommInv, Comm!BrowserKeepsTrying
  <2>. QED BY <1>2, <2>1, <2>3 DEF Comm!Phase
<1>. QED BY <1>1, <1>2 DEF BrowserPhase, Comm!Phase

\* A connection that is asked for is made: nothing else has a socket of the object.
LEMMA SocketMade ==
  ASSUME Comm!TypeOK, NEW o \in Objects, NEW d, NEW t,
         ~Comm!Engaged(d), Comm!ConnectToDevice(o, d, t)
  PROVE  \E s \in Sockets : socket'[s] = [state |-> "connecting", owner |-> o]
BY DEF Comm!ConnectToDevice, Comm!TypeOK

\* Every click, timer and socket event is a step of the kept connection, or leaves it
\* where it is.
LEMMA BrowserStep ==
  ASSUME Comm!CommAssumption, CommInv, CommInv', [Comm!Next]_commVars
  PROVE  [BrowserLink!Next]_(Comm!Phase)
<1>1. BrowserPhase /\ BrowserPhase'
  <2>1. BrowserPhase
    BY BrowserPhases
  <2>2. BrowserPhase'
    BY BrowserPhases, PTL
  <2>. QED BY <2>1, <2>2
<1>2. SUFFICES ASSUME Comm!Next PROVE BrowserLink!Next \/ UNCHANGED Comm!Phase
  BY DEF commVars, Comm!Phase, Comm!SocketsOf
<1>. USE DEF BrowserLink!Next, BrowserLink!Want, BrowserLink!Succeed, BrowserLink!Lose,
    BrowserLink!TryAgain, BrowserLink!Dismiss
<1>3. CASE Comm!Reach
  BY <1>3 DEF Comm!Reach, Comm!Phase, Comm!SocketsOf
<1>4. CASE Comm!AddDevice
  <2>1. PICK o \in Objects : current' = o /\ Comm!ConnectToDevice(o, Comm!NewConnection, timer)
    BY <1>4 DEF Comm!AddDevice
  <2>2. PICK s \in Sockets : socket'[s] = [state |-> "connecting", owner |-> o]
    BY <2>1, SocketMade DEF CommInv, Comm!NewConnection, Comm!Engaged
  <2>3. Comm!Phase = "absent" /\ Comm!Phase' = "trying"
    BY <1>1, <1>4, <2>1, <2>2 DEF BrowserPhase, Comm!AddDevice, Comm!CommAssumption
  <2>. QED BY <2>3
<1>5. CASE Comm!RemoveDevice
  BY <1>1, <1>5 DEF Comm!RemoveDevice, BrowserPhase
<1>6. ASSUME NEW o \in Objects, Comm!ReconnectTimer(o)
      PROVE  BrowserLink!Next \/ UNCHANGED Comm!Phase
  <2>1. PICK held \in BOOLEAN :
          LET fired == [timer EXCEPT ![o] = [armed |-> @.armed - 1, held |-> held]]
          IN  IF current = None
                THEN timer' = fired /\ UNCHANGED <<object, socket, orphans>>
                ELSE Comm!ConnectToDevice(current, object[current], fired)
    BY <1>6 DEF Comm!ReconnectTimer
  <2>2. current' = current /\ current \in Objects \cup {None}
    BY <1>6 DEF Comm!ReconnectTimer, CommInv, Comm!TypeOK
  <2>3. CASE current = None
    BY <1>1, <2>2, <2>3 DEF BrowserPhase
  <2>4. CASE current # None /\ Comm!Engaged(object[current])
    <3>1. socket' = socket
      BY <2>1, <2>4 DEF Comm!ConnectToDevice
    <3>2. PICK s \in Sockets : socket[s].owner = current /\ socket[s].state # "closed"
      BY <2>2, <2>4 DEF CommInv, SocketInv, Marked
    <3>. QED BY <1>1, <2>2, <2>4, <3>1, <3>2 DEF BrowserPhase
  <2>5. CASE current # None /\ ~Comm!Engaged(object[current])
    <3>1. Comm!Phase = "waiting"
      BY <1>1, <2>2, <2>5 DEF BrowserPhase, CommInv, SocketInv, Backed
    <3>2. PICK s \in Sockets : socket'[s] = [state |-> "connecting", owner |-> current]
      BY <2>1, <2>2, <2>5, SocketMade DEF CommInv
    <3>3. Comm!Phase' = "trying"
      BY <1>1, <2>2, <2>5, <3>2 DEF BrowserPhase
    <3>. QED BY <3>1, <3>3
  <2>. QED BY <2>3, <2>4, <2>5
<1>7. ASSUME NEW s \in Sockets,
             Comm!ConnectionTimeout(s) \/ Comm!OnOpen(s) \/ Comm!OnClose(s)
      PROVE  BrowserLink!Next \/ UNCHANGED Comm!Phase
  <2>1. /\ current' = current /\ socket[s].state # "closed"
        /\ \A x \in Sockets : socket'[x].owner = socket[x].owner
        /\ \A x \in Sockets : x # s => socket'[x].state = socket[x].state
        /\ Comm!ConnectionTimeout(s) =>
             socket[s].state = "connecting" /\ socket'[s].state = "closing"
        /\ Comm!OnOpen(s) => socket[s].state = "connecting" /\ socket'[s].state = "open"
        /\ Comm!OnClose(s) => socket'[s].state = "closed"
    BY <1>7 DEF Comm!ConnectionTimeout, Comm!Close, Comm!OnOpen, Comm!OnClose, CommInv,
      Comm!TypeOK, Comm!CommAssumption
  <2>2. CASE current = None
    BY <1>1, <2>1, <2>2 DEF BrowserPhase
  <2>3. CASE current # None /\ socket[s].owner = current
    <3>1. \A x \in Sockets : x # s /\ socket[x].owner = current => socket[x].state = "closed"
      BY <2>1, <2>3 DEF CommInv, SocketInv, Comm!OneSocketPerObject
    <3>2. CASE Comm!ConnectionTimeout(s) \/ Comm!OnOpen(s)
      <4>1. Comm!Phase = "trying"
        BY <1>1, <2>1, <2>3, <3>2 DEF BrowserPhase
      <4>2. Comm!Phase' = IF socket'[s].state = "open" THEN "up" ELSE "trying"
        BY <1>1, <2>1, <2>3, <3>2 DEF BrowserPhase
      <4>. QED BY <4>1, <4>2
    <3>3. CASE Comm!OnClose(s)
      <4>1. Comm!Phase \in {"trying", "up"}
        BY <1>1, <2>1, <2>3 DEF BrowserPhase
      <4>2. Comm!Phase' = "waiting"
        BY <1>1, <2>1, <2>3, <3>1, <3>3 DEF BrowserPhase
      <4>. QED BY <4>1, <4>2
    <3>. QED BY <1>7, <3>2, <3>3
  <2>4. CASE current # None /\ socket[s].owner # current
    <3>1. CASE \E x \in Sockets : socket[x].owner = current /\ socket[x].state # "closed"
      BY <1>1, <2>1, <2>4, <3>1 DEF BrowserPhase
    <3>2. CASE \A x \in Sockets : socket[x].owner = current => socket[x].state = "closed"
      BY <1>1, <2>1, <2>4, <3>2 DEF BrowserPhase
    <3>. QED BY <3>1, <3>2
  <2>. QED BY <2>2, <2>3, <2>4
<1>. QED BY <1>2, <1>3, <1>4, <1>5, <1>6, <1>7 DEF Comm!Next

\* connectToDevice, handleWebSocketClose, scheduleReconnect, removeDevice: for any
\* number of objects, sockets and timers the browser's way to a device implements
\* KeptConnection, so nothing but its removal ends the series of tries, and a timer of
\* an earlier object neither uses up a try nor adds a second one.
THEOREM BrowserLinkIsKept == Spec => BrowserKeepsLink
<1>. Comm!CommAssumption
  BY PartsAssumption DEF PartsAssumption
<1>1. Init => BrowserLink!Init
  BY DEF Init, Comm!Init, Comm!Phase, BrowserLink!Init
<1>2. CommInv /\ CommInv' /\ [Next]_vars => [BrowserLink!Next]_(Comm!Phase)
  <2>1. [Next]_vars => [Comm!Next]_commVars
    BY DEF Next, ScreenStep, WifiStep, StatusStep, CommStep, BridgeStep, vars
  <2>. QED BY <2>1, BrowserStep
<1>. QED BY <1>1, <1>2, CommInductive, PTL DEF Spec, BrowserKeepsLink, BrowserLink!Spec

-----------------------------------------------------------------------------
(* The bridge.  The same holds of its objects: one is marked connected or   *)
(* reconnecting exactly while a socket of its is not closed.                *)

\* A socket that is not closed is that of an object marked so.
Manned ==
  \A l \in Links : link[l].state # "closed" =>
    link[l].owner \in Entries /\ Bridge!Engaged(link[l].owner)

\* And the other way round.
Reached ==
  \A e \in Entries : Bridge!Engaged(e) =>
    \E l \in Links : link[l].owner = e /\ link[l].state # "closed"

\* No object has two sockets.
Single ==
  \A k, l \in Links :
    link[k].state # "closed" /\ link[l].state # "closed" /\ link[k].owner = link[l].owner
      => k = l

\* What an object stores is its socket.
Plugged ==
  \A e \in Entries : peer[e].ws # Nobody =>
    link[peer[e].ws].owner = e /\ link[peer[e].ws].state # "closed"

\* BridgeKeepsTrying, without the set of sockets.
Dialling ==
  entry # Nobody /\ ~peer[entry].connected =>
    waiting > 0 \/ \E l \in Links : link[l].owner = entry /\ link[l].state # "closed"

BridgeInv ==
  /\ Bridge!TypeOK /\ Manned /\ Reached /\ Single /\ Plugged
  /\ Dialling /\ Bridge!ToldTruthfully

\* connectToDevice gives a socket to an object that has none and marks it, or arms a
\* timer and leaves it unmarked.
LEMMA DialStep ==
  ASSUME Bridge!BridgeAssumption, Bridge!TypeOK, Manned, Reached, Single, Plugged,
         NEW e \in Entries, NEW n \in Nat,
         \A l \in Links : link[l].state # "closed" => link[l].owner # e,
         NEW p \in [Entries -> [ws : Links \cup {Nobody}, connected : BOOLEAN,
                               reconnecting : BOOLEAN]],
         p[e].ws = Nobody, p[e].connected = FALSE,
         \A x \in Entries : x # e => p[x] = peer[x],
         Bridge!Dial(e, p, n)
  PROVE  /\ link' \in [Links -> [state : {"connecting", "open", "closing", "closed"},
                                 owner : Entries \cup {Nobody}]]
         /\ peer' \in [Entries -> [ws : Links \cup {Nobody}, connected : BOOLEAN,
                                   reconnecting : BOOLEAN]]
         /\ waiting' \in Nat
         /\ Manned' /\ Reached' /\ Single' /\ Plugged'
         /\ peer'[e].connected = FALSE
         /\ \/ waiting' > 0
            \/ \E l \in Links : link'[l].owner = e /\ link'[l].state # "closed"
<1>1. PICK m \in BOOLEAN : peer' = [p EXCEPT ![e].reconnecting = m]
  BY DEF Bridge!Dial
<1>2. /\ peer' \in [Entries -> [ws : Links \cup {Nobody}, connected : BOOLEAN,
                                reconnecting : BOOLEAN]]
      /\ peer'[e].ws = Nobody /\ peer'[e].connected = FALSE
      /\ \A x \in Entries : x # e => peer'[x] = peer[x]
  BY <1>1
<1>3. \A x \in Entries : x # e => (Bridge!Engaged(x)' <=> Bridge!Engaged(x))
  BY <1>2 DEF Bridge!Engaged
<1>4. CASE \E l \in Links :
            /\ link[l].state = "closed"
            /\ link' = [link EXCEPT ![l] = [state |-> "connecting", owner |-> e]]
            /\ peer' = [p EXCEPT ![e].reconnecting = TRUE]
            /\ waiting' = n
  <2>1. PICK k \in Links :
          /\ link[k].state = "closed"
          /\ link' = [link EXCEPT ![k] = [state |-> "connecting", owner |-> e]]
    BY <1>4
  <2>2. /\ link'[k].state = "connecting" /\ link'[k].owner = e
        /\ \A l \in Links : l # k => link'[l] = link[l]
    BY <2>1 DEF Bridge!TypeOK
  <2>3. Bridge!Engaged(e)'
    <3>1. peer'[e].reconnecting = TRUE
      BY <1>4
    <3>. QED BY <3>1 DEF Bridge!Engaged
  <2>4. link' \in [Links -> [state : {"connecting", "open", "closing", "closed"},
                            owner : Entries \cup {Nobody}]]
    BY <2>1 DEF Bridge!TypeOK
  <2>5. Manned'
    BY <1>3, <2>2, <2>3 DEF Manned
  <2>6. Reached'
    BY <1>3, <2>1, <2>2 DEF Reached
  <2>7. Single'
    BY <2>1, <2>2 DEF Single
  <2>8. Plugged'
    BY <1>2, <2>1, <2>2 DEF Plugged, Bridge!TypeOK
  <2>. QED BY <1>2, <1>4, <2>2, <2>4, <2>5, <2>6, <2>7, <2>8
<1>5. CASE /\ peer' = [p EXCEPT ![e].reconnecting = FALSE]
           /\ waiting' = n + 1 /\ UNCHANGED link
  <2>1. ~Bridge!Engaged(e)'
    <3>1. peer'[e].reconnecting = FALSE /\ peer'[e].connected = FALSE
      BY <1>2, <1>5
    <3>. QED BY <3>1 DEF Bridge!Engaged
  <2>2. Manned'
    BY <1>3, <1>5 DEF Manned
  <2>3. Reached' /\ Single'
    BY <1>3, <1>5, <2>1 DEF Reached, Single
  <2>4. Plugged'
    BY <1>2, <1>5 DEF Plugged, Bridge!TypeOK
  <2>. QED BY <1>2, <1>5, <2>2, <2>3, <2>4 DEF Bridge!TypeOK
<1>. QED BY <1>4, <1>5 DEF Bridge!Dial

\* addDevice starts with an object of its own; what the browsers believe of the
\* address is then what they were told, or stray says that they were told wrongly.
LEMMA DeviceAdded ==
  ASSUME Bridge!BridgeAssumption, BridgeInv, Bridge!Add
  PROVE  BridgeInv'
<1> DEFINE fresh(e) == [peer EXCEPT
      ![e] = [ws |-> Nobody, connected |-> FALSE, reconnecting |-> FALSE]]
<1>1. PICK e \in Entries :
        Bridge!LinksOf(e) = {} /\ entry' = e /\ Bridge!Dial(e, fresh(e), waiting)
  BY DEF Bridge!Add
<1>2. stray' = told /\ UNCHANGED told
  BY DEF Bridge!Add
<1>3. \A l \in Links : link[l].state # "closed" => link[l].owner # e
  BY <1>1 DEF Bridge!LinksOf
<1>4. /\ fresh(e) \in [Entries -> [ws : Links \cup {Nobody}, connected : BOOLEAN,
                                   reconnecting : BOOLEAN]]
      /\ fresh(e)[e].ws = Nobody /\ fresh(e)[e].connected = FALSE
      /\ \A x \in Entries : x # e => fresh(e)[x] = peer[x]
      /\ waiting \in Nat
  BY DEF BridgeInv, Bridge!TypeOK
<1>. HIDE DEF fresh
<1>5. /\ link' \in [Links -> [state : {"connecting", "open", "closing", "closed"},
                              owner : Entries \cup {Nobody}]]
      /\ peer' \in [Entries -> [ws : Links \cup {Nobody}, connected : BOOLEAN,
                                reconnecting : BOOLEAN]]
      /\ waiting' \in Nat
      /\ Manned' /\ Reached' /\ Single' /\ Plugged'
      /\ peer'[e].connected = FALSE
      /\ \/ waiting' > 0
         \/ \E l \in Links : link'[l].owner = e /\ link'[l].state # "closed"
  BY <1>1, <1>3, <1>4, DialStep DEF BridgeInv
<1>6. Bridge!TypeOK' /\ Dialling'
  BY <1>1, <1>2, <1>5 DEF BridgeInv, Bridge!TypeOK, Dialling
<1>7. Bridge!ToldTruthfully'
  BY <1>1, <1>2, <1>5 DEF BridgeInv, Bridge!TypeOK, Bridge!ToldTruthfully
<1>. QED BY <1>5, <1>6, <1>7 DEF BridgeInv

\* removeDevice closes the socket it knows; the object stays marked until the socket
\* has closed.
LEMMA DeviceRemoved ==
  ASSUME Bridge!BridgeAssumption, BridgeInv, Bridge!Remove
  PROVE  BridgeInv'
<1>1. entry \in Entries /\ entry' = Nobody /\ UNCHANGED <<peer, waiting, told, stray>>
  BY DEF Bridge!Remove, BridgeInv, Bridge!TypeOK
<1>2. /\ link' \in [Links -> [state : {"connecting", "open", "closing", "closed"},
                              owner : Entries \cup {Nobody}]]
      /\ \A l \in Links : /\ link'[l].owner = link[l].owner
                          /\ link'[l].state = "closed" <=> link[l].state = "closed"
  <2>1. CASE peer[entry].ws = Nobody
    BY <2>1 DEF Bridge!Remove, BridgeInv, Bridge!TypeOK
  <2>2. CASE peer[entry].ws # Nobody
    <3>1. peer[entry].ws \in Links /\ link[peer[entry].ws].state # "closed"
      BY <1>1, <2>2 DEF BridgeInv, Bridge!TypeOK, Plugged
    <3>2. link' = [link EXCEPT ![peer[entry].ws].state = "closing"]
      BY <2>2 DEF Bridge!Remove
    <3>. QED BY <3>1, <3>2 DEF BridgeInv, Bridge!TypeOK
  <2>. QED BY <2>1, <2>2
<1>3. \A x \in Entries : Bridge!Engaged(x)' <=> Bridge!Engaged(x)
  BY <1>1 DEF Bridge!Engaged
<1>4. Bridge!TypeOK' /\ Dialling' /\ Bridge!ToldTruthfully'
  BY <1>1, <1>2 DEF BridgeInv, Bridge!TypeOK, Dialling, Bridge!ToldTruthfully
<1>5. Manned' /\ Reached' /\ Single'
  BY <1>2, <1>3 DEF BridgeInv, Manned, Reached, Single
<1>6. Plugged'
  BY <1>1, <1>2 DEF BridgeInv, Bridge!TypeOK, Plugged
<1>. QED BY <1>4, <1>5, <1>6 DEF BridgeInv

\* A timer is used up only where a socket is under way: the one it dials, or the one
\* that keeps it from dialling; a dial that is refused arms another.
LEMMA TimerFired ==
  ASSUME Bridge!BridgeAssumption, BridgeInv, Bridge!Timer
  PROVE  BridgeInv'
<1>1. waiting \in Nat \ {0} /\ UNCHANGED <<entry, told, stray>>
  BY DEF Bridge!Timer, BridgeInv, Bridge!TypeOK
<1>2. CASE entry # Nobody /\ ~Bridge!Engaged(entry)
  <2>1. entry \in Entries /\ Bridge!Dial(entry, peer, waiting - 1)
    BY <1>2 DEF Bridge!Timer, BridgeInv, Bridge!TypeOK
  <2>2. \A l \in Links : link[l].state # "closed" => link[l].owner # entry
    BY <1>2 DEF BridgeInv, Manned
  <2>3. peer[entry].ws = Nobody /\ peer[entry].connected = FALSE
    BY <1>2, <2>1, <2>2 DEF BridgeInv, Bridge!TypeOK, Plugged, Bridge!Engaged
  <2>4. /\ waiting - 1 \in Nat
        /\ peer \in [Entries -> [ws : Links \cup {Nobody}, connected : BOOLEAN,
                                 reconnecting : BOOLEAN]]
    BY <1>1 DEF BridgeInv, Bridge!TypeOK
  <2>5. /\ link' \in [Links -> [state : {"connecting", "open", "closing", "closed"},
                                owner : Entries \cup {Nobody}]]
        /\ peer' \in [Entries -> [ws : Links \cup {Nobody}, connected : BOOLEAN,
                                  reconnecting : BOOLEAN]]
        /\ waiting' \in Nat
        /\ Manned' /\ Reached' /\ Single' /\ Plugged'
        /\ peer'[entry].connected = FALSE
        /\ \/ waiting' > 0
           \/ \E l \in Links : link'[l].owner = entry /\ link'[l].state # "closed"
    BY <2>1, <2>2, <2>3, <2>4, DialStep DEF BridgeInv
  <2>6. Bridge!TypeOK' /\ Dialling'
    BY <1>1, <2>5 DEF BridgeInv, Bridge!TypeOK, Dialling
  <2>7. Bridge!ToldTruthfully'
    BY <1>1, <2>3, <2>5 DEF BridgeInv, Bridge!TypeOK, Bridge!ToldTruthfully
  <2>. QED BY <2>5, <2>6, <2>7 DEF BridgeInv
<1>3. CASE entry = Nobody \/ Bridge!Engaged(entry)
  <2>1. waiting' \in Nat /\ UNCHANGED <<peer, link>>
    BY <1>1, <1>3 DEF Bridge!Timer
  <2>2. Bridge!TypeOK' /\ Bridge!ToldTruthfully'
    BY <1>1, <2>1 DEF BridgeInv, Bridge!TypeOK, Bridge!ToldTruthfully
  <2>3. Dialling'
    BY <1>1, <1>3, <2>1 DEF BridgeInv, Bridge!TypeOK, Dialling, Reached
  <2>4. Manned' /\ Reached' /\ Single' /\ Plugged'
    BY <2>1 DEF BridgeInv, Manned, Reached, Single, Plugged, Bridge!Engaged
  <2>. QED BY <2>2, <2>3, <2>4 DEF BridgeInv
<1>. QED BY <1>2, <1>3

\* The open handler marks the object it was made for.
LEMMA LinkOpened ==
  ASSUME Bridge!BridgeAssumption, BridgeInv, NEW n \in Links, Bridge!Open(n)
  PROVE  BridgeInv'
<1> DEFINE e == link[n].owner
<1>1. /\ e \in Entries /\ link[n].state = "connecting"
      /\ link' = [link EXCEPT ![n].state = "open"]
      /\ peer' = [peer EXCEPT ![e] = [ws |-> n, connected |-> TRUE, reconnecting |-> FALSE]]
      /\ told' = TRUE /\ stray' = (entry # Nobody /\ entry # e)
      /\ UNCHANGED <<entry, waiting>>
  BY DEF Bridge!Open, Bridge!Speaks, BridgeInv, Manned
<1>2. /\ link'[n].state = "open"
      /\ \A l \in Links : /\ link'[l].owner = link[l].owner
                          /\ link'[l].state = "closed" <=> link[l].state = "closed"
  BY <1>1 DEF BridgeInv, Bridge!TypeOK
<1>3. /\ peer'[e] = [ws |-> n, connected |-> TRUE, reconnecting |-> FALSE]
      /\ \A x \in Entries : x # e => peer'[x] = peer[x]
  BY <1>1 DEF BridgeInv, Bridge!TypeOK
<1>4. \A x \in Entries : Bridge!Engaged(x)' <=> (x = e \/ Bridge!Engaged(x))
  BY <1>3 DEF Bridge!Engaged
<1>5. Bridge!TypeOK'
  <2>1. link' \in [Links -> [state : {"connecting", "open", "closing", "closed"},
                             owner : Entries \cup {Nobody}]]
    BY <1>1 DEF BridgeInv, Bridge!TypeOK
  <2>2. peer' \in [Entries -> [ws : Links \cup {Nobody}, connected : BOOLEAN,
                               reconnecting : BOOLEAN]]
    BY <1>1 DEF BridgeInv, Bridge!TypeOK
  <2>3. stray' \in BOOLEAN
    BY <1>1, Zenon
  <2>4. waiting' \in Nat /\ told' \in BOOLEAN /\ entry' \in Entries \cup {Nobody}
    BY <1>1 DEF BridgeInv, Bridge!TypeOK
  <2>. QED BY <2>1, <2>2, <2>3, <2>4 DEF Bridge!TypeOK
<1>6. Manned'
  BY <1>1, <1>2, <1>4 DEF BridgeInv, Manned
<1>7. Reached' /\ Single'
  BY <1>1, <1>2, <1>4 DEF BridgeInv, Reached, Single
<1>8. Plugged'
  BY <1>1, <1>2, <1>3 DEF BridgeInv, Bridge!TypeOK, Plugged
<1>9. Dialling'
  BY <1>1, <1>2, <1>3 DEF BridgeInv, Bridge!TypeOK, Dialling
<1>10. Bridge!ToldTruthfully'
  <2>1. ASSUME entry # Nobody, ~stray' PROVE entry = e
    BY <1>1, <2>1, Zenon
  <2>2. told' = TRUE /\ peer'[e].connected = TRUE /\ entry' = entry
    BY <1>1, <1>3
  <2>. QED BY <2>1, <2>2 DEF Bridge!ToldTruthfully
<1>. QED BY <1>5, <1>6, <1>7, <1>8, <1>9, <1>10 DEF BridgeInv

\* The close handler leaves a timer behind, and the object with no mark and no socket.
LEMMA LinkClosed ==
  ASSUME Bridge!BridgeAssumption, BridgeInv, NEW n \in Links, Bridge!OnClosed(n)
  PROVE  BridgeInv'
<1> DEFINE e == link[n].owner
<1>1. /\ e \in Entries /\ link[n].state # "closed"
      /\ link' = [link EXCEPT ![n].state = "closed"]
      /\ peer' = [peer EXCEPT
           ![e] = [ws |-> Nobody, connected |-> FALSE, reconnecting |-> FALSE]]
      /\ told' = FALSE /\ stray' = (entry # Nobody /\ entry # e)
      /\ waiting' = waiting + 1 /\ entry' = entry
  BY DEF Bridge!OnClosed, Bridge!ToldAfterClose, Bridge!WaitingAfterClose, Bridge!Speaks,
    BridgeInv, Manned
<1>2. /\ link'[n].state = "closed" /\ link'[n].owner = e
      /\ \A l \in Links : l # n => link'[l] = link[l]
  BY <1>1 DEF BridgeInv, Bridge!TypeOK
<1>3. /\ peer'[e] = [ws |-> Nobody, connected |-> FALSE, reconnecting |-> FALSE]
      /\ \A x \in Entries : x # e => peer'[x] = peer[x]
  BY <1>1 DEF BridgeInv, Bridge!TypeOK
<1>4. \A x \in Entries : Bridge!Engaged(x)' <=> (x # e /\ Bridge!Engaged(x))
  BY <1>3 DEF Bridge!Engaged
<1>5. Bridge!TypeOK'
  <2>1. link' \in [Links -> [state : {"connecting", "open", "closing", "closed"},
                             owner : Entries \cup {Nobody}]]
    BY <1>1 DEF BridgeInv, Bridge!TypeOK
  <2>2. peer' \in [Entries -> [ws : Links \cup {Nobody}, connected : BOOLEAN,
                               reconnecting : BOOLEAN]]
    BY <1>1 DEF BridgeInv, Bridge!TypeOK
  <2>3. stray' \in BOOLEAN /\ told' \in BOOLEAN
    BY <1>1, Zenon
  <2>4. waiting' \in Nat /\ entry' \in Entries \cup {Nobody}
    BY <1>1 DEF BridgeInv, Bridge!TypeOK
  <2>. QED BY <2>1, <2>2, <2>3, <2>4 DEF Bridge!TypeOK
<1>6. \A l \in Links : l # n /\ link[l].state # "closed" => link[l].owner # e
  BY <1>1 DEF BridgeInv, Single
<1>7. Manned'
  BY <1>1, <1>2, <1>4, <1>6 DEF BridgeInv, Manned
<1>8. Reached'
  BY <1>1, <1>2, <1>4 DEF BridgeInv, Reached
<1>9. Single'
  BY <1>1, <1>2 DEF BridgeInv, Single
<1>10. Plugged'
  BY <1>1, <1>2, <1>3 DEF BridgeInv, Bridge!TypeOK, Plugged
<1>11. Dialling'
  BY <1>1 DEF BridgeInv, Bridge!TypeOK, Dialling
<1>12. Bridge!ToldTruthfully'
  <2>1. ASSUME entry # Nobody, ~stray' PROVE entry = e
    BY <1>1, <2>1, Zenon
  <2>2. told' = FALSE /\ peer'[e].connected = FALSE /\ entry' = entry
    BY <1>1, <1>3
  <2>. QED BY <2>1, <2>2 DEF Bridge!ToldTruthfully
<1>. QED BY <1>5, <1>7, <1>8, <1>9, <1>10, <1>11, <1>12 DEF BridgeInv

\* The invariant holds of every behaviour of the bridge.
THEOREM BridgeInductive == Spec => []BridgeInv
<1>. Bridge!BridgeAssumption
  BY PartsAssumption DEF PartsAssumption
<1>1. ASSUME Bridge!Init PROVE BridgeInv
  <2>1. Bridge!TypeOK
    BY <1>1 DEF Bridge!Init, Bridge!TypeOK
  <2>2. Manned /\ Reached /\ Single /\ Plugged
    BY <1>1 DEF Bridge!Init, Manned, Reached, Single, Plugged, Bridge!Engaged
  <2>3. Dialling /\ Bridge!ToldTruthfully
    BY <1>1 DEF Bridge!Init, Dialling, Bridge!ToldTruthfully
  <2>. QED BY <2>1, <2>2, <2>3 DEF BridgeInv
<1>2. BridgeInv /\ [Bridge!Next]_bridgeVars => BridgeInv'
  <2> SUFFICES ASSUME BridgeInv, [Bridge!Next]_bridgeVars PROVE BridgeInv'
    OBVIOUS
  <2>1. CASE Bridge!Add
    BY <2>1, DeviceAdded
  <2>2. CASE Bridge!Remove
    BY <2>2, DeviceRemoved
  <2>3. CASE Bridge!Timer
    BY <2>3, TimerFired
  <2>4. CASE Bridge!Join
    <3>1. entry \in Entries /\ told' = peer[entry].connected
      BY <2>4 DEF Bridge!Join, BridgeInv, Bridge!TypeOK
    <3>2. Bridge!TypeOK' /\ Bridge!ToldTruthfully'
      BY <2>4, <3>1 DEF Bridge!Join, BridgeInv, Bridge!TypeOK, Bridge!ToldTruthfully
    <3>3. Manned' /\ Reached' /\ Single' /\ Plugged' /\ Dialling'
      BY <2>4 DEF Bridge!Join, BridgeInv, Manned, Reached, Single, Plugged, Dialling,
        Bridge!Engaged
    <3>. QED BY <3>2, <3>3 DEF BridgeInv
  <2>5. ASSUME NEW l \in Links, Bridge!Open(l) PROVE BridgeInv'
    BY <2>5, LinkOpened
  <2>6. ASSUME NEW l \in Links, Bridge!OnClosed(l) PROVE BridgeInv'
    BY <2>6, LinkClosed
  <2>7. CASE UNCHANGED bridgeVars
    BY <2>7 DEF bridgeVars, BridgeInv, Bridge!TypeOK, Manned, Reached, Single, Plugged,
      Dialling, Bridge!Engaged, Bridge!ToldTruthfully
  <2>. QED BY <2>1, <2>2, <2>3, <2>4, <2>5, <2>6, <2>7 DEF Bridge!Next
<1>3. Init => Bridge!Init
  BY DEF Init
<1>4. [Next]_vars => [Bridge!Next]_bridgeVars
  BY DEF Next, ScreenStep, WifiStep, StatusStep, CommStep, BridgeStep, vars
<1>. QED BY <1>1, <1>2, <1>3, <1>4, PTL DEF Spec

\* The bridge's map, objects and sockets keep their types.
THEOREM BridgeTypeCorrect == Spec => []Bridge!TypeOK
<1>1. BridgeInv => Bridge!TypeOK
  BY DEF BridgeInv
<1>. QED BY <1>1, BridgeInductive, PTL

\* ws.on('close') of the bridge: a device in its map that is not connected is never
\* forgotten, whichever object's handler runs and however often it is removed.
THEOREM BridgeNotForgotten == Spec => []BridgeKeepsTrying
<1>1. ASSUME BridgeInv PROVE BridgeKeepsTrying
  <2>1. ASSUME NEW l \in Links, link[l].owner = entry, link[l].state # "closed"
        PROVE  Bridge!LinksOf(entry) # {}
    BY <2>1 DEF Bridge!LinksOf
  <2>. QED BY <1>1, <2>1 DEF BridgeInv, Dialling, BridgeKeepsTrying,
    Bridge!BridgeKeepsTrying
<1>. QED BY <1>1, BridgeInductive, PTL

\* broadcastToBrowsers: the browsers believe of a device what the map says of it,
\* unless the last to speak was a socket of an object that had been removed.
THEOREM BelievedTruthfully == Spec => []ToldTruthfully
<1>1. BridgeInv => ToldTruthfully
  BY DEF BridgeInv, ToldTruthfully, Bridge!ToldTruthfully
<1>. QED BY <1>1, BridgeInductive, PTL

-----------------------------------------------------------------------------
\* The phases of the bridge's connection, socket by socket: no entry is forgotten.
BridgePhase ==
  /\ entry = Nobody => Bridge!Phase = "absent"
  /\ \A l \in Links :
       entry # Nobody /\ link[l].owner = entry /\ link[l].state # "closed" =>
         Bridge!Phase = IF link[l].state = "open" THEN "up" ELSE "trying"
  /\ entry # Nobody
       /\ (\A l \in Links : link[l].owner = entry => link[l].state = "closed") =>
     Bridge!Phase = "waiting"

LEMMA BridgePhases == BridgeInv => BridgePhase
<1> SUFFICES ASSUME BridgeInv PROVE BridgePhase
  OBVIOUS
<1>1. ASSUME NEW l \in Links, entry # Nobody, link[l].owner = entry,
             link[l].state # "closed"
      PROVE  Bridge!Phase = IF link[l].state = "open" THEN "up" ELSE "trying"
  <2>1. l \in Bridge!LinksOf(entry) /\ \A k \in Bridge!LinksOf(entry) : k = l
    BY <1>1 DEF Bridge!LinksOf, BridgeInv, Single
  <2>. QED BY <1>1, <2>1 DEF Bridge!Phase
<1>2. ASSUME entry # Nobody,
             \A l \in Links : link[l].owner = entry => link[l].state = "closed"
      PROVE  Bridge!Phase = "waiting"
  <2>1. Bridge!LinksOf(entry) = {}
    BY <1>2 DEF Bridge!LinksOf
  <2>2. ~peer[entry].connected
    BY <1>2 DEF BridgeInv, Bridge!TypeOK, Reached, Bridge!Engaged
  <2>3. waiting > 0
    BY <1>2, <2>2 DEF BridgeInv, Dialling
  <2>. QED BY <1>2, <2>1, <2>3 DEF Bridge!Phase
<1>. QED BY <1>1, <1>2 DEF BridgePhase, Bridge!Phase

\* Every step of a browser, a timer or a socket is a step of the kept connection, or
\* leaves it where it is.
LEMMA BridgeLinkStep ==
  ASSUME Bridge!BridgeAssumption, BridgeInv, BridgeInv', [Bridge!Next]_bridgeVars
  PROVE  [BridgeLink!Next]_(Bridge!Phase)
<1>1. BridgePhase /\ BridgePhase'
  <2>1. BridgePhase
    BY BridgePhases
  <2>2. BridgePhase'
    BY BridgePhases, PTL
  <2>. QED BY <2>1, <2>2
<1>2. SUFFICES ASSUME Bridge!Next PROVE BridgeLink!Next \/ UNCHANGED Bridge!Phase
  BY DEF bridgeVars, Bridge!Phase, Bridge!LinksOf
<1>. USE DEF BridgeLink!Next, BridgeLink!Want, BridgeLink!Defer, BridgeLink!Succeed, BridgeLink!Lose,
    BridgeLink!TryAgain, BridgeLink!Dismiss
<1>3. CASE Bridge!Add
  <2>1. PICK e \in Entries :
          /\ entry' = e /\ Bridge!LinksOf(e) = {}
          /\ \/ \E l \in Links :
                  link' = [link EXCEPT ![l] = [state |-> "connecting", owner |-> e]]
             \/ link' = link
    BY <1>3 DEF Bridge!Add, Bridge!Dial
  <2>2. Bridge!Phase = "absent" /\ e # Nobody
    BY <1>1, <1>3 DEF BridgePhase, Bridge!Add, Bridge!BridgeAssumption
  <2>3. CASE \E l \in Links :
               link' = [link EXCEPT ![l] = [state |-> "connecting", owner |-> e]]
    <3>1. PICK l \in Links : link'[l] = [state |-> "connecting", owner |-> e]
      BY <2>3 DEF BridgeInv, Bridge!TypeOK
    <3>2. Bridge!Phase' = "trying"
      BY <1>1, <2>1, <2>2, <3>1 DEF BridgePhase
    <3>. QED BY <2>2, <3>2
  <2>4. CASE link' = link
    <3>1. Bridge!Phase' = "waiting"
      BY <1>1, <2>1, <2>2, <2>4 DEF BridgePhase, Bridge!LinksOf
    <3>. QED BY <2>2, <3>1
  <2>. QED BY <2>1, <2>3, <2>4
<1>4. CASE Bridge!Remove
  BY <1>1, <1>4 DEF Bridge!Remove, BridgePhase
<1>5. CASE Bridge!Timer
  <2>1. entry' = entry /\ entry \in Entries \cup {Nobody}
    BY <1>5 DEF Bridge!Timer, BridgeInv, Bridge!TypeOK
  <2>2. CASE entry = Nobody
    BY <1>1, <2>1, <2>2 DEF BridgePhase
  <2>3. CASE entry # Nobody /\ Bridge!Engaged(entry)
    <3>1. link' = link
      BY <1>5, <2>3 DEF Bridge!Timer
    <3>2. PICK l \in Links : link[l].owner = entry /\ link[l].state # "closed"
      BY <2>1, <2>3 DEF BridgeInv, Reached
    <3>. QED BY <1>1, <2>1, <2>3, <3>1, <3>2 DEF BridgePhase
  <2>4. CASE entry # Nobody /\ ~Bridge!Engaged(entry)
    <3>1. Bridge!Phase = "waiting"
      BY <1>1, <2>1, <2>4 DEF BridgePhase, BridgeInv, Manned
    <3>2. \/ \E l \in Links :
               link' = [link EXCEPT ![l] = [state |-> "connecting", owner |-> entry]]
          \/ link' = link
      BY <1>5, <2>4 DEF Bridge!Timer, Bridge!Dial
    <3>3. CASE \E l \in Links :
                 link' = [link EXCEPT ![l] = [state |-> "connecting", owner |-> entry]]
      <4>1. PICK l \in Links : link'[l] = [state |-> "connecting", owner |-> entry]
        BY <3>3 DEF BridgeInv, Bridge!TypeOK
      <4>2. Bridge!Phase' = "trying"
        BY <1>1, <2>1, <2>4, <4>1 DEF BridgePhase
      <4>. QED BY <3>1, <4>2
    <3>4. CASE link' = link
      <4>1. \A l \in Links : link[l].owner = entry => link[l].state = "closed"
        BY <2>4 DEF BridgeInv, Manned
      <4>2. Bridge!Phase' = "waiting"
        BY <1>1, <2>1, <2>4, <3>4, <4>1 DEF BridgePhase
      <4>. QED BY <3>1, <4>2
    <3>. QED BY <3>2, <3>3, <3>4
  <2>. QED BY <2>2, <2>3, <2>4
<1>6. CASE Bridge!Join
  <2>1. UNCHANGED <<entry, link, waiting>>
    BY <1>6 DEF Bridge!Join
  <2>. QED BY <2>1 DEF Bridge!Phase, Bridge!LinksOf
<1>7. ASSUME NEW l \in Links, Bridge!Open(l) \/ Bridge!OnClosed(l)
      PROVE  BridgeLink!Next \/ UNCHANGED Bridge!Phase
  <2>1. /\ entry' = entry /\ link[l].state # "closed"
        /\ \A k \in Links : link'[k].owner = link[k].owner
        /\ \A k \in Links : k # l => link'[k].state = link[k].state
        /\ Bridge!Open(l) => link[l].state = "connecting" /\ link'[l].state = "open"
        /\ Bridge!OnClosed(l) => link'[l].state = "closed"
    <3>1. Bridge!Open(l) =>
            /\ entry' = entry /\ link[l].state = "connecting"
            /\ link' = [link EXCEPT ![l].state = "open"]
      BY DEF Bridge!Open
    <3>2. Bridge!OnClosed(l) =>
            /\ entry' = entry /\ link[l].state # "closed"
            /\ link' = [link EXCEPT ![l].state = "closed"]
      BY DEF Bridge!OnClosed
    <3>. QED BY <1>7, <3>1, <3>2 DEF BridgeInv, Bridge!TypeOK
  <2>2. CASE entry = Nobody
    BY <1>1, <2>1, <2>2 DEF BridgePhase
  <2>3. CASE entry # Nobody /\ link[l].owner = entry
    <3>1. \A k \in Links : k # l /\ link[k].owner = entry => link[k].state = "closed"
      BY <2>1, <2>3 DEF BridgeInv, Single
    <3>2. CASE Bridge!Open(l)
      <4>1. Bridge!Phase = "trying" /\ Bridge!Phase' = "up"
        BY <1>1, <2>1, <2>3, <3>2 DEF BridgePhase
      <4>. QED BY <4>1
    <3>3. CASE Bridge!OnClosed(l)
      <4>1. Bridge!Phase \in {"trying", "up"}
        BY <1>1, <2>1, <2>3 DEF BridgePhase
      <4>2. Bridge!Phase' = "waiting"
        BY <1>1, <2>1, <2>3, <3>1, <3>3 DEF BridgePhase
      <4>. QED BY <4>1, <4>2
    <3>. QED BY <1>7, <3>2, <3>3
  <2>4. CASE entry # Nobody /\ link[l].owner # entry
    <3>1. CASE \E k \in Links : link[k].owner = entry /\ link[k].state # "closed"
      BY <1>1, <2>1, <2>4, <3>1 DEF BridgePhase
    <3>2. CASE \A k \in Links : link[k].owner = entry => link[k].state = "closed"
      BY <1>1, <2>1, <2>4, <3>2 DEF BridgePhase
    <3>. QED BY <3>1, <3>2
  <2>. QED BY <2>2, <2>3, <2>4
<1>. QED BY <1>2, <1>3, <1>4, <1>5, <1>6, <1>7 DEF Bridge!Next

\* connectToDevice of the bridge, its timers and its handlers: for any number of
\* entries, sockets, timers and refused addresses the bridge's way to a device
\* implements KeptConnection.
THEOREM BridgeLinkIsKept == Spec => BridgeKeepsLink
<1>. Bridge!BridgeAssumption
  BY PartsAssumption DEF PartsAssumption
<1>1. Init => BridgeLink!Init
  BY DEF Init, Bridge!Init, Bridge!Phase, BridgeLink!Init
<1>2. BridgeInv /\ BridgeInv' /\ [Next]_vars => [BridgeLink!Next]_(Bridge!Phase)
  <2>1. [Next]_vars => [Bridge!Next]_bridgeVars
    BY DEF Next, ScreenStep, WifiStep, StatusStep, CommStep, BridgeStep, vars
  <2>. QED BY <2>1, BridgeLinkStep
<1>. QED BY <1>1, <1>2, BridgeInductive, PTL DEF Spec, BridgeKeepsLink, BridgeLink!Spec
=============================================================================

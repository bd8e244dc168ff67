------------------------------- MODULE WsBridge -------------------------------
(***************************************************************************)
(* The bridge between browsers and devices                                 *)
(* (web/apps/ws-bridge/src/index.ts), for one device address: its entry in *)
(* the device map, its sockets and reconnect timers, and what the browsers *)
(* have been told of it.                                                   *)
(*                                                                         *)
(* As in LocalComm the handlers of a socket keep the object they were made *)
(* for, and a socket is stored in it when it opens.  Here nothing keeps    *)
(* the timers, so removing a device leaves them armed, and every handler   *)
(* tells the browsers about the address, whichever object it belongs to.   *)
(*                                                                         *)
(* Node runs one callback at a time.  A connection that fails emits error  *)
(* and close together; an error of an open socket changes nothing before   *)
(* its close event.                                                        *)
(***************************************************************************)
EXTENDS Naturals, FiniteSets

CONSTANTS
  Entries,    \* bound: DeviceConnection objects alive at a time
  Links,      \* bound: sockets alive at a time
  Nobody,
  MaxWaiting  \* bound: timers armed when a device is added

\* What the constants are assumed to be; Parts assumes it of its instance.
BridgeAssumption ==
  /\ IsFiniteSet(Entries) /\ IsFiniteSet(Links)
  /\ Cardinality(Entries) <= Cardinality(Links)
  /\ Nobody \notin Entries /\ Nobody \notin Links
  /\ MaxWaiting \in Nat

VARIABLES
  entry,    \* the object in the device map, or Nobody
  peer,     \* the DeviceConnection objects
  link,     \* the sockets: readyState and the object of their handlers
  waiting,  \* reconnect timers armed for the address
  told,     \* what the last message to the browsers said: the device is connected
  stray     \* history: since the last message of the entry's own socket, another spoke

bridgeVars == <<entry, peer, link, waiting, told, stray>>

Init ==
  /\ entry = Nobody
  /\ peer = [e \in Entries |-> [ws |-> Nobody, connected |-> FALSE, reconnecting |-> FALSE]]
  /\ link = [l \in Links |-> [state |-> "closed", owner |-> Nobody]]
  /\ waiting = 0 /\ told = FALSE /\ stray = FALSE

LinksOf(e) == {l \in Links : link[l].owner = e /\ link[l].state # "closed"}

-----------------------------------------------------------------------------
(* The map of devices. *)

\* connectToDevice, for an entry that is neither connected nor on its way, with p the
\* objects and n the timers left.  The address is any string a browser sent: the
\* constructor may refuse it, and then a timer is armed in place of a socket.
Dial(e, p, n) ==
  \/ /\ \E l \in Links :
          /\ link[l].state = "closed"
          /\ link' = [link EXCEPT ![l] = [state |-> "connecting", owner |-> e]]
     /\ peer' = [p EXCEPT ![e].reconnecting = TRUE]
     /\ waiting' = n
  \/ /\ peer' = [p EXCEPT ![e].reconnecting = FALSE]
     /\ waiting' = n + 1
     /\ UNCHANGED link

Engaged(e) == peer[e].connected \/ peer[e].reconnecting

\* addDevice: a browser names the device, or mDNS finds it.
Add ==
  /\ entry = Nobody /\ waiting <= MaxWaiting
  /\ \E e \in Entries :
       /\ LinksOf(e) = {}
       /\ entry' = e
       /\ Dial(e, [peer EXCEPT
                     ![e] = [ws |-> Nobody, connected |-> FALSE, reconnecting |-> FALSE]],
               waiting)
  /\ stray' = told
  /\ UNCHANGED told

\* removeDevice.
Remove ==
  /\ entry # Nobody
  /\ entry' = Nobody
  /\ link' = IF peer[entry].ws = Nobody
               THEN link
               ELSE [link EXCEPT ![peer[entry].ws].state = "closing"]
  /\ UNCHANGED <<peer, waiting, told, stray>>

\* A timer connects the entry of the map, if there is one that needs it.
Timer ==
  /\ waiting > 0
  /\ IF entry # Nobody /\ ~Engaged(entry)
       THEN Dial(entry, peer, waiting - 1)
       ELSE waiting' = waiting - 1 /\ UNCHANGED <<peer, link>>
  /\ UNCHANGED <<entry, told, stray>>

\* A message to the browsers from a socket of the entry e.
Speaks(e) == stray' = (entry # Nobody /\ entry # e)

Open(l) ==
  /\ link[l].state = "connecting"
  /\ link' = [link EXCEPT ![l].state = "open"]
  /\ peer' = [peer EXCEPT
       ![link[l].owner] = [ws |-> l, connected |-> TRUE, reconnecting |-> FALSE]]
  /\ told' = TRUE /\ Speaks(link[l].owner)
  /\ UNCHANGED <<entry, waiting>>

\* Seeded fault: a loss is told only when nothing is done about it.
ToldAfterCloseFinal == told /\ entry # Nobody

ToldAfterClose == FALSE

\* Seeded fault: only an entry that was connected is dialled again.
WaitingAfterLoss(e) == IF entry # Nobody /\ peer[e].connected THEN waiting + 1 ELSE waiting

\* The close handler always sets a timer, which looks the address up when it fires.
WaitingAfterClose(e) == waiting + 1

OnClosed(l) ==
  /\ link[l].state # "closed"
  /\ link' = [link EXCEPT ![l].state = "closed"]
  /\ peer' = [peer EXCEPT
       ![link[l].owner] = [ws |-> Nobody, connected |-> FALSE, reconnecting |-> FALSE]]
  /\ told' = ToldAfterClose /\ Speaks(link[l].owner)
  /\ waiting' = WaitingAfterClose(link[l].owner)
  /\ UNCHANGED entry

\* A browser joins and gets the device list: device_list names every entry.
Join ==
  /\ entry # Nobody
  /\ told' = peer[entry].connected
  /\ stray' = FALSE
  /\ UNCHANGED <<entry, peer, link, waiting>>

Next ==
  \/ Add \/ Remove \/ Timer \/ Join
  \/ \E l \in Links : Open(l) \/ OnClosed(l)

Spec == Init /\ [][Next]_bridgeVars

-----------------------------------------------------------------------------
(* Properties. *)

\* Every variable has its type.
TypeOK ==
  /\ entry \in Entries \cup {Nobody}
  /\ peer \in [Entries -> [ws : Links \cup {Nobody}, connected : BOOLEAN, reconnecting : BOOLEAN]]
  /\ link \in [Links -> [state : {"connecting", "open", "closing", "closed"},
                         owner : Entries \cup {Nobody}]]
  /\ waiting \in Nat /\ told \in BOOLEAN /\ stray \in BOOLEAN

\* Where the connection to the device in the map is, by its sockets and timers.
Phase ==
  IF entry = Nobody THEN "absent"
  ELSE IF \E l \in LinksOf(entry) : link[l].state = "open" THEN "up"
  ELSE IF LinksOf(entry) # {} THEN "trying"
  ELSE IF waiting > 0 THEN "waiting" ELSE "forgotten"

\* ws.on('close'): a device in the map without a connection is always getting at one:
\* its socket is on its way, or a timer is armed that will dial.
BridgeKeepsTrying ==
  entry # Nobody /\ ~peer[entry].connected => LinksOf(entry) # {} \/ waiting > 0

\* broadcastToBrowsers: the browsers believe of a device what the map says, unless the
\* last word came from a socket of an entry that had been removed.
ToldTruthfully ==
  entry # Nobody /\ ~stray => told = peer[entry].connected
=============================================================================

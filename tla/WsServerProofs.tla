--------------------------- MODULE WsServerProofs ---------------------------
(***************************************************************************)
(* Theorems about WsServer, for every set of sockets and every size of the *)
(* table that exceeds the number of sessions httpd keeps.                  *)
(***************************************************************************)
EXTENDS WsServer, FiniteSetTheorems, WellFoundedInduction, TLAPS

TableType == [Slots -> [active : BOOLEAN, fd : Fds \cup {NoFd}, idle : 0..(Timeout + 1)]]

\* An entry is active exactly when it has a socket.
Consistent(table) == \A s \in Slots : table[s].active <=> table[s].fd # NoFd

Unique(table) ==
  \A s, t \in Slots :
    table[s].active /\ table[t].active /\ table[s].fd = table[t].fd => s = t

\* httpd keeps no more sessions than it has sockets for.
OpenBound == Cardinality(Open) <= MaxOpen

\* The sockets that have an entry or an upgraded session.
Known == {fd \in Fds : Tracked(fd) \/ sess[fd] \in Upgraded}

\* There are no more of them than httpd has sockets for: whoever was open at the last
\* handshake's cleanup may still have an entry, and whoever came since has been cleaned
\* up for.
KnownBound == httpd.pc # "cleanup" => Cardinality(Known) <= MaxOpen

\* A handshake is for an upgraded session, and so is a frame.
Serving == httpd.pc # "idle" => sess[httpd.fd] \in Upgraded

IndInv == TypeOK /\ OneSlotPerFd /\ OpenBound /\ KnownBound /\ Serving /\ NoDeafClient

-----------------------------------------------------------------------------
(* The table *)

\* Freeing entries keeps the table well formed.
LEMMA ClearedTable ==
  ASSUME TypeOK, OneSlotPerFd, NEW S
  PROVE  /\ Cleared(S) \in TableType
         /\ Consistent(Cleared(S))
         /\ Unique(Cleared(S))
         /\ \A s \in Slots : Cleared(S)[s].active <=> client[s].active /\ s \notin S
         /\ \A s \in Slots \ S : Cleared(S)[s] = client[s]
  BY TableAssumption DEF TypeOK, OneSlotPerFd, Cleared, Free, TableType, Consistent, Unique

\* A removed socket has no entry, and every other keeps its own.
LEMMA Removed ==
  ASSUME TypeOK, OneSlotPerFd, NEW fd \in Fds
  PROVE  /\ \A s \in Slots : ~(RemoveClient(fd)[s].active /\ RemoveClient(fd)[s].fd = fd)
         /\ \A s \in Slots : RemoveClient(fd)[s].active => RemoveClient(fd)[s] = client[s]
         /\ \A s \in Slots : client[s].active /\ client[s].fd # fd
                               => RemoveClient(fd)[s] = client[s]
  BY TableAssumption DEF TypeOK, RemoveClient, SlotsOf, Cleared, Free

\* A table that has a free slot has a lowest one.
LEMMA LowestFree ==
  ASSUME NEW table, NEW u \in Slots, ~table[u].active
  PROVE  \E s \in Slots : ~table[s].active /\ \A t \in 1..(s - 1) : table[t].active
<1> DEFINE T == {s \in Slots : ~table[s].active}
<1>1. T \subseteq Nat /\ T # {}
  BY TableAssumption DEF Slots
<1>2. \E x \in T : \A y \in T : ~(<<y, x>> \in OpToRel(<, Nat))
  BY <1>1, NatLessThanWellFounded, WFMin
<1>3. PICK x \in T : \A y \in T : ~(y < x)
  BY <1>1, <1>2 DEF OpToRel
<1>4. \A t \in 1..(x - 1) : table[t].active
  BY <1>3, TableAssumption DEF Slots
<1> QED BY <1>3, <1>4

\* Adding a socket keeps the table well formed and the entries of the others; the
\* socket has an entry if there was room.
LEMMA Added ==
  ASSUME TypeOK, OneSlotPerFd, NEW fd \in Fds
  PROVE  /\ AddClient(fd) \in TableType
         /\ Consistent(AddClient(fd))
         /\ Unique(AddClient(fd))
         /\ \A s \in Slots : AddClient(fd)[s].active
              => AddClient(fd)[s].fd = fd \/ AddClient(fd)[s] = client[s]
         /\ \A s \in Slots : client[s].active /\ client[s].fd # fd
              => AddClient(fd)[s] = client[s]
         /\ (\E u \in Slots : ~client[u].active)
              => \E s \in Slots : AddClient(fd)[s].active /\ AddClient(fd)[s].fd = fd
<1> DEFINE table == RemoveClient(fd)
           lowest(s) == ~table[s].active /\ \A t \in 1..(s - 1) : table[t].active
           new == [active |-> TRUE, fd |-> fd, idle |-> 0]
<1>1. table \in TableType /\ Consistent(table) /\ Unique(table)
  BY ClearedTable DEF RemoveClient
<1>2. \A s \in Slots : ~(table[s].active /\ table[s].fd = fd)
  BY Removed
<1>3. \A s \in Slots : table[s].active => table[s] = client[s]
  BY Removed
<1>4. \A s \in Slots : client[s].active /\ client[s].fd # fd => table[s] = client[s]
  BY Removed
<1>5. \A u \in Slots : ~client[u].active => ~table[u].active
  BY <1>3, TableAssumption DEF TypeOK
<1>6. AddClient(fd) = [s \in Slots |-> IF lowest(s) THEN new ELSE table[s]]
  BY DEF AddClient
<1>7. \A s, t \in Slots : lowest(s) /\ lowest(t) => s = t
  BY TableAssumption DEF Slots
<1>8. (\E u \in Slots : ~client[u].active) => \E s \in Slots : lowest(s)
  BY <1>5, LowestFree
<1>9. new \in [active : BOOLEAN, fd : Fds \cup {NoFd}, idle : 0..(Timeout + 1)]
      /\ new.active /\ new.fd = fd /\ fd # NoFd
  BY TableAssumption
<1>10. \A s \in Slots : lowest(s) => ~table[s].active
  OBVIOUS
<1> HIDE DEF table, lowest, new
<1>11. AddClient(fd) \in TableType
  BY <1>1, <1>6, <1>9 DEF TableType
<1>12. Consistent(AddClient(fd))
  BY <1>1, <1>6, <1>9 DEF Consistent
<1>13. Unique(AddClient(fd))
  BY <1>1, <1>2, <1>6, <1>7, <1>9 DEF Unique
<1>14. \A s \in Slots : AddClient(fd)[s].active
         => AddClient(fd)[s].fd = fd \/ AddClient(fd)[s] = client[s]
  BY <1>3, <1>6, <1>9
<1>15. \A s \in Slots : client[s].active /\ client[s].fd # fd
         => AddClient(fd)[s] = client[s]
  BY <1>4, <1>6, <1>10
<1>16. (\E u \in Slots : ~client[u].active)
         => \E s \in Slots : AddClient(fd)[s].active /\ AddClient(fd)[s].fd = fd
  BY <1>6, <1>8, <1>9
<1> QED BY <1>11, <1>12, <1>13, <1>14, <1>15, <1>16

\* A full table has an entry for every slot, so some socket in it has no place among
\* fewer known ones: there is a free slot as long as fewer are known.
LEMMA FreeSlot ==
  ASSUME TypeOK, OneSlotPerFd, NEW S \in SUBSET Fds, Cardinality(S) <= MaxOpen,
         \A s \in Slots : client[s].active => client[s].fd \in S
  PROVE  \E s \in Slots : ~client[s].active
<1> SUFFICES ASSUME \A s \in Slots : client[s].active PROVE FALSE
  OBVIOUS
<1> DEFINE f == [s \in Slots |-> client[s].fd]
<1>1. f \in [Slots -> S]
  OBVIOUS
<1>2. IsFiniteSet(S) /\ Cardinality(S) \in Nat
  BY TableAssumption, FS_Subset, FS_CardinalityType
<1>3. IsFiniteSet(Slots) /\ Cardinality(Slots) = NumSlots
  BY TableAssumption, FS_Interval DEF Slots
<1>4. Cardinality(S) < Cardinality(Slots)
  BY <1>2, <1>3, TableAssumption
<1> HIDE DEF f
<1>5. PICK s, t \in Slots : s # t /\ f[s] = f[t]
  BY <1>1, <1>2, <1>3, <1>4, FS_PigeonHole, Zenon
<1> USE DEF f
<1>6. client[s].fd = client[t].fd
  BY <1>5
<1> QED BY <1>5, <1>6 DEF OneSlotPerFd

\* There is always room, except before a handshake's cleanup.
LEMMA RoomLemma == IndInv /\ httpd.pc # "cleanup" => \E s \in Slots : ~client[s].active
<1> SUFFICES ASSUME IndInv, httpd.pc # "cleanup" PROVE \E s \in Slots : ~client[s].active
  OBVIOUS
<1>1. TypeOK /\ OneSlotPerFd /\ Cardinality(Known) <= MaxOpen /\ Known \in SUBSET Fds
  BY DEF IndInv, KnownBound, Known
<1>2. \A s \in Slots : client[s].active => client[s].fd \in Known
  BY <1>1 DEF TypeOK, Known, Tracked
<1> QED BY <1>1, <1>2, FreeSlot
-----------------------------------------------------------------------------
(* The invariant *)

\* The invariant holds when ws_server_init has run: nobody is connected.
LEMMA InitInv == Init => IndInv
<1> SUFFICES ASSUME Init PROVE IndInv
  OBVIOUS
<1>1. TypeOK
  BY TableAssumption DEF Init, TypeOK, Free, SessState, HttpdPc, Idle
<1>2. Open = {} /\ Cardinality(Open) = 0
  BY FS_EmptySet DEF Init, Open
<1>3. OneSlotPerFd /\ Serving /\ NoDeafClient
  BY DEF Init, OneSlotPerFd, Serving, NoDeafClient, Free, Upgraded
<1>4. Known = {}
  BY DEF Init, Known, Tracked, Free, Upgraded
<1> QED BY <1>1, <1>2, <1>3, <1>4, TableAssumption DEF IndInv, OpenBound, KnownBound

\* Closing sessions or leaving them as they are keeps the bound on their number.
LEMMA OpenShrinks ==
  ASSUME OpenBound, sess \in [Fds -> SessState], sess' \in [Fds -> SessState],
         \A fd \in Fds : sess'[fd] # "closed" => sess[fd] # "closed"
  PROVE  OpenBound'
<1>1. IsFiniteSet(Open) /\ Open' \subseteq Open
  BY TableAssumption, FS_Subset DEF Open
<1>2. Cardinality(Open') <= Cardinality(Open) /\ Cardinality(Open) \in Nat /\ Cardinality(Open') \in Nat
  BY <1>1, FS_Subset, FS_CardinalityType
<1> QED BY <1>2, TableAssumption DEF OpenBound

\* A sweep of the table, in a handshake or by ws_task: what it frees was closed
\* already or is going to be, or httpd could not be asked.
LEMMA SweepLemma ==
  ASSUME IndInv, CleanupStale, sess' = sess
  PROVE  /\ client' \in TableType /\ Consistent(client') /\ Unique(client')
         /\ closing \subseteq closing' /\ closing' \subseteq Fds
         /\ refused \subseteq refused' /\ refused' \subseteq Fds
         /\ \A s \in Slots : client'[s].active => client[s].active /\ client'[s] = client[s]
         /\ \A s \in Slots : client'[s].active => client[s].fd \in Open
         /\ \A fd \in Fds : Tracked(fd) /\ sess[fd] # "closed"
                              => Tracked(fd)' \/ fd \in closing' \/ fd \in refused'
<1>1. TypeOK /\ OneSlotPerFd
  BY DEF IndInv
<1> DEFINE found == {client[s].fd : s \in Swept} \cap Open
<1>2. client' = Cleared(Swept)
      /\ \E queued \in SUBSET found :
            closing' = closing \cup queued /\ refused' = refused \cup (found \ queued)
  BY DEF CleanupStale
<1>3. /\ client' \in TableType /\ Consistent(client') /\ Unique(client')
      /\ \A s \in Slots : client'[s].active <=> client[s].active /\ s \notin Swept
      /\ \A s \in Slots \ Swept : client'[s] = client[s]
  BY <1>1, <1>2, ClearedTable
<1>4. /\ closing \subseteq closing' /\ closing' \subseteq Fds
      /\ refused \subseteq refused' /\ refused' \subseteq Fds
  BY <1>1, <1>2 DEF TypeOK, Open
<1>5. \A s \in Slots : client'[s].active => client[s].fd \in Open
  BY <1>1, <1>3 DEF Swept, Stale, Open, TypeOK
<1>6. ASSUME NEW fd \in Fds, Tracked(fd), sess[fd] # "closed",
             fd \notin closing', fd \notin refused'
      PROVE  Tracked(fd)'
  <2>1. PICK s \in Slots : client[s].active /\ client[s].fd = fd
    BY <1>6 DEF Tracked
  <2>2. s \notin Swept
    BY <1>2, <1>6, <2>1 DEF Open
  <2> QED BY <1>3, <2>1, <2>2 DEF Tracked
<1> QED BY <1>3, <1>4, <1>5, <1>6

\* The invariant without the bound on the known sockets.
Rest == TypeOK /\ OneSlotPerFd /\ OpenBound /\ Serving /\ NoDeafClient

\* One step keeps it, action by action.
LEMMA RestStep == IndInv /\ [Next]_vars => Rest'
<1> SUFFICES ASSUME IndInv, [Next]_vars PROVE Rest'
  OBVIOUS
<1>t. TypeOK /\ OneSlotPerFd /\ OpenBound /\ KnownBound /\ Serving /\ NoDeafClient
  BY DEF IndInv
<1>s. sess \in [Fds -> SessState] /\ httpd \in [pc : HttpdPc, fd : Fds \cup {NoFd}]
  BY <1>t DEF TypeOK
<1>h. httpd.pc # "idle" => httpd.fd \in Fds
  BY <1>t DEF TypeOK, Idle
<1>1. CASE Tick
  <2>1. /\ client' \in TableType
        /\ \A s \in Slots : client'[s].active = client[s].active /\ client'[s].fd = client[s].fd
    BY <1>1, <1>t, TableAssumption DEF Tick, TypeOK, TableType
  <2>2. TypeOK'
    BY <1>1, <1>t, <2>1 DEF Tick, TypeOK, TableType, Idle
  <2>3. OneSlotPerFd' /\ Serving' /\ NoDeafClient'
    BY <1>1, <1>t, <2>1 DEF Tick, OneSlotPerFd, Serving, NoDeafClient, Tracked
  <2>4. OpenBound'
    BY <1>1, <1>t DEF Tick, OpenBound, Open
  <2> QED BY <2>2, <2>3, <2>4 DEF Rest
<1>2. ASSUME NEW fd \in Fds, Accept(fd) PROVE Rest'
  <2>1. TypeOK'
    BY <1>2, <1>t DEF Accept, TypeOK, SessState, Idle
  <2>2. OneSlotPerFd' /\ Serving' /\ NoDeafClient'
    BY <1>2, <1>t, <1>s DEF Accept, OneSlotPerFd, Serving, NoDeafClient, Tracked, Idle, Upgraded
  <2>3. Open' = Open \cup {fd}
    BY <1>2, <1>s DEF Accept, Open
  <2>4. IsFiniteSet(Open) /\ Cardinality(Open) \in Nat
    BY TableAssumption, FS_Subset, FS_CardinalityType DEF Open
  <2>5. Cardinality(Open') <= Cardinality(Open) + 1
    BY <2>3, <2>4, FS_AddElement
  <2>6. Cardinality(Open) < MaxOpen /\ Cardinality(Open') \in Nat
    BY <1>2, <2>3, <2>4, FS_AddElement, FS_CardinalityType DEF Accept
  <2> QED BY <2>1, <2>2, <2>4, <2>5, <2>6, TableAssumption DEF Rest, OpenBound
<1>3. ASSUME NEW fd \in Fds, PeerFails(fd) PROVE Rest'
  <2>1. /\ sess' \in [Fds -> SessState]
        /\ \A g \in Fds : (sess'[g] = "closed") <=> (sess[g] = "closed")
        /\ \A g \in Fds : (sess'[g] \in Upgraded) <=> (sess[g] \in Upgraded)
    BY <1>3, <1>s DEF PeerFails, SessState, Upgraded
  <2>2. UNCHANGED <<client, closing, refused, httpd>>
    BY <1>3 DEF PeerFails
  <2>3. TypeOK'
    BY <1>t, <2>1, <2>2 DEF TypeOK, Idle
  <2>4. OneSlotPerFd' /\ Serving'
    BY <1>t, <1>h, <2>1, <2>2 DEF OneSlotPerFd, Serving
  <2>5. NoDeafClient'
    <3>1. \A g \in Fds : Tracked(g)' = Tracked(g)
      BY <2>2 DEF Tracked
    <3> QED BY <1>t, <2>1, <2>2, <3>1 DEF NoDeafClient
  <2>6. OpenBound'
    BY <1>t, <1>s, <2>1, OpenShrinks
  <2> QED BY <2>3, <2>4, <2>5, <2>6 DEF Rest
<1>4. ASSUME NEW fd \in Fds, SessionEnds(fd) \/ RunClose(fd) PROVE Rest'
  <2>1. /\ Idle /\ UNCHANGED <<client, httpd>>
        /\ sess' = [sess EXCEPT ![fd] = "closed"]
        /\ closing' \subseteq closing /\ closing \subseteq closing' \cup {fd}
        /\ refused' = refused \ {fd}
    BY <1>4 DEF SessionEnds, RunClose, Closed
  <2>2. TypeOK'
    BY <1>t, <2>1 DEF TypeOK, Idle, SessState
  <2>3. OneSlotPerFd' /\ Serving' /\ NoDeafClient'
    BY <1>t, <1>s, <2>1 DEF OneSlotPerFd, Serving, NoDeafClient, Tracked, Idle, Upgraded
  <2>4. OpenBound'
    BY <1>t, <1>s, <2>1, OpenShrinks DEF SessState
  <2> QED BY <2>2, <2>3, <2>4 DEF Rest
<1>5. ASSUME NEW fd \in Fds, Handshake(fd) PROVE Rest'
  <2>1. TypeOK'
    BY <1>5, <1>t, TableAssumption DEF Handshake, TypeOK, Idle, SessState, Upgraded, HttpdPc
  <2>2. OneSlotPerFd' /\ Serving' /\ NoDeafClient'
    <3>1. /\ Idle /\ sess' = [sess EXCEPT ![fd] = "ws"] /\ httpd' = [pc |-> "cleanup", fd |-> fd]
          /\ UNCHANGED <<client, closing, refused>>
      BY <1>5 DEF Handshake
    <3>2. OneSlotPerFd' /\ Serving'
      BY <1>t, <1>s, <3>1 DEF OneSlotPerFd, Serving, Upgraded
    <3>3. NoDeafClient'
      BY <1>t, <1>s, <3>1 DEF NoDeafClient, Tracked, Idle, Handshaking
    <3> QED BY <3>2, <3>3
  <2>3. OpenBound'
    BY <1>5, <1>t, <1>s, <2>1, OpenShrinks DEF Handshake, TypeOK
  <2> QED BY <2>1, <2>2, <2>3 DEF Rest
<1>6. ASSUME NEW fd \in Fds, Leave(fd) PROVE Rest'
  <2>1. /\ Idle /\ UNCHANGED <<closing, httpd>>
        /\ client' = RemoveClient(fd) /\ sess' = [sess EXCEPT ![fd] = "closed"]
        /\ refused' = refused \ {fd}
    BY <1>6 DEF Leave, Closed
  <2>2. client' \in TableType /\ Consistent(client') /\ Unique(client')
    BY <1>t, <2>1, ClearedTable DEF RemoveClient
  <2>3. \A s \in Slots : client[s].active /\ client[s].fd # fd => client'[s] = client[s]
    BY <1>t, <2>1, Removed
  <2>4. TypeOK'
    BY <1>t, <1>s, <2>1, <2>2 DEF TypeOK, TableType, Consistent, Idle, SessState
  <2>5. \A g \in Fds : Tracked(g) /\ g # fd => Tracked(g)'
    BY <2>3 DEF Tracked
  <2>6. NoDeafClient'
    BY <1>t, <1>s, <2>1, <2>5 DEF NoDeafClient, Upgraded
  <2>7. OneSlotPerFd' /\ Serving'
    BY <2>1, <2>2 DEF OneSlotPerFd, Unique, Serving, Idle
  <2>8. OpenBound'
    BY <1>t, <1>s, <2>1, OpenShrinks DEF SessState
  <2> QED BY <2>4, <2>6, <2>7, <2>8 DEF Rest
<1>7. ASSUME NEW fd \in Fds, Frame(fd) PROVE Rest'
  <2>1. TypeOK'
    BY <1>7, <1>t, TableAssumption DEF Frame, TypeOK, Idle, HttpdPc
  <2>2. /\ Idle /\ sess[fd] = "ws" /\ httpd' = [pc |-> "track", fd |-> fd]
        /\ UNCHANGED <<client, sess, closing, refused>>
    BY <1>7 DEF Frame
  <2>3. OneSlotPerFd' /\ Serving' /\ OpenBound'
    BY <1>t, <2>2 DEF OneSlotPerFd, Serving, Upgraded, OpenBound, Open
  <2>4. NoDeafClient'
    BY <1>t, <2>2 DEF NoDeafClient, Tracked, Idle, Handshaking
  <2> QED BY <2>1, <2>3, <2>4 DEF Rest
<1>8. CASE HandshakeCleanup
  <2>1. httpd.pc = "cleanup" /\ CleanupStale /\ sess' = sess /\ httpd' = [httpd EXCEPT !.pc = "drop"]
    BY <1>8 DEF HandshakeCleanup, Goto
  <2>2. httpd'.pc = "drop" /\ httpd'.fd = httpd.fd /\ httpd' \in [pc : HttpdPc, fd : Fds \cup {NoFd}]
    BY <1>s, <2>1 DEF HttpdPc
  <2>3. TypeOK'
    BY <1>t, <1>h, <2>1, <2>2, SweepLemma, TableAssumption DEF TypeOK, TableType, Consistent, Idle
  <2>5. NoDeafClient'
    BY <1>t, <1>s, <2>1, <2>2, SweepLemma DEF NoDeafClient, Handshaking, Upgraded
  <2>6. OneSlotPerFd' /\ Serving' /\ OpenBound'
    BY <1>t, <2>1, <2>2, SweepLemma DEF OneSlotPerFd, Unique, Serving, OpenBound, Open
  <2> QED BY <2>3, <2>5, <2>6 DEF Rest
<1>9. CASE HandshakeDrop
  <2>1. /\ httpd.pc = "drop" /\ client' = RemoveClient(httpd.fd)
        /\ UNCHANGED <<sess, closing, refused>>
        /\ httpd' = [httpd EXCEPT !.pc = "add"] /\ httpd.fd \in Fds
    BY <1>9, <1>h DEF HandshakeDrop, Goto
  <2>2. httpd'.pc = "add" /\ httpd'.fd = httpd.fd /\ httpd' \in [pc : HttpdPc, fd : Fds \cup {NoFd}]
    BY <1>s, <2>1 DEF HttpdPc
  <2>3. client' \in TableType /\ Consistent(client') /\ Unique(client')
    BY <1>t, <2>1, ClearedTable DEF RemoveClient
  <2>4. /\ \A s \in Slots : client'[s].active => client'[s] = client[s]
        /\ \A s \in Slots : client[s].active /\ client[s].fd # httpd.fd => client'[s] = client[s]
    BY <1>t, <2>1, Removed
  <2>5. TypeOK'
    BY <1>t, <2>1, <2>2, <2>3, TableAssumption DEF TypeOK, TableType, Consistent, Idle
  <2>7. \A g \in Fds : Tracked(g) /\ g # httpd.fd => Tracked(g)'
    BY <2>4 DEF Tracked
  <2>8. NoDeafClient'
    BY <1>t, <2>1, <2>2, <2>7 DEF NoDeafClient, Handshaking
  <2>9. OneSlotPerFd' /\ Serving' /\ OpenBound'
    BY <1>t, <2>1, <2>2, <2>3 DEF OneSlotPerFd, Unique, Serving, OpenBound, Open
  <2> QED BY <2>5, <2>8, <2>9 DEF Rest
<1>10. CASE HandshakeAdd
  <2>1. /\ httpd.pc = "add" /\ client' = AddClient(httpd.fd)
        /\ UNCHANGED <<sess, closing, refused>>
        /\ httpd' = [pc |-> "idle", fd |-> NoFd] /\ httpd.fd \in Fds
    BY <1>10, <1>h DEF HandshakeAdd, Goto
  <2>2. /\ client' \in TableType /\ Consistent(client') /\ Unique(client')
        /\ \A s \in Slots : client[s].active /\ client[s].fd # httpd.fd => client'[s] = client[s]
        /\ (\E u \in Slots : ~client[u].active)
             => \E s \in Slots : client'[s].active /\ client'[s].fd = httpd.fd
    BY <1>t, <2>1, Added
  <2>3. \E u \in Slots : ~client[u].active
    BY <2>1, RoomLemma DEF RoomForNewcomer
  <2>4. \A g \in Fds : g = httpd.fd \/ Tracked(g) => Tracked(g)'
    BY <2>2, <2>3 DEF Tracked
  <2>5. NoDeafClient'
    BY <1>t, <2>1, <2>4 DEF NoDeafClient
  <2>6. TypeOK'
    BY <1>t, <2>1, <2>2, TableAssumption DEF TypeOK, TableType, Consistent, Idle, HttpdPc
  <2>7. OneSlotPerFd' /\ Serving' /\ OpenBound'
    BY <1>t, <2>1, <2>2 DEF OneSlotPerFd, Unique, Serving, OpenBound, Open
  <2> QED BY <2>5, <2>6, <2>7 DEF Rest
<1>11. CASE FrameTrack
  <2>1. /\ httpd.pc = "track" /\ UNCHANGED <<sess, closing>> /\ refused' = refused \ {httpd.fd}
        /\ client' = IF Tracked(httpd.fd) THEN client ELSE AddClient(httpd.fd)
        /\ httpd' = [httpd EXCEPT !.pc = "touch"] /\ httpd.fd \in Fds
    BY <1>11, <1>h DEF FrameTrack, Goto
  <2>2. httpd'.pc = "touch" /\ httpd'.fd = httpd.fd /\ httpd' \in [pc : HttpdPc, fd : Fds \cup {NoFd}]
    BY <1>s, <2>1 DEF HttpdPc
  <2>3. /\ client' \in TableType /\ Consistent(client') /\ Unique(client')
        /\ \A s \in Slots : client[s].active => client'[s] = client[s]
    <3>1. CASE Tracked(httpd.fd)
      BY <1>t, <2>1, <3>1 DEF TypeOK, OneSlotPerFd, TableType, Consistent, Unique
    <3>2. CASE ~Tracked(httpd.fd)
      <4>1. \A s \in Slots : client[s].active => client[s].fd # httpd.fd
        BY <3>2 DEF Tracked
      <4> QED BY <1>t, <2>1, <3>2, <4>1, Added
    <3> QED BY <3>1, <3>2
  <2>4. \E s \in Slots : client'[s].active /\ client'[s].fd = httpd.fd
    <3>1. CASE Tracked(httpd.fd)
      BY <2>3, <3>1 DEF Tracked
    <3>2. CASE ~Tracked(httpd.fd)
      <4>1. \E u \in Slots : ~client[u].active
        BY <2>1, RoomLemma
      <4> QED BY <1>t, <2>1, <3>2, <4>1, Added
    <3> QED BY <3>1, <3>2
  <2>5. NoDeafClient'
    <3>1. \A g \in Fds : g = httpd.fd \/ Tracked(g) => Tracked(g)'
      BY <2>3, <2>4 DEF Tracked
    <3> QED BY <1>t, <2>1, <2>2, <3>1 DEF NoDeafClient, Handshaking
  <2>6. TypeOK'
    BY <1>t, <2>1, <2>2, <2>3, TableAssumption DEF TypeOK, TableType, Consistent, Idle
  <2>7. OneSlotPerFd' /\ Serving' /\ OpenBound'
    BY <1>t, <2>1, <2>2, <2>3 DEF OneSlotPerFd, Unique, Serving, OpenBound, Open
  <2> QED BY <2>5, <2>6, <2>7 DEF Rest
<1>12. CASE FrameTouch
  <2>1. /\ httpd.pc = "touch" /\ UNCHANGED <<sess, closing, refused>>
        /\ httpd' = [httpd EXCEPT !.pc = "process"] /\ httpd.fd \in Fds
    BY <1>12, <1>h DEF FrameTouch, Goto
  <2>2. httpd'.pc = "process" /\ httpd'.fd = httpd.fd /\ httpd' \in [pc : HttpdPc, fd : Fds \cup {NoFd}]
    BY <1>s, <2>1 DEF HttpdPc
  <2>3. /\ client' \in TableType
        /\ \A s \in Slots : client'[s].active = client[s].active /\ client'[s].fd = client[s].fd
    BY <1>12, <1>t, TableAssumption DEF FrameTouch, TypeOK, TableType
  <2>4. TypeOK'
    BY <1>t, <2>1, <2>2, <2>3, TableAssumption DEF TypeOK, TableType, Idle
  <2>5. OneSlotPerFd' /\ Serving'
    BY <1>t, <2>1, <2>2, <2>3 DEF OneSlotPerFd, Serving
  <2>6. NoDeafClient' /\ OpenBound'
    BY <1>t, <2>1, <2>2, <2>3 DEF NoDeafClient, Tracked, Handshaking, OpenBound, Open
  <2> QED BY <2>4, <2>5, <2>6 DEF Rest
<1>13. CASE FrameProcess
  <2>1. httpd.pc = "process" /\ UNCHANGED <<client, sess, closing, refused>>
        /\ httpd' = [pc |-> "idle", fd |-> NoFd]
    BY <1>13 DEF FrameProcess, Goto
  <2>2. TypeOK'
    BY <1>t, <2>1, TableAssumption DEF TypeOK, Idle, HttpdPc
  <2>3. OneSlotPerFd' /\ Serving' /\ NoDeafClient' /\ OpenBound'
    BY <1>t, <2>1 DEF OneSlotPerFd, Serving, NoDeafClient, Tracked, Handshaking, OpenBound, Open
  <2> QED BY <2>2, <2>3 DEF Rest
<1>14. CASE Sweep
  <2>1. CleanupStale /\ sess' = sess /\ httpd' = httpd
    BY <1>14 DEF Sweep
  <2>2. TypeOK'
    BY <1>t, <2>1, SweepLemma DEF TypeOK, TableType, Consistent, Idle
  <2>4. NoDeafClient'
    BY <1>t, <1>s, <2>1, SweepLemma DEF NoDeafClient, Upgraded
  <2>5. OneSlotPerFd' /\ Serving' /\ OpenBound'
    BY <1>t, <2>1, SweepLemma DEF OneSlotPerFd, Unique, Serving, OpenBound, Open
  <2> QED BY <2>2, <2>4, <2>5 DEF Rest
<1>15. CASE UNCHANGED vars
  BY <1>15, <1>t DEF vars, Rest, TypeOK, Idle, OneSlotPerFd, OpenBound, Open,
                     Serving, NoDeafClient, Tracked
<1> QED BY <1>1, <1>2, <1>3, <1>4, <1>5, <1>6, <1>7, <1>8, <1>9, <1>10, <1>11, <1>12,
           <1>13, <1>14, <1>15 DEF Next, Handler

\* Closing, sweeping and leaving lessen the known sockets, and only who is known already
\* gets an entry; the cleanup leaves those that are open.
LEMMA KnownStep == IndInv /\ [Next]_vars => KnownBound'
<1> SUFFICES ASSUME IndInv, [Next]_vars, httpd'.pc # "cleanup"
             PROVE  Cardinality(Known') <= MaxOpen
  BY DEF KnownBound
<1>t. /\ TypeOK /\ OneSlotPerFd /\ OpenBound /\ Serving
      /\ sess \in [Fds -> SessState] /\ httpd \in [pc : HttpdPc, fd : Fds \cup {NoFd}]
      /\ httpd.pc # "idle" => httpd.fd \in Fds
  BY DEF IndInv, TypeOK, Idle
<1>b. ASSUME NEW S \in SUBSET Fds, Cardinality(S) <= MaxOpen, Known' \subseteq S
      PROVE  Cardinality(Known') <= MaxOpen
  <2>1. IsFiniteSet(S) /\ IsFiniteSet(Known')
    BY <1>b, TableAssumption, FS_Subset
  <2>2. /\ Cardinality(Known') <= Cardinality(S)
        /\ Cardinality(S) \in Nat /\ Cardinality(Known') \in Nat
    BY <1>b, <2>1, FS_Subset, FS_CardinalityType
  <2> QED BY <1>b, <2>2, TableAssumption
<1>1. CASE HandshakeCleanup
  <2>1. CleanupStale /\ sess' = sess
    BY <1>1 DEF HandshakeCleanup
  <2>2. Known' \subseteq Open
    BY <2>1, <1>t, SweepLemma DEF Known, Tracked, Open, Upgraded
  <2> QED BY <1>b, <1>t, <2>2 DEF OpenBound, Open
<1>2. CASE ~HandshakeCleanup
  <2>1. httpd.pc # "cleanup" /\ ~(\E fd \in Fds : Handshake(fd))
    BY <1>2, <1>t
       DEF Next, Tick, Accept, PeerFails, SessionEnds, RunClose, Handshake, Leave, Frame, Idle,
           Handler, HandshakeDrop, HandshakeAdd, FrameTrack, FrameTouch, FrameProcess, Sweep, vars
  <2>2. Known \in SUBSET Fds /\ Cardinality(Known) <= MaxOpen
    BY <2>1 DEF IndInv, KnownBound, Known
  <2> SUFFICES Known' \subseteq Known
    BY <1>b, <2>2
  <2> SUFFICES ASSUME NEW g \in Fds, Tracked(g)' \/ sess'[g] \in Upgraded PROVE g \in Known
    BY DEF Known
  <2> USE DEF Known, Tracked
  <2>3. CASE Tick
    <3>1. /\ sess' = sess
          /\ \A s \in Slots : client'[s].active = client[s].active /\ client'[s].fd = client[s].fd
      BY <2>3, <1>t, TableAssumption DEF Tick, TypeOK
    <3> QED BY <3>1
  <2>4. ASSUME NEW fd \in Fds,
               Accept(fd) \/ PeerFails(fd) \/ SessionEnds(fd) \/ RunClose(fd) \/ Frame(fd)
        PROVE  g \in Known
    BY <2>4, <1>t DEF Accept, PeerFails, SessionEnds, RunClose, Frame, Closed, Upgraded
  <2>5. ASSUME NEW fd \in Fds, Leave(fd) PROVE g \in Known
    <3>1. client' = RemoveClient(fd) /\ sess' = [sess EXCEPT ![fd] = "closed"]
      BY <2>5 DEF Leave, Closed
    <3>2. \A s \in Slots : client'[s].active => client'[s] = client[s]
      BY <1>t, <3>1, Removed
    <3> QED BY <1>t, <3>1, <3>2 DEF Upgraded
  <2>6. CASE Sweep
    <3>1. /\ sess' = sess
          /\ \A s \in Slots : client'[s].active => client[s].active /\ client'[s] = client[s]
      BY <2>6, SweepLemma DEF Sweep
    <3> QED BY <3>1
  <2>7. CASE HandshakeDrop
    <3>1. sess' = sess /\ client' = RemoveClient(httpd.fd) /\ httpd.fd \in Fds
      BY <2>7, <1>t DEF HandshakeDrop
    <3>2. \A s \in Slots : client'[s].active => client'[s] = client[s]
      BY <1>t, <3>1, Removed
    <3> QED BY <3>1, <3>2
  <2>8. CASE HandshakeAdd \/ FrameTrack
    <3>1. /\ sess' = sess /\ httpd.fd \in Fds /\ sess[httpd.fd] \in Upgraded
          /\ client' = client \/ client' = AddClient(httpd.fd)
      BY <2>8, <1>t DEF HandshakeAdd, FrameTrack, Serving
    <3>2. \A s \in Slots : AddClient(httpd.fd)[s].active
            => AddClient(httpd.fd)[s].fd = httpd.fd \/ AddClient(httpd.fd)[s] = client[s]
      BY <1>t, <3>1, Added
    <3> QED BY <3>1, <3>2
  <2>9. CASE FrameTouch
    <3>1. /\ sess' = sess
          /\ \A s \in Slots : client'[s].active = client[s].active /\ client'[s].fd = client[s].fd
      BY <2>9, <1>t DEF FrameTouch, TypeOK
    <3> QED BY <3>1
  <2>10. CASE FrameProcess \/ UNCHANGED vars
    BY <2>10 DEF FrameProcess, vars
  <2> QED BY <1>2, <2>1, <2>3, <2>4, <2>5, <2>6, <2>7, <2>8, <2>9, <2>10 DEF Next, Handler
<1> QED BY <1>1, <1>2

\* One step keeps the invariant.
LEMMA StepInv == IndInv /\ [Next]_vars => IndInv'
  BY RestStep, KnownStep DEF IndInv, Rest

\* The invariant holds throughout.
THEOREM Invariance == Spec => []IndInv
  BY InitInv, StepInv, PTL DEF Spec

\* The table, the sessions and the handler keep their types.
THEOREM TypeCorrect == Spec => []TypeOK
<1>1. IndInv => TypeOK
  BY DEF IndInv
<1> QED BY <1>1, Invariance, PTL

\* No socket ever has two entries.
THEOREM OneSlot == Spec => []OneSlotPerFd
<1>1. IndInv => OneSlotPerFd
  BY DEF IndInv
<1> QED BY <1>1, Invariance, PTL

\* add_client finds a slot at the end of every handshake.
THEOREM Room == Spec => []RoomForNewcomer
<1>1. IndInv => RoomForNewcomer
  BY RoomLemma DEF RoomForNewcomer
<1> QED BY <1>1, Invariance, PTL

\* Every open WebSocket session is in the table or about to be closed, or httpd could not
\* be asked to close it and its client has sent nothing since.
THEOREM NobodyDeaf == Spec => []NoDeafClient
<1>1. IndInv => NoDeafClient
  BY DEF IndInv
<1> QED BY <1>1, Invariance, PTL

-----------------------------------------------------------------------------
(* A newcomer's handshake *)

\* Between remove_client and add_client nobody makes an entry for the newcomer.
Evicted == httpd.pc = "add" => ~Tracked(httpd.fd)

\* Every step keeps it: the sweep only frees entries, and httpd is busy.
LEMMA EvictedStep == IndInv /\ Evicted /\ [Next]_vars => Evicted'
<1> SUFFICES ASSUME IndInv, Evicted, [Next]_vars, httpd'.pc = "add" PROVE ~Tracked(httpd.fd)'
  BY DEF Evicted
<1>t. /\ TypeOK /\ OneSlotPerFd
      /\ httpd \in [pc : HttpdPc, fd : Fds \cup {NoFd}]
      /\ httpd.pc # "idle" => httpd.fd \in Fds
  BY DEF IndInv, TypeOK, Idle
<1>1. CASE HandshakeDrop
  <2>1. httpd.pc = "drop" /\ client' = RemoveClient(httpd.fd) /\ httpd'.fd = httpd.fd
    BY <1>1, <1>t DEF HandshakeDrop, Goto
  <2>2. \A s \in Slots : ~(RemoveClient(httpd.fd)[s].active /\ RemoveClient(httpd.fd)[s].fd = httpd.fd)
    BY <1>t, <2>1, Removed
  <2> QED BY <2>1, <2>2 DEF Tracked
<1>2. CASE Tick
  <2>1. httpd' = httpd
        /\ \A s \in Slots : client'[s].active = client[s].active /\ client'[s].fd = client[s].fd
    BY <1>2, <1>t, TableAssumption DEF Tick, TypeOK
  <2> QED BY <2>1 DEF Evicted, Tracked
<1>3. CASE Sweep
  <2>1. httpd' = httpd
        /\ \A s \in Slots : client'[s].active => client[s].active /\ client'[s] = client[s]
    BY <1>3, SweepLemma DEF Sweep
  <2> QED BY <2>1 DEF Evicted, Tracked
<1>4. CASE \E fd \in Fds : PeerFails(fd)
  BY <1>4 DEF PeerFails, Evicted, Tracked
<1>5. CASE \E fd \in Fds : \/ Accept(fd) \/ SessionEnds(fd) \/ RunClose(fd) \/ Handshake(fd)
                          \/ Leave(fd) \/ Frame(fd)
  BY <1>5 DEF Accept, SessionEnds, RunClose, Handshake, Leave, Frame, Idle
<1>6. CASE HandshakeCleanup \/ HandshakeAdd \/ FrameTrack \/ FrameTouch \/ FrameProcess
  BY <1>6, <1>t DEF HandshakeCleanup, HandshakeAdd, FrameTrack, FrameTouch, FrameProcess, Goto
<1>7. CASE UNCHANGED vars
  BY <1>7 DEF vars, Evicted, Tracked
<1> QED BY <1>1, <1>2, <1>3, <1>4, <1>5, <1>6, <1>7 DEF Next, Handler

\* A session that completes its handshake is asked to close only for a leftover entry
\* of its descriptor that has timed out, and never once remove_client has run.
THEOREM NewcomersSpared == Spec => OnlyLeftoversCloseNewcomers
<1>1. ASSUME IndInv, Evicted, [Next]_vars, NEW fd \in closing' \ closing,
             httpd.fd = fd, httpd.pc \in Handshaking, sess[fd] # "broken"
      PROVE  /\ httpd.pc # "add"
             /\ \E s \in Slots : client[s].active /\ client[s].fd = fd /\ client[s].idle > Timeout
  <2>1. HandshakeCleanup \/ Sweep
    BY <1>1 DEF Next, Tick, Accept, PeerFails, SessionEnds, RunClose, Handshake, Leave, Frame,
                Handler, HandshakeDrop, HandshakeAdd, FrameTrack, FrameTouch, FrameProcess, vars
  <2>2. closing' \subseteq closing \cup ({client[s].fd : s \in Swept} \cap Open)
    BY <2>1 DEF HandshakeCleanup, Sweep, CleanupStale
  <2>3. PICK s \in Swept : client[s].fd = fd /\ sess[fd] # "closed"
    BY <1>1, <2>2 DEF Open
  <2>4. s \in Slots /\ client[s].active /\ client[s].idle > Timeout
    BY <1>1, <2>3 DEF Swept, Stale
  <2> QED BY <1>1, <2>3, <2>4 DEF Evicted, Tracked
<1>2. IndInv /\ Evicted /\ [Next]_vars =>
        [\A fd \in closing' \ closing :
           httpd.fd = fd /\ httpd.pc \in Handshaking /\ sess[fd] # "broken"
             => /\ httpd.pc # "add"
                /\ \E s \in Slots :
                     client[s].active /\ client[s].fd = fd /\ client[s].idle > Timeout]_vars
  BY <1>1
<1>3. Init => Evicted
  BY DEF Init, Evicted
<1> QED
  BY <1>2, <1>3, EvictedStep, Invariance, PTL DEF Spec, OnlyLeftoversCloseNewcomers

\* add_client for a socket without an entry frees none.
LEMMA AddedToTheRest ==
  ASSUME NEW fd \in Fds, ~Tracked(fd), NEW s \in Slots, client[s].active
  PROVE  AddClient(fd)[s].active
<1>1. s \notin SlotsOf(fd)
  BY DEF SlotsOf, Tracked
<1>2. RemoveClient(fd)[s] = client[s]
  BY <1>1 DEF RemoveClient, Cleared
<1> QED BY <1>2 DEF AddClient

\* A target's table is emptied by its clients alone.
THEOREM TargetWaitsForClients == Spec => OnlyClientsEmptyTheTable
<1>1. ASSUME IndInv, Evicted, [Next]_vars, ~Sweeps, Connected, ~Connected',
             httpd.pc \notin {"cleanup", "drop"}
      PROVE  \E fd \in Fds : sess[fd] \in {"ws", "broken"} /\ sess'[fd] = "closed"
  <2>t. /\ TypeOK /\ sess \in [Fds -> SessState]
        /\ httpd.pc # "idle" => httpd.fd \in Fds
    BY <1>1 DEF IndInv, TypeOK, Idle
  <2>1. PICK s \in Slots : client[s].active /\ ~client'[s].active
    BY <1>1 DEF Connected
  <2>2. ~Tick
    BY <2>1, <2>t, TableAssumption DEF Tick, TypeOK
  <2>3. client' # client
    BY <2>1
  <2>4. ~(HandshakeAdd \/ FrameTrack)
    <3>1. ASSUME HandshakeAdd \/ FrameTrack PROVE FALSE
      <4>1. httpd.fd \in Fds
        BY <2>t, <3>1 DEF HandshakeAdd, FrameTrack
      <4>2. ~Tracked(httpd.fd) /\ client' = AddClient(httpd.fd)
        BY <1>1, <2>3, <3>1 DEF HandshakeAdd, FrameTrack, Evicted
      <4> QED BY <2>1, <4>1, <4>2, AddedToTheRest
    <3> QED BY <3>1
  <2>5. ~FrameTouch
    BY <2>1, <2>t DEF FrameTouch, TypeOK
  <2>6. PICK fd \in Fds : Leave(fd)
    BY <1>1, <2>2, <2>3, <2>4, <2>5
       DEF Next, Handler, Sweep, HandshakeCleanup, HandshakeDrop, FrameProcess, Accept, PeerFails,
           SessionEnds, RunClose, Handshake, Frame, vars
  <2> QED BY <2>6, <2>t DEF Leave, Closed
<1>2. IndInv /\ Evicted /\ [Next]_vars =>
        [~Sweeps /\ Connected /\ ~Connected'
           => \/ httpd.pc \in {"cleanup", "drop"}
              \/ \E fd \in Fds : sess[fd] \in {"ws", "broken"} /\ sess'[fd] = "closed"]_vars
  BY <1>1
<1>3. Init => Evicted
  BY DEF Init, Evicted
<1> QED
  BY <1>2, <1>3, EvictedStep, Invariance, PTL DEF Spec, OnlyClientsEmptyTheTable
=============================================================================

------------------------------- MODULE WsServer -------------------------------
(***************************************************************************)
(* The table of WebSocket clients of a RayZ device                         *)
(* (esp32/shared/src/ws_server.cpp) and the sessions of ESP-IDF's httpd    *)
(* underneath it.                                                          *)
(*                                                                         *)
(* Two tasks change the table: the httpd task, which runs ws_handler for   *)
(* the handshake and for every frame, and (on a weapon only) ws_task,      *)
(* which sweeps it for stale clients.  Each function of the table holds    *)
(* s_ws_mutex for its body and is one action here; the sweep can fall      *)
(* between any two of them.  httpd opens and closes sessions without       *)
(* telling the table: a session that ends without a CLOSE frame leaves its *)
(* entry behind, and its file descriptor goes to the next connection.      *)
(*                                                                         *)
(* What a message does is GameState's concern, what is sent to a client    *)
(* StatusChannel's.  Frames of length zero or beyond the buffer are read   *)
(* and forgotten: they change nothing here.                                *)
(***************************************************************************)
EXTENDS Integers, FiniteSets

CONSTANTS
  Fds,       \* file descriptors of the sockets httpd accepts
  NoFd,      \* the -1 of a free entry
  NumSlots,  \* MAX_WS_CLIENTS
  MaxOpen,   \* max_open_sockets of HTTPD_DEFAULT_CONFIG
  Timeout,   \* WS_CLIENT_TIMEOUT_MS
  Sweeps     \* does ws_task sweep? (weapon: yes, target: no)

ASSUME TableAssumption ==
  /\ IsFiniteSet(Fds) /\ NoFd \notin Fds
  /\ NumSlots \in Nat /\ MaxOpen \in Nat /\ MaxOpen < NumSlots
  /\ Timeout \in Nat
  /\ Sweeps \in BOOLEAN

VARIABLES
  client,   \* s_clients
  sess,     \* httpd's sessions and the state of their sockets
  closing,  \* sessions httpd has been asked to close
  refused,  \* history: sessions httpd could not be asked to close, silent since
  httpd     \* where the httpd task is in ws_handler, and for which socket

vars == <<client, sess, closing, refused, httpd>>

Slots == 1..NumSlots

\* An upgraded session is "ws" while its peer is there, "silent" when the peer has
\* vanished without a trace and "broken" when the socket has a pending error.
Upgraded == {"ws", "silent", "broken"}

SessState == {"closed", "http"} \cup Upgraded

HttpdPc == {"idle", "cleanup", "drop", "add", "track", "touch", "process"}

\* The part of ws_handler that serves a handshake.
Handshaking == {"cleanup", "drop", "add"}

Open == {fd \in Fds : sess[fd] # "closed"}

\* The time stamp of a free entry is never read.
Free == [active |-> FALSE, fd |-> NoFd, idle |-> 0]

\* find_client_by_fd, as a test.
Tracked(fd) == \E s \in Slots : client[s].active /\ client[s].fd = fd

\* ws_server_is_connected.
Connected == \E s \in Slots : client[s].active

Init ==
  /\ client = [s \in Slots |-> Free]
  /\ sess = [fd \in Fds |-> "closed"]
  /\ closing = {}
  /\ refused = {}
  /\ httpd = [pc |-> "idle", fd |-> NoFd]

-----------------------------------------------------------------------------
(* The functions of the table, as the table they leave. *)

\* The entries in slots S are freed.
Cleared(S) == [s \in Slots |-> IF s \in S THEN Free ELSE client[s]]

SlotsOf(fd) == {s \in Slots : client[s].active /\ client[s].fd = fd}

\* Seeded faults: only the first slot is searched; the entry is freed but keeps its
\* socket.
RemoveFirstOnly(fd) == Cleared(SlotsOf(fd) \cap {1})

RemoveKeepsFd(fd) ==
  [s \in Slots |-> IF s \in SlotsOf(fd) THEN [client[s] EXCEPT !.active = FALSE] ELSE client[s]]

\* remove_client.  The first entry of fd is the only one (OneSlotPerFd).
RemoveClient(fd) == Cleared(SlotsOf(fd))

\* add_client: an old entry of fd makes way, then the lowest free slot is taken,
\* if there is one.
AddClient(fd) ==
  LET table == RemoveClient(fd) IN
  [s \in Slots |-> IF /\ ~table[s].active
                      /\ \A t \in 1..(s - 1) : table[t].active
                   THEN [active |-> TRUE, fd |-> fd, idle |-> 0]
                   ELSE table[s]]

\* Seeded faults: the socket is not asked; the clock is not asked.
StaleByClock(s) == client[s].active /\ client[s].idle > Timeout

StaleBySocket(s) == client[s].active /\ sess[client[s].fd] \in {"closed", "broken"}

\* ws_server_cleanup_stale removes an entry that has been idle for too long or
\* whose socket fails getsockopt or has a pending error.
Stale(s) ==
  /\ client[s].active
  /\ client[s].idle > Timeout \/ sess[client[s].fd] \in {"closed", "broken"}

Swept == {s \in Slots : Stale(s)}

\* Seeded fault: the entries are freed and their sessions left open.
CleanupKeepsSessions ==
  /\ client' = Cleared(Swept)
  /\ UNCHANGED <<closing, refused>>

\* httpd_sess_trigger_close finds no session for a closed socket.  For another it puts
\* the request into httpd's work queue, which can fail: the result is not looked at.
CleanupStale ==
  LET found == {client[s].fd : s \in Swept} \cap Open IN
  /\ client' = Cleared(Swept)
  /\ \E queued \in SUBSET found :
        /\ closing' = closing \cup queued
        /\ refused' = refused \cup (found \ queued)

-----------------------------------------------------------------------------
(* httpd and the network *)

Idle == httpd.pc = "idle"

Goto(pc) == httpd' = IF pc = "idle" THEN [pc |-> pc, fd |-> NoFd] ELSE [httpd EXCEPT !.pc = pc]

\* Time passes; beyond the timeout one age is like another.
Tick ==
  /\ client' = [s \in Slots |-> IF client[s].active /\ client[s].idle <= Timeout
                                THEN [client[s] EXCEPT !.idle = @ + 1] ELSE client[s]]
  /\ client' # client
  /\ UNCHANGED <<sess, closing, refused, httpd>>

\* The session of fd is deleted.
Closed(fd) ==
  /\ sess' = [sess EXCEPT ![fd] = "closed"]
  /\ refused' = refused \ {fd}

Accept(fd) ==
  /\ Idle
  /\ sess[fd] = "closed" /\ Cardinality(Open) < MaxOpen
  /\ sess' = [sess EXCEPT ![fd] = "http"]
  /\ UNCHANGED <<client, closing, refused, httpd>>

\* The peer vanishes, or its reset reaches the socket and httpd has yet to see it.
PeerFails(fd) ==
  /\ \/ sess[fd] = "ws" /\ sess' = [sess EXCEPT ![fd] = "silent"]
     \/ sess[fd] \in {"ws", "silent"} /\ sess' = [sess EXCEPT ![fd] = "broken"]
  /\ UNCHANGED <<client, closing, refused, httpd>>

\* httpd finds the connection at its end and deletes the session without calling
\* ws_handler; so ends one whose payload ws_handler fails to read, too.
SessionEnds(fd) ==
  /\ Idle
  /\ sess[fd] \in {"http", "ws", "broken"}
  /\ Closed(fd)
  /\ UNCHANGED <<client, closing, httpd>>

\* httpd works off a request to close, whoever has the socket by now.
RunClose(fd) ==
  /\ Idle
  /\ fd \in closing
  /\ closing' = closing \ {fd}
  /\ Closed(fd)
  /\ UNCHANGED <<client, httpd>>

-----------------------------------------------------------------------------
(* ws_handler *)

Handshake(fd) ==
  /\ Idle
  /\ sess[fd] = "http"
  /\ sess' = [sess EXCEPT ![fd] = "ws"]
  /\ httpd' = [pc |-> "cleanup", fd |-> fd]
  /\ UNCHANGED <<client, closing, refused>>

HandshakeCleanup ==
  /\ httpd.pc = "cleanup"
  /\ CleanupStale
  /\ Goto("drop")
  /\ UNCHANGED sess

\* An entry that the socket still has is removed ...
HandshakeDrop ==
  /\ httpd.pc = "drop"
  /\ client' = RemoveClient(httpd.fd)
  /\ Goto("add")
  /\ UNCHANGED <<sess, closing, refused>>

\* ... and a new one made.
HandshakeAdd ==
  /\ httpd.pc = "add"
  /\ client' = AddClient(httpd.fd)
  /\ Goto("idle")
  /\ UNCHANGED <<sess, closing, refused>>

\* A CLOSE frame, or one whose header cannot be read: the entry goes, and with the
\* handler's error code the session.
Leave(fd) ==
  /\ Idle
  /\ sess[fd] \in {"ws", "broken"}
  /\ client' = RemoveClient(fd)
  /\ Closed(fd)
  /\ UNCHANGED <<closing, httpd>>

Frame(fd) ==
  /\ Idle
  /\ sess[fd] = "ws"
  /\ httpd' = [pc |-> "track", fd |-> fd]
  /\ UNCHANGED <<client, sess, closing, refused>>

\* A client that sends is tracked ...
FrameTrack ==
  /\ httpd.pc = "track"
  /\ client' = IF Tracked(httpd.fd) THEN client ELSE AddClient(httpd.fd)
  /\ refused' = refused \ {httpd.fd}
  /\ Goto("touch")
  /\ UNCHANGED <<sess, closing>>

\* ... and active as of now, unless a sweep has come between.
FrameTouch ==
  /\ httpd.pc = "touch"
  /\ client' = [s \in Slots |-> IF client[s].active /\ client[s].fd = httpd.fd
                                THEN [client[s] EXCEPT !.idle = 0] ELSE client[s]]
  /\ Goto("process")
  /\ UNCHANGED <<sess, closing, refused>>

\* process_message runs.
FrameProcess ==
  /\ httpd.pc = "process"
  /\ Goto("idle")
  /\ UNCHANGED <<client, sess, closing, refused>>

Handler ==
  \/ HandshakeCleanup \/ HandshakeDrop \/ HandshakeAdd
  \/ FrameTrack \/ FrameTouch \/ FrameProcess

\* ws_task of a weapon.
Sweep ==
  /\ Sweeps
  /\ CleanupStale
  /\ UNCHANGED <<sess, httpd>>

Next ==
  \/ Tick
  \/ \E fd \in Fds :
        Accept(fd) \/ PeerFails(fd) \/ SessionEnds(fd) \/ RunClose(fd)
        \/ Handshake(fd) \/ Leave(fd) \/ Frame(fd)
  \/ Handler
  \/ Sweep

\* Time passes, httpd finishes its handlers and its requests to close, ws_task runs.
Fairness ==
  /\ WF_vars(Tick)
  /\ WF_vars(Handler)
  /\ WF_vars(Sweep)
  /\ \A fd \in Fds : WF_vars(RunClose(fd))

Spec == Init /\ [][Next]_vars

FairSpec == Spec /\ Fairness

-----------------------------------------------------------------------------
(* Properties *)

\* Every variable has its type, and an entry has a socket exactly when active.
TypeOK ==
  /\ client \in [Slots -> [active : BOOLEAN, fd : Fds \cup {NoFd}, idle : 0..(Timeout + 1)]]
  /\ \A s \in Slots : client[s].active <=> client[s].fd # NoFd
  /\ sess \in [Fds -> SessState]
  /\ closing \subseteq Fds
  /\ refused \subseteq Fds
  /\ httpd \in [pc : HttpdPc, fd : Fds \cup {NoFd}]
  /\ ~Idle <=> httpd.fd # NoFd

\* No socket has two entries: find_client_by_fd looks at the first only, and a
\* broadcast sends once per entry.
OneSlotPerFd ==
  \A s, t \in Slots :
    client[s].active /\ client[t].active /\ client[s].fd = client[t].fd => s = t

\* The table never refuses a new client: httpd has fewer sockets than the table
\* slots, and the handshake's cleanup drops the entries of sockets that are gone
\* (add_client only logs when no slot is free).
RoomForNewcomer == httpd.pc = "add" => \E s \in Slots : ~client[s].active

\* An open WebSocket session receives the broadcasts (its socket is in the table)
\* or is about to be closed, so that its client will connect again: however sweeps,
\* handshakes and frames interleave, a client is left connected and deaf only if
\* httpd could not be asked to close its session, and only until it sends something.
NoDeafClient ==
  \A fd \in Fds :
    sess[fd] \in Upgraded /\ ~(httpd.fd = fd /\ httpd.pc \in Handshaking)
      => Tracked(fd) \/ fd \in closing \/ fd \in refused

\* A device whose last client has gone notices: processing_task filters hits by the
\* roster only "when connected to server" and means to accept all when offline.
OfflineIsNoticed ==
  LET Offline == \A fd \in Fds : sess[fd] # "ws" IN
  Offline ~> (~Connected \/ ~Offline)

\* What keeps a target from OfflineIsNoticed: nothing it does by itself empties the
\* table.  Its last entry goes when the next client makes its handshake, or with a session
\* that ends in a CLOSE frame or an unreadable header.
OnlyClientsEmptyTheTable ==
  [][~Sweeps /\ Connected /\ ~Connected'
       => \/ httpd.pc \in {"cleanup", "drop"}
          \/ \E fd \in Fds : sess[fd] \in {"ws", "broken"} /\ sess'[fd] = "closed"]_vars

\* The cleanup is for dead sockets ("Cleanup dead sockets (called on new handshake
\* to free slots)"): it closes no socket that has just completed its handshake,
\* unless that has failed since.
OnlyDeadSocketsClosed ==
  [][\A fd \in closing' \ closing :
        httpd.fd = fd /\ httpd.pc \in Handshaking => sess[fd] = "broken"]_vars

\* What takes OnlyDeadSocketsClosed away, and nothing else: an entry that an earlier
\* connection with the same descriptor has left behind, and whose time is up before the
\* handshake's own remove_client.  From then to add_client no sweep harms the newcomer.
OnlyLeftoversCloseNewcomers ==
  [][\A fd \in closing' \ closing :
        httpd.fd = fd /\ httpd.pc \in Handshaking /\ sess[fd] # "broken"
          => /\ httpd.pc # "add"
             /\ \E s \in Slots : client[s].active /\ client[s].fd = fd /\ client[s].idle > Timeout]_vars
=============================================================================

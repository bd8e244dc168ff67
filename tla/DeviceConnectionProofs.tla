------------------------ MODULE DeviceConnectionProofs ------------------------
(***************************************************************************)
(* Theorems about DeviceConnection, for any number of sockets and retries. *)
(***************************************************************************)
EXTENDS DeviceConnection, TLAPS

\* A device that is to be reconnected has attempts left.
Budget == conn.should => conn.retries < MaxRetries

\* The mark of a pending attempt is backed by a socket whose event is still to come.
Attempted == conn.connecting => \E s \in Sockets : sock[s] # "closed"

\* Before the provider is mounted nothing is to be reconnected, afterwards nothing is
\* armed.
Quiet == (page = "new" => ~conn.should) /\ (page = "gone" => conn.pending = 0)

IndInv == TypeOK /\ Budget /\ OneLoop /\ Attempted /\ NeverStranded /\ Quiet

\* The initial state satisfies the invariant.
LEMMA InitInv == Init => IndInv
BY ConnectionAssumption
DEF Init, IndInv, TypeOK, Budget, OneLoop, Attempted, NeverStranded, Quiet, Connection,
    ReadyState, ConnectionState

\* Clearing the timers leaves the rest of the maps alone.
LEMMA WithoutTimers ==
  ASSUME NEW c \in Connection, NEW d, d = [c EXCEPT !.pending = 0, !.held = FALSE]
  PROVE  /\ d \in Connection /\ d.pending = 0 /\ d.held = FALSE
         /\ d.connecting = c.connecting /\ d.should = c.should /\ d.retries = c.retries
BY DEF Connection

\* A new attempt leaves timers and retries alone.
LEMMA WithAttempt ==
  ASSUME NEW c \in Connection, NEW s \in Sockets, NEW d,
         d = [c EXCEPT !.connecting = TRUE, !.should = TRUE, !.state = "connecting", !.ref = s]
  PROVE  /\ d \in Connection /\ d.pending = c.pending /\ d.held = c.held
         /\ d.retries = c.retries
BY DEF Connection, ConnectionState

\* addDevice's resets leave timers and the mark of an attempt alone.
LEMMA AsAdded ==
  ASSUME NEW c \in Connection, NEW d,
         d = [c EXCEPT !.retries = 0, !.should = TRUE, !.state = "disconnected"]
  PROVE  /\ d \in Connection /\ d.pending = c.pending /\ d.held = c.held
         /\ d.connecting = c.connecting /\ d.retries = 0
<1>1. 0 \in 0..MaxRetries
  BY ConnectionAssumption
<1>2. /\ d.pending = c.pending /\ d.held = c.held
      /\ d.connecting = c.connecting /\ d.retries = 0
  BY DEF Connection
<1>3. d \in Connection
  BY <1>1, Zenon DEF Connection, ConnectionState
<1> QED
  BY <1>2, <1>3

\* retryDevice's resets leave timers and the mark of an attempt alone.
LEMMA AsRetried ==
  ASSUME NEW c \in Connection, NEW d,
         d = [c EXCEPT !.retries = 0, !.should = TRUE, !.ref = NoSocket]
  PROVE  /\ d \in Connection /\ d.pending = c.pending /\ d.held = c.held
         /\ d.connecting = c.connecting /\ d.retries = 0
<1>1. 0 \in 0..MaxRetries
  BY ConnectionAssumption
<1>2. /\ d.pending = c.pending /\ d.held = c.held
      /\ d.connecting = c.connecting /\ d.retries = 0
  BY DEF Connection
<1>3. d \in Connection
  BY <1>1, Zenon DEF Connection
<1> QED
  BY <1>2, <1>3

\* clearDeviceTimeouts leaves no timer armed when the only one is in the map.
LEMMA Cleared ==
  ASSUME NEW c \in Connection, c.pending = IF c.held THEN 1 ELSE 0
  PROVE  /\ ClearTimers(c) \in Connection
         /\ ClearTimers(c).pending = 0 /\ ClearTimers(c).held = FALSE
         /\ ClearTimers(c).connecting = c.connecting
         /\ ClearTimers(c).should = c.should /\ ClearTimers(c).retries = c.retries
<1>1. (IF c.held THEN c.pending - 1 ELSE c.pending) = 0
  <2>1. CASE c.held
    BY <2>1
  <2>2. CASE ~c.held
    BY <2>2
  <2> QED
    BY <2>1, <2>2
<1>2. ClearTimers(c) = [c EXCEPT !.pending = 0, !.held = FALSE]
  BY <1>1, Zenon DEF ClearTimers
<1> QED
  BY <1>2, WithoutTimers

\* close() keeps every socket until its close event.
LEMMA Closing ==
  ASSUME TypeOK, NEW s \in Sockets \cup {NoSocket}
  PROVE  /\ BeginClose(s) \in [Sockets -> ReadyState]
         /\ \A t \in Sockets : sock[t] # "closed" => BeginClose(s)[t] # "closed"
         /\ \A t \in Sockets : BeginClose(s)[t] = "connecting" => sock[t] = "connecting"
BY DEF BeginClose, TypeOK, ReadyState

\* connectDevice keeps the parts of the invariant, and leaves a device that is to be
\* reconnected with a socket, a new one or the one for which it was refused, or with the
\* error of a socket that could not be made.
LEMMA ConnectStep ==
  ASSUME TypeOK,
         NEW c \in Connection, NEW k \in [Sockets -> ReadyState],
         c.should => c.retries < MaxRetries,
         c.pending = IF c.held THEN 1 ELSE 0,
         c.connecting => \E s \in Sockets : k[s] # "closed",
         \A s \in Sockets : sock[s] # "closed" => k[s] # "closed",
         ConnectDevice(c, k)
  PROVE  /\ conn' \in Connection /\ sock' \in [Sockets -> ReadyState]
         /\ Budget' /\ OneLoop' /\ Attempted'
         /\ conn'.should => conn'.state = "error" \/ \E s \in Sockets : sock'[s] # "closed"
<1>0. /\ ClearTimers(c) \in Connection
      /\ ClearTimers(c).pending = 0 /\ ClearTimers(c).held = FALSE
      /\ ClearTimers(c).retries = c.retries
  BY Cleared, Zenon
<1>1. CASE Refused(c) /\ conn' = c /\ sock' = k
  BY <1>1, ConnectionAssumption DEF Refused, Budget, OneLoop, Attempted, Connection
<1>2. CASE Exhausted(c.retries) /\ conn' = [c EXCEPT !.state = "error", !.should = FALSE] /\ sock' = k
  BY <1>2 DEF Budget, OneLoop, Attempted, Connection, ConnectionState
<1>3. CASE /\ ~Exhausted(c.retries)
           /\ \E s \in Sockets :
                /\ k[s] = "closed"
                /\ conn' = [Connecting(c) EXCEPT !.ref = s]
                /\ sock' = [k EXCEPT ![s] = "connecting"]
  <2>1. PICK s \in Sockets :
          /\ conn' = [Connecting(c) EXCEPT !.ref = s]
          /\ sock' = [k EXCEPT ![s] = "connecting"]
    BY <1>3
  <2>2. conn' = [ClearTimers(c) EXCEPT !.connecting = TRUE, !.should = TRUE,
                                       !.state = "connecting", !.ref = s]
    BY <2>1 DEF Connecting
  <2>3. conn' \in Connection /\ conn'.pending = 0 /\ conn'.held = FALSE /\ conn'.retries = c.retries
    BY <1>0, <2>2, WithAttempt, Zenon
  <2>4. sock' \in [Sockets -> ReadyState] /\ sock'[s] # "closed"
    BY <2>1 DEF ReadyState
  <2>5. c.retries < MaxRetries
    BY <1>3, ConnectionAssumption DEF Exhausted, Connection
  <2> QED
    BY <2>3, <2>4, <2>5 DEF Budget, OneLoop, Attempted
<1>4. CASE ~Exhausted(c.retries) /\ conn' = Thrown(c) /\ sock' = k
  <2>1. conn' = [ClearTimers(c) EXCEPT !.connecting = FALSE, !.should = TRUE, !.state = "error"]
    BY <1>4, <1>0 DEF Thrown, Connecting, Connection
  <2>2. conn' \in Connection /\ conn'.pending = 0 /\ conn'.held = FALSE /\ conn'.retries = c.retries
    BY <1>0, <2>1 DEF Connection, ConnectionState
  <2>3. conn'.connecting = FALSE /\ conn'.state = "error"
    BY <1>0, <2>1 DEF Connection
  <2>4. c.retries < MaxRetries
    BY <1>4, ConnectionAssumption DEF Exhausted, Connection
  <2> QED
    BY <1>4, <2>2, <2>3, <2>4 DEF Budget, OneLoop, Attempted
<1> QED
  BY <1>1, <1>2, <1>3, <1>4 DEF ConnectDevice

\* disconnectDevice's record: no timer, nothing to be reconnected.
LEMMA DisconnectStep ==
  ASSUME NEW c \in Connection, c.pending = IF c.held THEN 1 ELSE 0
  PROVE  /\ Disconnected(c) \in Connection
         /\ Disconnected(c).should = FALSE
         /\ Disconnected(c).pending = 0 /\ Disconnected(c).held = FALSE
         /\ Disconnected(c).connecting = c.connecting
BY Cleared DEF Disconnected, Connection, ConnectionState

\* The first part of onclose: no timer, no attempt.
LEMMA DropStep ==
  ASSUME NEW c \in Connection, c.pending = IF c.held THEN 1 ELSE 0
  PROVE  /\ Dropped(c) \in Connection
         /\ Dropped(c).pending = 0 /\ Dropped(c).held = FALSE
         /\ Dropped(c).connecting = FALSE
         /\ Dropped(c).should = c.should /\ Dropped(c).retries = c.retries
BY Cleared DEF Dropped, Connection, ConnectionState

\* What the user does keeps the invariant.
LEMMA UserStep == IndInv /\ User => IndInv'
<1> SUFFICES ASSUME IndInv, User PROVE IndInv'
  OBVIOUS
<1> USE DEF IndInv
<1>c. conn \in Connection /\ sock \in [Sockets -> ReadyState] /\ conn.ref \in Sockets \cup {NoSocket}
  BY DEF TypeOK, Connection
<1>t. conn.pending = (IF conn.held THEN 1 ELSE 0) /\ (conn.should => conn.retries < MaxRetries)
  BY DEF OneLoop, Budget
<1>p. page = "mounted" /\ page' = "mounted"
  BY DEF User, Connect, Disconnect, Remove, Add, Retry
<1>1. CASE Connect
  <2>1. /\ conn' \in Connection /\ sock' \in [Sockets -> ReadyState]
        /\ Budget' /\ OneLoop' /\ Attempted'
        /\ conn'.should => conn'.state = "error" \/ \E s \in Sockets : sock'[s] # "closed"
    BY <1>1, <1>c, <1>t, ConnectStep DEF Connect, Attempted
  <2> QED
    BY <2>1, <1>p DEF TypeOK, NeverStranded, Quiet
<1>2. CASE Disconnect
  BY <1>2, <1>c, <1>t, <1>p, DisconnectStep, Closing
  DEF Disconnect, TypeOK, Budget, OneLoop, Attempted, NeverStranded, Quiet
<1>3. CASE Remove
  <2>1. /\ conn' \in Connection /\ conn'.should = FALSE /\ conn'.pending = 0
        /\ conn'.held = FALSE /\ conn'.connecting = conn.connecting
    BY <1>3, <1>c, <1>t, DisconnectStep DEF Remove, Connection, ConnectionState
  <2> QED
    BY <1>3, <2>1, <1>c, <1>p, Closing
    DEF Remove, TypeOK, Budget, OneLoop, Attempted, NeverStranded, Quiet
<1>4. CASE Add
  <2> DEFINE c == [conn EXCEPT !.retries = 0, !.should = TRUE, !.state = "disconnected"]
  <2>1. /\ c \in Connection /\ c.retries = 0 /\ c.connecting = conn.connecting
        /\ c.pending = conn.pending /\ c.held = conn.held
    BY <1>c, AsAdded, Zenon
  <2>2. ConnectDevice(c, sock)
    BY <1>4 DEF Add
  <2> HIDE DEF c
  <2>3. /\ conn' \in Connection /\ sock' \in [Sockets -> ReadyState]
        /\ Budget' /\ OneLoop' /\ Attempted'
        /\ conn'.should => conn'.state = "error" \/ \E s \in Sockets : sock'[s] # "closed"
    BY <2>1, <2>2, <1>c, <1>t, ConnectStep, ConnectionAssumption DEF Attempted
  <2> QED
    BY <2>3, <1>p DEF TypeOK, NeverStranded, Quiet
<1>5. CASE Retry
  <2> DEFINE c == [ClearTimers(conn) EXCEPT !.retries = 0, !.should = TRUE, !.ref = NoSocket]
  <2>0. /\ ClearTimers(conn) \in Connection
        /\ ClearTimers(conn).pending = 0 /\ ClearTimers(conn).held = FALSE
        /\ ClearTimers(conn).connecting = conn.connecting
    BY <1>c, <1>t, Cleared, Zenon
  <2>1. /\ c \in Connection /\ c.retries = 0 /\ c.connecting = conn.connecting
        /\ c.pending = 0 /\ c.held = FALSE
    BY <2>0, AsRetried, Zenon
  <2>2. ConnectDevice(c, BeginClose(conn.ref))
    BY <1>5 DEF Retry
  <2> HIDE DEF c
  <2>3. BeginClose(conn.ref) \in [Sockets -> ReadyState]
        /\ \A t \in Sockets : sock[t] # "closed" => BeginClose(conn.ref)[t] # "closed"
    BY <1>c, Closing
  <2>4. c.connecting => \E s \in Sockets : BeginClose(conn.ref)[s] # "closed"
    BY <2>1, <2>3 DEF Attempted
  <2>5. /\ conn' \in Connection /\ sock' \in [Sockets -> ReadyState]
        /\ Budget' /\ OneLoop' /\ Attempted'
        /\ conn'.should => conn'.state = "error" \/ \E s \in Sockets : sock'[s] # "closed"
    BY <2>1, <2>2, <2>3, <2>4, ConnectStep, ConnectionAssumption
  <2> QED
    BY <2>5, <1>p DEF TypeOK, NeverStranded, Quiet
<1> QED
  BY <1>1, <1>2, <1>3, <1>4, <1>5 DEF User

\* Mounting keeps the invariant: nothing was to be reconnected before.
LEMMA MountStep == IndInv /\ (Mount \/ StrictMount) => IndInv'
<1> SUFFICES ASSUME IndInv, Mount \/ StrictMount PROVE IndInv'
  OBVIOUS
<1> USE DEF IndInv
<1>c. conn \in Connection /\ sock \in [Sockets -> ReadyState]
  BY DEF TypeOK
<1>t. conn.pending = (IF conn.held THEN 1 ELSE 0) /\ (conn.should => conn.retries < MaxRetries)
  BY DEF OneLoop, Budget
<1>1. CASE Mount
  <2>1. /\ conn' \in Connection /\ sock' \in [Sockets -> ReadyState]
        /\ Budget' /\ OneLoop' /\ Attempted'
        /\ conn'.should => conn'.state = "error" \/ \E s \in Sockets : sock'[s] # "closed"
    BY <1>1, <1>c, <1>t, ConnectStep DEF Mount, Attempted
  <2> QED
    BY <1>1, <2>1 DEF Mount, TypeOK, NeverStranded, Quiet
<1>2. CASE StrictMount
  <2>1. PICK s \in Sockets :
          /\ sock' = [sock EXCEPT ![s] = "closing"]
          /\ conn' = [conn EXCEPT !.ref = s, !.state = "connecting"]
    BY <1>2 DEF StrictMount
  <2>2. page = "new" /\ page' = "mounted" /\ ~conn.should
    BY <1>2 DEF StrictMount, Quiet
  <2>3. sock' \in [Sockets -> ReadyState] /\ sock'[s] # "closed"
    BY <2>1, <1>c DEF ReadyState
  <2>4. /\ conn' \in Connection /\ conn'.pending = conn.pending /\ conn'.held = conn.held
        /\ conn'.should = conn.should
    BY <2>1, <1>c DEF Connection, ConnectionState
  <2> QED
    BY <2>2, <2>3, <2>4, <1>t DEF TypeOK, Budget, OneLoop, Attempted, NeverStranded, Quiet
<1> QED
  BY <1>1, <1>2

\* The cleanup keeps the invariant, and disarms the timer.
LEMMA UnmountStep == IndInv /\ Unmount => IndInv'
<1> SUFFICES ASSUME IndInv, Unmount PROVE IndInv'
  OBVIOUS
<1> USE DEF IndInv
<1>c. conn \in Connection /\ conn.ref \in Sockets \cup {NoSocket}
  BY DEF TypeOK, Connection
<1>t. conn.pending = (IF conn.held THEN 1 ELSE 0) /\ (conn.should => conn.retries < MaxRetries)
  BY DEF OneLoop, Budget
<1> DEFINE c == ClearTimers(conn)
<1>1. /\ c \in Connection /\ c.pending = 0 /\ c.held = FALSE
      /\ c.should = conn.should /\ c.retries = conn.retries
  BY <1>c, <1>t, Cleared, Zenon
<1>2. /\ page' = "gone" /\ sock' = BeginClose(conn.ref)
      /\ conn' = [c EXCEPT !.connecting = FALSE, !.should = @ /\ conn.ref = NoSocket]
  BY DEF Unmount
<1> HIDE DEF c
<1>3. /\ conn' \in Connection /\ conn'.pending = 0 /\ conn'.held = FALSE
      /\ conn'.retries = c.retries /\ conn'.connecting = FALSE
      /\ conn'.should => c.should
  BY <1>1, <1>2 DEF Connection
<1>4. sock' \in [Sockets -> ReadyState]
  BY <1>c, <1>2, Closing
<1> QED
  BY <1>1, <1>2, <1>3, <1>4, <1>t DEF TypeOK, Budget, OneLoop, Attempted, NeverStranded, Quiet

\* The timer that goes off is the one in the map, and what it starts keeps the
\* invariant.
LEMMA TimerStep == IndInv /\ ReconnectTimer => IndInv'
<1> SUFFICES ASSUME IndInv, ReconnectTimer PROVE IndInv'
  OBVIOUS
<1> USE DEF IndInv
<1>c. conn \in Connection /\ sock \in [Sockets -> ReadyState]
  BY DEF TypeOK
<1>t. conn.pending = (IF conn.held THEN 1 ELSE 0) /\ (conn.should => conn.retries < MaxRetries)
  BY DEF OneLoop, Budget
<1>1. conn.held /\ conn.pending = 1 /\ page' = page /\ page # "gone"
  BY <1>t DEF ReconnectTimer, Quiet
<1>2. PICK own \in BOOLEAN :
        LET c == [conn EXCEPT !.pending = @ - 1, !.held = @ /\ ~own] IN
        /\ ~own => conn.pending > 1 \/ ~conn.held
        /\ IF conn.should THEN ConnectDevice(c, sock) ELSE conn' = c /\ sock' = sock
  BY DEF ReconnectTimer
<1>3. own = TRUE
  BY <1>1, <1>2
<1> DEFINE c == [conn EXCEPT !.pending = 0, !.held = FALSE]
<1>4. [conn EXCEPT !.pending = @ - 1, !.held = @ /\ ~own] = c
  <2>1. conn.pending - 1 = 0
    BY <1>1
  <2>2. (conn.held /\ ~own) = FALSE
    BY <1>3, Zenon
  <2> QED
    BY <2>1, <2>2, Zenon
<1>5. IF conn.should THEN ConnectDevice(c, sock) ELSE conn' = c /\ sock' = sock
  BY <1>2, <1>4, Zenon
<1>6. /\ c \in Connection /\ c.pending = 0 /\ c.held = FALSE
      /\ c.connecting = conn.connecting /\ c.should = conn.should /\ c.retries = conn.retries
  BY <1>c, WithoutTimers, Zenon
<1> HIDE DEF c
<1>7. CASE conn.should
  <2>1. /\ conn' \in Connection /\ sock' \in [Sockets -> ReadyState]
        /\ Budget' /\ OneLoop' /\ Attempted'
        /\ conn'.should => conn'.state = "error" \/ \E s \in Sockets : sock'[s] # "closed"
    BY <1>5, <1>6, <1>7, <1>c, <1>t, ConnectStep DEF Attempted
  <2> QED
    BY <1>1, <1>7, <2>1 DEF TypeOK, NeverStranded, Quiet
<1>8. CASE ~conn.should
  BY <1>1, <1>5, <1>6, <1>8, <1>c DEF TypeOK, Budget, OneLoop, Attempted, NeverStranded, Quiet
<1> QED
  BY <1>7, <1>8

\* The events of a socket keep the invariant: a close event arms at most one timer,
\* and none once the page is gone.
LEMMA SocketStep ==
  IndInv /\ (\E s \in Sockets : AttemptTimesOut(s) \/ OnOpen(s) \/ OnClose(s)) => IndInv'
<1> SUFFICES ASSUME IndInv, NEW s \in Sockets, AttemptTimesOut(s) \/ OnOpen(s) \/ OnClose(s)
             PROVE  IndInv'
  OBVIOUS
<1> USE DEF IndInv
<1>c. conn \in Connection /\ sock \in [Sockets -> ReadyState]
  BY DEF TypeOK
<1>t. conn.pending = (IF conn.held THEN 1 ELSE 0) /\ (conn.should => conn.retries < MaxRetries)
  BY DEF OneLoop, Budget
<1>1. CASE AttemptTimesOut(s)
  <2>1. sock' \in [Sockets -> ReadyState] /\ \A t \in Sockets : sock[t] # "closed" => sock'[t] # "closed"
    BY <1>1, Closing DEF AttemptTimesOut
  <2>2. UNCHANGED <<conn, page>>
    BY <1>1 DEF AttemptTimesOut
  <2> QED
    BY <2>1, <2>2 DEF TypeOK, Budget, OneLoop, Attempted, NeverStranded, Quiet
<1>2. CASE OnOpen(s)
  <2>1. sock' \in [Sockets -> ReadyState] /\ sock'[s] # "closed"
    BY <1>2, <1>c DEF OnOpen, ReadyState
  <2>2. conn' = [conn EXCEPT !.connecting = FALSE, !.retries = 0, !.state = "connected"]
        /\ page' = page
    BY <1>2 DEF OnOpen
  <2>3. 0 \in 0..MaxRetries /\ 0 < MaxRetries
    BY ConnectionAssumption
  <2>4. /\ conn'.pending = conn.pending /\ conn'.held = conn.held /\ conn'.retries = 0
        /\ conn'.connecting = FALSE /\ conn'.should = conn.should
    BY <2>2, <1>c DEF Connection
  <2>5. conn' \in Connection
    BY <2>2, <2>3, <1>c, Zenon DEF Connection, ConnectionState
  <2> QED
    BY <2>1, <2>2, <2>3, <2>4, <2>5, <1>t
    DEF TypeOK, Budget, OneLoop, Attempted, NeverStranded, Quiet
<1>3. CASE OnClose(s)
  <2> DEFINE d == Dropped(conn)
  <2>1. /\ d \in Connection /\ d.pending = 0 /\ d.held = FALSE /\ d.connecting = FALSE
        /\ d.should = conn.should /\ d.retries = conn.retries
    BY <1>c, <1>t, DropStep, Zenon
  <2>2. /\ sock' \in [Sockets -> ReadyState] /\ page' = page
        /\ conn' = IF page = "mounted" /\ conn.should THEN FollowUp(d) ELSE d
    BY <1>3, <1>c DEF OnClose, ReadyState
  <2> HIDE DEF d
  <2>3. CASE page = "mounted" /\ conn.should
    <3>1. d.retries \in Nat /\ d.retries + 1 \in 0..MaxRetries
      BY <2>1, <2>3, <1>c, <1>t, ConnectionAssumption DEF Connection
    <3>2. CASE Exhausted(d.retries + 1)
      <4>1. conn' = [d EXCEPT !.retries = d.retries + 1, !.should = FALSE, !.state = "error"]
        BY <2>2, <2>3, <3>2 DEF FollowUp
      <4>2. conn' \in Connection
        BY <4>1, <3>1, <2>1, Zenon DEF Connection, ConnectionState
      <4>3. conn'.pending = 0 /\ conn'.held = FALSE /\ conn'.connecting = FALSE /\ conn'.should = FALSE
        BY <4>1, <2>1 DEF Connection
      <4> QED
        BY <4>2, <4>3, <2>2, <2>3 DEF TypeOK, Budget, OneLoop, Attempted, NeverStranded, Quiet
    <3>3. CASE ~Exhausted(d.retries + 1)
      <4> DEFINE e == [d EXCEPT !.retries = d.retries + 1]
      <4>1. conn' = ArmTimer(e)
        BY <2>2, <2>3, <3>3 DEF FollowUp
      <4>2. e \in Connection
        BY <3>1, <2>1, Zenon DEF Connection
      <4>3. /\ e.pending = 0 /\ e.connecting = FALSE /\ e.retries = d.retries + 1
        BY <2>1 DEF Connection
      <4> HIDE DEF e
      <4>4. conn' = [e EXCEPT !.pending = 1, !.held = TRUE]
        <5>1. e.pending + 1 = 1
          BY <4>3
        <5> QED
          BY <4>1, <5>1, Zenon DEF ArmTimer
      <4>5. conn' \in Connection
        BY <4>4, <4>2 DEF Connection
      <4>6. /\ conn'.pending = 1 /\ conn'.held = TRUE /\ conn'.connecting = FALSE
            /\ conn'.retries = d.retries + 1
        BY <4>4, <4>2, <4>3 DEF Connection
      <4>7. conn'.retries < MaxRetries
        BY <3>1, <3>3, <4>6, ConnectionAssumption DEF Exhausted
      <4> QED
        BY <4>5, <4>6, <4>7, <2>2, <2>3 DEF TypeOK, Budget, OneLoop, Attempted, NeverStranded, Quiet
    <3> QED
      BY <3>2, <3>3
  <2>4. CASE ~(page = "mounted" /\ conn.should)
    BY <2>1, <2>2, <2>4, <1>t DEF TypeOK, Budget, OneLoop, Attempted, NeverStranded, Quiet
  <2> QED
    BY <2>3, <2>4
<1> QED
  BY <1>1, <1>2, <1>3

\* Every step keeps the invariant.
LEMMA StepInv == IndInv /\ [Next]_vars => IndInv'
<1>1. IndInv /\ UNCHANGED vars => IndInv'
  BY DEF IndInv, TypeOK, Budget, OneLoop, Attempted, NeverStranded, Quiet, vars
<1> QED
  BY <1>1, MountStep, UserStep, UnmountStep, TimerStep, SocketStep DEF Next

\* The invariant holds.
THEOREM Invariant == Spec => []IndInv
<1> QED
  BY InitInv, StepInv, PTL DEF Spec

\* Every variable keeps its type; the retries never exceed their limit.
THEOREM TypeCorrect == Spec => []TypeOK
<1>1. IndInv => TypeOK
  BY DEF IndInv
<1> QED
  BY <1>1, Invariant, PTL

\* However many sockets close for the device, one reconnect timer is armed at most and
\* clearDeviceTimeouts can reach it.
THEOREM SingleLoop == Spec => []OneLoop
<1>1. IndInv => OneLoop
  BY DEF IndInv
<1> QED
  BY <1>1, Invariant, PTL

\* A device that is to be reconnected has a socket or a timer, or shows the error of a
\* socket that could not be made.
THEOREM NobodyStranded == Spec => []NeverStranded
<1>1. IndInv => NeverStranded
  BY DEF IndInv
<1> QED
  BY <1>1, Invariant, PTL

\* No step of a provider that is gone makes a connection.
THEOREM GoneForGood == Spec => UnmountIsFinal
<1>1. IndInv /\ [Next]_vars =>
        [page = "gone" => \A s \in Sockets : sock'[s] = "connecting" => sock[s] = "connecting"]_vars
  <2> SUFFICES ASSUME IndInv, Next, page = "gone", NEW s \in Sockets, sock'[s] = "connecting"
               PROVE  sock[s] = "connecting"
    BY DEF vars
  <2>1. conn.pending = 0 /\ TypeOK
    BY DEF IndInv, Quiet
  <2>2. PICK t \in Sockets : AttemptTimesOut(t) \/ OnOpen(t) \/ OnClose(t)
    BY <2>1 DEF Next, Mount, StrictMount, User, Unmount, ReconnectTimer
  <2>3. CASE AttemptTimesOut(t)
    BY <2>1, <2>3, Closing DEF AttemptTimesOut
  <2>4. CASE OnOpen(t) \/ OnClose(t)
    BY <2>1, <2>4 DEF OnOpen, OnClose, TypeOK
  <2> QED
    BY <2>2, <2>3, <2>4
<1> QED
  BY <1>1, Invariant, PTL DEF Spec, UnmountIsFinal

-----------------------------------------------------------------------------
(* Orphaned sockets. *)

\* Before the provider is mounted its map is empty, so that Strict Mode's runs of the
\* effect drop no socket from it.
Blank == page = "new" => conn.ref = NoSocket

\* close() makes no socket live, and ends the life of the one it is called for.
LEMMA ClosingIsNotLive ==
  ASSUME TypeOK, NEW s \in Sockets \cup {NoSocket}, NEW t \in Sockets,
         BeginClose(s)[t] \in {"connecting", "open"}
  PROVE  sock[t] \in {"connecting", "open"} /\ t # s
BY ConnectionAssumption DEF BeginClose, TypeOK, ReadyState

\* connectDevice makes no socket live but the one it enters in the map, and replaces the
\* map's socket only when that one is no longer live.
LEMMA ConnectOrphansNone ==
  ASSUME NEW c, NEW k \in [Sockets -> ReadyState], ConnectDevice(c, k), NEW s \in Sockets,
         sock'[s] \in {"connecting", "open"}, conn'.ref # s,
         c \in Connection, c.ref = NoSocket \/ k = sock
  PROVE  k[s] \in {"connecting", "open"} /\ c.ref # s
<1>0. NoSocket \notin Sockets
  BY ConnectionAssumption
<1>1. CASE Refused(c) /\ conn' = c /\ sock' = k
  BY <1>1
<1>2. CASE conn' = [c EXCEPT !.state = "error", !.should = FALSE] /\ sock' = k
  BY <1>2 DEF Connection
<1>3. CASE /\ ~Refused(c)
           /\ \E t \in Sockets :
                /\ k[t] = "closed"
                /\ conn' = [Connecting(c) EXCEPT !.ref = t]
                /\ sock' = [k EXCEPT ![t] = "connecting"]
  <2>1. PICK t \in Sockets :
          /\ conn' = [Connecting(c) EXCEPT !.ref = t]
          /\ sock' = [k EXCEPT ![t] = "connecting"]
    BY <1>3
  <2>2. conn'.ref = t
    BY <2>1 DEF Connecting, ClearTimers, Connection
  <2>3. s # t /\ k[s] \in {"connecting", "open"}
    BY <2>1, <2>2
  <2>4. c.ref # s
    BY <1>0, <1>3, <2>3 DEF Refused, Connection
  <2> QED
    BY <2>3, <2>4
<1>4. CASE conn' = Thrown(c) /\ sock' = k
  BY <1>4 DEF Thrown, Connecting, ClearTimers, Connection
<1> QED
  BY <1>1, <1>2, <1>3, <1>4 DEF ConnectDevice

\* The map stays empty until the provider is mounted.
LEMMA BlankStep == IndInv /\ Blank /\ [Next]_vars => Blank'
<1> SUFFICES ASSUME IndInv, Blank, [Next]_vars, page' = "new" PROVE conn'.ref = NoSocket
  BY DEF Blank
<1>c. conn \in Connection
  BY DEF IndInv, TypeOK
<1>1. CASE ReconnectTimer
  <2>1. page = "new" /\ ~conn.should
    BY <1>1 DEF ReconnectTimer, IndInv, Quiet
  <2>2. conn'.ref = conn.ref
    BY <1>1, <2>1, <1>c DEF ReconnectTimer, Connection
  <2> QED
    BY <2>1, <2>2 DEF Blank
<1>2. CASE \E s \in Sockets : AttemptTimesOut(s) \/ OnOpen(s) \/ OnClose(s)
  <2>1. PICK s \in Sockets : AttemptTimesOut(s) \/ OnOpen(s) \/ OnClose(s)
    BY <1>2
  <2>2. page = "new" /\ conn.ref = NoSocket /\ ~conn.should
    BY <2>1 DEF AttemptTimesOut, OnOpen, OnClose, Blank, IndInv, Quiet
  <2>3. CASE AttemptTimesOut(s)
    BY <2>2, <2>3 DEF AttemptTimesOut
  <2>4. CASE OnOpen(s)
    BY <2>2, <2>4, <1>c DEF OnOpen, Connection
  <2>5. CASE OnClose(s)
    <3>1. conn' = Dropped(conn)
      BY <2>2, <2>5 DEF OnClose
    <3> QED
      BY <3>1, <1>c DEF Dropped, ClearTimers, Connection
  <2> QED
    BY <2>1, <2>3, <2>4, <2>5
<1>3. CASE Mount \/ StrictMount \/ User \/ Unmount
  BY <1>3 DEF Mount, StrictMount, User, Connect, Disconnect, Remove, Add, Retry, Unmount
<1>4. CASE UNCHANGED vars
  BY <1>4 DEF vars, Blank
<1> QED
  BY <1>1, <1>2, <1>3, <1>4 DEF Next

\* The records connectDevice is called with keep the map's socket; retryDevice's has
\* none, but then its socket is closing.
LEMMA SameSocket ==
  ASSUME NEW c \in Connection, NEW d,
         \/ d = [c EXCEPT !.retries = 0, !.should = TRUE, !.state = "disconnected"]
         \/ \E n \in Nat, h \in BOOLEAN : d = [c EXCEPT !.pending = n, !.held = h]
  PROVE  d.ref = c.ref
BY DEF Connection

\* No handler but onclose orphans a live socket.
THEOREM OnlyOnCloseOrphans == Spec => OrphanedByOnClose
<1>1. ASSUME IndInv, Blank, [Next]_vars,
             NEW s \in Sockets, sock'[s] \in {"connecting", "open"}, conn'.ref # s,
             ~ \E t \in Sockets \ {s} : sock[t] # "closed" /\ sock'[t] = "closed"
      PROVE  sock[s] \in {"connecting", "open"} /\ conn.ref # s
  <2> USE <1>1
  <2>0. NoSocket \notin Sockets /\ TypeOK
    BY ConnectionAssumption DEF IndInv
  <2>c. /\ conn \in Connection /\ sock \in [Sockets -> ReadyState]
        /\ conn.ref \in Sockets \cup {NoSocket}
        /\ conn.pending = IF conn.held THEN 1 ELSE 0
    BY DEF IndInv, TypeOK, OneLoop, Connection
  <2>1. CASE Mount \/ (page = "mounted" /\ Connect)
    <3>1. ConnectDevice(conn, sock)
      BY <2>1 DEF Mount, Connect
    <3> QED
      BY <3>1, <2>c, ConnectOrphansNone
  <2>2. CASE StrictMount
    <3>1. PICK t \in Sockets : sock' = [sock EXCEPT ![t] = "closing"]
      BY <2>2 DEF StrictMount
    <3>2. sock[s] \in {"connecting", "open"}
      BY <3>1, <2>c
    <3>3. conn.ref = NoSocket
      BY <2>2 DEF StrictMount, Blank
    <3> QED
      BY <3>2, <3>3, <2>0
  <2>3. CASE Disconnect \/ Remove \/ Unmount
    <3>1. sock' = BeginClose(conn.ref)
      BY <2>3 DEF Disconnect, Remove, Unmount
    <3> QED
      BY <3>1, <2>0, <2>c, ClosingIsNotLive
  <2>4. CASE Add
    <3> DEFINE c == [conn EXCEPT !.retries = 0, !.should = TRUE, !.state = "disconnected"]
    <3>1. c \in Connection
      BY <2>c, AsAdded, Zenon
    <3>2. c.ref = conn.ref
      BY <2>c, SameSocket, Zenon
    <3>3. ConnectDevice(c, sock)
      BY <2>4 DEF Add
    <3> HIDE DEF c
    <3>4. sock[s] \in {"connecting", "open"} /\ c.ref # s
      BY <3>1, <3>3, <2>c, ConnectOrphansNone
    <3> QED
      BY <3>2, <3>4
  <2>5. CASE Retry
    <3> DEFINE c == [ClearTimers(conn) EXCEPT !.retries = 0, !.should = TRUE, !.ref = NoSocket]
    <3>0. ClearTimers(conn) \in Connection
      BY <2>c, Cleared, Zenon
    <3>1. c \in Connection /\ c.ref = NoSocket
      <4>1. c \in Connection
        BY <3>0, AsRetried, Zenon
      <4>2. c.ref = NoSocket
        BY <3>0 DEF Connection
      <4> QED
        BY <4>1, <4>2
    <3>2. ConnectDevice(c, BeginClose(conn.ref))
      BY <2>5 DEF Retry
    <3> HIDE DEF c
    <3>3. BeginClose(conn.ref) \in [Sockets -> ReadyState]
      BY <2>0, <2>c, Closing
    <3>4. BeginClose(conn.ref)[s] \in {"connecting", "open"}
      BY <3>1, <3>2, <3>3, ConnectOrphansNone
    <3> QED
      BY <3>4, <2>0, <2>c, ClosingIsNotLive
  <2>6. CASE ReconnectTimer
    <3>1. PICK own \in BOOLEAN :
            LET c == [conn EXCEPT !.pending = @ - 1, !.held = @ /\ ~own] IN
            /\ conn.pending > 0
            /\ IF conn.should THEN ConnectDevice(c, sock) ELSE conn' = c /\ sock' = sock
      BY <2>6 DEF ReconnectTimer
    <3> DEFINE c == [conn EXCEPT !.pending = conn.pending - 1, !.held = conn.held /\ ~own]
    <3>2. conn.pending - 1 \in Nat
      BY <3>1, <2>c
    <3>3. (conn.held /\ ~own) \in BOOLEAN
      BY Zenon
    <3>4. c \in Connection /\ c.ref = conn.ref
      BY <3>2, <3>3, <2>c DEF Connection
    <3>5. IF conn.should THEN ConnectDevice(c, sock) ELSE conn' = c /\ sock' = sock
      BY <3>1, Zenon
    <3> HIDE DEF c
    <3>6. CASE conn.should
      <4>1. ConnectDevice(c, sock)
        BY <3>5, <3>6
      <4>2. sock[s] \in {"connecting", "open"} /\ c.ref # s
        BY <4>1, <3>4, <2>c, ConnectOrphansNone
      <4> QED
        BY <4>2, <3>4
    <3>7. CASE ~conn.should
      BY <3>4, <3>5, <3>7
    <3> QED
      BY <3>6, <3>7
  <2>7. ASSUME NEW t \in Sockets, AttemptTimesOut(t)
        PROVE  sock[s] \in {"connecting", "open"} /\ conn.ref # s
    <3>1. sock' = BeginClose(t) /\ conn' = conn
      BY <2>7 DEF AttemptTimesOut
    <3> QED
      BY <3>1, <2>0, ClosingIsNotLive
  <2>8. ASSUME NEW t \in Sockets, OnOpen(t)
        PROVE  sock[s] \in {"connecting", "open"} /\ conn.ref # s
    <3>1. sock[t] = "connecting" /\ sock' = [sock EXCEPT ![t] = "open"] /\ conn'.ref = conn.ref
      BY <2>8, <2>c DEF OnOpen, Connection
    <3> QED
      BY <3>1, <2>c
  <2>9. ASSUME NEW t \in Sockets, OnClose(t)
        PROVE  sock[s] \in {"connecting", "open"} /\ conn.ref # s
    <3>1. sock[t] # "closed" /\ sock'[t] = "closed"
      BY <2>9, <2>c DEF OnClose
    <3> QED
      BY <3>1
  <2>10. CASE UNCHANGED vars
    BY <2>10 DEF vars
  <2> QED
    BY <2>1, <2>2, <2>3, <2>4, <2>5, <2>6, <2>7, <2>8, <2>9, <2>10 DEF Next, User
<1>2. IndInv /\ Blank /\ [Next]_vars =>
        [\A s \in Orphans' \ Orphans :
           \E t \in Sockets \ {s} : sock[t] # "closed" /\ sock'[t] = "closed"]_vars
  <2> SUFFICES ASSUME IndInv, Blank, [Next]_vars, NEW s \in Sockets,
                      sock'[s] \in {"connecting", "open"}, conn'.ref # s,
                      ~(sock[s] \in {"connecting", "open"} /\ conn.ref # s)
               PROVE  \E t \in Sockets \ {s} : sock[t] # "closed" /\ sock'[t] = "closed"
    BY DEF Orphans
  <2> QED
    BY <1>1
<1>3. Init => Blank
  BY DEF Init, Blank
<1> QED
  BY <1>2, <1>3, BlankStep, Invariant, PTL DEF Spec, OrphanedByOnClose
===============================================================================

---------------------------- MODULE WifiLinkProofs ----------------------------
(***************************************************************************)
(* What WifiLink guarantees for every number of retries, of failures of    *)
(* power, of factory resets and of refused calls.                          *)
(*                                                                         *)
(* The argument is about how little there is ever to keep track of: at     *)
(* most an address and the loss of the link that followed it wait in the   *)
(* event loop, and while the handler sleeps nothing waits and nothing is   *)
(* under way (Pending).                                                    *)
(***************************************************************************)
EXTENDS Parts, Sequences, FiniteSets, TLAPS

Events == Wifi!Reason \cup {"GOT_IP"}

\* What may wait in the event loop in each state of the driver.
Pending ==
  /\ events \in Seq(Events)
  /\ driver = "connecting" => Len(events) = 0
  /\ driver = "up" => Len(events) = 0 \/ (Len(events) = 1 /\ events[1] = "GOT_IP")
  /\ driver = "down" =>
       \/ Len(events) = 0
       \/ Len(events) = 1 /\ events[1] \in Wifi!Reason
       \/ Len(events) = 2 /\ events[1] = "GOT_IP" /\ events[2] \in Wifi!Reason

\* The handler sleeps only when nothing else is going on, and so does a device that
\* is no station.
Sleeping ==
  /\ handler # "idle" => mode = "station"
  /\ handler # "idle" \/ mode # "station" => driver = "down" /\ Len(events) = 0 /\ ~online

\* The count reaches its limit only on the way to the restart that clears it.
Counting == handler # "reset" => retry < MaxRetry

\* The bit is wrong only for as long as the event that sets it right waits.
Bit ==
  /\ online => driver = "up" \/ Len(events) > 0
  /\ ~online => driver # "up" \/ Len(events) = 1

\* How far the form has got, and what is stored of the network then.
Form ==
  /\ form # "none" => mode = "provisioning"
  /\ mode = "station" => "ssid" \in stored
  /\ form = "done" => "pass" \in stored \/ torn
  /\ "ssid" \in stored /\ "pass" \notin stored => torn \/ form = "pass"

WifiTypes ==
  /\ stored \subseteq {"ssid", "pass"}
  /\ mode \in {"boot", "provisioning", "station"}
  /\ form \in {"none", "ssid", "pass", "done"}
  /\ driver \in {"down", "connecting", "up"} /\ threshold \in {"wpa", "open"}
  /\ handler \in {"idle", "backoff", "again", "restart", "reset"}
  /\ retry \in 0..MaxRetry

WifiFlags == online \in BOOLEAN /\ refused \in BOOLEAN /\ torn \in BOOLEAN

RouterType == router \in [signal : Wifi!Signal, open : BOOLEAN]

LeftType ==
  left \in [failures : 0..MaxFailures, erases : 0..MaxErases, refusals : 0..MaxRefusals]

\* StationKeepsTrying, by the length of the queue.
Trying ==
  mode = "station" /\ driver = "down" /\ Len(events) = 0 /\ handler = "idle" => refused

WifiInv ==
  /\ WifiTypes /\ WifiFlags /\ RouterType /\ LeftType
  /\ Pending /\ Sleeping /\ Counting /\ Bit /\ Form /\ Trying

\* An empty queue, and the queue with no events.
LEMMA WifiEmptyFacts ==
  /\ <<>> \in Seq(Events) /\ Len(<<>>) = 0
  /\ \A q \in Seq(Events) : q = <<>> <=> Len(q) = 0
BY DEF Events

\* What posting to the event loop and taking from it do.
LEMMA WifiQueueFacts ==
  ASSUME NEW q \in Seq(Events)
  PROVE  /\ Len(q) \in Nat
         /\ \A e \in Events : /\ Append(q, e) \in Seq(Events)
                             /\ Len(Append(q, e)) = Len(q) + 1
                             /\ Append(q, e)[Len(q) + 1] = e
                             /\ \A i \in 1..Len(q) : Append(q, e)[i] = q[i]
         /\ q # <<>> => /\ Head(q) = q[1] /\ Tail(q) \in Seq(Events)
                        /\ Len(Tail(q)) = Len(q) - 1
                        /\ \A i \in 1..(Len(q) - 1) : Tail(q)[i] = q[i + 1]
BY DEF Events

\* esp_wifi_connect leaves no attempt under way only if it was refused.
LEMMA WifiConnectStep ==
  ASSUME Wifi!WifiAssumption, LeftType, Wifi!Connect
  PROVE  /\ LeftType'
         /\ refused' \in BOOLEAN
         /\ \/ driver' = "connecting" /\ refused' = FALSE
            \/ driver' = "down" /\ refused' = TRUE
<1>1. LeftType'
  BY DEF LeftType, Wifi!Connect, Wifi!WifiAssumption
<1>2. /\ refused' \in BOOLEAN
      /\ \/ driver' = "connecting" /\ refused' = FALSE
         \/ driver' = "down" /\ refused' = TRUE
  BY DEF Wifi!Connect
<1>. QED BY <1>1, <1>2

\* Every handler, every event of the driver and every step of a user keeps the
\* invariant.
THEOREM WifiInductive == Spec => []WifiInv
<1>. Wifi!WifiAssumption
  BY PartsAssumption DEF PartsAssumption
<1>1. ASSUME Wifi!Init PROVE WifiInv
  <2>1. WifiTypes /\ RouterType
    BY <1>1 DEF Wifi!Init, WifiTypes, RouterType, Wifi!WifiAssumption
  <2>2. WifiFlags
    BY <1>1 DEF Wifi!Init, WifiFlags
  <2>3. LeftType
    BY <1>1 DEF Wifi!Init, LeftType, Wifi!WifiAssumption
  <2>4. Pending /\ Sleeping /\ Counting /\ Bit /\ Form /\ Trying
    BY <1>1, WifiEmptyFacts DEF Wifi!Init, Pending, Sleeping, Counting, Bit, Form, Trying,
      Wifi!WifiAssumption
  <2>. QED BY <2>1, <2>2, <2>3, <2>4 DEF WifiInv
<1>2. WifiInv /\ [Wifi!Next]_wifiVars => WifiInv'
  <2> SUFFICES ASSUME WifiInv, [Wifi!Next]_wifiVars PROVE WifiInv'
    OBVIOUS
  <2>1. CASE Wifi!BootStation
    <3>1. /\ LeftType' /\ refused' \in BOOLEAN
          /\ (driver' = "connecting" /\ refused' = FALSE) \/ (driver' = "down" /\ refused' = TRUE)
      BY <2>1, WifiConnectStep DEF Wifi!BootStation, WifiInv
    <3>2. WifiTypes' /\ RouterType'
      BY <2>1, <3>1 DEF Wifi!BootStation, WifiInv, WifiTypes, RouterType, Counting,
        Wifi!WifiAssumption
    <3>3. WifiFlags'
      BY <2>1, <3>1 DEF Wifi!BootStation, WifiInv, WifiFlags
    <3>4. Pending' /\ Sleeping'
      BY <2>1, <3>1 DEF Wifi!BootStation, WifiInv, Pending, Sleeping, WifiTypes
    <3>5. Counting'
      BY <2>1 DEF Wifi!BootStation, WifiInv, Counting, WifiTypes, Wifi!WifiAssumption
    <3>6. Bit' /\ Trying'
      BY <2>1, <3>1 DEF Wifi!BootStation, WifiInv, Bit, Trying, Sleeping, WifiTypes
    <3>7. Form'
      BY <2>1 DEF Wifi!BootStation, WifiInv, Form, WifiTypes
    <3>. QED BY <3>1, <3>2, <3>3, <3>4, <3>5, <3>6, <3>7 DEF WifiInv
  <2>2. CASE Wifi!BootProvisioning
    BY <2>2 DEF Wifi!BootProvisioning, WifiInv, WifiTypes, WifiFlags, RouterType,
      LeftType, Pending,
      Sleeping,
      Counting, Bit, Form, Trying, Wifi!WifiAssumption
  <2>3. CASE Wifi!SubmitForm
    BY <2>3 DEF Wifi!SubmitForm, Wifi!station, WifiInv, WifiTypes, WifiFlags,
      RouterType, LeftType, Pending,
      Sleeping,
      Counting, Bit, Form, Trying
  <2>4. CASE Wifi!WriteEntry
    <3>1. /\ UNCHANGED <<mode, driver, threshold, events, handler, retry, online, refused,
                         router>>
          /\ form \in {"ssid", "pass"} /\ form' \in {"pass", "done"}
          /\ stored' = stored \/ stored' = stored \cup {form}
      BY <2>4 DEF Wifi!WriteEntry, Wifi!AfterEntry, Wifi!station
    <3>2. LeftType'
      BY <2>4 DEF Wifi!WriteEntry, WifiInv, LeftType, Wifi!WifiAssumption
    <3>3. WifiTypes' /\ RouterType'
      BY <3>1 DEF WifiInv, WifiTypes, RouterType
    <3>4. WifiFlags'
      <4>1. torn' \in BOOLEAN
        BY <2>4, Zenon DEF Wifi!WriteEntry, WifiInv, WifiFlags
      <4>. QED BY <3>1, <4>1 DEF WifiInv, WifiFlags
    <3>5. Pending' /\ Sleeping' /\ Counting' /\ Bit' /\ Trying'
      BY <3>1 DEF WifiInv, Pending, Sleeping, Counting, Bit, Trying
    <3>6. Form'
      <4>1. CASE form = "ssid"
        BY <2>4, <3>1, <4>1 DEF Wifi!WriteEntry, Wifi!AfterEntry, WifiInv, Form
      <4>2. CASE form = "pass"
        BY <2>4, <3>1, <4>2 DEF Wifi!WriteEntry, Wifi!AfterEntry, WifiInv, Form
      <4>. QED BY <3>1, <4>1, <4>2
    <3>. QED BY <3>2, <3>3, <3>4, <3>5, <3>6 DEF WifiInv
  <2>5. CASE Wifi!Restart
    <3>1. LeftType'
      BY <2>5 DEF Wifi!Restart, WifiInv, LeftType
    <3>2. WifiTypes' /\ RouterType'
      BY <2>5 DEF Wifi!Restart, Wifi!Off, WifiInv, WifiTypes, RouterType, Counting,
        Wifi!WifiAssumption
    <3>3. WifiFlags'
      BY <2>5 DEF Wifi!Restart, Wifi!Off, WifiInv, WifiFlags
    <3>4. Pending' /\ Sleeping'
      BY <2>5, WifiEmptyFacts DEF Wifi!Restart, Wifi!Off, WifiInv, Pending, Sleeping,
        WifiTypes
    <3>5. Counting'
      BY <2>5 DEF Wifi!Restart, Wifi!Off, WifiInv, Counting, WifiTypes,
        Wifi!WifiAssumption
    <3>6. Bit' /\ Trying'
      BY <2>5, WifiEmptyFacts DEF Wifi!Restart, Wifi!Off, WifiInv, Bit, Trying,
        Sleeping, WifiTypes
    <3>7. Form'
      BY <2>5 DEF Wifi!Restart, Wifi!Off, WifiInv, Form, WifiTypes
    <3>. QED BY <3>1, <3>2, <3>3, <3>4, <3>5, <3>6, <3>7 DEF WifiInv
  <2>6. CASE Wifi!FactoryErase
    <3>1. LeftType'
      BY <2>6 DEF Wifi!FactoryErase, WifiInv, LeftType, Wifi!WifiAssumption
    <3>2. WifiTypes' /\ RouterType'
      BY <2>6, <3>1 DEF Wifi!FactoryErase, Wifi!Off, WifiInv, WifiTypes, RouterType,
        Counting,
        Wifi!WifiAssumption
    <3>3. WifiFlags'
      BY <2>6, <3>1 DEF Wifi!FactoryErase, Wifi!Off, WifiInv, WifiFlags
    <3>4. Pending' /\ Sleeping'
      BY <2>6, <3>1, WifiEmptyFacts DEF Wifi!FactoryErase, Wifi!Off, WifiInv, Pending,
        Sleeping, WifiTypes
    <3>5. Counting'
      BY <2>6 DEF Wifi!FactoryErase, Wifi!Off, WifiInv, Counting, WifiTypes,
        Wifi!WifiAssumption
    <3>6. Bit' /\ Trying'
      BY <2>6, <3>1, WifiEmptyFacts DEF Wifi!FactoryErase, Wifi!Off, WifiInv, Bit,
        Trying, Sleeping, WifiTypes
    <3>7. Form'
      BY <2>6 DEF Wifi!FactoryErase, Wifi!Off, WifiInv, Form, WifiTypes
    <3>. QED BY <3>1, <3>2, <3>3, <3>4, <3>5, <3>6, <3>7 DEF WifiInv
  <2>7. CASE Wifi!PowerFailure
    <3>1. LeftType'
      BY <2>7 DEF Wifi!PowerFailure, WifiInv, LeftType, Wifi!WifiAssumption
    <3>2. WifiTypes' /\ RouterType'
      BY <2>7, <3>1 DEF Wifi!PowerFailure, Wifi!Off, WifiInv, WifiTypes, RouterType,
        Counting,
        Wifi!WifiAssumption
    <3>3. WifiFlags'
      BY <2>7, <3>1 DEF Wifi!PowerFailure, Wifi!Off, WifiInv, WifiFlags
    <3>4. Pending' /\ Sleeping'
      BY <2>7, <3>1, WifiEmptyFacts DEF Wifi!PowerFailure, Wifi!Off, WifiInv, Pending,
        Sleeping, WifiTypes
    <3>5. Counting'
      BY <2>7 DEF Wifi!PowerFailure, Wifi!Off, WifiInv, Counting, WifiTypes,
        Wifi!WifiAssumption
    <3>6. Bit' /\ Trying'
      BY <2>7, <3>1, WifiEmptyFacts DEF Wifi!PowerFailure, Wifi!Off, WifiInv, Bit,
        Trying, Sleeping, WifiTypes
    <3>7. Form'
      BY <2>7 DEF Wifi!PowerFailure, Wifi!Off, WifiInv, Form, WifiTypes
    <3>. QED BY <3>1, <3>2, <3>3, <3>4, <3>5, <3>6, <3>7 DEF WifiInv
  <2>8. CASE Wifi!Associate
    <3>1. /\ events' \in Seq(Events) /\ Len(events') = 1 /\ events'[1] = "GOT_IP"
      BY <2>8, WifiQueueFacts DEF Wifi!Associate, WifiInv, Pending, Events
    <3>. QED BY <2>8, <3>1 DEF Wifi!Associate, WifiInv, WifiTypes, WifiFlags,
      RouterType, LeftType,
      Pending, Sleeping, Counting, Bit, Form, Trying
  <2>9. CASE Wifi!Fail
    <3>1. PICK r \in Wifi!Reason : events' = Append(events, r)
      BY <2>9 DEF Wifi!Fail, Wifi!Reason
    <3>2. events' \in Seq(Events) /\ Len(events') = 1 /\ events'[1] \in Wifi!Reason
      BY <2>9, <3>1, WifiQueueFacts DEF Wifi!Fail, WifiInv, Pending, Events
    <3>. QED BY <2>9, <3>2 DEF Wifi!Fail, WifiInv, WifiTypes, WifiFlags, RouterType,
      LeftType,
      Pending, Sleeping, Counting, Bit, Form, Trying
  <2>10. CASE Wifi!Drop
    <3>1. "LOST" \in Wifi!Reason /\ events \in Seq(Events)
      BY DEF Wifi!Reason, WifiInv, Pending
    <3>2. /\ events' \in Seq(Events) /\ Len(events') = Len(events) + 1
          /\ events'[Len(events) + 1] \in Wifi!Reason
          /\ \A i \in 1..Len(events) : events'[i] = events[i]
      BY <2>10, <3>1, WifiQueueFacts DEF Wifi!Drop, Events
    <3>. QED BY <2>10, <3>2 DEF Wifi!Drop, WifiInv, WifiTypes, WifiFlags, RouterType,
      LeftType,
      Pending, Sleeping, Counting, Bit, Form, Trying
  <2>11. CASE Wifi!Fading
    <3>1. RouterType'
      BY <2>11 DEF Wifi!Fading, WifiInv, RouterType
    <3>. QED BY <2>11, <3>1 DEF Wifi!Fading, Wifi!station, WifiInv, WifiTypes,
      WifiFlags, LeftType,
      Pending, Sleeping, Counting, Bit, Form, Trying
  <2>12. CASE Wifi!OnGotIp
    <3>1. events \in Seq(Events) /\ Len(events) > 0 /\ events[1] = "GOT_IP"
      BY <2>12, WifiEmptyFacts, WifiQueueFacts DEF Wifi!OnGotIp, WifiInv, Pending
    <3>2. /\ events' \in Seq(Events) /\ Len(events') = Len(events) - 1
          /\ \A i \in 1..(Len(events) - 1) : events'[i] = events[i + 1]
      BY <2>12, <3>1, WifiQueueFacts DEF Wifi!OnGotIp
    <3>3. \/ driver = "up" /\ Len(events') = 0
          \/ driver = "down" /\ Len(events') = 1 /\ events'[1] \in Wifi!Reason
      BY <3>1, <3>2 DEF WifiInv, Pending, WifiTypes, Wifi!Reason
    <3>. QED BY <2>12, <3>2, <3>3 DEF Wifi!OnGotIp, WifiInv, WifiTypes, WifiFlags,
      RouterType, LeftType,
      Pending, Sleeping, Counting, Bit, Form, Trying, Wifi!WifiAssumption
  <2>13. CASE Wifi!OnDisconnect
    <3>1. events \in Seq(Events) /\ Len(events) > 0 /\ events[1] # "GOT_IP"
      BY <2>13, WifiEmptyFacts, WifiQueueFacts DEF Wifi!OnDisconnect, WifiInv, Pending
    <3>2. driver = "down" /\ Len(events) = 1
      BY <3>1 DEF WifiInv, Pending, WifiTypes
    <3>3. events' \in Seq(Events) /\ Len(events') = 0
      BY <2>13, <3>1, <3>2, WifiEmptyFacts, WifiQueueFacts DEF Wifi!OnDisconnect
    <3>4. /\ handler' \in {"restart", "reset", "backoff"}
          /\ handler' # "reset" => retry' < MaxRetry
          /\ retry' \in 0..MaxRetry
      BY <2>13 DEF Wifi!OnDisconnect, Wifi!WaitFor, WifiInv, Counting, WifiTypes,
        Wifi!WifiAssumption
    <3>5. WifiTypes' /\ RouterType' /\ LeftType' /\ Counting'
      BY <2>13, <3>4 DEF Wifi!OnDisconnect, WifiInv, WifiTypes, RouterType, LeftType,
        Counting
    <3>6. WifiFlags' /\ Bit'
      BY <2>13, <3>2 DEF Wifi!OnDisconnect, Wifi!ClearBit, WifiInv, WifiFlags, Bit
    <3>7. Pending' /\ Sleeping' /\ Trying'
      BY <2>13, <3>2, <3>3, <3>4 DEF Wifi!OnDisconnect, Wifi!ClearBit, WifiInv, Pending,
        Sleeping,
        Trying
    <3>8. Form'
      BY <2>13 DEF Wifi!OnDisconnect, WifiInv, Form
    <3>. QED BY <3>5, <3>6, <3>7, <3>8 DEF WifiInv
  <2>14. CASE Wifi!Reconnect
    <3>1. /\ LeftType' /\ refused' \in BOOLEAN
          /\ (driver' = "connecting" /\ refused' = FALSE) \/ (driver' = "down" /\ refused' = TRUE)
      BY <2>14, WifiConnectStep DEF Wifi!Reconnect, WifiInv
    <3>2. WifiTypes' /\ RouterType'
      BY <2>14, <3>1 DEF Wifi!Reconnect, WifiInv, WifiTypes, RouterType, Counting,
        Wifi!WifiAssumption
    <3>3. WifiFlags'
      BY <2>14, <3>1 DEF Wifi!Reconnect, WifiInv, WifiFlags
    <3>4. Pending' /\ Sleeping'
      BY <2>14, <3>1 DEF Wifi!Reconnect, WifiInv, Pending, Sleeping, WifiTypes
    <3>5. Counting'
      BY <2>14 DEF Wifi!Reconnect, WifiInv, Counting, WifiTypes, Wifi!WifiAssumption
    <3>6. Bit' /\ Trying'
      BY <2>14, <3>1 DEF Wifi!Reconnect, WifiInv, Bit, Trying, Sleeping, WifiTypes
    <3>7. Form'
      BY <2>14 DEF Wifi!Reconnect, WifiInv, Form, WifiTypes
    <3>. QED BY <3>1, <3>2, <3>3, <3>4, <3>5, <3>6, <3>7 DEF WifiInv
  <2>15. CASE Wifi!RestartDriver
    <3>1. /\ LeftType' /\ refused' \in BOOLEAN
          /\ (driver' = "connecting" /\ refused' = FALSE) \/ (driver' = "down" /\ refused' = TRUE)
      BY <2>15, WifiConnectStep DEF Wifi!RestartDriver, WifiInv
    <3>2. WifiTypes' /\ RouterType'
      BY <2>15, <3>1 DEF Wifi!RestartDriver, Wifi!RetryAfterRestart,
        Wifi!ThresholdAfterRestart, WifiInv,
        WifiTypes, RouterType, Counting, Wifi!WifiAssumption
    <3>3. WifiFlags'
      BY <2>15, <3>1 DEF Wifi!RestartDriver, Wifi!RetryAfterRestart,
        Wifi!ThresholdAfterRestart, WifiInv,
        WifiFlags
    <3>4. Pending' /\ Sleeping'
      BY <2>15, <3>1 DEF Wifi!RestartDriver, Wifi!RetryAfterRestart,
        Wifi!ThresholdAfterRestart, WifiInv,
        Pending, Sleeping, WifiTypes
    <3>5. Counting'
      BY <2>15 DEF Wifi!RestartDriver, Wifi!RetryAfterRestart,
        Wifi!ThresholdAfterRestart, WifiInv,
        Counting, WifiTypes, Wifi!WifiAssumption
    <3>6. Bit' /\ Trying'
      BY <2>15, <3>1 DEF Wifi!RestartDriver, Wifi!RetryAfterRestart,
        Wifi!ThresholdAfterRestart, WifiInv,
        Bit, Trying, Sleeping, WifiTypes
    <3>7. Form'
      BY <2>15 DEF Wifi!RestartDriver, Wifi!RetryAfterRestart,
        Wifi!ThresholdAfterRestart, WifiInv, Form,
        WifiTypes
    <3>. QED BY <3>1, <3>2, <3>3, <3>4, <3>5, <3>6, <3>7 DEF WifiInv
  <2>16. CASE UNCHANGED wifiVars
    BY <2>16 DEF wifiVars, WifiInv, WifiTypes, WifiFlags, RouterType, LeftType, Pending,
      Sleeping,
      Counting,
      Bit, Form, Trying
  <2>. QED BY <2>1, <2>2, <2>3, <2>4, <2>5, <2>6, <2>7, <2>8, <2>9, <2>10, <2>11, <2>12,
         <2>13, <2>14, <2>15, <2>16 DEF Wifi!Next
<1>3. Init => Wifi!Init
  BY DEF Init
<1>4. [Next]_vars => [Wifi!Next]_wifiVars
  BY DEF Next, ScreenStep, WifiStep, StatusStep, CommStep, BridgeStep, vars
<1>. QED BY <1>1, <1>2, <1>3, <1>4, PTL DEF Spec

-----------------------------------------------------------------------------

\* Whatever fails, and however often, the variables keep their types; the retry count
\* of on_wifi_disconnect stays within its limit.
THEOREM WifiTypeCorrect == Spec => []Wifi!TypeOK
<1>1. WifiInv => Wifi!TypeOK
  BY DEF WifiInv, WifiTypes, WifiFlags, RouterType, LeftType, Pending, Events, Wifi!TypeOK
<1>. QED BY <1>1, WifiInductive, PTL

\* on_wifi_disconnect never forgets a station without a link: for any number of
\* retries, only a refused call of esp_wifi_connect leaves it with nothing to come.
THEOREM KeepsTrying == Spec => []StationKeepsTrying
<1>1. WifiInv => StationKeepsTrying
  BY WifiEmptyFacts DEF WifiInv, Trying, Pending, StationKeepsTrying,
    Wifi!StationKeepsTrying
<1>. QED BY <1>1, WifiInductive, PTL

\* on_got_ip and on_wifi_disconnect keep the bit true to the driver, but for the time
\* that an event waits.
THEOREM BitIsTruthful == Spec => []BitTruthful
<1>1. ASSUME WifiInv PROVE BitTruthful
  <2>1. ASSUME driver = "up", ~online PROVE \E i \in 1..Len(events) : events[i] = "GOT_IP"
    <3>1. Len(events) = 1 /\ events[1] = "GOT_IP"
      BY <1>1, <2>1 DEF WifiInv, Bit, Pending
    <3>. QED BY <3>1
  <2>2. ASSUME driver # "up",
  online PROVE \E i \in 1..Len(events) : events[i] \in Wifi!Reason
    <3>1. CASE Len(events) = 1 /\ events[1] \in Wifi!Reason
      BY <3>1
    <3>2. CASE Len(events) = 2 /\ events[2] \in Wifi!Reason
      BY <3>2
    <3>. QED BY <1>1, <2>2, <3>1, <3>2 DEF WifiInv, Bit, Pending, WifiTypes
  <2>. QED BY <2>1, <2>2 DEF BitTruthful, Wifi!BitTruthful
<1>. QED BY <1>1, WifiInductive, PTL

\* A station without a password was provisioned by a form that was cut short between
\* the two commits of config_post_handler, or whose second commit failed.
THEOREM TornOnly == Spec => []NoPasswordOnlyIfTorn
<1>1. WifiInv => NoPasswordOnlyIfTorn
  BY DEF WifiInv, Form, NoPasswordOnlyIfTorn, Wifi!NoPasswordOnlyIfTorn
<1>. QED BY <1>1, WifiInductive, PTL

\* The phases of a station, by the length of the queue: none is forgotten.
PhaseByLength ==
  /\ mode # "station" => Wifi!Phase = "absent"
  /\ mode = "station" /\ driver = "up" => Wifi!Phase = "up"
  /\ mode = "station" /\ driver = "connecting" => Wifi!Phase = "trying"
  /\ mode = "station" /\ driver = "down" =>
       IF handler # "idle" \/ Len(events) > 0 THEN Wifi!Phase = "waiting"
       ELSE Wifi!Phase = "abandoned" /\ refused

\* Every step of the driver, the event loop and the users is one of the kept
\* connection, or leaves it where it is.
LEMMA StationStep ==
  ASSUME Wifi!WifiAssumption, WifiInv, WifiInv', [Wifi!Next]_wifiVars
  PROVE  [StationLink!Next]_(Wifi!Phase)
<1>1. PhaseByLength /\ PhaseByLength'
  BY WifiEmptyFacts, WifiQueueFacts DEF WifiInv, WifiTypes, Pending, Trying, PhaseByLength,
    Wifi!Phase
<1>2. SUFFICES ASSUME Wifi!Next PROVE StationLink!Next \/ UNCHANGED Wifi!Phase
  BY DEF wifiVars, Wifi!Phase
<1>. USE DEF StationLink!Next, StationLink!Want, StationLink!Succeed, StationLink!Lose,
    StationLink!TryAgain, StationLink!Abandon, StationLink!Dismiss
<1>3. CASE Wifi!BootStation
  <2>1. mode' = "station" /\ driver' \in {"connecting", "down"} /\ handler' = "idle"
        /\ Len(events') = 0
    BY <1>3, WifiConnectStep DEF Wifi!BootStation, WifiInv, Sleeping
  <2>. QED BY <1>1, <1>3, <2>1 DEF PhaseByLength, Wifi!BootStation
<1>4. CASE Wifi!BootProvisioning \/ Wifi!SubmitForm \/ Wifi!WriteEntry \/ Wifi!Restart
  BY <1>1, <1>4 DEF PhaseByLength, Wifi!BootProvisioning, Wifi!SubmitForm, Wifi!WriteEntry,
    Wifi!Restart, Wifi!Off, WifiInv, Form
<1>5. CASE Wifi!FactoryErase \/ Wifi!PowerFailure
  BY <1>1, <1>5 DEF PhaseByLength, Wifi!FactoryErase, Wifi!PowerFailure, Wifi!Off
<1>6. CASE Wifi!Associate
  BY <1>1, <1>6 DEF PhaseByLength, Wifi!Associate, WifiInv, Sleeping
<1>7. CASE Wifi!Fail \/ Wifi!Drop
  <2>1. Len(events') > 0
    BY <1>7, WifiQueueFacts DEF Wifi!Fail, Wifi!Drop, WifiInv, Pending, Events, Wifi!Reason
  <2>. QED BY <1>1, <1>7, <2>1 DEF PhaseByLength, Wifi!Fail, Wifi!Drop, WifiInv, Sleeping
<1>8. CASE Wifi!Fading
  BY <1>1, <1>8 DEF PhaseByLength, Wifi!Fading, Wifi!station, WifiInv, WifiTypes
<1>9. CASE Wifi!OnGotIp
  <2>1. Len(events) > 0 /\ events[1] = "GOT_IP" /\ Len(events') = Len(events) - 1
    BY <1>9, WifiEmptyFacts, WifiQueueFacts DEF Wifi!OnGotIp, WifiInv, Pending
  <2>2. driver = "up" \/ (driver = "down" /\ Len(events') > 0)
    BY <2>1 DEF WifiInv, WifiTypes, Pending, Wifi!Reason
  <2>. QED BY <1>1, <1>9, <2>1, <2>2 DEF PhaseByLength, Wifi!OnGotIp
<1>10. CASE Wifi!OnDisconnect
  <2>1. Len(events) > 0 /\ events[1] # "GOT_IP"
    BY <1>10, WifiEmptyFacts, WifiQueueFacts DEF Wifi!OnDisconnect, WifiInv, Pending
  <2>2. driver = "down"
    BY <2>1 DEF WifiInv, WifiTypes, Pending
  <2>3. handler' # "idle"
    BY <1>10 DEF Wifi!OnDisconnect, Wifi!WaitFor
  <2>. QED BY <1>1, <1>10, <2>1, <2>2, <2>3 DEF PhaseByLength, Wifi!OnDisconnect
<1>11. CASE Wifi!Reconnect \/ Wifi!RestartDriver
  <2>1. handler # "idle" /\ driver = "down" /\ mode = "station"
    BY <1>11 DEF Wifi!Reconnect, Wifi!RestartDriver, WifiInv, Sleeping
  <2>2. mode' = "station" /\ driver' \in {"connecting", "down"}
    BY <1>11, <2>1, WifiConnectStep DEF Wifi!Reconnect, Wifi!RestartDriver, WifiInv
  <2>. QED BY <1>1, <2>1, <2>2 DEF PhaseByLength
<1>. QED BY <1>2, <1>3, <1>4, <1>5, <1>6, <1>7, <1>8, <1>9, <1>10, <1>11 DEF Wifi!Next

\* wifi_start_sta, on_wifi_disconnect, restart_driver: for any number of retries,
\* failures and refusals the link of a station implements KeptConnection.  There is
\* one attempt at a time, every failure and every loss leads to the next, and only a
\* refused call of esp_wifi_connect ends the series.
THEOREM LinkIsKept == Spec => KeepsLink
<1>. Wifi!WifiAssumption
  BY PartsAssumption DEF PartsAssumption
<1>1. Init => StationLink!Init
  BY DEF Init, Wifi!Init, Wifi!Phase, StationLink!Init
<1>2. WifiInv /\ WifiInv' /\ [Next]_vars => [StationLink!Next]_(Wifi!Phase)
  <2>1. [Next]_vars => [Wifi!Next]_wifiVars
    BY DEF Next, ScreenStep, WifiStep, StatusStep, CommStep, BridgeStep, vars
  <2>. QED BY <2>1, StationStep
<1>. QED BY <1>1, <1>2, WifiInductive, PTL DEF Spec, KeepsLink, StationLink!Spec
=============================================================================

------------------------------- MODULE WifiLink -------------------------------
(***************************************************************************)
(* A device's way into the network: what is stored in NVS, the mode it     *)
(* boots in, and the handlers of the Wi-Fi driver's events                 *)
(* (esp32/shared/src/wifi_core.cpp, wifi_http.cpp, wifi_manager.cpp,       *)
(* nvs_store.cpp, gpio_init.cpp).                                          *)
(*                                                                         *)
(* The driver posts its events to the default event loop, whose one task   *)
(* runs the handlers one after the other.  on_wifi_disconnect sleeps in    *)
(* the handler, for the back-off or while it restarts the driver, and      *)
(* nothing else calls esp_wifi_connect: once that call has been refused,   *)
(* no event follows.                                                       *)
(*                                                                         *)
(* The form that provisions a device writes its entries one commit at a    *)
(* time, without looking whether NVS took them, and power may fail between *)
(* any two steps.  A user enters the right password.                       *)
(***************************************************************************)
EXTENDS Naturals, Sequences

CONSTANTS
  MaxRetry,     \* MAX_RETRY_COUNT, 15 in the code
  MidRetry,     \* the retry with a restart of the driver, 8
  RelaxRetry,   \* the first retry that relaxes the authentication, 4
  MaxFailures,  \* bound: losses of power and writes that NVS refuses
  MaxErases,    \* bound: factory resets
  MaxRefusals   \* bound: calls of esp_wifi_connect that return an error

\* What the constants are assumed to be; Parts assumes it of its instance.
WifiAssumption ==
  /\ MaxRetry \in Nat /\ MidRetry \in 1..(MaxRetry - 1) /\ RelaxRetry \in Nat
  /\ MaxFailures \in Nat /\ MaxErases \in Nat /\ MaxRefusals \in Nat

VARIABLES
  stored,     \* the entries in NVS
  mode,       \* g_wifi_boot_mode; "boot" before wifi_evaluate_boot_mode
  form,       \* config_post_handler: the entry it writes next
  driver,     \* the station
  threshold,  \* authentication mode below which the driver ignores an AP
  events,     \* posted to the event loop
  handler,    \* what on_wifi_disconnect is waiting for
  retry,      \* s_retry_count
  online,     \* WIFI_EVENT_STA_CONNECTED_BIT
  router,     \* the AP: how well it is received, and whether it is open
  refused,    \* history: the last esp_wifi_connect returned an error
  torn,       \* history: the form was not written to its end, because power failed or
              \* the device was reset, or the password was not taken by NVS
  left        \* failures, erases and refusals left, for the bounds

station == <<driver, threshold, events, handler, retry, online, refused>>
wifiVars ==
  <<stored, mode, form, driver, threshold, events, handler, retry, online, router,
    refused, torn, left>>

Signal == {"none", "poor", "good"}

Off ==
  /\ mode' = "boot" /\ form' = "none" /\ driver' = "down" /\ threshold' = "wpa"
  /\ events' = <<>> /\ handler' = "idle" /\ retry' = 0 /\ online' = FALSE
  /\ refused' = FALSE

Init ==
  /\ stored = {} /\ mode = "boot" /\ form = "none"
  /\ driver = "down" /\ threshold = "wpa" /\ events = <<>> /\ handler = "idle"
  /\ retry = 0 /\ online = FALSE
  /\ router \in [signal : Signal, open : BOOLEAN]
  /\ refused = FALSE /\ torn = FALSE
  /\ left = [failures |-> MaxFailures, erases |-> MaxErases, refusals |-> MaxRefusals]

-----------------------------------------------------------------------------
(* Booting, provisioning, erasing. *)

\* esp_wifi_connect: the attempt runs in the driver, or the call is refused.
Connect ==
  \/ driver' = "connecting" /\ refused' = FALSE /\ UNCHANGED left
  \/ /\ left.refusals > 0
     /\ left' = [left EXCEPT !.refusals = @ - 1]
     /\ refused' = TRUE /\ driver' = "down"

\* wifi_start_sta asks for WPA unless its scan finds the network open.
BootStation ==
  /\ mode = "boot" /\ "ssid" \in stored
  /\ mode' = "station"
  /\ threshold' = IF router.signal # "none" /\ router.open THEN "open" ELSE "wpa"
  /\ retry' = 0
  /\ Connect
  /\ UNCHANGED <<stored, form, events, handler, online, router, torn>>

BootProvisioning ==
  /\ mode = "boot" /\ "ssid" \notin stored
  /\ mode' = "provisioning" /\ retry' = 0
  /\ UNCHANGED <<stored, form, driver, threshold, events, handler, online, router,
                 refused, torn, left>>

\* config_post_handler, up to its first write.
SubmitForm ==
  /\ mode = "provisioning" /\ form = "none"
  /\ form' = "ssid"
  /\ UNCHANGED <<stored, mode, station, router, torn, left>>

\* Seeded fault: the device restarts after the first entry.
AfterEntryShort(e) == "done"

AfterEntry(e) == CASE e = "ssid" -> "pass" [] e = "pass" -> "done"

\* nvs_store_write_str, with its own commit, or an error that nobody looks at; the
\* name and the role come after and do not matter to the link.
WriteEntry ==
  /\ form \in {"ssid", "pass"}
  /\ form' = AfterEntry(form)
  /\ \/ /\ stored' = stored \cup {form}
        /\ torn' = (torn /\ form = "ssid")
        /\ UNCHANGED left
     \/ /\ left.failures > 0 /\ left' = [left EXCEPT !.failures = @ - 1]
        /\ torn' = (torn \/ form = "pass")
        /\ UNCHANGED stored
  /\ UNCHANGED <<mode, station, router>>

Restart ==
  /\ form = "done"
  /\ Off
  /\ UNCHANGED <<stored, router, torn, left>>

\* wifi_manager_factory_reset, from the button at boot, from the button of a target
\* that runs, or from /clean; it restarts the device whether NVS was erased or not.
FactoryErase ==
  /\ left.erases > 0 /\ left' = [left EXCEPT !.erases = @ - 1]
  /\ \/ stored' = {} /\ torn' = FALSE
     \/ UNCHANGED stored /\ torn' = (torn \/ form = "pass")
  /\ Off
  /\ UNCHANGED router

PowerFailure ==
  /\ left.failures > 0 /\ left' = [left EXCEPT !.failures = @ - 1]
  /\ torn' = (torn \/ form = "pass")
  /\ Off
  /\ UNCHANGED <<stored, router>>

-----------------------------------------------------------------------------
(* The driver and the router. *)

\* An AP below the threshold counts as one that is not there.
Visible == router.signal # "none" /\ (threshold = "open" \/ ~router.open)

\* A protected network also asks for the password.
Reachable == Visible /\ ("pass" \in stored \/ router.open)

Associate ==
  /\ driver = "connecting" /\ Reachable
  /\ driver' = "up" /\ events' = Append(events, "GOT_IP")
  /\ UNCHANGED <<stored, mode, form, threshold, handler, retry, online, router,
                 refused, torn, left>>

\* The event carries the reason; AUTH stands for the failures of authentication and
\* association, HANDSHAKE for the two timeouts of the handshake.
\* Whatever can go wrong does not while the signal is good.
Fail ==
  /\ driver = "connecting" /\ ~(Reachable /\ router.signal = "good")
  /\ driver' = "down"
  /\ \E reason \in {"NOT_FOUND"} \cup IF Visible THEN {"AUTH", "HANDSHAKE"} ELSE {} :
       events' = Append(events, reason)
  /\ UNCHANGED <<stored, mode, form, threshold, handler, retry, online, router,
                 refused, torn, left>>

Drop ==
  /\ driver = "up"
  /\ driver' = "down" /\ events' = Append(events, "LOST")
  /\ UNCHANGED <<stored, mode, form, threshold, handler, retry, online, router,
                 refused, torn, left>>

Fading ==
  /\ \E q \in Signal : q # router.signal /\ router' = [router EXCEPT !.signal = q]
  /\ UNCHANGED <<stored, mode, form, station, torn, left>>

-----------------------------------------------------------------------------
(* The event loop. *)

OnGotIp ==
  /\ handler = "idle" /\ events # <<>> /\ Head(events) = "GOT_IP"
  /\ events' = Tail(events)
  /\ retry' = 0 /\ online' = TRUE
  /\ UNCHANGED <<stored, mode, form, driver, threshold, handler, router, refused,
                 torn, left>>

Relaxes(reason, n) == reason = "HANDSHAKE" \/ (reason = "AUTH" /\ n >= RelaxRetry)

\* Seeded fault: the retry that reaches the limit does nothing.
WaitForGivingUp(n) ==
  CASE n = MidRetry -> "restart" [] n = MaxRetry -> "idle" [] OTHER -> "backoff"

WaitFor(n) ==
  CASE n = MidRetry -> "restart" [] n >= MaxRetry -> "reset" [] OTHER -> "backoff"

\* Seeded fault: the bit survives the first retries.
ClearBitLate(n) == online' = (online /\ n < RelaxRetry)

ClearBit(n) == online' = FALSE

\* on_wifi_disconnect up to where it sleeps.
OnDisconnect ==
  /\ handler = "idle" /\ events # <<>> /\ Head(events) # "GOT_IP"
  /\ events' = Tail(events)
  /\ retry' = retry + 1
  /\ ClearBit(retry')
  /\ handler' = WaitFor(retry')
  /\ threshold' =
       IF retry' < MaxRetry /\ Relaxes(Head(events), retry') THEN "open" ELSE threshold
  /\ UNCHANGED <<stored, mode, form, driver, router, refused, torn, left>>

\* The back-off is over: connect, and if the call is refused once more.
Reconnect ==
  /\ handler \in {"backoff", "again"}
  /\ Connect
  /\ handler' = IF handler = "backoff" /\ refused' THEN "again" ELSE "idle"
  /\ UNCHANGED <<stored, mode, form, threshold, events, retry, online, router, torn>>

\* Seeded fault: the restarted driver keeps its threshold.
ThresholdKept == threshold

ThresholdAfterRestart == "open"

\* Seeded fault: the count goes on after the last retry.
RetryGoesOn == retry

RetryAfterRestart == IF handler = "reset" THEN 0 ELSE retry

\* The driver starts again with what NVS holds; what the call of esp_wifi_connect
\* returns is not looked at.  After the last retry the count begins anew.
RestartDriver ==
  /\ handler \in {"restart", "reset"}
  /\ threshold' = ThresholdAfterRestart
  /\ Connect
  /\ retry' = RetryAfterRestart
  /\ handler' = "idle"
  /\ UNCHANGED <<stored, mode, form, events, online, router, torn>>

Loop == OnGotIp \/ OnDisconnect \/ Reconnect \/ RestartDriver

Provision == SubmitForm \/ WriteEntry \/ Restart

Next ==
  \/ BootStation \/ BootProvisioning
  \/ SubmitForm \/ WriteEntry \/ Restart \/ FactoryErase \/ PowerFailure
  \/ Associate \/ Fail \/ Drop \/ Fading
  \/ OnGotIp \/ OnDisconnect \/ Reconnect \/ RestartDriver

\* The device boots and its event loop runs, users provision a device that asks for
\* it, and an attempt comes to an end.
Fairness ==
  /\ WF_wifiVars(BootStation) /\ WF_wifiVars(BootProvisioning)
  /\ WF_wifiVars(Provision) /\ WF_wifiVars(Loop)
  /\ WF_wifiVars(Associate \/ Fail)

Spec == Init /\ [][Next]_wifiVars /\ Fairness

-----------------------------------------------------------------------------
(* Properties. *)

Reason == {"AUTH", "HANDSHAKE", "NOT_FOUND", "LOST"}

\* Every variable has its type; the retry count stays below its limit but for the
\* moment of the last restart.
TypeOK ==
  /\ stored \subseteq {"ssid", "pass"}
  /\ mode \in {"boot", "provisioning", "station"}
  /\ form \in {"none", "ssid", "pass", "done"}
  /\ driver \in {"down", "connecting", "up"} /\ threshold \in {"wpa", "open"}
  /\ events \in Seq(Reason \cup {"GOT_IP"})
  /\ handler \in {"idle", "backoff", "again", "restart", "reset"}
  /\ retry \in 0..MaxRetry /\ online \in BOOLEAN
  /\ router \in [signal : Signal, open : BOOLEAN]
  /\ refused \in BOOLEAN /\ torn \in BOOLEAN
  /\ left \in [failures : 0..MaxFailures, erases : 0..MaxErases, refusals : 0..MaxRefusals]

\* Where the link of a station is, by its driver and its event loop.
Phase ==
  IF mode # "station" THEN "absent"
  ELSE IF driver = "up" THEN "up"
  ELSE IF driver = "connecting" THEN "trying"
  ELSE IF handler # "idle" \/ events # <<>> THEN "waiting"
  ELSE IF refused THEN "abandoned" ELSE "forgotten"

\* on_wifi_disconnect, wifi_start_sta: a station without a link is always getting at
\* one: an attempt runs, an event waits, or the handler sleeps before the next
\* attempt.  The one exception is a call of esp_wifi_connect that was refused.
StationKeepsTrying ==
  mode = "station" /\ driver = "down" /\ events = <<>> /\ handler = "idle" => refused

\* on_got_ip, on_wifi_disconnect: the bit that all tasks ask says what the driver
\* knows, unless the event that will correct it is still waiting.
BitTruthful ==
  /\ driver = "up" /\ ~online => \E i \in 1..Len(events) : events[i] = "GOT_IP"
  /\ driver # "up" /\ online => \E i \in 1..Len(events) : events[i] \in Reason

\* config_post_handler commits the network's name before its password, looks at the
\* result of neither and restarts, and wifi_evaluate_boot_mode goes by the name alone.
\* A station without a password comes of the form being cut short between the two
\* writes, or of the second having failed, and of nothing else: a failed first write, a
\* failed erase or a restart at any other point leaves none.
NoPasswordOnlyIfTorn == mode = "station" /\ "pass" \notin stored => torn

\* wifi_evaluate_boot_mode to on_got_ip: while the signal stays good, a device gets
\* online again and again, however often it loses the link; or a call of
\* esp_wifi_connect was refused for good, or the password was not stored.  That
\* includes an open network it did not see when it booted: the restart of the driver drops the
\* threshold.
GetsOnline ==
  <>[](router.signal = "good") =>
    []<>online \/ <>[](refused /\ handler = "idle") \/ <>[]torn
=============================================================================

--------------------------------- MODULE Parts ---------------------------------
(***************************************************************************)
(* The parts of the system that share no state with one another: the       *)
(* display, the Wi-Fi link, the status messages, the browser's direct      *)
(* connections and the bridge.  What they have of each other is already in *)
(* their own modules, as inputs: the display asks whether there is Wi-Fi,  *)
(* the status messages meet connections that are made anew.                *)
(*                                                                         *)
(* A behaviour of Parts is a behaviour of one of them, the one that part   *)
(* names; the others stay as they start.  Interleaving parts that do not   *)
(* meet would multiply the states and show nothing more.                   *)
(***************************************************************************)
EXTENDS Naturals

CONSTANTS
  QueueSlots, MaxEvents, MaxPresses,
  MaxRetry, MidRetry, RelaxRetry, MaxFailures, MaxErases, MaxRefusals,
  Tasks, Periodic, WorkSlots, MaxChanges, MaxResets, MaxRejoins, Busy, MaxSeq,
  Objects, Sockets, None, MaxPending,
  Entries, Links, Nobody, MaxWaiting

VARIABLES
  part,
  device, queue, state, deadline, shown, pass, links, player, killed, button,
  spoilt, cancelled, used,
  stored, mode, form, driver, threshold, events, handler, retry, online, router,
  refused, torn, left,
  fields, sending, work, view, budget,
  reachable, current, object, timer, socket, orphans,
  entry, peer, link, waiting, told, stray

Screen == INSTANCE DisplayManager
Wifi == INSTANCE WifiLink
Status == INSTANCE StatusStream
Comm == INSTANCE LocalComm
Bridge == INSTANCE WsBridge

ASSUME PartsAssumption ==
  /\ Screen!DisplayAssumption /\ Wifi!WifiAssumption /\ Status!StatusAssumption
  /\ Comm!CommAssumption /\ Bridge!BridgeAssumption

displayVars ==
  <<device, queue, state, deadline, shown, pass, links, player, killed, button,
    spoilt, cancelled, used>>
wifiVars ==
  <<stored, mode, form, driver, threshold, events, handler, retry, online, router,
    refused, torn, left>>
statusVars == <<fields, sending, work, view, budget>>
commVars == <<reachable, current, object, timer, socket, orphans>>
bridgeVars == <<entry, peer, link, waiting, told, stray>>

vars == <<part, displayVars, wifiVars, statusVars, commVars, bridgeVars>>

PartName == {"screen", "wifi", "status", "comm", "bridge"}

Init ==
  /\ part \in PartName
  /\ Screen!Init /\ Wifi!Init /\ Status!Init /\ Comm!Init /\ Bridge!Init
  /\ part # "screen" => device = "target"
  /\ part # "wifi" => router = [signal |-> "none", open |-> FALSE]
  /\ part # "comm" => reachable

ScreenStep(A) ==
  /\ part = "screen" /\ A
  /\ UNCHANGED <<part, wifiVars, statusVars, commVars, bridgeVars>>

WifiStep(A) ==
  /\ part = "wifi" /\ A
  /\ UNCHANGED <<part, displayVars, statusVars, commVars, bridgeVars>>

StatusStep(A) ==
  /\ part = "status" /\ A
  /\ UNCHANGED <<part, displayVars, wifiVars, commVars, bridgeVars>>

CommStep(A) ==
  /\ part = "comm" /\ A
  /\ UNCHANGED <<part, displayVars, wifiVars, statusVars, bridgeVars>>

BridgeStep(A) ==
  /\ part = "bridge" /\ A
  /\ UNCHANGED <<part, displayVars, wifiVars, statusVars, commVars>>

Next ==
  \/ ScreenStep(Screen!Next) \/ WifiStep(Wifi!Next) \/ StatusStep(Status!Next)
  \/ CommStep(Comm!Next) \/ BridgeStep(Bridge!Next)

\* The part that moves is as fair as its own module says.
Fairness ==
  /\ WF_displayVars(part = "screen" /\ Screen!Pass)
  /\ WF_displayVars(part = "screen" /\ Screen!Elapse)
  /\ WF_displayVars(part = "screen" /\ Screen!PostRespawnStart)
  /\ WF_displayVars(part = "screen" /\ Screen!Respawn)
  /\ WF_displayVars(part = "screen" /\ (Screen!Release \/ Screen!FactoryReset))
  /\ WF_wifiVars(part = "wifi" /\ Wifi!BootStation)
  /\ WF_wifiVars(part = "wifi" /\ Wifi!BootProvisioning)
  /\ WF_wifiVars(part = "wifi" /\ Wifi!Provision)
  /\ WF_wifiVars(part = "wifi" /\ Wifi!Loop)
  /\ WF_wifiVars(part = "wifi" /\ (Wifi!Associate \/ Wifi!Fail))
  /\ \A t \in Tasks : WF_statusVars(part = "status" /\ Status!Finish(t))
  /\ WF_statusVars(part = "status" /\ Status!Deliver)
  /\ \A o \in Objects : WF_commVars(part = "comm" /\ Comm!ReconnectTimer(o))
  /\ \A s \in Sockets :
       /\ WF_commVars(part = "comm" /\ (Comm!OnOpen(s) \/ Comm!ConnectionTimeout(s)))
       /\ WF_commVars(part = "comm" /\ socket[s].state = "closing" /\ Comm!OnClose(s))

Spec == Init /\ [][Next]_vars /\ Fairness

-----------------------------------------------------------------------------
(* The properties of the parts. *)

\* Each part has the types its module states.
TypeOK ==
  Screen!TypeOK /\ Wifi!TypeOK /\ Status!TypeOK /\ Comm!TypeOK /\ Bridge!TypeOK

\* handle_event: see DisplayManager.
ResetScreenExplained == Screen!ResetScreenExplained

\* switch_to_*: see DisplayManager.
IdleScreenShown == Screen!IdleScreenShown

\* display_manager_task: see DisplayManager.
RespawnScreenEnds == Screen!RespawnScreenEnds

\* enter_state: see DisplayManager.
AlertsEnd == Screen!AlertsEnd

\* on_wifi_disconnect: see WifiLink.
StationKeepsTrying == Wifi!StationKeepsTrying

\* The link of a station is a kept connection, which only a call of esp_wifi_connect
\* that is refused can end.
StationLink == INSTANCE KeptConnection
  WITH phase <- Wifi!Phase, MayAbandon <- TRUE, MayDefer <- FALSE

\* wifi_start_sta, on_wifi_disconnect, restart_driver: a station goes from one
\* attempt to the next through every event, back-off and restart of the driver; no
\* event is lost or handled too late to lead to the next attempt, no attempt is made
\* beside another.
KeepsLink == StationLink!Spec

\* on_got_ip: see WifiLink.
BitTruthful == Wifi!BitTruthful

\* config_post_handler: see WifiLink.
NoPasswordOnlyIfTorn == Wifi!NoPasswordOnlyIfTorn

\* wifi_evaluate_boot_mode to on_got_ip: see WifiLink.
GetsOnline == part = "wifi" => Wifi!GetsOnline

\* create_status_json, handleWebSocketMessage: see StatusStream.
NoStepBack == Status!NoStepBack

\* game_state_reset_runtime, handleWebSocketMessage: see StatusStream.
CatchesUp == part = "status" => Status!CatchesUp

\* handleWebSocketClose: see LocalComm.
BrowserKeepsTrying == Comm!BrowserKeepsTrying

\* The connection of the browser to a device is a kept one, which nothing ends but its
\* removal.
BrowserLink == INSTANCE KeptConnection
  WITH phase <- Comm!Phase, MayAbandon <- FALSE, MayDefer <- FALSE

\* connectToDevice, handleWebSocketClose, scheduleReconnect, removeDevice: however
\* often the device is removed and added, and whichever object's timers fire and
\* sockets close, the browser tries, waits and tries again.
BrowserKeepsLink == BrowserLink!Spec

\* connectToDevice: see LocalComm.
OneSocketPerObject == Comm!OneSocketPerObject

\* removeDevice: see LocalComm.
OnlyOrphansStay == Comm!OnlyOrphansStay

\* scheduleReconnect: see LocalComm.
BrowserComesBack == Comm!BrowserComesBack

\* ws.on('close') of the bridge: see WsBridge.
BridgeKeepsTrying == Bridge!BridgeKeepsTrying

\* So is that of the bridge, where an address that cannot be dialled waits at once.
BridgeLink == INSTANCE KeptConnection
  WITH phase <- Bridge!Phase, MayAbandon <- FALSE, MayDefer <- TRUE

\* connectToDevice of the bridge and its handlers: timers that nobody holds, sockets
\* of removed entries and addresses the constructor refuses neither break off a try
\* nor use up the next one.
BridgeKeepsLink == BridgeLink!Spec

\* broadcastToBrowsers: see WsBridge.
ToldTruthfully == Bridge!ToldTruthfully
=============================================================================

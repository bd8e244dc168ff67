---------------------------- MODULE DisplayManager ----------------------------
(***************************************************************************)
(* The display of a device: the task of                                    *)
(* esp32/shared/src/display_manager.cpp and the tasks that post events to  *)
(* its queue.                                                              *)
(*                                                                         *)
(* A pass of the display task drains the queue, lets a timed screen        *)
(* expire, polls the player and the network, and draws; other tasks post   *)
(* at any point between.  A post never waits: when the queue is full the   *)
(* event is gone.  The task posts RESPAWN_COMPLETE to its own queue.       *)
(*                                                                         *)
(* Only events that some task posts are modelled.  Nobody posts the error  *)
(* and Wi-Fi events, so ERROR and ALERT_DISCONNECTED are never entered,    *)
(* the state to return to is never ERROR, and an alert that ends leaves    *)
(* IDLE.  The five alerts differ in text and length alone, neither of      *)
(* which matters here.                                                     *)
(***************************************************************************)
EXTENDS Naturals, Sequences

CONSTANTS
  QueueSlots,  \* length of s_q, 8 in the code
  MaxEvents,   \* bound: hits, kills and messages
  MaxPresses   \* bound: presses of the reset button

\* What the constants are assumed to be; Parts assumes it of its instance.
DisplayAssumption ==
  /\ QueueSlots \in Nat \ {0}
  /\ MaxEvents \in Nat /\ MaxPresses \in Nat

VARIABLES
  device,    \* s_dev
  queue,     \* s_q
  state,     \* s_state
  deadline,  \* s_state_until_ms: 0, ahead or reached
  shown,     \* the widget group under the alert
  pass,      \* the part of its loop the display task is in
  links,     \* what wifi_connected and ws_connected answer
  player,    \* what is_respawning answers
  killed,    \* processing_task has posted KILLED and RESPAWN_START is next
  button,    \* what reset_button_task is doing
  spoilt,    \* history: of this press no progress was posted, a post was lost, or
             \* the reset screen was taken over
  cancelled, \* history: the last change of state was a cancelled reset
  used       \* events and presses so far, for the bounds

game == <<links, player, killed>>
display == <<state, deadline, shown, cancelled>>
displayVars ==
  <<device, queue, state, deadline, shown, pass, links, player, killed, button,
    spoilt, cancelled, used>>

AlertEvent == {"HIT", "KILLED", "KILL", "MSG"}

\* RESET carries the progress: HELD stands for any that is not 0, RELEASED for 0.
ResetEvent == {"HELD", "RELEASED"}

Event == AlertEvent \cup ResetEvent \cup {"RESPAWN_START", "RESPAWN_COMPLETE"}

State == {"BOOT", "CONNECTING", "IDLE", "RESPAWNING", "ALERT", "FACTORY_RESET"}

\* display_manager_init: the boot screen, for 800 ms.
Start(d) ==
  /\ queue' = <<>>
  /\ state' = "BOOT" /\ deadline' = "ahead" /\ shown' = "boot"
  /\ pass' = "drain" /\ links' = {} /\ player' = "up" /\ killed' = FALSE
  /\ button' = "up" /\ spoilt' = FALSE /\ cancelled' = FALSE
  /\ device' = d

Init ==
  /\ device \in {"target", "weapon"}
  /\ queue = <<>>
  /\ state = "BOOT" /\ deadline = "ahead" /\ shown = "boot"
  /\ pass = "drain" /\ links = {} /\ player = "up" /\ killed = FALSE
  /\ button = "up" /\ spoilt = FALSE /\ cancelled = FALSE
  /\ used = [events |-> 0, presses |-> 0]

-----------------------------------------------------------------------------
(* The display task. *)

Full == Len(queue) >= QueueSlots

\* display_manager_post: xQueueSend that does not wait.
Post(e) == queue' = IF Full THEN queue ELSE Append(queue, e)

EnterState(st) == state' = st /\ deadline' = "none"

\* Seeded fault: an alert without a duration.
EnterAlertUntimed == state' = "ALERT" /\ deadline' = "none"

EnterAlert == state' = "ALERT" /\ deadline' = "ahead"

Enters(st, widget) == EnterState(st) /\ shown' = widget /\ cancelled' = FALSE

\* Another event takes the place of the reset screen.
TakeOver == spoilt' = (spoilt \/ state = "FACTORY_RESET")

ShowAlert ==
  /\ Head(queue) \in AlertEvent
  /\ EnterAlert /\ cancelled' = FALSE
  /\ TakeOver
  /\ UNCHANGED shown

ShowRespawn ==
  /\ Head(queue) = "RESPAWN_START"
  /\ device = "target"
  /\ Enters("RESPAWNING", "respawn")
  /\ TakeOver

ShowReady ==
  /\ Head(queue) = "RESPAWN_COMPLETE"
  /\ EnterAlert /\ shown' = "idle" /\ cancelled' = FALSE
  /\ TakeOver

\* The first progress of a reset takes the respawn widgets for its bar, whatever
\* the progress is.
ShowReset ==
  /\ Head(queue) \in ResetEvent
  /\ state # "FACTORY_RESET"
  /\ Enters("FACTORY_RESET", "respawn")
  /\ UNCHANGED spoilt

\* Seeded fault: a release is taken for one more report of progress.
KeepReset ==
  /\ Head(queue) \in ResetEvent
  /\ state = "FACTORY_RESET"
  /\ UNCHANGED <<display, spoilt>>

\* "Button released early" returns to IDLE, but leaves the widgets as they are.
UpdateReset ==
  /\ Head(queue) \in ResetEvent
  /\ state = "FACTORY_RESET"
  /\ IF Head(queue) = "RELEASED"
       THEN EnterState("IDLE") /\ cancelled' = TRUE /\ UNCHANGED shown
       ELSE UNCHANGED display
  /\ UNCHANGED spoilt

HandleEvent ==
  /\ pass = "drain" /\ queue # <<>>
  /\ queue' = Tail(queue)
  /\ ShowAlert \/ ShowRespawn \/ ShowReady \/ ShowReset \/ UpdateReset
  /\ UNCHANGED <<device, pass, game, button, used>>

Drained ==
  /\ pass = "drain" /\ queue = <<>>
  /\ pass' = "expiry"
  /\ UNCHANGED <<device, queue, display, game, button, spoilt, used>>

\* Seeded fault: the screen under the alert is not changed.
AlertOverBare == EnterState("IDLE") /\ cancelled' = FALSE /\ UNCHANGED shown

AlertOver == Enters("IDLE", "idle")

\* The timed screens, when their time is over.
Expire ==
  /\ pass = "expiry" /\ pass' = "poll"
  /\ CASE deadline = "reached" /\ state = "BOOT" /\ "wifi" \in links -> Enters("IDLE", "idle")
       [] deadline = "reached" /\ state = "BOOT" /\ "wifi" \notin links ->
            Enters("CONNECTING", "connecting")
       [] deadline = "reached" /\ state = "ALERT" -> AlertOver
       [] OTHER -> UNCHANGED display
  /\ UNCHANGED <<device, queue, game, button, spoilt, used>>

\* Seeded fault: the respawn is taken to be over only while its screen is fading.
PollRespawnTimed ==
  IF state = "RESPAWNING" /\ player = "up" /\ deadline # "none"
    THEN Post("RESPAWN_COMPLETE")
    ELSE UNCHANGED queue

\* A respawn screen whose player is up again: sent once more in every pass until
\* the event has come through.
PollRespawn ==
  IF state = "RESPAWNING" /\ device = "target" /\ player = "up"
    THEN Post("RESPAWN_COMPLETE")
    ELSE UNCHANGED queue

Poll ==
  /\ pass = "poll" /\ pass' = "drain"
  /\ PollRespawn
  /\ IF state = "CONNECTING" /\ links # {}
       THEN Enters("IDLE", "idle")
       ELSE UNCHANGED display
  /\ UNCHANGED <<device, game, button, spoilt, used>>

Elapse ==
  /\ deadline = "ahead" /\ deadline' = "reached"
  /\ UNCHANGED <<device, queue, state, shown, cancelled, pass, game, button, spoilt, used>>

-----------------------------------------------------------------------------
(* The tasks that post. *)

Count == used.events < MaxEvents /\ used' = [used EXCEPT !.events = @ + 1]

\* processing_task confirms a hit that leaves hearts.
Hit ==
  /\ device = "target" /\ player = "up" /\ ~killed
  /\ Count
  /\ Post("HIT")
  /\ UNCHANGED <<device, display, pass, game, button, spoilt>>

\* A hit that takes the last heart: two posts, the respawn having begun before.
Kill ==
  /\ device = "target" /\ player = "up" /\ ~killed
  /\ Count
  /\ Post("KILLED")
  /\ player' = "down" /\ killed' = TRUE
  /\ UNCHANGED <<device, display, pass, links, button, spoilt>>

PostRespawnStart ==
  /\ killed /\ killed' = FALSE
  /\ Post("RESPAWN_START")
  /\ UNCHANGED <<device, display, pass, links, player, button, spoilt, used>>

\* The countdown of the game state is over, whether the display has heard of it
\* or not.
Respawn ==
  /\ player = "down" /\ player' = "up"
  /\ UNCHANGED <<device, queue, display, pass, links, killed, button, spoilt, used>>

\* The weapon: a kill over the radio, a browser that comes or goes.
Notify ==
  /\ device = "weapon"
  /\ Count
  /\ \E e \in {"KILL", "MSG"} : Post(e)
  /\ UNCHANGED <<device, display, pass, game, button, spoilt>>

Connectivity ==
  /\ \E l \in SUBSET {"wifi", "ws"} : links' = l
  /\ UNCHANGED <<device, queue, display, pass, player, killed, button, spoilt, used>>

\* reset_button_task finds the button down; it looks again before it posts anything.
Press ==
  /\ device = "target" /\ button = "up"
  /\ used.presses < MaxPresses
  /\ used' = [used EXCEPT !.presses = @ + 1]
  /\ button' = "seen"
  /\ UNCHANGED <<device, queue, display, pass, game, spoilt>>

\* Still down: the progress so far.
Hold ==
  /\ button \in {"seen", "down"} /\ button' = "down"
  /\ Post("HELD") /\ spoilt' = (Full \/ (spoilt /\ button = "down"))
  /\ UNCHANGED <<device, display, pass, game, used>>

\* Up again: progress 0, also when the second look already finds it up, so that 0 is
\* the only progress posted.
Release ==
  /\ button \in {"seen", "down"} /\ button' = "up"
  /\ Post("RELEASED") /\ spoilt' = (Full \/ spoilt \/ button = "seen")
  /\ UNCHANGED <<device, display, pass, game, used>>

\* Held for three seconds: wifi_manager_factory_reset restarts the device.
FactoryReset ==
  /\ button = "down"
  /\ Start(device)
  /\ UNCHANGED used

Pass == HandleEvent \/ Drained \/ Expire \/ Poll

Next ==
  \/ HandleEvent \/ Drained \/ Expire \/ Poll \/ Elapse
  \/ Hit \/ Kill \/ PostRespawnStart \/ Respawn \/ Notify \/ Connectivity
  \/ Press \/ Hold \/ Release \/ FactoryReset

\* The tasks run, time passes, respawns end, and nobody holds the button for ever.
Fairness ==
  /\ WF_displayVars(Pass) /\ WF_displayVars(Elapse)
  /\ WF_displayVars(PostRespawnStart) /\ WF_displayVars(Respawn)
  /\ WF_displayVars(Release \/ FactoryReset)

Spec == Init /\ [][Next]_displayVars /\ Fairness

-----------------------------------------------------------------------------
(* Properties. *)

\* Every variable has its type.
TypeOK ==
  /\ device \in {"target", "weapon"}
  /\ queue \in Seq(Event) /\ Len(queue) <= QueueSlots
  /\ state \in State /\ deadline \in {"none", "ahead", "reached"}
  /\ shown \in {"boot", "connecting", "idle", "respawn"}
  /\ pass \in {"drain", "expiry", "poll"}
  /\ links \subseteq {"wifi", "ws"} /\ player \in {"up", "down"} /\ killed \in BOOLEAN
  /\ button \in {"up", "seen", "down"} /\ spoilt \in BOOLEAN /\ cancelled \in BOOLEAN
  /\ used \in [events : 0..MaxEvents, presses : 0..MaxPresses]

ResetPending == \E i \in 1..Len(queue) : queue[i] \in ResetEvent

\* handle_event (FACTORY_RESET): the reset screen has no time limit and only a
\* release event ends it.  Once the button is up and the queue holds nothing of it,
\* the screen stays only if an event of the button was lost to a full queue,
\* another event took the screen in between, or the press was so short that its
\* release was its only event, which enters the screen instead of ending it.
ResetScreenExplained ==
  state = "FACTORY_RESET" /\ button = "up" /\ ~ResetPending => spoilt

\* switch_to_*: an idle device shows the idle screen, except after a reset that was
\* cancelled, which leaves the reset bar on the screen.
IdleScreenShown == state = "IDLE" /\ shown # "idle" => cancelled

\* display_manager_task: the respawn screen of a player that is up again ends,
\* although RESPAWN_COMPLETE may be lost to a full queue.
RespawnScreenEnds ==
  (state = "RESPAWNING" /\ player = "up") ~> (state # "RESPAWNING" \/ player = "down")

\* enter_state: no alert stays for good.
AlertsEnd == state = "ALERT" ~> state # "ALERT"
=============================================================================

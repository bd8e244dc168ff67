# RayZ: a verification project in TLA+

RayZ is a laser-tag system: ESP32 firmware for *weapons* (laser) and *targets*
(photodiode), a web application that configures devices and runs matches, and a
small bridge between the two. This directory holds TLA+ models of its parts,
TLC configurations that check them on small instances, and proofs checked by
TLAPS. Paths below are relative to the repository; every definition that models
code is listed with the lines it stands for under `map` in `PROJECT.json`.

## 1. Inventory

### Firmware (`esp32/`)

| Component | State | Operations | Interacts with |
|---|---|---|---|
| Game state, `shared/src/game_state.cpp` | `s_config` (ids), `s_game_cfg` (mode, limits, hearts), `s_state` (running/paused/over, end time, pause time, kills, hits, deaths, hearts, respawn, sequence number), one mutex | start, stop, pause, resume, extend, update target, reset, tick, record hit/kill/death, start/check respawn, NVS load and save | every task of the device |
| WebSocket handlers, `shared/src/ws_server.cpp` | the message being handled | CONFIG_UPDATE, GAME_COMMAND, HIT_FORWARD, KILL_CONFIRMED, GET_STATUS, HEARTBEAT, roster, sound | game state (partly without its mutex), client table |
| Client table, same file | `s_clients[8]`, `s_server`, a mutex; httpd's sessions | handshake, frame, CLOSE, sweep, broadcast | httpd, `ws_task`, every task that broadcasts |
| Target tasks, `target/src/tasks/` | loop positions, last valid word, confirmation count, queues | sample photodiode, confirm a hit, record a death, tick and respawn poll, credit kills | game state, ESP-NOW, display |
| Weapon tasks, `weapon/src/tasks/` | trigger, shot counter, queues | fire, transmit, sweep clients, respawn poll, credit kills | game state, ESP-NOW, client table |
| Laser word, `shared/include/hash.h` | none | create, validate | weapon and target tasks |
| ESP-NOW, `shared/src/espnow_comm.cpp` | receive queue (16), peers, send mutex | broadcast, receive | weapon and target tasks |
| Display manager, `shared/src/display_manager.cpp` | screen state, return state, deadline, event queue | 11 events, timed and polled transitions | tasks that post events |
| Wi-Fi, `shared/src/wifi_core.cpp`, `wifi_manager.cpp` | boot mode, retry count, event bits, server handle | disconnect with back-off and driver reset, got-IP | httpd, ESP-NOW (channel) |
| Provisioning and HTTP API, `wifi_http.cpp`, `http_api.cpp`, `nvs_store.cpp`, `dns_server.cpp` | NVS entries | form post, clean, info | Wi-Fi, restart |

### Web (`web/`)

| Component | State | Operations |
|---|---|---|
| `apps/frontend/src/lib/comm/LocalComm.ts` | per device: socket, connected, reconnecting, last sequence number, timers | connect, send, receive (drops old sequence numbers), close, reconnect |
| `lib/websocket/DeviceConnectionContext.tsx` | per address: socket, mark of a pending attempt, retries, reconnect timer, displayed state | mount and clean up, connect, disconnect, add, remove, retry, reconnect after a close event |
| `lib/comm/CloudComm.ts` | Ably channels, presence | publish commands |
| `apps/ws-bridge/src/index.ts` | device map, browser sockets | add, remove, connect, relay |
| Project manager, server actions, database | match set-up, Prisma tables | user interface and CRUD |

`PROJECT.json` lists all of them, the unmodelled ones with the reason.

### What is hard, and what must hold

A device has five to eight FreeRTOS tasks on one copy of the game state. Its
setters lock; several readers and one writer do not. Commands from the browser,
laser hits, radio messages and the clock arrive in any order.

* **Game state**: a time game lasts as long as it was given, however often it is
  paused and extended; the tick ends only a game that is due, and ends it
  eventually; a round starts clean; a player gets to zero hearts outside a respawn only
  where the hearts are configured as 0; the sensor takes one life once. Hard because `game_state_tick` and
  `game_state_check_respawn` test before they lock, START and RESET are two
  locked halves, CONFIG_UPDATE writes fields one by one without the lock, and
  `processing_task` checks the respawn 50 ms before it records the death.
* **Client table**: one entry per socket, room for every new client, nobody
  connected but deaf unless httpd refused to close the session, and a device that has lost its clients notices. Hard
  because httpd ends sessions without telling the table, reuses descriptors, and
  a weapon's `ws_task` sweeps between the critical sections of `ws_handler`.
* **Status channel and browser**: the browser's picture follows the device. Hard
  because numbers are drawn before the fields are read and sent after unlock, events
  without fields draw from the same counter, and START resets the counter that the browser uses to drop duplicates.
* **Device connections**: one reconnect loop per device, never lost without an error
  on the screen while it is wanted, gone with the page, ending in a connection or in giving up. Hard
  because close events arrive long after `close()`, possibly after the address
  has a new socket, and every handler looks things up by address.
* **Laser link**: a hit needs two receptions of one word within 500 ms; a weapon
  counts only kills that were announced for it or confirmed by the browser, and
  a hit is credited only to weapons that went by its id when it was announced. Hard
  because of two lossy queues, a lossy radio, ids that every start draws anew, a device
  id that `espnow_task` copies when it starts, and the browser's second
  report of the same hit.
* **Display**: a screen without a time limit ends when what it is about ends. Hard
  because the events come through a queue that drops them when it is full, and an
  alert remembers a screen that may itself be an alert.
* **Wi-Fi and provisioning**: a station without a link always has something to
  come, and a device that was set up gets online. Hard because one handler counts,
  sleeps, restarts the driver and connects, because events wait while it sleeps,
  and because the form is stored in separate commits.
* **Direct connections and bridge**: a listed device is never forgotten and never
  has two sockets of one object. Hard because handlers keep the object they were
  made for and look the address up, and a device can be removed and added between.

`PROJECT.json` lists each hazard at its line, with the properties that cover it.

## 2. Modules

| Module | Models | Lines |
|---|---|---|
| `GameState` | one device's game state and the tasks that share it | state machine, properties |
| `GameStateProofs` | the inductive invariant of `GameState` and its theorems | TLAPS |
| `MCGameState` | instances of `GameState` | TLC |
| `WsServer` | client table, sessions, `ws_handler`, sweep | state machine, properties |
| `WsServerProofs` | the inductive invariant of `WsServer` and its theorems | TLAPS |
| `MCWsServer` | instances of `WsServer` | TLC |
| `DeviceConnection` | the browser's connection to one device | state machine, properties |
| `DeviceConnectionProofs` | its inductive invariant and theorems | TLAPS |
| `MCDeviceConnection` | instances of `DeviceConnection` | TLC |
| `MatchRound` | the abstract round, which `GameState` implements | abstract specification |
| `HitLink` | a hit from the trigger to the kill counter: weapons, light, one target, radio | state machine, properties |
| `HitLinkProofs` | its inductive invariant and theorems | TLAPS |
| `MCHitLink` | an instance of `HitLink` | TLC |
| `DisplayManager` | the display task and the tasks that post to its queue | state machine, properties |
| `WifiLink` | NVS, boot mode, the Wi-Fi driver's events and their handlers | state machine, properties |
| `StatusStream` | status messages from several tasks to the browser's filter | state machine, properties |
| `LocalComm` | the browser's direct connections, one address | state machine, properties |
| `WsBridge` | the bridge, one address | state machine, properties |
| `KeptConnection` | what the three ways to a peer promise, without sockets, timers and events | abstract specification |
| `Parts` | the five modules before it, of which each behaviour moves one | composition, properties |
| `MCParts` | an instance of `Parts` | TLC |
| `DisplayManagerProofs`, `WifiLinkProofs`, `StatusStreamProofs`, `LocalCommProofs` | the theorems about `Parts`, part by part; `LocalCommProofs` also has those about the bridge | TLAPS |

### GameState

Variables and code: `now` is `esp_timer_get_time`; `cfg` is `s_game_cfg` (mode,
target, time limit, hearts, cooldown; minutes, seconds and milliseconds are all
ticks); `st` is `s_state`; `httpd`, `task`, `proc` and `espnow` say how far each
task is in its handler or loop body; `update` holds the fields a running
CONFIG_UPDATE has still to write; `seen` is the local copy of the hearts in
`game_state_record_death`; `arming` says that a locked body has set `respawning`
and not yet `respawn_end_time_ms`. `hist` is history for the properties: time
granted and played in this round, respawns, forwarded deaths.

Atomicity. A body under the game-state mutex is one action, since all that read
and write under the mutex exclude each other. Everything the code does outside
it is a step of its own:

* `TickCheck` and `TickWin`: the test before the lock and the decision under it;
* `PollRespawn` and `Revive`: the same for `game_state_check_respawn`, on
  `game_task` and on `ws_task`;
* `StartReset`/`StartGame` and `ResetStats`/`ResetFinish`: two locked halves;
* `ConfigWrite(i)`: one field at a time, any number, hearts of 0 included;
  `spawn_hearts` is also copied into the live hearts (`ws_server.cpp:190`);
* `DeathBegin`/`DeathEnd`: the read and the write of the hearts, split because
  `ConfigWrite` may write between them;
* `Arm`: the end of the countdown, split because `PollRespawn` may read between
  the flag and it;
* `ForwardHit`, `ForwardCheck`, `ForwardRespawn`, `ForwardDeath`: the calls of
  `handle_hit_forward`; it reads the hearts with no lock held.

`LockFree` is false while a split locked body is half done. The httpd task runs
one handler at a time, so `httpd` is a single program counter.

### WsServer

`client` is `s_clients` (active, descriptor, idle time instead of a time stamp;
one tick beyond the timeout all ages are alike); `sess` is httpd's session of
each descriptor together with the state of its socket: `http` accepted, `ws`
upgraded, `silent` upgraded with a peer that vanished without a trace, `broken`
with a pending error; `closing` holds the requests of
`httpd_sess_trigger_close`; `httpd` is the position in `ws_handler`. A request goes
through httpd's work queue and may fail; `ws_server_cleanup_stale` has then dropped the
entry all the same (`ws_server.cpp:600`). The history `refused` keeps those sessions, until they
end or their client sends something and is tracked again.

`Accept`, `PeerFails`, `SessionEnds` and `RunClose` are ESP-IDF and the network,
modelled from how `ws_server.cpp` uses them: httpd deletes a session at the end
of its connection without calling `ws_handler`, runs requests to close between
two handlers, gives a descriptor to the next connection, and never keeps more
than `MaxOpen` (`max_open_sockets`, 7) sessions, fewer than `MAX_WS_CLIENTS` (8).
A request to close names the descriptor, so it closes whoever has it by then.
`Handshake`, `HandshakeCleanup`, `HandshakeDrop`, `HandshakeAdd` and `Frame`,
`FrameTrack`, `FrameTouch`, `FrameProcess` are the critical sections of
`ws_handler` in order; `Leave` is CLOSE or an unreadable header; `Sweep` is the
weapon's `ws_task`, which may run between any two of them. A target has none
(`Sweeps = FALSE`).

Simplifications: a session is identified with its descriptor; frames of length zero or beyond the
buffer are read and forgotten; the `on_connect` callback (a display message) and
a second `ws_server_init` are left out.

### DeviceConnection

`sock` is the `readyState` of each WebSocket of one address; `conn` collects what
`DeviceConnectionsProvider` keeps for that address: `ref` (`websocketsRef`),
`connecting` (`connectingRef`), `should` (`shouldReconnectRef`), `retries`
(`retryCountRef`), `state` (the displayed connection state; `absent` for an
address that is not listed) and the reconnect timers: `pending` counts those that
are armed, `held` says that the one in `reconnectTimeoutsRef` is among them.
`page` is the life of the provider. JavaScript runs one callback at a time, so a
click, an effect, a timer or a socket event is one action: `Mount` and
`StrictMount` (React's Strict Mode runs effect, cleanup and effect again),
`Connect`, `Disconnect`, `Remove`, `Add`, `Retry` under the conditions in which
`DeviceConnectionCard` and `GameControlPanel` offer them, `Unmount`,
`ReconnectTimer`, `AttemptTimesOut`, `OnOpen`, `OnClose`. `ConnectDevice` is
`connectDevice` with all its early returns and is part of the actions that call
it. What interleaves are the events of several sockets: `OnClose` of an old
socket may follow any number of clicks.

Modelled is a local page over http with automatic connection and reconnection, and
a positive `maxRetries`. Delays are not: a timer goes off some time after it was armed,
and the timeout of an attempt strikes at any moment or never (`onclose` of one
socket may even cancel the timeout of another). Left out are heartbeats and
messages, `onerror` (it changes only the text of the last error), pages over https
or through the bridge. Each attempt may make a socket or meet a constructor that throws
(`Thrown`: an address like 192.168.1.300 is not checked before).

Three things the model shows that no property forbids: a device whose constructor threw
stays to be reconnected with nothing armed and only its error on the screen; after a Strict Mode mount
the initial devices stay unconnected until somebody clicks, and a device removed
while its socket closes is listed again by the late close event.

### MatchRound

The round without locks, tasks or end times: `phase` (idle, running, paused,
over), `timed`, the time `left`, and `judging`, what a referee who looks first and
decides later has seen. `GameState!Round` is the refinement mapping
(`INSTANCE MatchRound WITH`, in `GameState`): the phase from running, paused and
over; the time left from `game_end_time_ms`, `paused_at_ms` and the clock; the
referee from the position of `game_task` in its tick. `ImplementsMatchRound` says
that every step of `GameState` is a step of the round or leaves it alone. What
makes it more than a renaming: START and RESET are two locked halves of which one
must be a stutter, the pause is bookkeeping in absolute times, and the tick
decides on a look that a PAUSE, a STOP or a START may have overtaken.

### HitLink

`id` is the player and device id in the configuration of a weapon, `cached` the device
id its `espnow_task` copied when it started; `laser`, `photo` and `rx` are the queues of
`control_task`, `photodiode_task` and `espnow_comm`, each of which drops what
does not fit; `half` and `age` are the word received once and the time since;
`proc` says where `processing_task` is with a hit (before the record of the
death, before the broadcast). `Fire`, `Transmit`, `Receive`, `KillConfirmed`,
`Rename` (CONFIG_UPDATE, to any ids) and `Restart` are the weapon's; `WordWhileDown`,
`WordWaits`, `HitConfirmed`, `RecordDeath`, `Announce`, `Respawn` and
`TargetRestart` the target's.

Nothing keeps ids apart. `app_main` calls `game_state_init` before NVS is initialised, so
the saved ids are not found and every start draws a device id from 1 to 63 and derives the
player id from it (`Drawn`): `Restart(w, d)` takes any `d`, also one that another weapon
has, or one whose words and HIT_EVENTs are still under way. `connected` (the answer of
`ws_server_is_connected` at that moment), the target's owner and the roster are inputs of
`HitConfirmed`, any of them at any time (`Ignored`). Which words a beam spoils is not
modelled, only that any may be lost. The death itself, its hearts and its countdown are in
`GameState`.

`hist` counts, for the properties, per device id the shots, the confirmed hits and the
announcements, and per weapon the kills confirmed by the browser since it started; a
HIT_EVENT remembers the weapons that went by its id when it was announced (`known`).
The device id is all the target and the radio know of a weapon, so what can hold is said by
id: `KillsCostShots` spans the whole chain, from two shots fired under an id to one kill of
a weapon that goes by it.

What it shows beyond its properties: two weapons that share an id are both credited with
one hit, a word of each makes a hit of the two, and a hit by a weapon whose id was changed
and that has not restarted is credited by the old id. What cannot happen is that a weapon
that comes to an id later is credited with what was announced for it before
(`OneCreditPerHit`): the id is copied only where the receive queue is made anew.

### DisplayManager

`queue`, `state`, `deadline` and `shown` are `s_q`, `s_state`, `s_state_until_ms`
(none, ahead, reached) and the group of widgets under an alert; `pass` is the part
of the loop the task is in. `HandleEvent` is `handle_event` for the next event,
`Drained`, `Expire` and `Poll` the rest of a pass; `Post` drops what does not fit.
`Hit`, `Kill`, `PostRespawnStart`, `Respawn`, `Notify`, `Connectivity`, `Press`, `Hold`,
`Release` and `FactoryReset` are the posting tasks. Two histories: `spoilt` (no
progress of this press was posted, an event of it was lost, or another event took the reset
screen over) and
`cancelled` (the last change of screen was a cancelled reset).

`reset_button_task` looks at the pin twice before it posts anything (`Press`, then `Hold`
or `Release`): of a press that ends in between, progress 0 is the only event.

Nobody posts the error and Wi-Fi events of `display_manager.h`, so their cases
never run and are left out. Drawing is output.

What it shows beyond its properties: a cancelled factory reset leaves its bar on
an idle screen, and a release that is handled after a kill has taken the screen, or that
is the only event of its press, enters the reset screen, which then nothing but another
press ends.

### WifiLink

`stored` is NVS, `mode` the boot mode, `form` the next entry `config_post_handler`
commits, `driver` and `threshold` the station, `events` the event loop's queue,
`handler` what `on_wifi_disconnect` sleeps for, `retry` and `online` its count
and the connected bit, `router` the access point. `OnDisconnect` is the handler up
to its sleep, `Reconnect` and `RestartDriver` what follows; `OnGotIp`, `BootStation`,
`BootProvisioning`, `SubmitForm`, `WriteEntry`, `Restart`, `FactoryErase` and
`PowerFailure` the other steps of the device; `Associate`, `Fail`, `Drop` and
`Fading` are the driver and the air. Reasons are grouped by what the handler tells
apart. The lengths of the back-off do not matter to any property. A call of
`esp_wifi_connect` may be refused; no event follows a refused call, and the
handler asks once more after the back-off only. A write to NVS or its erasure may fail:
`config_post_handler` and `wifi_manager_factory_reset` go on regardless. Modelled is one network whose
password the user types correctly.

### StatusStream

`fields.version` stands for all fields of the status; every change of any of them
increases it. `Compose` is `create_status_json` (a number, drawn under the mutex,
then the fields, without it); `Report` is a hit report, a shot or a respawn, which draws
from the same counter and carries no fields; `Send` the hand-over to httpd's work queue,
`Deliver` the work item, the wire and `handleWebSocketMessage` with its filter by
`lastSeqId`, which an event raises like a status (`Seen`); `Reset` is
`game_state_reset_runtime` or a restart; `Rejoin` a connection made anew, for an object of
the browser that lives on or for a new one. A work queue that is full loses the message.
Periodic statuses are at least ten seconds apart, so what one sent has arrived before the next
(`Quiet`). Acknowledgements carry no number and pass the filter without a trace.

What it shows: a later number can carry older fields than an earlier one, since the
fields are read after the number is drawn, and a status that an event overtakes is dropped;
but the browser never shows fields older than they were when the number of any status it
has taken was drawn, `view.floor` (`NoStepBack`), until the counter is cleared or the
device is removed and added. Of an event no such thing holds: after a hit the browser may
have taken the number of the report and show the fields before the death until the next status.
After a START or RESET the browser drops the device's messages until the counter
has caught up with the largest number it has seen. It does catch up if `ws_task` goes on
finding a heartbeat due (`CatchesUp`, with `StatusGoesOn` as its premise). The code alone does
not make it so: `ws_server.cpp:387` starts the ten seconds anew at every HEARTBEAT of a
browser, `LocalComm` sends one every ten seconds by default, and its answer brings neither a
number nor fields. HEARTBEATs more than fifteen seconds apart, or none, satisfy the premise, since
`ws_task` asks every five.

### LocalComm and WsBridge

Both model one address. `current`/`entry` is what the map has for it, `object`/`peer`
the connection objects, `socket`/`link` the sockets with the object their handlers
were made for, `timer`/`waiting` the armed reconnect timers. Actions are the
handlers and timers, as JavaScript runs one callback at a time: `AddDevice`,
`RemoveDevice`, `ReconnectTimer`, `ConnectionTimeout`, `OnOpen`, `OnClose` in
`LocalComm`; `Add`, `Remove`, `Timer`, `Open`, `OnClosed`, `Join` in `WsBridge`. `told`
is what the last message to the browsers said of the device, and `stray` that it
came from a socket of an object no longer in the map. Objects and sockets that
nobody refers to any more are used again as new ones.

What they show: in both, a device removed while it connects leaves a socket behind
that opens later and stays (`OnlyOrphansStay` says that it is this case alone), and
in the bridge such a socket makes the browsers believe that the device is there.

The bridge takes any address, so its `Dial` has the constructor that throws and arms a timer
at once; `LocalComm` lets only four numbers up to 255 through, for which it does not (a
number written like 08 aside, which the model leaves out).

### KeptConnection

What WifiLink, LocalComm and WsBridge have in common: a peer that is wanted is being
tried, up, or waiting for its next try, until it is dismissed, and only a connection
that `MayAbandon` can end where nothing will try it again, only one that `MayDefer` can wait
before anything was under way (the bridge's). `Phase` in each of the
three modules is the refinement mapping; `Parts` instantiates `KeptConnection` with
it (`StationLink`, `BrowserLink`, `BridgeLink`). The browser and the bridge never give
up, so that their phase is read off the map, the objects, the sockets and the timers
together, and a timer that finds its object engaged, a close event of an old object or
a device removed and added again must all come out as stutters or as steps of the
kind allowed. A station is abandoned where the driver refused a connection and no
event will follow.

### Parts

The five modules share no variable. `Parts` instantiates them under the names
`Screen`, `Wifi`, `Status`, `Comm` and `Bridge`; the variable `part` picks the one that
moves, the others stay as they start. To interleave parts that do not meet would
multiply the states and show nothing more. Where they do meet, the module has it as
an input: the display asks whether there is Wi-Fi (`Connectivity`), the status
messages meet connections that are made anew (`Rejoin`).

## 3. Runs

| Run | Checks | Distinct states |
|---|---|---|
| `game_clock` | `TimeBudget`, `GameEndsOnlyWhenDue`, `ImplementsMatchRound`: time and score games under all commands and retyping CONFIG_UPDATEs | 1.0 million |
| `game_life` | `TypeOK`, `OneDeathPerLife`, `LimboIsConfigured`: laser hits, forwarded hits, two pollers, RESET, START, unlocked heart writes, hearts of 0 | 1.4 million |
| `game_liveness` | `RoundEnds`, `RespawnCompletes` | 0.23 million |
| `lms_elimination` | `EliminationIsFinal`: violated | |
| `duration_ignored` | `RoundGetsConfiguredTime`: violated | |
| `ws_table` | `TypeOK`, `OneSlotPerFd`, `RoomForNewcomer`, `NoDeafClient`, `OfflineIsNoticed` on a weapon | 0.79 million |
| `reused_socket` | `OnlyDeadSocketsClosed`: violated | |
| `target_offline` | `OfflineIsNoticed` on a target: violated | |
| `reconnect` | `TypeOK`, `NeverStranded`, `OneLoop`, `UnmountIsFinal`, `SettlesOrGivesUp` with four sockets and three retries | 11 thousand |
| `double_connection` | `OneConnection`: violated | |
| `hit_link` | `TypeOK`, `TwoShotsPerHit`, `KillsBacked`, `KillsCostShots`, `OneCreditPerHit`: two weapons whose ids may coincide, one target | 1.6 million |
| `parts` | display: `ResetScreenExplained`, `IdleScreenShown`, `RespawnScreenEnds`, `AlertsEnd`; Wi-Fi: `KeepsLink`, `BitTruthful`, `NoPasswordOnlyIfTorn`, `GetsOnline`; status: `NoStepBack`, `CatchesUp`; browser: `BrowserKeepsLink`, `OneSocketPerObject`, `OnlyOrphansStay`, `BrowserComesBack`; bridge: `BridgeKeepsLink`, `ToldTruthfully`; and `TypeOK` of all | 0.40 million |

Bounds and why they are enough. `MaxTime` stops the environment, not the tasks:
time goes on until every deadline is met. Two to three ticks let a game of two
ticks be paused, extended, overtaken and restarted. `MaxEnd` bounds extensions,
`MaxKills`, `MaxHits` and `MaxDeaths` the counters; one kill or hit reaches the
score target of 1, two deaths eliminate a player with two hearts or kill again
after a respawn. In `game_life` a message sets `max_hearts` to 0 and then hands one heart
out, so that a respawn, a RESET and a START meet hearts of 0. The two halves of the hazards (clock; lives) get runs of their
own since the variables they share are few. Four descriptors, three slots and
two open sockets keep the relation 7 < 8 of the device; the table can then be
full of stale entries, and a descriptor can come back while its old entry is
still there. The timeout is 0 ticks: an entry is stale after the first tick in which its
client has been silent, which tells fresh from stale as well as a longer one.

Four sockets of one address let one open, one connect and two close at a time,
more than the double connection needs; a closed socket is used again as a new
one. Three retries tell the first, a middle and the last failure apart. Deadlock is not
checked in `reconnect` and `double_connection`: once the page is gone and its
sockets are closed the system has stopped.

`hit_link`: four shots under one device id are enough for two hits; they come from
either weapon, since each draws either id at a start and takes any of three pairs of ids at a
CONFIG_UPDATE, two of which share the device id and differ in the player. Under the other
device id nobody shoots: a weapon that has it is the one that comes to the first id
later. One slot for the laser and the radio, two for the photodiode:
every queue overflows. A window of one tick tells a word in time from one that
is late. The two weapons are alike, so the run uses symmetry.

`parts`: the display's queue has two of its eight slots, so that it is full with the
kill and the respawn of one hit, and a second press can begin while the release of
the first waits. The retry limits are those of the code (15, 8, 4). Two failures (a loss of power or
a write that fails, each) hit a form twice; three refused calls exhaust the handler's second try.
Two senders, a work queue of two, one reset and one new connection let numbers
be drawn in one order and sent in the other, across the reset; beyond the counter
value `Busy` (3) only heartbeats go on, up to the largest number `MaxSeq` (5) that a browser
may have to be caught up with. Two objects and two sockets of an address are an old
and a new one; `MaxPending` and `MaxWaiting` end the adding of devices, not the timers.

The five violations (see `findings` in `PROJECT.json`): a last-man-standing
player is revived after the cooldown though `PROTOCOL.md` says there is no
respawning; a longer `game_duration_s` does not move the end of the running game
though `shared/docs/protocol.md` says it does; the handshake's cleanup "for dead
sockets" closes the connection that is being made when its descriptor had a
stale entry; a target never becomes offline after losing its client without a
CLOSE frame, so its roster filter, meant only "when connected to server", stays;
the browser's guard against double connections fails when the close event of an
old socket deletes the new one from the map.

Every property of a passing run has a mutant: a seeded fault of one operator,
kept beside it in the module ("Seeded fault"), under which TLC finds the property
violated.

### Fairness

`GameState`: time, the rest of a handler that has begun, `game_task`, `ws_task`
and the locked bodies in progress are weakly fair. FreeRTOS runs them all: the
loops end in a delay, mutexes are held for a few instructions. Operator, players
and radio are not fair. Weak fairness is enough since nothing can keep a task
from its mutex for ever within the bounds of the environment.
`WsServer`: time, a handler in progress, the sweep (a loop with a delay) and
httpd's requests to close; no client is obliged to do anything, and httpd is not
obliged to notice an end of connection.
`DeviceConnection`: armed timers go off, and browsers bring every attempt and
every closing handshake to an end (open or close event). An open socket need
never close, and the user need do nothing.

`DisplayManager`: the display task makes its passes (a loop with a delay), time
passes, `processing_task` posts the second of its two events and the player's respawn
is noticed, a button is not held for ever. Hits, kills, messages and presses are not
fair.
`WifiLink`: the device boots, the event loop runs its handlers to the end of their
sleep, the driver brings an attempt to an end, a user fills in the form of a device in
provisioning mode. `GetsOnline` speaks of a signal that is good from some point on, and
names the two ways in which a device stays offline for good all the same: a refused
call after which nothing comes, and a form that lost power between its two commits.
`StatusStream`: a task that has begun a message sends it, and httpd works its queue off.
Nothing need be begun, not even by `ws_task`, whose heartbeat any browser can put off;
`CatchesUp` says itself under which condition it holds.
`LocalComm`: armed timers go off, an attempt comes to an end (open or timeout), a
closing socket gets its close event. `BrowserComesBack` assumes that the device is in
the list and answers from some point on. The bridge's properties are safety
properties and need no fairness. `Parts` is as fair to the part that moves as that
part's module is.

## 4. Proofs

The eight proof modules prove their theorems for every value of the constants that
satisfies the assumptions of the models; they are named under `theorems` in
`PROJECT.json`. Every invariant, every action property and every refinement that a
passing run checks is among them. A theorem listed without a property states a
definition that no run names; TLC finds it true of the same instances.

Five theorems say why a run finds what it finds: each excludes every other cause of
a violation. `RespawnAlone`: while no command is handled, only a completed respawn
brings hearts back from zero, or a death that read them before a config_update wrote the
zero (`lms_elimination`). `LimitFollowsTheRound`: what a time
game was granted and what is configured part only in a step of a running
`config_update` (`duration_ignored`). `NewcomersSpared`: a handshake's session is asked
to close only for a timed-out leftover of its descriptor, before `remove_client` has run
(`reused_socket`). `TargetWaitsForClients`: a target does not empty its client table by
itself, only the next handshake or a session that ends does (`target_offline`).
`OnlyOnCloseOrphans`: a live socket drops out of the provider's map only at the close
event of another socket (`double_connection`).

*Assumptions.* `ConfigAssumption`: the configurations and messages are well
typed, and the default configuration, which is in the code, has hearts; messages may hold
any number. `BoundAssumption`: bounds are natural numbers. `TableAssumption`: finitely many
descriptors, fewer open sockets than slots. `ConnectionAssumption`: at least one
retry. `LinkAssumption`: the ids drawn at a start are among those a weapon can have, a
window of at least one tick; it says nothing of ids being different. `PartsAssumption`:
queues have at least one slot, the driver is restarted before the retries are used up, bounds
are natural numbers, and there are at least as many sockets as objects of an address.

*GameState.* `IndInv` is `TypeOK`, `ClockInv` and `DeathInv`. `TimeBudget` is not inductive: UNPAUSE needs that the pause began in
the past, the history must follow exactly the time games with a limit, and
between the halves of START the previous round must be stopped and not paused;
`ClockInv` says so. `OneDeathPerLife` is not inductive either: a sensor that has
passed the respawn check holds the right to one more death, so while it does, or
while the player is up, deaths and respawns must balance (`DeathInv`). One lemma
per part has one step per action. `RoundStartsUnpaused`,
`GameEndsOnlyWhenDue`, `LimboIsConfigured` and `OnlyRespawnRevives` are action properties
proved from `IndInv`. `LimboIsConfigured` replaces the invariant one would like, that a player
at zero hearts is in a countdown: `handle_config_update` stores hearts of 0 like any other and
hands `spawn_hearts` out at once, so that one message is enough to break it. What holds is that
only a step after which the configured hearts are 0 leads there, and no race of the tasks does.
`RoundImplemented` is the refinement: initial states of `GameState` map to initial
states of `MatchRound`, and under `IndInv` each action maps to the one it is named
for or to a stutter; the time left of a paused round follows from `ClockInv`.

*WsServer.* `IndInv` is `TypeOK`, `OneSlotPerFd`, `OpenBound`, `KnownBound`,
`Serving` and `NoDeafClient`. `RoomForNewcomer` follows by counting: the descriptors that
have an entry or an upgraded session are never more than httpd has sockets for, except before
a handshake's cleanup (`KnownBound`), entries have different descriptors, and there are more
slots than sockets. The same count shows that a client which sends is tracked again, also one
whose session httpd could not be asked to close; until then `NoDeafClient` leaves it out.
`OnlyLeftoversCloseNewcomers` needs that nobody makes an entry for the newcomer between
`remove_client` and `add_client` (`Evicted`).

*DeviceConnection.* `IndInv` adds to `TypeOK`, `OneLoop` and `NeverStranded` that
a device to be reconnected has retries left (`Budget`, which bounds the count
after a failure), that the mark of a pending attempt is backed by a socket whose
event is still to come (`Attempted`, without which a refused attempt could be the
last), and that nothing is to be reconnected before mounting and no timer is
armed afterwards (`Quiet`, from which `UnmountIsFinal`). A constructor that throws leaves the
state `error`, which `NeverStranded` and `SettlesOrGivesUp` name: nothing will come of itself,
but the user sees it and is offered a Retry. `ConnectStep` states what
`connectDevice` guarantees to all its callers, `ConnectOrphansNone` that it replaces a
socket in the map only when that one is no longer live; with an empty map before
mounting (`Blank`, for Strict Mode) `OrphanedByOnClose` follows.

*HitLink.* Two weapons may shoot under one device id, so shots are counted by id. A shot of
an id is in at most one place, `photo` or one `laser`, and not yet looked at (`InFlight`);
then hits of the id, counted twice, and its word that waits for confirmation together never
exceed its words looked at, of which there are no more than shots (`Counted`): `TwoShotsPerHit`.
`KillsBacked` needs that the events of an id are in a receive queue in the order of their
announcement, and that those still to be taken come after as many as were credited
(`KillInv`: a broadcast is not repeated). `OneCreditPerHit` is inductive with the types: an
event enters a queue knowing who goes by its id, and a weapon comes to another id only with an
empty queue. `KillsCostShots` joins the ends: announcements under an id, and the hit that is
confirmed but not yet announced, never exceed the confirmed hits of the id (`OwnInv`); of these
there is one for two shots at most (`ShotInv`), and of kills by radio one for an announcement
(`KillInv`).

*Parts.* A step of `Parts` is a step of the part or leaves its variables alone, so
each module proves the invariant of its part for the specification of `Parts`:

* *Wi-Fi*: at most an address and the loss that followed it wait in the event loop,
  and while the handler sleeps nothing waits and nothing is under way (`Pending`,
  `Sleeping`); the count reaches its limit only on the way to the restart that
  clears it (`Counting`); the bit is wrong only while the event that corrects it
  waits (`Bit`); `Form` relates what is stored to how far the form has got, and to which write
  failed: `NoPasswordOnlyIfTorn` excludes a failed first write, a failed erase and a restart at
  any other point.
* *Browser and bridge*: an object is marked connected or reconnecting exactly while
  a socket of its is not closed (`Backed` and `Marked`; `Manned` and `Reached`).
  `connectToDevice` refuses a marked object, hence one socket per object; and a marked
  object has a close event to come, hence a timer that finds an object engaged may be
  used up.
* *Refinement*: these invariants determine the phase of `KeptConnection` after each
  action (`KeepsLink`, `BrowserKeepsLink`, `BridgeKeepsLink`). The invariants
  `StationKeepsTrying`, `BrowserKeepsTrying` and `BridgeKeepsTrying`, which say that a
  peer without a connection has something to come, are theorems too (`KeepsTrying`,
  `NotForgotten`, `BridgeNotForgotten`); they are what the phases rest on.
* *Status*: numbers are drawn before the fields are read, so among statuses of one
  clearing of the counter the larger number was drawn from fields at least as new
  (`Ordered`), and a status is at least as new as the fields when its number was
  drawn (`Read`); hence what the browser would take next in the era it is in was drawn
  from fields no older than its floor (`Fresh`). Events only raise the number the browser asks
  for; none has the number 0 that the filter lets pass (`Positive`).
* *Display*: what the queue ends with tells how the reset screen will go on
  (`Reset`, `EndsHeld`, `EndsReleased`), unless an event of the press was lost, the
  screen was taken over, or the press posted no progress.

*Only model-checked*: liveness (`RoundEnds`, `RespawnCompletes`, `OfflineIsNoticed`,
`SettlesOrGivesUp`, `RespawnScreenEnds`, `AlertsEnd`, `GetsOnline`, `CatchesUp`,
`BrowserComesBack`), which is beyond the prover. The violated properties are refuted by
TLC's traces.

## 5. Not modelled

Names, teams and colours; ammunition; friendly fire and the contents
of the roster; sound, LEDs and drawing; NVS of ids and names (they are read before NVS is
initialised, at `target/src/main.cpp:105` and `weapon/src/main.cpp:55`, so a start draws them:
`HitLink` holds for any device ids drawn and any ids given, equal ones included, and says what it
says by id; no other module depends on ids); the momentary value of `win_type` while `strncpy` copies it; 32-bit wrap
of the clock (49 days); the analog front end of the photodiode; scanning, form
parsing, captive portal and mDNS, which are stateless I/O; the radio's channel and peers;
the payloads the bridge relays and its browser sockets; the user interface,
database and accounts. `CloudComm` publishes to listeners that are not in the
repository. `ws_server_optimized.cpp` is in no build.

The larger part of the source tree is vendored: the ESP-IDF components under
`managed_components` occur twice, once per firmware, and with generated interface
code they make up most of its lines. The firmware itself has some nine thousand
lines, much of it drawing, logging, parsing and set-up; the models cover what has
states worth exploring. A model of vendored code would be a model of mDNS or of a
WebSocket client, not of RayZ.

## 6. What could come next

* `WsServer` under `StatusStream`: a broadcast to a descriptor that was given to
  another client between the copy of the table and the send.
* `useDeviceWebSocket.ts` and connections through the bridge in `DeviceConnection`.
* Several targets and the browser's HIT_FORWARD in one composition of `GameState` and
  `HitLink`: whether the reports of one hit by radio and by browser agree.

------------------------------ MODULE GameState ------------------------------
(***************************************************************************)
(* The game state of one RayZ device (esp32/shared/src/game_state.cpp) and *)
(* the FreeRTOS tasks that share it: the httpd task that runs the          *)
(* WebSocket handlers, game_task, ws_task, processing_task (the laser      *)
(* sensor of a target) and espnow_task.                                    *)
(*                                                                         *)
(* Every setter of game_state.cpp holds one mutex for its whole body, so a *)
(* locked body is one action.  What the code does without the mutex is a   *)
(* step of its own: the flags game_state_tick and                          *)
(* game_state_check_respawn read before they lock, the two locked halves   *)
(* of RESET and START, the fields handle_config_update writes one by one,  *)
(* and the hearts it writes while record_death may be between reading and  *)
(* writing them.  A locked body that sets respawning and then the end of   *)
(* the countdown shows the flag without the end (arming) to those who read *)
(* without the mutex.                                                      *)
(*                                                                         *)
(* Time is a tick counter; minutes, seconds and milliseconds are all ticks.*)
(* Sequence numbers, heartbeats and the status broadcast at the end of a   *)
(* handler touch none of this state: they belong to StatusChannel.         *)
(***************************************************************************)
EXTENDS Integers

CONSTANTS
  MaxTime,        \* bound: no command, hit or message arrives from here on
  MaxEnd,         \* bound: no game and no limit is extended beyond this time
  MaxKills,       \* bound: no further kill is reported
  MaxHits,        \* bound: no further hit is reported or forwarded
  MaxDeaths,      \* bound: no further laser hit is confirmed
  DefaultConfig,  \* what game_state_load_default_game_config installs
  FirstConfig,    \* what the messages before the first instant have made of it
  ConfigMessages, \* config_update messages: functions from some fields to values
  Extensions,     \* arguments of EXTEND_TIME
  Targets         \* arguments of UPDATE_TARGET

VARIABLES
  now,     \* esp_timer_get_time
  cfg,     \* s_game_cfg
  st,      \* s_state
  httpd,   \* where the httpd task is in the handler it runs
  update,  \* the fields the running config_update has not written yet
  task,    \* where game_task and ws_task are in their loops
  proc,    \* where processing_task is with a confirmed hit
  seen,    \* the hearts record_death has read and not written back
  arming,  \* respawning is set, the end of the countdown is not written yet
  espnow,  \* where espnow_task is with a HIT_EVENT
  hist     \* history of the running round, read by properties only

vars == <<now, cfg, st, httpd, update, task, proc, seen, arming, espnow, hist>>

-----------------------------------------------------------------------------
(* Types *)

WinType == {"time", "score", "last_man_standing"}

\* The order in which handle_config_update writes the fields modelled here.
ConfigOrder == <<"win_type", "target_score", "time_limit_s", "max_hearts",
                 "spawn_hearts", "respawn_cooldown_ms">>

ConfigField == {ConfigOrder[i] : i \in 1..6}

\* Numbers as the fields store them.  handle_config_update checks no range: hearts may
\* be 0.
FieldValue(f) == IF f = "win_type" THEN WinType ELSE Nat

Poller == {"game", "ws"}

StateRecord ==
  [game_running : BOOLEAN, game_paused : BOOLEAN, game_over : BOOLEAN,
   game_end_time_ms : Nat, pause_time_ms : Nat,
   kills : Nat, hits_landed : Nat, deaths : Nat,
   hearts_remaining : Nat, respawning : BOOLEAN, respawn_end_time_ms : Nat]

History ==
  [exact : BOOLEAN, granted : Nat, played : Nat, respawns : Nat, forwarded : Nat]

\* The defaults have hearts (game_state_load_default_game_config); what messages make of
\* them is anything.
ASSUME ConfigAssumption ==
  /\ \A c \in {DefaultConfig, FirstConfig} :
        /\ DOMAIN c = ConfigField
        /\ \A f \in ConfigField : c[f] \in FieldValue(f)
  /\ DefaultConfig.max_hearts > 0 /\ DefaultConfig.spawn_hearts > 0
  /\ \A m \in ConfigMessages :
        /\ DOMAIN m \subseteq ConfigField
        /\ \A f \in DOMAIN m : m[f] \in FieldValue(f)

ASSUME BoundAssumption ==
  /\ MaxTime \in Nat /\ MaxEnd \in Nat
  /\ MaxKills \in Nat /\ MaxHits \in Nat /\ MaxDeaths \in Nat
  /\ Extensions \subseteq Nat /\ Targets \subseteq Nat

-----------------------------------------------------------------------------
(* Helpers *)

ZeroState ==
  [game_running |-> FALSE, game_paused |-> FALSE, game_over |-> FALSE,
   game_end_time_ms |-> 0, pause_time_ms |-> 0,
   kills |-> 0, hits_landed |-> 0, deaths |-> 0,
   hearts_remaining |-> 0, respawning |-> FALSE, respawn_end_time_ms |-> 0]

\* game_state_reset_runtime: memset, then full hearts.
RuntimeReset == [ZeroState EXCEPT !.hearts_remaining = cfg.max_hearts]

\* kill_score and hit_score are 1 in the default configuration, and nothing
\* but the defaults writes them.
Score == st.kills + st.hits_landed

\* History: is this a time game with a limit that only START, PAUSE, UNPAUSE and
\* EXTEND_TIME have touched (exact), how long it was to last and has been played;
\* how many respawns were completed and deaths forwarded since the last reset.
PlainHistory == [exact |-> FALSE, granted |-> 0, played |-> 0,
                 respawns |-> 0, forwarded |-> 0]

ClockForgotten == [hist EXCEPT !.exact = FALSE, !.granted = 0, !.played = 0]

\* How long the game has been paused, if it is.
PausedFor == IF st.game_paused THEN now - st.pause_time_ms ELSE 0

\* record_death holds the mutex between its read and its write of the hearts, and
\* until the end of the countdown is written, as start_respawn does.
LockFree == proc # "dying" /\ ~arming

\* The environment acts in time (bound).
Active == now < MaxTime

\* Some deadline has not been reached.
Pending == \/ st.game_running /\ now < st.game_end_time_ms
           \/ st.respawning /\ now < st.respawn_end_time_ms

Init ==
  /\ now = 0
  /\ cfg = FirstConfig
  /\ st = [ZeroState EXCEPT !.hearts_remaining = DefaultConfig.max_hearts]
  /\ httpd = "idle"
  /\ update = <<>>
  /\ task = [game |-> "tick", ws |-> "poll"]
  /\ proc = "idle"
  /\ seen = 0
  /\ arming = FALSE
  /\ espnow = "idle"
  /\ hist = PlainHistory

\* Time passes, past the bound only as far as there are deadlines to meet; a round
\* that runs and is not paused is being played.
ClockTick ==
  /\ Active \/ Pending
  /\ now' = now + 1
  /\ hist' = IF hist.exact /\ ~st.game_paused THEN [hist EXCEPT !.played = @ + 1] ELSE hist
  /\ UNCHANGED <<cfg, st, httpd, update, task, proc, seen, arming, espnow>>

-----------------------------------------------------------------------------
(* The httpd task: one WebSocket message at a time, each handler to its end. *)

HttpdStep(from, to) == httpd = from /\ httpd' = to

\* CMD_RESET, first locked half: game_state_reset_stats.
ResetStats ==
  /\ HttpdStep("idle", "reset")
  /\ LockFree
  /\ st' = [st EXCEPT !.kills = 0, !.deaths = 0, !.hits_landed = 0,
                      !.hearts_remaining = cfg.max_hearts]
  /\ hist' = [hist EXCEPT !.respawns = 0, !.forwarded = 0]
  /\ UNCHANGED <<now, cfg, update, task, proc, seen, arming, espnow>>

\* The second half of CMD_RESET and the first of CMD_START.
ResetRuntime(from, to) ==
  /\ HttpdStep(from, to)
  /\ LockFree
  /\ st' = RuntimeReset
  /\ hist' = PlainHistory
  /\ UNCHANGED <<now, cfg, update, task, proc, seen, arming, espnow>>

ResetFinish == ResetRuntime("reset", "idle")

StartReset == ResetRuntime("idle", "start")

\* CMD_START, second half: game_state_start_game.
StartGame ==
  LET timed == cfg.win_type = "time" /\ cfg.time_limit_s > 0 IN
  /\ HttpdStep("start", "idle")
  /\ LockFree
  /\ st' = [st EXCEPT
        !.game_running = TRUE,
        !.game_over = FALSE,
        !.game_end_time_ms = IF timed THEN now + cfg.time_limit_s ELSE 0,
        !.hearts_remaining =
            IF cfg.win_type = "last_man_standing" THEN cfg.spawn_hearts ELSE @]
  /\ hist' = IF timed THEN [hist EXCEPT !.exact = TRUE, !.granted = cfg.time_limit_s]
             ELSE hist
  /\ UNCHANGED <<now, cfg, update, task, proc, seen, arming, espnow>>

\* A handler that is one locked body.
OneStep(guard, s) ==
  /\ HttpdStep("idle", "idle")
  /\ LockFree
  /\ guard
  /\ st' = s
  /\ UNCHANGED <<now, update, task, proc, seen, arming, espnow>>

StopGame ==
  /\ OneStep(TRUE, [st EXCEPT !.game_running = FALSE, !.game_paused = FALSE,
                              !.game_over = TRUE])
  /\ hist' = ClockForgotten
  /\ UNCHANGED cfg

PauseGame ==
  /\ OneStep(st.game_running /\ ~st.game_paused,
             [st EXCEPT !.game_paused = TRUE, !.pause_time_ms = now])
  /\ UNCHANGED <<cfg, hist>>

\* Seeded fault: the pause is not added to the end time.
ResumeGameOnTheSameClock ==
  /\ OneStep(st.game_running /\ st.game_paused,
             [st EXCEPT !.game_paused = FALSE, !.pause_time_ms = 0])
  /\ UNCHANGED <<cfg, hist>>

\* The pause is added to the end time of a time game.
ResumeGame ==
  LET timed == cfg.win_type = "time" /\ st.game_end_time_ms > 0 IN
  /\ OneStep(st.game_running /\ st.game_paused,
             [st EXCEPT !.game_paused = FALSE, !.pause_time_ms = 0,
                        !.game_end_time_ms = IF timed THEN @ + PausedFor ELSE @])
  /\ UNCHANGED <<cfg, hist>>

\* EXTEND_TIME moves the end time of any running time game, an unlimited one
\* (end time 0) included, and lengthens the configured limit with it.
ExtendTime(d) ==
  /\ OneStep(/\ st.game_running /\ cfg.win_type = "time"
             /\ st.game_end_time_ms + d <= MaxEnd /\ cfg.time_limit_s + d <= MaxEnd,
             [st EXCEPT !.game_end_time_ms = @ + d])
  /\ cfg' = [cfg EXCEPT !.time_limit_s = @ + d]
  /\ hist' = IF hist.exact THEN [hist EXCEPT !.granted = @ + d] ELSE hist

UpdateTarget(t) ==
  /\ OneStep(st.game_running /\ cfg.win_type = "score", st)
  /\ cfg' = [cfg EXCEPT !.target_score = t]
  /\ UNCHANGED hist

\* OP_KILL_CONFIRMED.
KillConfirmed ==
  /\ OneStep(st.kills < MaxKills, [st EXCEPT !.kills = @ + 1])
  /\ UNCHANGED <<cfg, hist>>

\* handle_hit_forward: record_hit, then the hearts are read with no lock held.
ForwardHit ==
  /\ HttpdStep("idle", "fwd_check")
  /\ LockFree
  /\ st.hits_landed < MaxHits
  /\ st' = [st EXCEPT !.hits_landed = @ + 1]
  /\ UNCHANGED <<now, cfg, update, task, proc, seen, arming, espnow, hist>>

ForwardCheck ==
  /\ HttpdStep("fwd_check", IF st.hearts_remaining = 0 THEN "fwd_respawn" ELSE "idle")
  /\ UNCHANGED <<now, cfg, st, update, task, proc, seen, arming, espnow, hist>>

\* game_state_start_respawn, up to the flag.
ForwardRespawn ==
  /\ HttpdStep("fwd_respawn", "fwd_death")
  /\ LockFree
  /\ st' = [st EXCEPT !.respawning = TRUE]
  /\ arming' = TRUE
  /\ UNCHANGED <<now, cfg, update, task, proc, seen, espnow, hist>>

\* The last write of start_respawn and of record_death: the countdown ends later.
Arm ==
  /\ arming
  /\ arming' = FALSE
  /\ st' = [st EXCEPT !.respawn_end_time_ms = now + cfg.respawn_cooldown_ms]
  /\ UNCHANGED <<now, cfg, httpd, update, task, proc, seen, espnow, hist>>

\* Seeded fault: the hearts are decremented without looking.
DiedBelowZero(s, h) == [s EXCEPT !.deaths = @ + 1,
                                 !.hearts_remaining = h - 1,
                                 !.respawning = TRUE]

\* The outcome of game_state_record_death on hearts that were h when read, but for
\* the end of the countdown.
Died(s, h) == [s EXCEPT !.deaths = @ + 1,
                        !.hearts_remaining = IF h > 0 THEN h - 1 ELSE h,
                        !.respawning = TRUE]

ForwardDeath ==
  /\ HttpdStep("fwd_death", "idle")
  /\ LockFree
  /\ st' = Died(st, st.hearts_remaining)
  /\ hist' = [hist EXCEPT !.forwarded = @ + 1]
  /\ arming' = TRUE
  /\ UNCHANGED <<now, cfg, update, task, proc, seen, espnow>>

\* handle_config_update begins; reset_to_defaults is a locked assignment of the
\* whole configuration (game_state_apply_game_config).
ConfigBegin(m, reset) ==
  /\ HttpdStep("idle", "config")
  /\ LockFree
  /\ update' = m
  /\ cfg' = IF reset THEN DefaultConfig ELSE cfg
  /\ hist' = IF reset THEN ClockForgotten ELSE hist
  /\ UNCHANGED <<now, st, task, proc, seen, arming, espnow>>

\* The next field, written with no lock held; spawn_hearts is also copied into
\* the live hearts.
ConfigWrite(i) ==
  LET f == ConfigOrder[i] IN
  /\ httpd = "config"
  /\ f \in DOMAIN update
  /\ \A j \in 1..(i - 1) : ConfigOrder[j] \notin DOMAIN update
  /\ cfg' = [cfg EXCEPT ![f] = update[f]]
  /\ st' = IF f = "spawn_hearts" THEN [st EXCEPT !.hearts_remaining = update[f]] ELSE st
  /\ hist' = IF f = "win_type" /\ update[f] # "time" THEN ClockForgotten ELSE hist
  /\ update' = [g \in DOMAIN update \ {f} |-> update[g]]
  /\ UNCHANGED <<now, httpd, task, proc, seen, arming, espnow>>

ConfigEnd ==
  /\ HttpdStep("config", "idle")
  /\ DOMAIN update = {}
  /\ UNCHANGED <<now, cfg, st, update, task, proc, seen, arming, espnow, hist>>

Command ==
  /\ Active
  /\ \/ ResetStats \/ StartReset \/ StopGame \/ PauseGame \/ ResumeGame
     \/ \E d \in Extensions : ExtendTime(d)
     \/ \E t \in Targets : UpdateTarget(t)
     \/ KillConfirmed \/ ForwardHit
     \/ \E m \in ConfigMessages, reset \in BOOLEAN : ConfigBegin(m, reset)

\* What the httpd task does by itself once it has begun a handler.
Handler ==
  \/ ResetFinish \/ StartGame
  \/ ForwardCheck \/ ForwardRespawn \/ ForwardDeath
  \/ \E i \in 1..6 : ConfigWrite(i)
  \/ ConfigEnd

-----------------------------------------------------------------------------
(* game_task (tick, then poll the respawn) and ws_task (poll the respawn). *)

TaskStep(t, from, to) == task[t] = from /\ task' = [task EXCEPT ![t] = to]

\* Seeded fault: the flag of the pause is not read.
TickCheckInPause ==
  /\ TaskStep("game", "tick", IF st.game_running /\ ~st.game_over THEN "win" ELSE "poll")
  /\ UNCHANGED <<now, cfg, st, httpd, update, proc, seen, arming, espnow, hist>>

\* game_state_tick reads three flags before it takes the lock.
TickCheck ==
  /\ TaskStep("game", "tick",
              IF st.game_running /\ ~st.game_over /\ ~st.game_paused
              THEN "win" ELSE "poll")
  /\ UNCHANGED <<now, cfg, st, httpd, update, proc, seen, arming, espnow, hist>>

\* Seeded faults: a time game ends a tick early; a time game ends at its last
\* instant and at no other.
WinConditionEarly ==
  \/ /\ cfg.win_type = "time"
     /\ st.game_end_time_ms > 0 /\ now + 1 >= st.game_end_time_ms
  \/ cfg.win_type = "score" /\ Score >= cfg.target_score

WinConditionExact ==
  \/ /\ cfg.win_type = "time"
     /\ st.game_end_time_ms > 0 /\ now = st.game_end_time_ms
  \/ cfg.win_type = "score" /\ Score >= cfg.target_score

WinCondition ==
  \/ /\ cfg.win_type = "time"
     /\ st.game_end_time_ms > 0 /\ now >= st.game_end_time_ms
  \/ cfg.win_type = "score" /\ Score >= cfg.target_score

TickWin ==
  /\ TaskStep("game", "win", "poll")
  /\ LockFree
  /\ st' = IF WinCondition
           THEN [st EXCEPT !.game_over = TRUE, !.game_running = FALSE] ELSE st
  /\ hist' = IF WinCondition THEN ClockForgotten ELSE hist
  /\ UNCHANGED <<now, cfg, httpd, update, proc, seen, arming, espnow>>

\* Seeded fault: respawns are polled only while a game runs.
PollRespawnInGame(t) ==
  /\ TaskStep(t, "poll",
              IF st.game_running /\ st.respawning /\ now >= st.respawn_end_time_ms
              THEN "revive"
              ELSE IF t = "game" THEN "tick" ELSE "poll")
  /\ UNCHANGED <<now, cfg, st, httpd, update, proc, seen, arming, espnow, hist>>

\* game_state_check_respawn, the part before the lock.
PollRespawn(t) ==
  /\ TaskStep(t, "poll",
              IF st.respawning /\ now >= st.respawn_end_time_ms THEN "revive"
              ELSE IF t = "game" THEN "tick" ELSE "poll")
  /\ UNCHANGED <<now, cfg, st, httpd, update, proc, seen, arming, espnow, hist>>

\* Seeded fault: the countdown ends and the hearts stay as they are.
ReviveHeartless(t) ==
  /\ TaskStep(t, "revive", IF t = "game" THEN "tick" ELSE "notify")
  /\ LockFree
  /\ st' = [st EXCEPT !.respawning = FALSE]
  /\ hist' = [hist EXCEPT !.respawns = @ + 1]
  /\ UNCHANGED <<now, cfg, httpd, update, proc, seen, arming, espnow>>

\* game_state_check_respawn, the locked part: nothing is checked again.
Revive(t) ==
  /\ TaskStep(t, "revive", IF t = "game" THEN "tick" ELSE "notify")
  /\ LockFree
  /\ st' = [st EXCEPT !.respawning = FALSE, !.hearts_remaining = cfg.max_hearts]
  /\ hist' = [hist EXCEPT !.respawns = @ + 1]
  /\ UNCHANGED <<now, cfg, httpd, update, proc, seen, arming, espnow>>

\* Only ws_task announces the respawn it completed.
BroadcastRespawn ==
  /\ TaskStep("ws", "notify", "poll")
  /\ UNCHANGED <<now, cfg, st, httpd, update, proc, seen, arming, espnow, hist>>

GameTask == TickCheck \/ TickWin \/ PollRespawn("game") \/ Revive("game")

WsTask == PollRespawn("ws") \/ Revive("ws") \/ BroadcastRespawn

-----------------------------------------------------------------------------
(* processing_task and espnow_task *)

ProcStep(from, to) == proc = from /\ proc' = to

\* Seeded fault: the respawn check is dropped.
HitConfirmedAnyway ==
  /\ ProcStep("idle", "confirmed")
  /\ Active /\ st.deaths < MaxDeaths
  /\ UNCHANGED <<now, cfg, st, httpd, update, task, seen, arming, espnow, hist>>

\* A confirmed hit from another player gets past the respawn check; the
\* vibration pause (50 ms) separates the check from the recorded death.
HitConfirmed ==
  /\ ProcStep("idle", "confirmed")
  /\ ~st.respawning
  /\ Active /\ st.deaths < MaxDeaths
  /\ UNCHANGED <<now, cfg, st, httpd, update, task, seen, arming, espnow, hist>>

\* game_state_record_death under the mutex: the hearts are read ...
DeathBegin ==
  /\ ProcStep("confirmed", "dying")
  /\ LockFree
  /\ seen' = st.hearts_remaining
  /\ UNCHANGED <<now, cfg, st, httpd, update, task, arming, espnow, hist>>

\* ... and written back, whatever an unlocked writer has put there meanwhile.
DeathEnd ==
  /\ ProcStep("dying", "idle")
  /\ st' = Died(st, seen)
  /\ seen' = 0
  /\ arming' = TRUE
  /\ UNCHANGED <<now, cfg, httpd, update, task, espnow, hist>>

Processing == HitConfirmed \/ DeathBegin \/ DeathEnd

EspnowStep(from, to) == espnow = from /\ espnow' = to

\* A HIT_EVENT naming this device: record_hit, then record_kill.
PeerHit ==
  /\ EspnowStep("idle", "kill")
  /\ Active
  /\ LockFree
  /\ st.hits_landed < MaxHits /\ st.kills < MaxKills
  /\ st' = [st EXCEPT !.hits_landed = @ + 1]
  /\ UNCHANGED <<now, cfg, httpd, update, task, proc, seen, arming, hist>>

PeerKill ==
  /\ EspnowStep("kill", "idle")
  /\ LockFree
  /\ st' = [st EXCEPT !.kills = @ + 1]
  /\ UNCHANGED <<now, cfg, httpd, update, task, proc, seen, arming, hist>>

Next ==
  \/ ClockTick
  \/ Command \/ Handler
  \/ GameTask \/ WsTask
  \/ Processing \/ Arm
  \/ PeerHit \/ PeerKill

\* Tasks that are ready run; the operator, the players and the radio need not.
Fairness ==
  /\ WF_vars(ClockTick)
  /\ WF_vars(Handler)
  /\ WF_vars(GameTask)
  /\ WF_vars(WsTask)
  /\ WF_vars(DeathEnd)
  /\ WF_vars(Arm)

Spec == Init /\ [][Next]_vars

FairSpec == Spec /\ Fairness

-----------------------------------------------------------------------------
(* Properties *)

\* Every variable has its type.
TypeOK ==
  /\ now \in Nat
  /\ DOMAIN cfg = ConfigField /\ \A f \in ConfigField : cfg[f] \in FieldValue(f)
  /\ st \in StateRecord
  /\ httpd \in {"idle", "reset", "start", "config",
                "fwd_check", "fwd_respawn", "fwd_death"}
  /\ DOMAIN update \subseteq ConfigField
  /\ \A f \in DOMAIN update : update[f] \in FieldValue(f)
  /\ task \in [Poller -> {"tick", "win", "poll", "revive", "notify"}]
  /\ proc \in {"idle", "confirmed", "dying"}
  /\ seen \in Nat
  /\ arming \in BOOLEAN
  /\ espnow \in {"idle", "kill"}
  /\ hist \in History

\* A time game is played for exactly the time it was given: what is left on the
\* clock is the limit at START plus the extensions minus the time played, however
\* often it was paused and resumed (game_state_resume_game moves the end time).
\* Games that were retyped or reset by a config_update are not claimed.
TimeBudget ==
  (st.game_running /\ hist.exact) =>
    st.game_end_time_ms - (now - PausedFor) = hist.granted - hist.played

\* A player at zero hearts that no respawn will revive.
Limbo == st.hearts_remaining = 0 /\ ~st.respawning

\* A player falls into limbo only by hearts that are configured as 0
\* (handle_config_update stores them unchecked, and hands spawn_hearts out at once): no
\* order of deaths, respawns, resets, starts and other config writes, each between the
\* reads and writes of another, leaves one at zero hearts outside a countdown.
LimboIsConfigured ==
  [][~Limbo /\ Limbo' => cfg'.max_hearts = 0 \/ cfg'.spawn_hearts = 0]_vars

\* The sensor takes one life once: without forwarded hits, a player has died at
\* most once more often than it respawned (processing_task's respawn check is
\* made 50 ms before the death is recorded).
OneDeathPerLife == st.deaths - hist.forwarded <= hist.respawns + 1

\* game_state_tick ends the running game in this step.
EndedByTick ==
  task["game"] = "win" /\ task'["game"] = "poll" /\ st.game_running /\ ~st'.game_running

\* The tick ends a score game only at its target, and a time game only when as
\* much time as it was given has passed, played or (because the tick reads
\* game_paused before it locks) spent in the pause that has just begun.
GameEndsOnlyWhenDue ==
  [][EndedByTick => \/ cfg.win_type = "score" /\ Score >= cfg.target_score
                    \/ /\ cfg.win_type = "time"
                       /\ hist.exact => hist.played + PausedFor >= hist.granted]_vars

\* A round starts neither paused nor over, whatever the previous one left behind:
\* a tick that raced a PAUSE leaves game_paused set in a game that is over, and
\* PAUSE is ignored until START clears it.
RoundStartsUnpaused ==
  [][~st.game_running /\ st'.game_running => ~st'.game_paused /\ ~st'.game_over]_vars

\* Where the round is, as its players see it.
Phase ==
  IF st.game_running THEN IF st.game_paused THEN "paused" ELSE "running"
  ELSE IF st.game_over THEN "over" ELSE "idle"

Round == INSTANCE MatchRound WITH
  phase   <- Phase,
  timed   <- hist.exact,
  left    <- IF hist.exact THEN st.game_end_time_ms - (now - PausedFor) ELSE 0,
  waited  <- IF Phase = "paused" THEN PausedFor ELSE 0,
  judging <- task["game"] = "win"

\* The tasks, locks and end times implement the round of MatchRound: no
\* interleaving of handlers, config writes and the two halves of the tick begins a
\* round on top of another, loses or gives away time in a pause, or lets the tick
\* look at a round that is not running and end one that has time left.
ImplementsMatchRound == Round!Spec

\* A time game that is not paused comes to an end by itself.
RoundEnds ==
  (st.game_running /\ hist.exact) ~> (~st.game_running \/ st.game_paused \/ ~hist.exact)

\* A player that waits to respawn does respawn.
RespawnCompletes == st.respawning ~> ~st.respawning

\* PROTOCOL.md, Last Man Standing: "No respawning in LMS mode (hearts = lives)":
\* while the round runs and no command is handled, a player at zero stays there.
EliminationIsFinal ==
  [][/\ st.game_running /\ st'.game_running
     /\ cfg.win_type = "last_man_standing" /\ st.hearts_remaining = 0
     /\ httpd = "idle" /\ httpd' = "idle"
     => st'.hearts_remaining = 0]_vars

\* What takes EliminationIsFinal away: a respawn that game_state_check_respawn completes,
\* or a death whose read of the hearts (game_state_record_death) is older than a zero that
\* a config_update has written since.  No other task, and no other death, brings hearts
\* back from zero.
OnlyRespawnRevives ==
  [][st.hearts_remaining = 0 /\ st'.hearts_remaining > 0 /\ httpd = "idle" /\ httpd' = "idle"
     => \/ \E t \in Poller : task[t] = "revive" /\ task'[t] # "revive"
        \/ DeathEnd /\ seen > 1]_vars

\* A running time game gets the configured duration, also when a config_update
\* lengthens it (shared/docs/protocol.md, "If game is currently running,
\* calculate new end time"; the browser's Extend Time button relies on it).
RoundGetsConfiguredTime ==
  (st.game_running /\ hist.exact /\ httpd = "idle") =>
    st.game_end_time_ms - (now - PausedFor) + hist.played >= cfg.time_limit_s

\* What takes RoundGetsConfiguredTime away, and nothing else: a write of a running
\* config_update.  START grants the configured limit, EXTEND_TIME adds to both, and no
\* other handler or task parts them.
OnlyConfigPartsTheLimit ==
  [][/\ hist'.exact /\ httpd # "config"
     /\ hist.exact => hist.granted = cfg.time_limit_s
     => hist'.granted = cfg'.time_limit_s]_vars
=============================================================================

-------------------------- MODULE GameStateProofs --------------------------
(***************************************************************************)
(* Theorems of GameState, for every configuration, every set of messages   *)
(* and every bound.                                                        *)
(***************************************************************************)
EXTENDS GameState, TLAPS

-----------------------------------------------------------------------------
(* Configurations *)

WellTyped(c) == DOMAIN c = ConfigField /\ \A f \in ConfigField : c[f] \in FieldValue(f)

\* The six fields handle_config_update writes here.
LEMMA FieldNames ==
  ConfigField = {"win_type", "target_score", "time_limit_s", "max_hearts",
                 "spawn_hearts", "respawn_cooldown_ms"}
  BY DEF ConfigField, ConfigOrder

\* What the fields of a well-typed configuration are.
LEMMA FieldTypes ==
  ASSUME NEW c, WellTyped(c)
  PROVE  /\ c.win_type \in WinType
         /\ c.target_score \in Nat /\ c.time_limit_s \in Nat
         /\ c.max_hearts \in Nat /\ c.spawn_hearts \in Nat
         /\ c.respawn_cooldown_ms \in Nat
  BY FieldNames DEF WellTyped, FieldValue

\* Writing one field (handle_config_update) keeps a configuration well typed.
LEMMA WrittenConfig ==
  ASSUME NEW c, WellTyped(c), NEW f \in ConfigField, NEW v \in FieldValue(f)
  PROVE  WellTyped([c EXCEPT ![f] = v])
  BY DEF WellTyped

\* The assumption on the constants, for the two configurations.
LEMMA GivenConfigs == WellTyped(DefaultConfig) /\ WellTyped(FirstConfig)
  BY ConfigAssumption DEF WellTyped

-----------------------------------------------------------------------------
(* Types *)

\* The configuration of a device is well typed.
LEMMA Typed == TypeOK => WellTyped(cfg)
  BY DEF TypeOK, WellTyped

\* game_state_init leaves a well-typed state.
LEMMA InitTyped == Init => TypeOK
<1> SUFFICES ASSUME Init PROVE TypeOK
  OBVIOUS
<1>1. WellTyped(cfg)
  BY GivenConfigs DEF Init
<1>2. st \in StateRecord
  BY GivenConfigs, FieldTypes DEF Init, StateRecord, ZeroState
<1>3. DOMAIN update = {}
  BY DEF Init
<1>4. hist \in History
  BY DEF Init, History, PlainHistory
<1>5. task \in [Poller -> {"tick", "win", "poll", "revive", "notify"}]
  BY DEF Init, Poller
<1> QED
  BY <1>1, <1>2, <1>3, <1>4, <1>5 DEF Init, TypeOK, WellTyped

\* A running game that is paused was paused in the past.
PauseIsPast == st.game_paused => st.pause_time_ms <= now

\* record_death keeps the state well typed: hearts stop at zero.
LEMMA DiedTyped ==
  ASSUME NEW s \in StateRecord, NEW h \in Nat
  PROVE  Died(s, h) \in StateRecord
<1> DEFINE hearts == IF h > 0 THEN h - 1 ELSE h
           deaths == s.deaths + 1
<1>1. hearts \in Nat /\ deaths \in Nat
  BY DEF StateRecord
<1>2. Died(s, h) = [s EXCEPT !.deaths = deaths, !.hearts_remaining = hearts,
                             !.respawning = TRUE]
  BY DEF Died
<1> HIDE DEF hearts, deaths
<1> QED
  BY <1>1, <1>2 DEF StateRecord

\* Every step keeps the types; UNPAUSE needs that the pause lies in the past.
LEMMA StepTyped == TypeOK /\ PauseIsPast /\ [Next]_vars => TypeOK'
<1> SUFFICES ASSUME TypeOK, PauseIsPast, [Next]_vars PROVE TypeOK'
  OBVIOUS
<1>0. WellTyped(cfg)
  BY Typed
<1>c. /\ cfg.win_type \in WinType
      /\ cfg.target_score \in Nat /\ cfg.time_limit_s \in Nat
      /\ cfg.max_hearts \in Nat /\ cfg.spawn_hearts \in Nat
      /\ cfg.respawn_cooldown_ms \in Nat
  BY <1>0, FieldTypes
<1> USE DEF TypeOK, StateRecord, History, Poller
<1>1. CASE ClockTick
  BY <1>1, <1>c DEF ClockTick
<1>2. CASE ResetStats
  BY <1>2, <1>c DEF ResetStats, HttpdStep
<1>3. CASE ResetFinish
  BY <1>3, <1>c DEF ResetFinish, ResetRuntime, HttpdStep, RuntimeReset, ZeroState, PlainHistory
<1>4. CASE StartReset
  BY <1>4, <1>c DEF StartReset, ResetRuntime, HttpdStep, RuntimeReset, ZeroState, PlainHistory
<1>5. CASE StartGame
  <2> DEFINE timed == cfg.win_type = "time" /\ cfg.time_limit_s > 0
             end == IF timed THEN now + cfg.time_limit_s ELSE 0
             hearts == IF cfg.win_type = "last_man_standing" THEN cfg.spawn_hearts
                       ELSE st.hearts_remaining
  <2>1. end \in Nat /\ hearts \in Nat
    BY <1>c
  <2>2. st' = [st EXCEPT !.game_running = TRUE, !.game_over = FALSE,
                         !.game_end_time_ms = end, !.hearts_remaining = hearts]
    BY <1>5 DEF StartGame
  <2> HIDE DEF end, hearts
  <2>3. st' \in StateRecord
    BY <2>1, <2>2
  <2>4. hist' \in History
    BY <1>5, <1>c DEF StartGame
  <2> QED
    BY <1>5, <2>3, <2>4 DEF StartGame, HttpdStep
<1>6. CASE StopGame
  BY <1>6 DEF StopGame, OneStep, HttpdStep, ClockForgotten
<1>7. CASE PauseGame
  BY <1>7 DEF PauseGame, OneStep, HttpdStep
<1>8. CASE ResumeGame
  <2> DEFINE end == IF cfg.win_type = "time" /\ st.game_end_time_ms > 0
                    THEN st.game_end_time_ms + PausedFor ELSE st.game_end_time_ms
  <2>1. end \in Nat
    BY DEF PausedFor, PauseIsPast
  <2>2. st' = [st EXCEPT !.game_paused = FALSE, !.pause_time_ms = 0,
                         !.game_end_time_ms = end]
    BY <1>8 DEF ResumeGame, OneStep
  <2> HIDE DEF end
  <2>3. st' \in StateRecord
    BY <2>1, <2>2
  <2> QED
    BY <1>8, <2>3 DEF ResumeGame, OneStep, HttpdStep
<1>9. ASSUME NEW d \in Extensions, ExtendTime(d) PROVE TypeOK'
  <2>1. d \in Nat /\ cfg.time_limit_s + d \in FieldValue("time_limit_s")
    BY <1>c, BoundAssumption DEF FieldValue
  <2>2. WellTyped(cfg')
    BY <1>9, <1>0, <2>1, FieldNames, WrittenConfig DEF ExtendTime
  <2> QED
    BY <1>9, <2>1, <2>2 DEF ExtendTime, OneStep, HttpdStep, WellTyped
<1>10. ASSUME NEW t \in Targets, UpdateTarget(t) PROVE TypeOK'
  <2>1. t \in FieldValue("target_score")
    BY BoundAssumption DEF FieldValue
  <2>2. WellTyped(cfg')
    BY <1>10, <1>0, <2>1, FieldNames, WrittenConfig DEF UpdateTarget
  <2> QED
    BY <1>10, <2>2 DEF UpdateTarget, OneStep, HttpdStep, WellTyped
<1>11. CASE KillConfirmed
  BY <1>11 DEF KillConfirmed, OneStep, HttpdStep
<1>12. CASE ForwardHit
  BY <1>12 DEF ForwardHit, HttpdStep
<1>13. CASE ForwardCheck
  BY <1>13 DEF ForwardCheck, HttpdStep
<1>14. CASE ForwardRespawn
  BY <1>14 DEF ForwardRespawn, HttpdStep
<1>15. CASE ForwardDeath
  <2>1. st' \in StateRecord
    BY <1>15, <1>c, DiedTyped DEF ForwardDeath
  <2> QED
    BY <1>15, <2>1 DEF ForwardDeath, HttpdStep
<1>16. ASSUME NEW m \in ConfigMessages, NEW reset \in BOOLEAN, ConfigBegin(m, reset) PROVE TypeOK'
  <2>1. WellTyped(cfg')
    BY <1>16, <1>0, GivenConfigs DEF ConfigBegin
  <2>2. DOMAIN m \subseteq ConfigField /\ \A f \in DOMAIN m : m[f] \in FieldValue(f)
    BY ConfigAssumption
  <2> QED
    BY <1>16, <2>1, <2>2 DEF ConfigBegin, HttpdStep, WellTyped, ClockForgotten
<1>17. ASSUME NEW i \in 1..6, ConfigWrite(i) PROVE TypeOK'
  <2> DEFINE f == ConfigOrder[i]
  <2>1. f \in ConfigField /\ update[f] \in FieldValue(f)
    BY <1>17 DEF ConfigWrite
  <2>2. WellTyped(cfg')
    BY <1>17, <1>0, <2>1, WrittenConfig DEF ConfigWrite
  <2>3. f = "spawn_hearts" => update[f] \in Nat
    BY <2>1 DEF FieldValue
  <2>4. st' \in StateRecord
    BY <1>17, <2>3 DEF ConfigWrite
  <2>5. hist' \in History
    BY <1>17 DEF ConfigWrite, ClockForgotten
  <2>6. DOMAIN update' \subseteq ConfigField /\ \A g \in DOMAIN update' : update'[g] \in FieldValue(g)
    BY <1>17 DEF ConfigWrite
  <2> QED
    BY <1>17, <2>2, <2>4, <2>5, <2>6 DEF ConfigWrite, WellTyped
<1>18. CASE ConfigEnd
  BY <1>18 DEF ConfigEnd, HttpdStep
<1>19. CASE TickCheck
  BY <1>19 DEF TickCheck, TaskStep
<1>20. CASE TickWin
  BY <1>20 DEF TickWin, TaskStep, ClockForgotten
<1>21. ASSUME NEW t \in Poller, PollRespawn(t) PROVE TypeOK'
  BY <1>21 DEF PollRespawn, TaskStep
<1>22. ASSUME NEW t \in Poller, Revive(t) PROVE TypeOK'
  <2>1. st' \in StateRecord
    BY <1>22, <1>c DEF Revive
  <2>2. hist' \in History
    BY <1>22 DEF Revive
  <2> QED
    BY <1>22, <2>1, <2>2 DEF Revive, TaskStep
<1>23. CASE BroadcastRespawn
  BY <1>23 DEF BroadcastRespawn, TaskStep
<1>24. CASE HitConfirmed
  BY <1>24 DEF HitConfirmed, ProcStep
<1>25. CASE DeathBegin
  BY <1>25 DEF DeathBegin, ProcStep
<1>26. CASE DeathEnd
  <2>1. st' \in StateRecord
    BY <1>26, <1>c, DiedTyped DEF DeathEnd
  <2> QED
    BY <1>26, <2>1 DEF DeathEnd, ProcStep
<1>27. CASE PeerHit
  BY <1>27 DEF PeerHit, EspnowStep
<1>28. CASE PeerKill
  BY <1>28 DEF PeerKill, EspnowStep
<1>29. CASE Arm
  <2>1. now + cfg.respawn_cooldown_ms \in Nat
    BY <1>c
  <2>2. st' \in StateRecord
    BY <1>29, <2>1 DEF Arm
  <2> QED
    BY <1>29, <2>2 DEF Arm
<1>30. CASE UNCHANGED vars
  BY <1>30 DEF vars
<1> QED
  BY <1>1, <1>2, <1>3, <1>4, <1>5, <1>6, <1>7, <1>8, <1>9, <1>10, <1>11, <1>12, <1>13, <1>14, <1>15, <1>16, <1>17, <1>18, <1>19, <1>20, <1>21, <1>22, <1>23, <1>24, <1>25, <1>26, <1>27, <1>28, <1>29, <1>30
     DEF Next, Command, Handler, GameTask, WsTask, Processing

-----------------------------------------------------------------------------
(* The inductive invariant *)

\* The clock: the history follows a running, limited time game; a START between
\* its two halves finds the round of before stopped and not paused.
ClockInv ==
  /\ PauseIsPast
  /\ hist.exact => /\ st.game_running /\ cfg.win_type = "time"
                   /\ st.game_end_time_ms > 0
                   /\ st.game_end_time_ms - (now - PausedFor) = hist.granted - hist.played
  /\ ~hist.exact => hist.granted = 0 /\ hist.played = 0
  /\ httpd = "start" => ~st.game_running /\ ~st.game_paused

\* A life: while the player is up, or the sensor is about to record a death, every
\* recorded death has been followed by a respawn.
DeathInv ==
  /\ OneDeathPerLife
  /\ proc # "idle" \/ ~st.respawning => st.deaths - hist.forwarded <= hist.respawns

IndInv == TypeOK /\ ClockInv /\ DeathInv

-----------------------------------------------------------------------------
\* The invariant holds when game_state_init has run.
LEMMA InitInv == Init => IndInv
<1> SUFFICES ASSUME Init PROVE IndInv
  OBVIOUS
<1>2. ClockInv
  BY DEF Init, ClockInv, PauseIsPast, ZeroState, PlainHistory
<1>3. DeathInv
  BY DEF Init, DeathInv, OneDeathPerLife, ZeroState, PlainHistory
<1> QED
  BY InitTyped, <1>2, <1>3 DEF IndInv

\* Every step keeps the clock's part of the invariant.
LEMMA ClockStep == TypeOK /\ ClockInv /\ [Next]_vars => ClockInv'
<1> SUFFICES ASSUME TypeOK, ClockInv, [Next]_vars PROVE ClockInv'
  OBVIOUS
<1>c. cfg.win_type \in WinType /\ cfg.time_limit_s \in Nat
  BY Typed, FieldTypes
<1>t. now \in Nat /\ st \in StateRecord /\ hist \in History
  BY DEF TypeOK
<1> USE DEF ClockInv, PauseIsPast, PausedFor, StateRecord, History
<1>1. CASE ClockTick
  BY <1>1, <1>t DEF ClockTick
<1>2. CASE ResetFinish \/ StartReset
  BY <1>2, <1>t DEF ResetFinish, StartReset, ResetRuntime, HttpdStep, RuntimeReset, ZeroState, PlainHistory
<1>3. CASE StartGame
  BY <1>3, <1>t, <1>c DEF StartGame, HttpdStep
<1>4. CASE StopGame
  BY <1>4, <1>t DEF StopGame, OneStep, HttpdStep, ClockForgotten
<1>5. CASE PauseGame
  BY <1>5, <1>t DEF PauseGame, OneStep, HttpdStep
<1>6. CASE ResumeGame
  BY <1>6, <1>t DEF ResumeGame, OneStep, HttpdStep
<1>7. ASSUME NEW d \in Extensions, ExtendTime(d) PROVE ClockInv'
  BY <1>7, <1>t, BoundAssumption DEF ExtendTime, OneStep, HttpdStep
<1>8. ASSUME NEW m \in ConfigMessages, NEW reset \in BOOLEAN, ConfigBegin(m, reset) PROVE ClockInv'
  BY <1>8, <1>t DEF ConfigBegin, HttpdStep, ClockForgotten
<1>9. ASSUME NEW i \in 1..6, ConfigWrite(i) PROVE ClockInv'
  <2>1. /\ UNCHANGED <<now, httpd>> /\ httpd = "config"
        /\ \A x \in {"game_running", "game_paused", "game_end_time_ms", "pause_time_ms"} :
              st'[x] = st[x]
    BY <1>9, <1>t DEF ConfigWrite
  <2>2. CASE hist' = hist /\ cfg'.win_type \in {cfg.win_type, "time"}
    BY <2>1, <2>2, <1>t
  <2>3. CASE hist' = ClockForgotten
    BY <2>1, <2>3, <1>t DEF ClockForgotten
  <2>4. \/ hist' = hist /\ cfg'.win_type \in {cfg.win_type, "time"}
        \/ hist' = ClockForgotten
    BY <1>9, FieldNames DEF ConfigWrite, TypeOK
  <2> QED
    BY <2>2, <2>3, <2>4
<1>10. CASE TickWin
  BY <1>10, <1>t DEF TickWin, ClockForgotten
<1>11. CASE \/ ResetStats \/ KillConfirmed \/ ForwardHit \/ ForwardCheck \/ ForwardRespawn
         \/ ForwardDeath \/ ConfigEnd \/ TickCheck \/ BroadcastRespawn
         \/ HitConfirmed \/ DeathBegin \/ DeathEnd \/ Arm \/ PeerHit \/ PeerKill
  <2>1. UNCHANGED <<now, cfg>> /\ (httpd' = httpd \/ httpd' # "start")
    BY <1>11
       DEF ResetStats, KillConfirmed, OneStep, ForwardHit, ForwardCheck, ForwardRespawn,
           ForwardDeath, ConfigEnd, TickCheck, BroadcastRespawn, HitConfirmed, DeathBegin,
           DeathEnd, Arm, PeerHit, PeerKill, HttpdStep
  <2>2. /\ st'.game_running = st.game_running /\ st'.game_paused = st.game_paused
        /\ st'.game_end_time_ms = st.game_end_time_ms
        /\ st'.pause_time_ms = st.pause_time_ms
    BY <1>11, <1>t
       DEF ResetStats, KillConfirmed, OneStep, ForwardHit, ForwardCheck, ForwardRespawn,
           ForwardDeath, ConfigEnd, TickCheck, BroadcastRespawn, HitConfirmed, DeathBegin,
           DeathEnd, Arm, PeerHit, PeerKill, Died
  <2>3. hist'.exact = hist.exact /\ hist'.granted = hist.granted /\ hist'.played = hist.played
    BY <1>11, <1>t
       DEF ResetStats, KillConfirmed, OneStep, ForwardHit, ForwardCheck, ForwardRespawn,
           ForwardDeath, ConfigEnd, TickCheck, BroadcastRespawn, HitConfirmed, DeathBegin,
           DeathEnd, Arm, PeerHit, PeerKill
  <2> QED
    BY <2>1, <2>2, <2>3, <1>t
<1>12. ASSUME NEW t \in Targets, UpdateTarget(t) PROVE ClockInv'
  BY <1>12, <1>t DEF UpdateTarget, OneStep, HttpdStep
<1>13. ASSUME NEW t \in Poller, PollRespawn(t) \/ Revive(t) PROVE ClockInv'
  BY <1>13, <1>t DEF PollRespawn, Revive
<1>14. CASE UNCHANGED vars
  BY <1>14 DEF vars
<1> QED
  BY <1>1, <1>2, <1>3, <1>4, <1>5, <1>6, <1>7, <1>8, <1>9, <1>10, <1>11, <1>12, <1>13, <1>14
     DEF Next, Command, Handler, GameTask, WsTask, Processing, Poller

\* Every step keeps what is known of respawns and deaths.
LEMMA LifeStep == TypeOK /\ DeathInv /\ [Next]_vars => DeathInv'
<1> SUFFICES ASSUME TypeOK, DeathInv, [Next]_vars PROVE DeathInv'
  OBVIOUS
<1>t. st \in StateRecord /\ hist \in History
  BY DEF TypeOK
<1> DEFINE Kept == /\ st'.respawning = st.respawning /\ st'.deaths = st.deaths
                   /\ hist'.respawns = hist.respawns /\ hist'.forwarded = hist.forwarded
                   /\ proc' = proc
<1>k. Kept => DeathInv'
  BY DEF DeathInv, OneDeathPerLife
<1>1. CASE ResetStats \/ ResetFinish \/ StartReset
  <2>1. st'.deaths = 0
    BY <1>1, <1>t
       DEF ResetStats, ResetFinish, StartReset, ResetRuntime, RuntimeReset, ZeroState,
           StateRecord
  <2>2. hist'.respawns = 0 /\ hist'.forwarded = 0
    <3>1. CASE ResetStats
      BY <3>1, <1>t DEF ResetStats, History
    <3>2. CASE ResetFinish \/ StartReset
      BY <3>2 DEF ResetFinish, StartReset, ResetRuntime, PlainHistory
    <3> QED
      BY <1>1, <3>1, <3>2
  <2> QED
    BY <2>1, <2>2 DEF DeathInv, OneDeathPerLife
<1>2. CASE StartGame
  BY <1>2, <1>t DEF StartGame, DeathInv, OneDeathPerLife, StateRecord, History
<1>3. CASE ForwardRespawn
  BY <1>3, <1>t DEF ForwardRespawn, DeathInv, OneDeathPerLife, StateRecord, History
<1>4. CASE ForwardDeath
  BY <1>4, <1>t DEF ForwardDeath, Died, DeathInv, OneDeathPerLife, StateRecord, History
<1>5. ASSUME NEW i \in 1..6, ConfigWrite(i) PROVE DeathInv'
  <2>1. st'.respawning = st.respawning /\ st'.deaths = st.deaths
    BY <1>5, <1>t DEF ConfigWrite, StateRecord
  <2>2. hist'.respawns = hist.respawns /\ hist'.forwarded = hist.forwarded
    BY <1>5, <1>t DEF ConfigWrite, ClockForgotten, History
  <2> QED
    BY <1>5, <2>1, <2>2 DEF ConfigWrite, DeathInv, OneDeathPerLife
<1>6. ASSUME NEW t \in Poller, Revive(t) PROVE DeathInv'
  BY <1>6, <1>t DEF Revive, DeathInv, OneDeathPerLife, StateRecord, History
<1>7. CASE HitConfirmed
  BY <1>7, <1>t DEF HitConfirmed, ProcStep, DeathInv, OneDeathPerLife, StateRecord, History
<1>8. CASE DeathBegin
  BY <1>8, <1>t DEF DeathBegin, ProcStep, DeathInv, OneDeathPerLife, StateRecord, History
<1>9. CASE DeathEnd
  BY <1>9, <1>t DEF DeathEnd, ProcStep, Died, DeathInv, OneDeathPerLife, StateRecord, History
<1>10. CASE StopGame \/ PauseGame \/ ResumeGame \/ KillConfirmed
  <2> Kept
    BY <1>10, <1>t
       DEF StopGame, PauseGame, ResumeGame, KillConfirmed, OneStep, ClockForgotten,
           StateRecord, History
  <2> QED
    BY <1>k
<1>11. CASE ForwardHit \/ ForwardCheck \/ ConfigEnd
  <2> Kept
    BY <1>11, <1>t DEF ForwardHit, ForwardCheck, ConfigEnd, StateRecord, History
  <2> QED
    BY <1>k
<1>12. CASE ClockTick \/ TickCheck \/ TickWin \/ BroadcastRespawn \/ Arm \/ PeerHit \/ PeerKill
  <2> Kept
    BY <1>12, <1>t
       DEF ClockTick, TickCheck, TickWin, BroadcastRespawn, Arm, PeerHit, PeerKill,
           ClockForgotten, StateRecord, History
  <2> QED
    BY <1>k
<1>13. ASSUME NEW t \in Poller, PollRespawn(t) PROVE DeathInv'
  BY <1>13, <1>k DEF PollRespawn
<1>14. ASSUME NEW d \in Extensions, ExtendTime(d) PROVE DeathInv'
  <2> Kept
    BY <1>14, <1>t DEF ExtendTime, OneStep, StateRecord, History
  <2> QED
    BY <1>k
<1>15. ASSUME NEW t \in Targets, UpdateTarget(t) PROVE DeathInv'
  BY <1>15, <1>k DEF UpdateTarget, OneStep
<1>16. ASSUME NEW m \in ConfigMessages, NEW reset \in BOOLEAN, ConfigBegin(m, reset)
      PROVE DeathInv'
  <2> Kept
    BY <1>16, <1>t DEF ConfigBegin, ClockForgotten, History
  <2> QED
    BY <1>k
<1>17. CASE UNCHANGED vars
  BY <1>17, <1>k DEF vars
<1> QED
  BY <1>1, <1>2, <1>3, <1>4, <1>5, <1>6, <1>7, <1>8, <1>9, <1>10,
     <1>11, <1>12, <1>13, <1>14, <1>15, <1>16, <1>17
     DEF Next, Command, Handler, GameTask, WsTask, Processing, Poller

-----------------------------------------------------------------------------
(* Theorems *)

\* The inductive invariant holds in every reachable state of the device.
THEOREM Invariance == Spec => []IndInv
<1>1. IndInv /\ [Next]_vars => IndInv'
  BY StepTyped, ClockStep, LifeStep DEF IndInv, ClockInv
<1> QED
  BY InitInv, <1>1, PTL DEF Spec

\* Every variable of the device keeps its type: hearts and counters never go
\* negative, however the tasks interleave.
THEOREM TypeCorrect == Spec => []TypeOK
  BY Invariance, PTL DEF IndInv

\* PAUSE, UNPAUSE and EXTEND_TIME give a time game exactly its time
\* (game_state_resume_game, game_state_extend_time).
THEOREM TimeIsBudgeted == Spec => []TimeBudget
<1>1. IndInv => TimeBudget
  BY DEF IndInv, ClockInv, TimeBudget
<1> QED
  BY Invariance, <1>1, PTL

\* Whatever the order of deaths, respawns, resets, starts and config writes, a player is
\* left at zero hearts outside a countdown only by hearts configured as 0.
THEOREM NoLimbo == Spec => LimboIsConfigured
<1>1. ASSUME TypeOK, [Next]_vars, ~Limbo, Limbo'
      PROVE  cfg'.max_hearts = 0 \/ cfg'.spawn_hearts = 0
  <2>t. st \in StateRecord /\ cfg.max_hearts \in Nat /\ cfg.spawn_hearts \in Nat
    BY <1>1, Typed, FieldTypes DEF TypeOK
  <2> DEFINE Kept == /\ st'.hearts_remaining = st.hearts_remaining
                     /\ st'.respawning = st.respawning
  <2>k. ~Kept /\ ~st'.respawning /\ st'.hearts_remaining = 0
    BY <1>1 DEF Limbo
  <2>1. CASE ResetStats \/ ResetFinish \/ StartReset
    <3> st'.hearts_remaining = cfg.max_hearts /\ cfg' = cfg
      BY <2>1, <2>t
         DEF ResetStats, ResetFinish, StartReset, ResetRuntime, RuntimeReset, ZeroState,
             StateRecord
    <3> QED BY <2>k
  <2>2. CASE StartGame
    <3> Kept \/ (st'.hearts_remaining = cfg.spawn_hearts /\ cfg' = cfg)
      BY <2>2, <2>t DEF StartGame, StateRecord
    <3> QED BY <2>k
  <2>3. ASSUME NEW t \in Poller, Revive(t) PROVE cfg'.max_hearts = 0
    <3> st'.hearts_remaining = cfg.max_hearts /\ cfg' = cfg
      BY <2>3, <2>t DEF Revive, StateRecord
    <3> QED BY <2>k
  <2>4. ASSUME NEW i \in 1..6, ConfigWrite(i) PROVE cfg'.spawn_hearts = 0
    <3>1. ConfigOrder[i] = "spawn_hearts" \/ Kept
      BY <2>4 DEF ConfigWrite
    <3>2. /\ st' = [st EXCEPT !.hearts_remaining = update["spawn_hearts"]]
          /\ cfg' = [cfg EXCEPT !["spawn_hearts"] = update["spawn_hearts"]]
      BY <2>4, <2>k, <3>1 DEF ConfigWrite
    <3>3. update["spawn_hearts"] = 0
      BY <2>k, <2>t, <3>2 DEF StateRecord
    <3> QED
      BY <1>1, <3>2, <3>3, FieldNames DEF TypeOK
  <2>5. ~(ForwardRespawn \/ ForwardDeath \/ DeathEnd)
    BY <2>k, <2>t DEF ForwardRespawn, ForwardDeath, DeathEnd, Died, StateRecord
  <2>6. ~(StopGame \/ PauseGame \/ ResumeGame \/ KillConfirmed \/ ForwardHit)
    <3> SUFFICES ASSUME StopGame \/ PauseGame \/ ResumeGame \/ KillConfirmed \/ ForwardHit
                 PROVE  Kept
      BY <2>k
    <3> QED
      BY <2>t DEF StopGame, PauseGame, ResumeGame, KillConfirmed, ForwardHit, OneStep, StateRecord
  <2>7. ~(\/ ForwardCheck \/ ConfigEnd \/ ClockTick \/ TickCheck \/ TickWin \/ BroadcastRespawn
          \/ HitConfirmed \/ DeathBegin \/ Arm \/ PeerHit \/ PeerKill)
    <3> SUFFICES ASSUME \/ ForwardCheck \/ ConfigEnd \/ ClockTick \/ TickCheck \/ TickWin
                        \/ BroadcastRespawn \/ HitConfirmed \/ DeathBegin \/ Arm
                        \/ PeerHit \/ PeerKill
                 PROVE  Kept
      BY <2>k
    <3> QED
      BY <2>t DEF ForwardCheck, ConfigEnd, ClockTick, TickCheck, TickWin, BroadcastRespawn,
        HitConfirmed, DeathBegin, Arm, PeerHit, PeerKill, StateRecord
  <2>8. ASSUME NEW d \in Extensions, ExtendTime(d) PROVE FALSE
    <3> Kept
      BY <2>8, <2>t DEF ExtendTime, OneStep, StateRecord
    <3> QED BY <2>k
  <2>9. ~(\/ \E t \in Targets : UpdateTarget(t)
          \/ \E m \in ConfigMessages, reset \in BOOLEAN : ConfigBegin(m, reset)
          \/ \E t \in Poller : PollRespawn(t)
          \/ UNCHANGED vars)
    BY <2>k DEF UpdateTarget, OneStep, ConfigBegin, PollRespawn, vars
  <2> QED
    BY <1>1, <2>1, <2>2, <2>3, <2>4, <2>5, <2>6, <2>7, <2>8, <2>9
       DEF Next, Command, Handler, GameTask, WsTask, Processing, Poller
<1>2. TypeOK /\ [Next]_vars =>
        [~Limbo /\ Limbo' => cfg'.max_hearts = 0 \/ cfg'.spawn_hearts = 0]_vars
  BY <1>1
<1> QED
  BY <1>2, TypeCorrect, PTL DEF Spec, LimboIsConfigured

\* The sensor records one death a life, although processing_task looks at the
\* respawn flag long before it records the death.
THEOREM OneDeath == Spec => []OneDeathPerLife
<1>1. IndInv => OneDeathPerLife
  BY DEF IndInv, DeathInv
<1> QED
  BY Invariance, <1>1, PTL

\* Only CMD_START starts a round, and it starts it clean (handle_game_command).
THEOREM CleanStart == Spec => RoundStartsUnpaused
<1> DEFINE Clean == ~st.game_running /\ st'.game_running => ~st'.game_paused /\ ~st'.game_over
<1>1. ASSUME IndInv, [Next]_vars PROVE Clean
  <2>t. st \in StateRecord
    BY <1>1 DEF IndInv, TypeOK
  <2>1. CASE StartGame
    <3>1. ~st.game_paused
      BY <1>1, <2>1 DEF IndInv, ClockInv, StartGame, HttpdStep
    <3>2. st'.game_paused = st.game_paused /\ st'.game_over = FALSE
      BY <2>1, <2>t DEF StartGame, StateRecord
    <3> QED
      BY <3>1, <3>2
  <2>2. CASE ~StartGame
    <3> SUFFICES st'.game_running => st.game_running
      OBVIOUS
    <3>1. CASE \/ ResetStats \/ ResetFinish \/ StartReset \/ StopGame \/ PauseGame
               \/ ResumeGame \/ KillConfirmed \/ \E d \in Extensions : ExtendTime(d)
      BY <3>1, <2>t
         DEF ResetStats, ResetFinish, StartReset, ResetRuntime, RuntimeReset, ZeroState,
             StopGame, PauseGame, ResumeGame, KillConfirmed, ExtendTime, OneStep, StateRecord
    <3>2. CASE \/ \E t \in Targets : UpdateTarget(t)
               \/ \E m \in ConfigMessages, reset \in BOOLEAN : ConfigBegin(m, reset)
               \/ \E i \in 1..6 : ConfigWrite(i)
      BY <3>2, <2>t DEF UpdateTarget, OneStep, ConfigBegin, ConfigWrite, StateRecord
    <3>3. CASE ForwardHit \/ ForwardCheck \/ ForwardRespawn \/ ForwardDeath \/ ConfigEnd
      BY <3>3, <2>t
         DEF ForwardHit, ForwardCheck, ForwardRespawn, ForwardDeath, ConfigEnd, Died,
             StateRecord
    <3>4. CASE GameTask \/ WsTask
      BY <3>4, <2>t
         DEF GameTask, WsTask, TickCheck, TickWin, PollRespawn, Revive, BroadcastRespawn,
             StateRecord
    <3>5. CASE ClockTick \/ Processing \/ Arm \/ PeerHit \/ PeerKill \/ UNCHANGED vars
      BY <3>5, <2>t
         DEF ClockTick, Processing, HitConfirmed, DeathBegin, DeathEnd, Arm, PeerHit, PeerKill,
             Died, StateRecord, vars
    <3> QED
      BY <1>1, <2>2, <3>1, <3>2, <3>3, <3>4, <3>5 DEF Next, Command, Handler
  <2> QED
    BY <2>1, <2>2
<1>2. IndInv /\ [Next]_vars => [Clean]_vars
  BY <1>1
<1> QED
  BY Invariance, <1>2, PTL DEF Spec, RoundStartsUnpaused

\* Only the locked half of the tick ends a round, and it ends a time game when the
\* time it was given is over, never earlier (game_state_tick).
THEOREM EndIsDue == Spec => GameEndsOnlyWhenDue
<1> DEFINE Due == \/ cfg.win_type = "score" /\ Score >= cfg.target_score
                  \/ /\ cfg.win_type = "time"
                     /\ hist.exact => hist.played + PausedFor >= hist.granted
<1>1. ASSUME IndInv, [Next]_vars, EndedByTick PROVE Due
  <2>1. TickWin
    <3>1. task \in [Poller -> {"tick", "win", "poll", "revive", "notify"}]
      BY <1>1 DEF IndInv, TypeOK
    <3>2. task["game"] = "win" /\ task' # task
      BY <1>1 DEF EndedByTick
    <3>3. GameTask \/ WsTask
      BY <1>1, <3>2
         DEF Next, Command, Handler, Processing, ClockTick, ResetStats, ResetFinish, StartReset,
             ResetRuntime, StartGame, StopGame, PauseGame, ResumeGame, ExtendTime, UpdateTarget,
             KillConfirmed, OneStep, ForwardHit, ForwardCheck, ForwardRespawn, ForwardDeath,
             ConfigBegin, ConfigWrite, ConfigEnd, HitConfirmed, DeathBegin, DeathEnd, Arm, PeerHit,
             PeerKill, vars
    <3> QED
      BY <1>1, <3>1, <3>3
         DEF EndedByTick, GameTask, WsTask, TickCheck, PollRespawn, Revive, BroadcastRespawn,
             TaskStep, Poller
  <2>2. WinCondition
    BY <1>1, <2>1 DEF EndedByTick, TickWin
  <2>3. CASE cfg.win_type = "time" /\ hist.exact /\ now >= st.game_end_time_ms
    BY <1>1, <2>3 DEF IndInv, ClockInv, TypeOK, StateRecord, History, PausedFor, PauseIsPast
  <2> QED
    BY <2>2, <2>3 DEF WinCondition
<1>2. IndInv /\ [Next]_vars => [EndedByTick => Due]_vars
  BY <1>1
<1> QED
  BY Invariance, <1>2, PTL DEF Spec, GameEndsOnlyWhenDue

\* Outside the handlers of the httpd task, hearts come back from zero by a completed
\* respawn (game_state_check_respawn), or by a death that read them before they were
\* configured as 0, and by nothing else.
THEOREM RespawnAlone == Spec => OnlyRespawnRevives
<1>1. ASSUME TypeOK, [Next]_vars,
             st.hearts_remaining = 0, st'.hearts_remaining > 0, httpd = "idle", httpd' = "idle"
      PROVE  \/ \E t \in Poller : task[t] = "revive" /\ task'[t] # "revive"
             \/ DeathEnd /\ seen > 1
  <2>t. seen \in Nat /\ st \in StateRecord /\ task \in [Poller -> {"tick", "win", "poll", "revive", "notify"}]
    BY <1>1 DEF TypeOK
  <2> DEFINE Kept == st'.hearts_remaining = st.hearts_remaining
  <2>k. ~Kept
    BY <1>1
  <2>1. ASSUME NEW t \in Poller, Revive(t)
        PROVE  task[t] = "revive" /\ task'[t] # "revive"
    BY <2>1, <2>t DEF Revive, TaskStep
  <2>2. ~(\/ ResetStats \/ StartReset \/ ForwardHit \/ Handler
          \/ \E m \in ConfigMessages, reset \in BOOLEAN : ConfigBegin(m, reset))
    BY <1>1 DEF ResetStats, StartReset, ResetRuntime, ForwardHit, Handler, ResetFinish, StartGame,
      ForwardCheck, ForwardRespawn, ForwardDeath, ConfigWrite, ConfigEnd, ConfigBegin, HttpdStep
  <2>3. CASE DeathEnd
    <3>1. seen > 1
      BY <1>1, <2>3, <2>t DEF DeathEnd, Died, StateRecord
    <3> QED BY <2>3, <3>1
  <2>4. CASE StopGame \/ PauseGame \/ ResumeGame \/ KillConfirmed
    <3> Kept
      BY <2>4, <2>t DEF StopGame, PauseGame, ResumeGame, KillConfirmed, OneStep, StateRecord
    <3> QED BY <2>k
  <2>5. CASE (\E d \in Extensions : ExtendTime(d)) \/ (\E t \in Targets : UpdateTarget(t))
    <3> Kept
      BY <2>5, <2>t DEF ExtendTime, UpdateTarget, OneStep, StateRecord
    <3> QED BY <2>k
  <2>6. CASE ClockTick \/ TickCheck \/ BroadcastRespawn \/ HitConfirmed \/ DeathBegin
    <3> Kept
      BY <2>6 DEF ClockTick, TickCheck, BroadcastRespawn, HitConfirmed, DeathBegin
    <3> QED BY <2>k
  <2>7. CASE TickWin \/ Arm \/ PeerHit \/ PeerKill
    <3> Kept
      BY <2>7, <2>t DEF TickWin, Arm, PeerHit, PeerKill, StateRecord
    <3> QED BY <2>k
  <2>8. CASE (\E t \in Poller : PollRespawn(t)) \/ UNCHANGED vars
    <3> Kept
      BY <2>8 DEF PollRespawn, vars
    <3> QED BY <2>k
  <2> QED
    BY <1>1, <2>1, <2>2, <2>3, <2>4, <2>5, <2>6, <2>7, <2>8
       DEF Next, Command, GameTask, WsTask, Processing, Poller
<1>2. TypeOK /\ [Next]_vars =>
        [st.hearts_remaining = 0 /\ st'.hearts_remaining > 0 /\ httpd = "idle" /\ httpd' = "idle"
           => \/ \E t \in Poller : task[t] = "revive" /\ task'[t] # "revive"
              \/ DeathEnd /\ seen > 1]_vars
  BY <1>1
<1> QED
  BY <1>2, TypeCorrect, PTL DEF Spec, OnlyRespawnRevives

\* What a time game was granted and what is configured part only in a step of a running
\* config_update (handle_config_update; game_state_extend_time adds to both).
THEOREM LimitFollowsTheRound == Spec => OnlyConfigPartsTheLimit
<1>1. ASSUME IndInv, [Next]_vars, hist'.exact, httpd # "config",
             hist.exact => hist.granted = cfg.time_limit_s
      PROVE  hist'.granted = cfg'.time_limit_s
  <2>t. /\ hist \in History /\ cfg.time_limit_s \in Nat
        /\ DOMAIN cfg = ConfigField /\ "time_limit_s" \in ConfigField
    BY <1>1, Typed, FieldTypes, FieldNames DEF IndInv, TypeOK
  <2>1. CASE StartGame
    <3>1. ~hist.exact
      BY <1>1, <2>1 DEF IndInv, ClockInv, StartGame, HttpdStep
    <3> QED BY <1>1, <2>1, <2>t, <3>1 DEF StartGame, History
  <2>2. ASSUME NEW d \in Extensions, ExtendTime(d) PROVE hist'.granted = cfg'.time_limit_s
    <3>1. hist.exact
      BY <1>1, <2>2, <2>t DEF ExtendTime, History
    <3> QED BY <1>1, <2>2, <2>t, <3>1 DEF ExtendTime, History
  <2>3. CASE ResetFinish \/ StartReset \/ StopGame
    <3>1. hist' = PlainHistory \/ hist' = ClockForgotten
      BY <2>3 DEF ResetFinish, StartReset, ResetRuntime, StopGame
    <3>2. ~PlainHistory.exact /\ ~ClockForgotten.exact
      BY <2>t DEF PlainHistory, ClockForgotten, History
    <3> QED BY <1>1, <3>1, <3>2
  <2>4. ASSUME NEW m \in ConfigMessages, NEW reset \in BOOLEAN, ConfigBegin(m, reset)
        PROVE  hist'.granted = cfg'.time_limit_s
    BY <1>1, <2>4, <2>t DEF ConfigBegin, ClockForgotten, History
  <2>5. ASSUME NEW t \in Targets, UpdateTarget(t) PROVE hist'.granted = cfg'.time_limit_s
    BY <1>1, <2>5, <2>t, FieldNames DEF UpdateTarget, OneStep
  <2>6. CASE TickWin
    BY <1>1, <2>6, <2>t DEF TickWin, ClockForgotten, History
  <2>7. CASE \/ ClockTick \/ ResetStats \/ PauseGame \/ ResumeGame \/ KillConfirmed \/ ForwardHit
           \/ ForwardCheck \/ ForwardRespawn \/ ForwardDeath \/ TickCheck \/ BroadcastRespawn
           \/ HitConfirmed \/ DeathBegin \/ DeathEnd \/ Arm \/ PeerHit \/ PeerKill
           \/ \E t \in Poller : PollRespawn(t) \/ Revive(t)
           \/ UNCHANGED vars
    <3>1. hist'.exact = hist.exact /\ hist'.granted = hist.granted /\ cfg' = cfg
      BY <2>7, <2>t DEF ClockTick, ResetStats, PauseGame, ResumeGame, KillConfirmed, OneStep,
        ForwardHit, ForwardCheck, ForwardRespawn, ForwardDeath, TickCheck, BroadcastRespawn,
        HitConfirmed, DeathBegin, DeathEnd, Arm, PeerHit, PeerKill, PollRespawn, Revive, vars,
        History
    <3> QED BY <1>1, <3>1
  <2>8. ~ConfigEnd /\ \A i \in 1..6 : ~ConfigWrite(i)
    BY <1>1 DEF ConfigEnd, ConfigWrite, HttpdStep
  <2> QED
    BY <1>1, <2>1, <2>2, <2>3, <2>4, <2>5, <2>6, <2>7, <2>8
       DEF Next, Command, Handler, GameTask, WsTask, Processing, Poller
<1>2. IndInv /\ [Next]_vars =>
        [/\ hist'.exact /\ httpd # "config"
         /\ hist.exact => hist.granted = cfg.time_limit_s
         => hist'.granted = cfg'.time_limit_s]_vars
  BY <1>1
<1> QED
  BY <1>2, Invariance, PTL DEF Spec, OnlyConfigPartsTheLimit

-----------------------------------------------------------------------------
(* The round of MatchRound *)

\* A step that leaves the flags of the round, its clock, its history and the tick's
\* decision alone is a stuttering step of the round.
LEMMA RoundStutters ==
  ASSUME UNCHANGED now,
         \A x \in {"game_running", "game_paused", "game_over",
                   "game_end_time_ms", "pause_time_ms"} : st'[x] = st[x],
         hist'.exact = hist.exact,
         (task'["game"] = "win") <=> (task["game"] = "win")
  PROVE  UNCHANGED Round!vars
  BY DEF Round!vars, Phase, PausedFor

\* Every step of the device is a step of the round, or leaves it alone.
LEMMA RoundStep == IndInv /\ [Next]_vars => [Round!Next]_(Round!vars)
<1> SUFFICES ASSUME IndInv, [Next]_vars PROVE [Round!Next]_(Round!vars)
  OBVIOUS
<1>t. /\ now \in Nat /\ st \in StateRecord /\ hist \in History
      /\ task \in [Poller -> {"tick", "win", "poll", "revive", "notify"}]
      /\ ClockInv /\ PauseIsPast
  BY DEF IndInv, TypeOK, ClockInv
<1>c. cfg.win_type \in WinType /\ cfg.time_limit_s \in Nat
  BY Typed, FieldTypes DEF IndInv
<1>1. CASE ClockTick
  BY <1>1, <1>t
     DEF ClockTick, ClockInv, PauseIsPast, StateRecord, History, Phase, PausedFor,
         Round!Next, Round!TimePasses
<1>2. CASE ResetFinish \/ StartReset
  BY <1>2, <1>t
     DEF ResetFinish, StartReset, ResetRuntime, RuntimeReset, ZeroState, PlainHistory,
         Phase, PausedFor, Round!Next, Round!Leave
<1>3. CASE StartGame
  <2>1. ~st.game_running /\ ~st.game_paused /\ ~hist.exact
    BY <1>3, <1>t DEF ClockInv, StartGame, HttpdStep
  <2>2. Phase' = "running" /\ Phase \notin {"running", "paused"}
    BY <1>3, <1>t, <2>1 DEF StartGame, StateRecord, Phase
  <2>3. CASE cfg.win_type = "time" /\ cfg.time_limit_s > 0
    <3>1. /\ hist'.exact /\ st'.game_end_time_ms = now + cfg.time_limit_s
          /\ ~st'.game_paused /\ UNCHANGED <<now, task>>
      BY <1>3, <1>t, <2>1, <2>3 DEF StartGame, StateRecord, History
    <3> QED
      BY <2>2, <3>1, <1>t, <1>c, <2>3
         DEF PausedFor, Round!Next, Round!Begin, Round!InPlay
  <2>4. CASE ~(cfg.win_type = "time" /\ cfg.time_limit_s > 0)
    <3>1. ~hist'.exact /\ UNCHANGED <<now, task>>
      BY <1>3, <1>t, <2>1, <2>4 DEF StartGame
    <3> QED
      BY <2>2, <3>1 DEF Round!Next, Round!Begin, Round!InPlay
  <2> QED
    BY <2>3, <2>4
<1>4. CASE StopGame
  BY <1>4, <1>t
     DEF StopGame, OneStep, ClockForgotten, StateRecord, History, Phase, PausedFor,
         Round!Next, Round!Leave
<1>5. CASE PauseGame
  BY <1>5, <1>t
     DEF PauseGame, OneStep, StateRecord, Phase, PausedFor, Round!Next, Round!Pause
<1>6. CASE ResumeGame
  BY <1>6, <1>t
     DEF ResumeGame, OneStep, ClockInv, PauseIsPast, StateRecord, History, Phase,
         PausedFor, Round!Next, Round!Resume
<1>7. ASSUME NEW d \in Extensions, ExtendTime(d) PROVE [Round!Next]_(Round!vars)
  <2>1. /\ st.game_running /\ d \in Nat /\ UNCHANGED <<now, task>>
        /\ st' = [st EXCEPT !.game_end_time_ms = @ + d]
        /\ hist'.exact = hist.exact
    BY <1>7, <1>t, BoundAssumption DEF ExtendTime, OneStep, History
  <2>2. CASE hist.exact
    BY <2>1, <2>2, <1>t
       DEF StateRecord, Phase, PausedFor, Round!Next, Round!Extend, Round!InPlay
  <2>3. CASE ~hist.exact
    BY <2>1, <2>3, <1>t DEF StateRecord, Phase, PausedFor, Round!vars
  <2> QED
    BY <2>2, <2>3
<1>8. ASSUME NEW m \in ConfigMessages, NEW reset \in BOOLEAN, ConfigBegin(m, reset)
      PROVE [Round!Next]_(Round!vars)
  BY <1>8, <1>t
     DEF ConfigBegin, ClockForgotten, History, Phase, PausedFor, Round!Next, Round!Retype,
         Round!vars
<1>9. ASSUME NEW i \in 1..6, ConfigWrite(i) PROVE [Round!Next]_(Round!vars)
  <2>1. /\ UNCHANGED <<now, task>>
        /\ \A x \in {"game_running", "game_paused", "game_over",
                     "game_end_time_ms", "pause_time_ms"} : st'[x] = st[x]
    BY <1>9, <1>t DEF ConfigWrite, StateRecord
  <2>2. hist' = hist \/ hist' = ClockForgotten
    BY <1>9 DEF ConfigWrite
  <2>3. CASE hist' = hist
    BY <2>1, <2>3, RoundStutters
  <2>4. CASE hist' = ClockForgotten
    BY <2>1, <2>4, <1>t
       DEF ClockForgotten, History, Phase, PausedFor, Round!Next, Round!Retype
  <2> QED
    BY <2>2, <2>3, <2>4
<1>10. CASE TickWin
  <2>1. /\ task["game"] = "win" /\ task'["game"] = "poll" /\ UNCHANGED <<now, cfg>>
    BY <1>10, <1>t DEF TickWin, TaskStep, Poller
  <2>2. CASE ~WinCondition
    BY <1>10, <2>1, <2>2
       DEF TickWin, Phase, PausedFor, Round!Next, Round!Decide
  <2>3. CASE WinCondition
    <3>1. Phase' = "over" /\ ~hist'.exact
      BY <1>10, <1>t, <2>3 DEF TickWin, ClockForgotten, StateRecord, History, Phase
    <3>2. ASSUME hist.exact PROVE now >= st.game_end_time_ms
      BY <1>t, <2>3, <3>2 DEF WinCondition, ClockInv
    <3>3. ASSUME hist.exact
          PROVE  st.game_end_time_ms - (now - PausedFor)
                   <= IF Phase = "paused" THEN PausedFor ELSE 0
      BY <1>t, <3>2, <3>3
         DEF ClockInv, PauseIsPast, StateRecord, Phase, PausedFor
    <3> QED
      BY <2>1, <3>1, <3>3 DEF Round!Next, Round!Decide
  <2> QED
    BY <2>2, <2>3
<1>11. CASE TickCheck
  <2>1. UNCHANGED <<now, st, hist>> /\ task["game"] = "tick"
    BY <1>11 DEF TickCheck, TaskStep
  <2>2. CASE task'["game"] = "win"
    <3>1. Phase = "running"
      BY <1>11, <1>t, <2>2 DEF TickCheck, TaskStep, Poller, Phase
    <3> QED
      BY <2>1, <2>2, <3>1 DEF Phase, PausedFor, Round!Next, Round!Look
  <2>3. CASE task'["game"] # "win"
    BY <2>1, <2>3, RoundStutters
  <2> QED
    BY <2>2, <2>3
<1>12. CASE \/ ResetStats \/ KillConfirmed \/ ForwardHit \/ ForwardCheck \/ ForwardRespawn
         \/ ForwardDeath \/ ConfigEnd \/ HitConfirmed \/ DeathBegin \/ DeathEnd \/ Arm
         \/ PeerHit \/ PeerKill \/ \E t \in Targets : UpdateTarget(t)
  <2>1. UNCHANGED <<now, task>>
    BY <1>12
       DEF ResetStats, KillConfirmed, OneStep, ForwardHit, ForwardCheck, ForwardRespawn,
           ForwardDeath, ConfigEnd, HitConfirmed, DeathBegin, DeathEnd, Arm, PeerHit, PeerKill,
           UpdateTarget
  <2>2. \A x \in {"game_running", "game_paused", "game_over",
                  "game_end_time_ms", "pause_time_ms"} : st'[x] = st[x]
    BY <1>12, <1>t
       DEF ResetStats, KillConfirmed, OneStep, ForwardHit, ForwardCheck, ForwardRespawn,
           ForwardDeath, ConfigEnd, HitConfirmed, DeathBegin, DeathEnd, Arm, PeerHit, PeerKill,
           UpdateTarget, Died, StateRecord
  <2>3. hist'.exact = hist.exact
    BY <1>12, <1>t
       DEF ResetStats, KillConfirmed, OneStep, ForwardHit, ForwardCheck, ForwardRespawn,
           ForwardDeath, ConfigEnd, HitConfirmed, DeathBegin, DeathEnd, Arm, PeerHit, PeerKill,
           UpdateTarget, History
  <2> QED
    BY <2>1, <2>2, <2>3, RoundStutters
<1>13. CASE BroadcastRespawn \/ \E t \in Poller : PollRespawn(t) \/ Revive(t)
  <2>1. UNCHANGED now /\ hist'.exact = hist.exact
    BY <1>13, <1>t DEF BroadcastRespawn, PollRespawn, Revive, History
  <2>2. \A x \in {"game_running", "game_paused", "game_over",
                  "game_end_time_ms", "pause_time_ms"} : st'[x] = st[x]
    BY <1>13, <1>t DEF BroadcastRespawn, PollRespawn, Revive, StateRecord
  <2>3. (task'["game"] = "win") <=> (task["game"] = "win")
    BY <1>13, <1>t DEF BroadcastRespawn, PollRespawn, Revive, TaskStep, Poller
  <2> QED
    BY <2>1, <2>2, <2>3, RoundStutters
<1>14. CASE UNCHANGED vars
  BY <1>14, RoundStutters DEF vars
<1> QED
  BY <1>1, <1>2, <1>3, <1>4, <1>5, <1>6, <1>7, <1>8, <1>9, <1>10, <1>11, <1>12, <1>13, <1>14
     DEF Next, Command, Handler, GameTask, WsTask, Processing, Poller

\* The device implements the abstract round: the mutex, the tick in two halves and
\* the end times of game_state.cpp are an implementation of MatchRound.
THEOREM RoundImplemented == Spec => ImplementsMatchRound
<1>1. Init => Round!Init
  BY DEF Init, ZeroState, PlainHistory, Phase, PausedFor, Round!Init
<1> QED
  BY Invariance, <1>1, RoundStep, PTL DEF Spec, ImplementsMatchRound, Round!Spec
=============================================================================

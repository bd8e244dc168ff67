---------------------------- MODULE MCGameState ----------------------------
(***************************************************************************)
(* Instances of GameState for TLC.  One config_update changes at most two  *)
(* fields, so that a handler is seen half-way by the tasks.                *)
(***************************************************************************)
EXTENDS GameState

\* The firmware's defaults, scaled down: a score game.
MCDefault ==
  [win_type |-> "score", target_score |-> 2, time_limit_s |-> 2,
   max_hearts |-> 2, spawn_hearts |-> 1, respawn_cooldown_ms |-> 1]

\* A time game of two ticks; the other kinds of game are reached by config_update.
MCTimeConfig ==
  [MCDefault EXCEPT !.win_type = "time", !.target_score = 1]

\* A last-man-standing game of one heart, in which a death is an elimination.
MCElimination ==
  [MCDefault EXCEPT !.win_type = "last_man_standing"]

Message(f, v) == [g \in {f} |-> v]

\* The operator retypes the game, or changes its limit while it runs.
MCClockMessages ==
  {Message("win_type", "score"), Message("win_type", "time"),
   Message("time_limit_s", 0), Message("time_limit_s", 3)}

\* The operator takes the hearts of the next life and, a step later, hands one out now.
MCLifeMessages == {[max_hearts |-> 0, spawn_hearts |-> 1]}

\* The operator drops the limit for the next round, and with it the cooldown.
MCLivenessMessages == {[time_limit_s |-> 0, respawn_cooldown_ms |-> 0]}
=============================================================================

----------------------------- MODULE MatchRound -----------------------------
(***************************************************************************)
(* The round a match promises its players, with no locks, tasks or end     *)
(* times in sight: it is idle, running, paused or over; a timed round has  *)
(* so much time left, which only play uses up; and the referee, who looks  *)
(* first and decides later, ends a timed round only when its time is up.   *)
(* GameState implements it.                                                *)
(***************************************************************************)
EXTENDS Integers

VARIABLES
  phase,    \* "idle", "running", "paused" or "over"
  timed,    \* does the round have a limit that is kept track of
  left,     \* the time left of a timed round
  waited,   \* how long the present pause has lasted
  judging   \* the referee has seen a running round and has not decided yet

vars == <<phase, timed, left, waited, judging>>

-----------------------------------------------------------------------------
InPlay == phase \in {"running", "paused"}

Init ==
  /\ phase = "idle"
  /\ ~timed /\ left = 0
  /\ waited = 0
  /\ ~judging

\* Play uses up the time left, a pause does not.
TimePasses ==
  /\ left' = IF timed /\ phase = "running" THEN left - 1 ELSE left
  /\ waited' = IF phase = "paused" THEN waited + 1 ELSE waited
  /\ UNCHANGED <<phase, timed, judging>>

\* A round begins when none is in play, for a limit or without one.
Begin ==
  /\ ~InPlay
  /\ phase' = "running"
  /\ \/ timed' /\ left' \in Nat \ {0}
     \/ ~timed' /\ left' = 0
  /\ waited' = 0
  /\ UNCHANGED judging

\* The operator clears the field or stops the match.
Leave(p) ==
  /\ phase' = p
  /\ ~timed' /\ left' = 0
  /\ waited' = 0
  /\ UNCHANGED judging

Pause ==
  /\ phase = "running" /\ phase' = "paused"
  /\ UNCHANGED <<timed, left, waited, judging>>

\* After a pause as much time is left as before it.
Resume ==
  /\ phase = "paused" /\ phase' = "running"
  /\ waited' = 0
  /\ UNCHANGED <<timed, left, judging>>

Extend ==
  /\ InPlay /\ timed
  /\ left' - left \in Nat
  /\ UNCHANGED <<phase, timed, waited, judging>>

\* The operator turns a timed match into one of another kind.
Retype ==
  /\ ~timed' /\ left' = 0
  /\ UNCHANGED <<phase, waited, judging>>

\* The referee looks at a round only while it is running ...
Look ==
  /\ phase = "running"
  /\ ~judging /\ judging'
  /\ UNCHANGED <<phase, timed, left, waited>>

\* ... and ends a timed one only if its time is up, counting the pause that may
\* have begun in between.  A round cleared since the look may be called over.
Decide ==
  /\ judging /\ ~judging'
  /\ \/ UNCHANGED <<phase, timed, left, waited>>
     \/ /\ timed => left <= waited
        /\ phase' = "over"
        /\ ~timed' /\ left' = 0
        /\ waited' = 0

Next ==
  \/ TimePasses
  \/ Begin \/ Leave("idle") \/ Leave("over")
  \/ Pause \/ Resume \/ Extend \/ Retype
  \/ Look \/ Decide

Spec == Init /\ [][Next]_vars
=============================================================================

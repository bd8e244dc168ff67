----------------------------- MODULE KeptConnection -----------------------------
(***************************************************************************)
(* What every connection of the system promises, with no sockets, timers   *)
(* or events in sight: a peer that is wanted is being tried, up, or        *)
(* waiting for its next try, until it is dismissed; it is never wanted and *)
(* forgotten.  One that may be abandoned can also end where nothing will   *)
(* try it again; one whose first try may fail to start can wait at once.   *)
(* A device's way into the network (WifiLink), the browser's way to a      *)
(* device (LocalComm) and the bridge's (WsBridge) implement it.            *)
(***************************************************************************)

CONSTANTS
  MayAbandon,  \* whether a try can be refused for good
  MayDefer     \* whether the first try can fail before it is under way

VARIABLE phase  \* "absent", "trying", "up", "waiting" or "abandoned"

-----------------------------------------------------------------------------
Init == phase = "absent"

Want == phase = "absent" /\ phase' = "trying"

Defer == MayDefer /\ phase = "absent" /\ phase' = "waiting"

Succeed == phase = "trying" /\ phase' = "up"

\* A try fails, or a connection is lost: the next try will come.
Lose == phase \in {"trying", "up"} /\ phase' = "waiting"

TryAgain == phase = "waiting" /\ phase' = "trying"

Abandon == MayAbandon /\ phase \in {"absent", "waiting"} /\ phase' = "abandoned"

Dismiss == phase # "absent" /\ phase' = "absent"

Next == Want \/ Defer \/ Succeed \/ Lose \/ TryAgain \/ Abandon \/ Dismiss

Spec == Init /\ [][Next]_phase
=============================================================================

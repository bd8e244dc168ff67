----------------------------- MODULE StatusStream -----------------------------
(***************************************************************************)
(* The numbered messages of one device and what a browser makes of them:   *)
(* create_status_json, the other messages and the senders of               *)
(* esp32/shared/src/ws_server.cpp, the sequence number of game_state.cpp,  *)
(* and the duplicate filter of web/apps/frontend/src/lib/comm/LocalComm.ts *)
(*                                                                         *)
(* Several tasks send.  A status draws a number under the mutex, reads the *)
(* fields without it, and hands the text to httpd, whose one task sends in *)
(* the order of its work queue; so the order on the wire need not be that  *)
(* of the numbers.  Hit reports, shots and respawns draw their numbers     *)
(* from the same counter and pass the same filter, and carry no status.    *)
(* START and RESET clear the counter with the rest of the game state, and  *)
(* a restart clears everything, while the browser keeps the largest number *)
(* it has seen as long as the device stays in its list.                    *)
(*                                                                         *)
(* One number, version, stands for all the fields: every change of any of  *)
(* them increases it.  A poll of ws_task may or may not find a heartbeat   *)
(* due: every status that is sent and every HEARTBEAT of any browser       *)
(* starts the ten seconds anew.                                            *)
(***************************************************************************)
EXTENDS Naturals, Sequences

CONSTANTS
  Tasks,        \* the tasks that send numbered messages
  Periodic,     \* ws_task among them, which sends a status when it finds a heartbeat due
  WorkSlots,    \* capacity of httpd's work queue
  MaxChanges,   \* bound: changes of the fields, resets included
  MaxResets,    \* bound: resets and restarts
  MaxRejoins,   \* bound: connections that are made anew
  Busy,         \* bound: the counter value from which on nothing happens but heartbeats
  MaxSeq        \* bound: the largest number drawn

\* What the constants are assumed to be; Parts assumes it of its instance.
StatusAssumption ==
  /\ Periodic \in Tasks
  /\ WorkSlots \in Nat \ {0}
  /\ MaxChanges \in Nat /\ MaxResets \in Nat /\ MaxRejoins \in Nat
  /\ MaxSeq \in Nat /\ Busy \in 0..MaxSeq

VARIABLES
  fields,   \* of s_state: broadcast_seq_id, the fields, and how often they were cleared
  sending,  \* per task: the message it is making
  work,     \* httpd's work queue
  view,     \* the browser: lastSeqId, the fields it shows; era and floor are history
  budget    \* changes, resets and new connections left, for the bounds

statusVars == <<fields, sending, work, view, budget>>

Version == 0..MaxChanges

\* A status carries its number and the fields.  For the properties it also tells the
\* clearing of the counter it belongs to and the fields when its number was drawn.
\* Of an event only the number counts.
Message == [kind : {"status", "event"}, seq : 0..MaxSeq, version : Version,
            era : 0..MaxResets, drawn : Version]

Job == [pc : {"idle", "drawn", "read"}, msg : Message]

Event(n) == [kind |-> "event", seq |-> n, version |-> 0, era |-> 0, drawn |-> 0]

NewStatus(n) ==
  [kind |-> "status", seq |-> n, version |-> 0, era |-> fields.era, drawn |-> fields.version]

Idle == [pc |-> "idle", msg |-> Event(0)]

Init ==
  /\ fields = [seq |-> 0, version |-> 0, era |-> 0]
  /\ sending = [t \in Tasks |-> Idle]
  /\ work = <<>>
  /\ view = [last |-> 0, shown |-> 0, era |-> 0, floor |-> 0]
  /\ budget = [changes |-> MaxChanges, resets |-> MaxResets, rejoins |-> MaxRejoins]

-----------------------------------------------------------------------------
(* The device. *)

\* Hits, kills, respawns, the clock, a new configuration.
Change ==
  /\ budget.changes > 0 /\ fields.seq < Busy
  /\ budget' = [budget EXCEPT !.changes = @ - 1]
  /\ fields' = [fields EXCEPT !.version = @ + 1]
  /\ UNCHANGED <<sending, work, view>>

\* game_state_reset_runtime; a restart also ends what the tasks were doing, and the
\* connections with it.
Reset(restart) ==
  /\ budget.changes > 0 /\ budget.resets > 0 /\ fields.seq < Busy
  /\ budget' = [budget EXCEPT !.changes = @ - 1, !.resets = @ - 1]
  /\ fields' = [seq |-> 0, version |-> fields.version + 1, era |-> fields.era + 1]
  /\ UNCHANGED view
  /\ IF restart
       THEN sending' = [t \in Tasks |-> Idle] /\ work' = <<>>
       ELSE UNCHANGED <<sending, work>>

\* Two periodic statuses are ten seconds apart: what was sent before has gone.
Quiet == work = <<>> /\ \A t \in Tasks : sending[t].pc = "idle"

\* Beyond Busy the match is quiet, and only ws_task's status is left.
MayDraw(t) ==
  fields.seq < Busy \/ (t = Periodic /\ fields.seq < MaxSeq /\ Quiet)

\* Seeded fault: the fields are read before the number is drawn.
ReadThenDraw(t) ==
  \/ /\ sending[t].pc = "idle" /\ MayDraw(t)
     /\ sending' = [sending EXCEPT
          ![t] = [pc |-> "drawn", msg |-> [NewStatus(0) EXCEPT !.version = fields.version]]]
     /\ UNCHANGED fields
  \/ /\ sending[t].pc = "drawn" /\ fields.seq < MaxSeq
     /\ fields' = [fields EXCEPT !.seq = @ + 1]
     /\ sending' = [sending EXCEPT
          ![t] = [pc |-> "read",
                  msg |-> [@.msg EXCEPT !.seq = fields'.seq, !.era = fields.era,
                                        !.drawn = fields.version]]]

\* create_status_json: first game_state_next_seq_id, then the fields.
DrawThenRead(t) ==
  \/ /\ sending[t].pc = "idle" /\ MayDraw(t)
     /\ fields' = [fields EXCEPT !.seq = @ + 1]
     /\ sending' = [sending EXCEPT
          ![t] = [pc |-> "drawn", msg |-> NewStatus(fields.seq + 1)]]
  \/ /\ sending[t].pc = "drawn"
     /\ sending' = [sending EXCEPT
          ![t].pc = "read", ![t].msg.version = fields.version]
     /\ UNCHANGED fields

Compose(t) == DrawThenRead(t) /\ UNCHANGED <<work, view, budget>>

\* ws_server_broadcast_hit, _shot and _respawn: the number is the last thing they read.
Report(t) ==
  /\ sending[t].pc = "idle" /\ fields.seq < Busy
  /\ fields' = [fields EXCEPT !.seq = @ + 1]
  /\ sending' = [sending EXCEPT ![t] = [pc |-> "read", msg |-> Event(fields.seq + 1)]]
  /\ UNCHANGED <<work, view, budget>>

\* ws_server_send_frame: httpd_queue_work takes the text, or it is lost.
Send(t) ==
  /\ sending[t].pc = "read"
  /\ work' = IF Len(work) < WorkSlots THEN Append(work, sending[t].msg) ELSE work
  /\ sending' = [sending EXCEPT ![t] = Idle]
  /\ UNCHANGED <<fields, view, budget>>

-----------------------------------------------------------------------------
(* The browser. *)

\* Seeded fault: only the next number is taken.
AcceptsNext(seq) == seq = view.last + 1

Accepts(seq) == ~(seq > 0 /\ seq <= view.last)

\* What a message that passes makes of the view: a status brings the fields, an event
\* only its number.
Seen(msg) ==
  IF msg.kind = "event" THEN [view EXCEPT !.last = msg.seq]
  ELSE [last |-> msg.seq, shown |-> msg.version, era |-> msg.era,
        floor |-> IF msg.era = view.era /\ msg.drawn < view.floor
                    THEN view.floor ELSE msg.drawn]

\* handleWebSocketMessage.
Deliver ==
  /\ work # <<>>
  /\ work' = Tail(work)
  /\ view' = IF Accepts(Head(work).seq) THEN Seen(Head(work)) ELSE view
  /\ UNCHANGED <<fields, sending, budget>>

\* The connection is lost and made anew.  Messages still in the queue fail, or reach
\* the new connection when it was given the same descriptor.  A device that was
\* removed and added meanwhile has forgotten its last number.
Rejoin ==
  /\ budget.rejoins > 0 /\ fields.seq < Busy
  /\ budget' = [budget EXCEPT !.rejoins = @ - 1]
  /\ work' \in {work, <<>>}
  /\ view' \in {view, [view EXCEPT !.last = 0, !.floor = 0]}
  /\ UNCHANGED <<fields, sending>>

\* The model goes no further than its largest number.
BoundReached == fields.seq = MaxSeq /\ UNCHANGED statusVars

Next ==
  \/ Change \/ Reset(TRUE) \/ Reset(FALSE)
  \/ \E t \in Tasks : Compose(t) \/ Report(t) \/ Send(t)
  \/ Deliver \/ Rejoin \/ BoundReached

\* A task goes on with the message it has begun.
Finish(t) == (sending[t].pc = "drawn" /\ Compose(t)) \/ Send(t)

\* The tasks and httpd run.  Nothing makes ws_task find a heartbeat due.
Fairness ==
  /\ \A t \in Tasks : WF_statusVars(Finish(t))
  /\ WF_statusVars(Deliver)

Spec == Init /\ [][Next]_statusVars /\ Fairness

-----------------------------------------------------------------------------
(* Properties. *)

\* Every variable has its type.
TypeOK ==
  /\ fields \in [seq : 0..MaxSeq, version : Version, era : 0..MaxResets]
  /\ sending \in [Tasks -> Job]
  /\ work \in Seq(Message) /\ Len(work) <= WorkSlots
  /\ view \in [last : 0..MaxSeq, shown : Version, era : 0..MaxResets,
               floor : Version]
  /\ budget \in [changes : 0..MaxChanges, resets : 0..MaxResets, rejoins : 0..MaxRejoins]

\* create_status_json, handleWebSocketMessage: the numbers may overtake each other on
\* the wire, a status overtaken by an event is dropped, and a later number may even
\* carry older fields; but what the browser shows is never older than the fields were
\* when the number of any status it has taken was drawn (the newest of them is the
\* floor).  Only a status from before a clearing of the counter takes it back, or one
\* that comes after the device was removed and added again.
NoStepBack == view.floor <= view.shown

\* ws_task finds a heartbeat due again and again.  It does when browsers send their
\* HEARTBEATs more than fifteen seconds apart, or none; a browser that sends one every
\* ten seconds may come before each poll.
StatusGoesOn == WF_statusVars(Compose(Periodic))

\* game_state_reset_runtime, handleWebSocketMessage: the browser drops every status of a
\* new round until the counter has passed the largest number it saw in the last one, and
\* any status that an event overtakes; but if ws_task goes on sending, the counter passes
\* it, and the browser then shows the device as it is.
CatchesUp == StatusGoesOn => <>[](view.shown = fields.version)
=============================================================================

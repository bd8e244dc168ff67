--------------------------- MODULE StatusStreamProofs ---------------------------
(***************************************************************************)
(* What StatusStream guarantees for any number of tasks, changes, resets   *)
(* and new connections, and any length of the work queue.                  *)
(*                                                                         *)
(* The numbers reach the browser in any order, so what it shows can be     *)
(* trusted only because numbers are drawn before the fields are read:      *)
(* among the statuses of one clearing of the counter, a larger number was  *)
(* drawn from fields at least as new (Ordered), and a status carries       *)
(* fields at least as new as its number (Read).  An event raises the       *)
(* number the browser asks for, which can only drop statuses.              *)
(***************************************************************************)
EXTENDS Parts, Sequences, FiniteSets, TLAPS

Queued == {work[i] : i \in 1..Len(work)}

View == [last : 0..MaxSeq, shown : Status!Version, era : 0..MaxResets,
         floor : Status!Version]

Statuses(messages) == {m \in messages : m.kind = "status"}

\* The messages that may still reach the browser.
OnWay == {sending[t].msg : t \in {u \in Tasks : sending[u].pc # "idle"}} \cup Queued

\* The statuses among them.
Flight == Statuses(OnWay)

\* Those that carry the fields already.
Finished ==
  Statuses({sending[t].msg : t \in {u \in Tasks : sending[u].pc = "read"}} \cup Queued)

\* No message has the number 0, which the filter lets pass.
Positive == \A m \in OnWay : m.seq > 0

\* The number of a status was drawn from the counter, in its era.
Numbered ==
  \A m \in Flight :
    /\ m.era <= fields.era /\ m.drawn <= fields.version
    /\ m.era = fields.era => m.seq <= fields.seq

Ordered ==
  \A m, n \in Flight : m.era = n.era /\ m.seq < n.seq => m.drawn <= n.drawn

Read == \A m \in Finished : m.drawn <= m.version /\ m.version <= fields.version

\* What the browser would take next in the era it is in was drawn from fields no older
\* than the floor.
Fresh ==
  /\ view.floor <= fields.version
  /\ \A m \in Flight : m.era = view.era /\ m.seq > view.last => view.floor <= m.drawn

\* The bounds: every change and every reset was paid for.
Paid ==
  /\ fields.version + budget.changes = MaxChanges
  /\ fields.era + budget.resets = MaxResets

StatusInv ==
  /\ Status!TypeOK /\ Positive /\ Numbered /\ Ordered /\ Read /\ Fresh /\ Paid
  /\ Status!NoStepBack

-----------------------------------------------------------------------------

\* The types of the fields.
LEMMA StatusFields ==
  ASSUME Status!TypeOK, Status!StatusAssumption
  PROVE  /\ fields.seq \in 0..MaxSeq /\ fields.version \in 0..MaxChanges
         /\ fields.era \in 0..MaxResets
         /\ budget.changes \in 0..MaxChanges /\ budget.resets \in 0..MaxResets
         /\ budget.rejoins \in 0..MaxRejoins
         /\ view.last \in 0..MaxSeq /\ view.shown \in 0..MaxChanges
         /\ view.era \in 0..MaxResets /\ view.floor \in 0..MaxChanges
         /\ MaxSeq \in Nat /\ MaxChanges \in Nat /\ MaxResets \in Nat /\ MaxRejoins \in Nat
BY DEF Status!TypeOK, Status!Version, Status!StatusAssumption

\* The fields of a message.
LEMMA MessageFields ==
  ASSUME Status!StatusAssumption, NEW m \in Status!Message
  PROVE  /\ m.seq \in 0..MaxSeq /\ m.version \in 0..MaxChanges
         /\ m.era \in 0..MaxResets /\ m.drawn \in 0..MaxChanges
         /\ MaxSeq \in Nat /\ MaxChanges \in Nat /\ MaxResets \in Nat
BY DEF Status!Message, Status!Version, Status!StatusAssumption

\* The statuses on their way are messages.
LEMMA FlightType ==
  ASSUME Status!TypeOK
  PROVE  Flight \subseteq Status!Message /\ Finished \subseteq Flight
<1>1. \A t \in Tasks : sending[t].msg \in Status!Message
  BY DEF Status!TypeOK, Status!Job
<1>2. Queued \subseteq Status!Message
  BY DEF Status!TypeOK, Queued
<1>3. Finished \subseteq Flight
  BY DEF Finished, OnWay, Flight, Statuses
<1>. QED BY <1>1, <1>2, <1>3 DEF OnWay, Flight, Statuses

\* What is in the queue after a message was added or taken.
LEMMA StatusQueueFacts ==
  ASSUME NEW q \in Seq(Status!Message)
  PROVE  /\ Len(q) \in Nat
         /\ \A m \in Status!Message :
              /\ Append(q, m) \in Seq(Status!Message) /\ Len(Append(q, m)) = Len(q) + 1
              /\ \A i \in 1..Len(Append(q, m)) :
                   Append(q, m)[i] = m \/ (i \in 1..Len(q) /\ Append(q, m)[i] = q[i])
         /\ q # <<>> => /\ Head(q) = q[1] /\ 1 \in 1..Len(q)
                        /\ Tail(q) \in Seq(Status!Message) /\ Len(Tail(q)) = Len(q) - 1
                        /\ \A i \in 1..Len(Tail(q)) : i + 1 \in 1..Len(q) /\ Tail(q)[i] = q[i + 1]
BY DEF Status!Message

\* The empty queue.
LEMMA StatusEmptyFacts == <<>> \in Seq(Status!Message) /\ Len(<<>>) = 0
OBVIOUS

\* The invariant speaks of the stamps of the statuses only (number, era, and the
\* fields when it was drawn): a step that adds no new stamps and leaves the fields
\* alone keeps it.
LEMMA StampStep ==
  ASSUME Status!StatusAssumption, Numbered, Ordered, Fresh, UNCHANGED fields,
         \A m \in Flight' : \E n \in Flight : n.seq = m.seq /\ n.era = m.era /\ n.drawn = m.drawn,
         UNCHANGED view
  PROVE  Numbered' /\ Ordered' /\ Fresh'
<1>1. Numbered'
  BY DEF Numbered
<1>2. Ordered'
  BY DEF Ordered
<1>3. Fresh'
  BY DEF Fresh
<1>. QED BY <1>1, <1>2, <1>3

-----------------------------------------------------------------------------
(* The steps. *)

\* The fields change: the browser is behind until a newer status comes.
LEMMA ChangeStep ==
  ASSUME Status!StatusAssumption, StatusInv, Status!Change
  PROVE  StatusInv'
<1>1. /\ fields' = [fields EXCEPT !.version = fields.version + 1]
      /\ budget' = [budget EXCEPT !.changes = budget.changes - 1]
      /\ UNCHANGED <<sending, work, view>> /\ budget.changes > 0
  BY DEF Status!Change
<1>2. Status!TypeOK' /\ Paid'
  <2>1. fields.version + 1 \in 0..MaxChanges /\ budget.changes - 1 \in 0..MaxChanges
    BY <1>1, StatusFields DEF StatusInv, Paid
  <2>2. fields' \in [seq : 0..MaxSeq, version : Status!Version, era : 0..MaxResets]
    BY <1>1, <2>1 DEF StatusInv, Status!TypeOK, Status!Version
  <2>3. budget' \in [changes : 0..MaxChanges, resets : 0..MaxResets,
  rejoins : 0..MaxRejoins]
    BY <1>1, <2>1 DEF StatusInv, Status!TypeOK
  <2>4. view' \in View
    BY <1>1 DEF StatusInv, Status!TypeOK, View
  <2>5. Paid'
    <3>1. /\ fields'.version = fields.version + 1 /\ fields'.era = fields.era
          /\ budget'.changes = budget.changes - 1 /\ budget'.resets = budget.resets
      BY <1>1 DEF StatusInv, Status!TypeOK
    <3>2. fields.version \in Nat /\ budget.changes \in Nat
      BY StatusFields DEF StatusInv
    <3> QED BY <3>1, <3>2 DEF StatusInv, Paid
  <2>. QED BY <1>1, <2>2, <2>3, <2>4, <2>5 DEF StatusInv, Status!TypeOK, View
<1>3. /\ fields'.version = fields.version + 1
      /\ fields'.seq = fields.seq /\ fields'.era = fields.era
  BY <1>1 DEF StatusInv, Status!TypeOK
<1>4. OnWay' = OnWay /\ Flight' = Flight /\ Finished' = Finished
  BY <1>1 DEF OnWay, Flight, Finished, Queued, Statuses
<1>5. Flight \subseteq Status!Message /\ Finished \subseteq Flight
  BY FlightType DEF StatusInv
<1>6. Numbered' /\ Ordered' /\ Read'
  BY <1>3, <1>4, <1>5, StatusFields, MessageFields DEF StatusInv, Numbered, Ordered, Read
<1>7. Fresh' /\ Status!NoStepBack'
  BY <1>1, <1>3, <1>4, StatusFields DEF StatusInv, Fresh, Status!NoStepBack
<1>8. Positive'
  BY <1>4 DEF StatusInv, Positive
<1>. QED BY <1>2, <1>6, <1>7, <1>8 DEF StatusInv

\* The counter is cleared: all that is on its way belongs to an earlier era.
LEMMA ResetStep ==
  ASSUME Status!StatusAssumption, StatusInv, NEW restart \in BOOLEAN, Status!Reset(restart)
  PROVE  StatusInv'
<1>1. /\ fields' = [seq |-> 0, version |-> fields.version + 1, era |-> fields.era + 1]
      /\ budget' = [budget EXCEPT !.changes = budget.changes - 1, !.resets = budget.resets - 1]
      /\ UNCHANGED view /\ budget.changes > 0 /\ budget.resets > 0
  BY DEF Status!Reset
<1>2. /\ \/ sending' = [t \in Tasks |-> Status!Idle] /\ work' = <<>>
         \/ UNCHANGED <<sending, work>>
  BY DEF Status!Reset
<1>3. /\ fields' \in [seq : 0..MaxSeq, version : Status!Version, era : 0..MaxResets]
      /\ budget' \in [changes : 0..MaxChanges, resets : 0..MaxResets, rejoins : 0..MaxRejoins]
      /\ view' \in View
      /\ Paid'
  <2>1. /\ fields.version + 1 \in 0..MaxChanges /\ budget.changes - 1 \in 0..MaxChanges
        /\ fields.era + 1 \in 0..MaxResets /\ budget.resets - 1 \in 0..MaxResets
        /\ 0 \in 0..MaxSeq
    BY <1>1, StatusFields DEF StatusInv, Paid
  <2>2. fields' \in [seq : 0..MaxSeq, version : Status!Version, era : 0..MaxResets]
    BY <1>1, <2>1 DEF Status!Version
  <2>3. budget' \in [changes : 0..MaxChanges, resets : 0..MaxResets,
  rejoins : 0..MaxRejoins]
    BY <1>1, <2>1 DEF StatusInv, Status!TypeOK
  <2>4. view' \in View
    BY <1>1 DEF StatusInv, Status!TypeOK, View
  <2>5. budget'.changes = budget.changes - 1 /\ budget'.resets = budget.resets - 1
    BY <1>1 DEF StatusInv, Status!TypeOK
  <2>6. Paid'
    BY <1>1, <2>5, StatusFields DEF StatusInv, Paid
  <2>. QED BY <2>2, <2>3, <2>4, <2>6
<1>4. Status!Idle \in Status!Job
  <2>1. 0 \in 0..MaxSeq /\ 0 \in 0..MaxChanges /\ 0 \in 0..MaxResets
    BY DEF Status!StatusAssumption
  <2>2. Status!Event(0) \in Status!Message
    BY <2>1 DEF Status!Event, Status!Message, Status!Version
  <2>. QED BY <2>2 DEF Status!Idle, Status!Job
<1>5. /\ sending' \in [Tasks -> Status!Job]
      /\ work' \in Seq(Status!Message) /\ Len(work') <= WorkSlots
  <2>1. CASE sending' = [t \in Tasks |-> Status!Idle] /\ work' = <<>>
    <3>1. sending' \in [Tasks -> Status!Job]
      BY <1>4, <2>1
    <3>2. Len(work') = 0 /\ 0 <= WorkSlots
      BY <2>1, StatusEmptyFacts DEF Status!StatusAssumption
    <3>3. work' \in Seq(Status!Message)
      BY <2>1, StatusEmptyFacts, Zenon
    <3>. QED BY <3>1, <3>2, <3>3
  <2>2. CASE UNCHANGED <<sending, work>>
    BY <2>2 DEF StatusInv, Status!TypeOK
  <2>. QED BY <1>2, <2>1, <2>2
<1>6. fields'.version = fields.version + 1 /\ fields'.era = fields.era + 1
  BY <1>1 DEF StatusInv, Status!TypeOK
<1>7. OnWay' \subseteq OnWay /\ Flight' \subseteq Flight /\ Finished' \subseteq Finished
  <2>1. CASE sending' = [t \in Tasks |-> Status!Idle] /\ work' = <<>>
    <3>1. \A t \in Tasks : sending'[t].pc = "idle"
      BY <2>1 DEF Status!Idle
    <3>2. Queued' = {}
      BY <2>1 DEF Queued
    <3>. QED BY <3>1, <3>2 DEF OnWay, Flight, Finished, Statuses
  <2>2. CASE UNCHANGED <<sending, work>>
    BY <2>2 DEF OnWay, Flight, Finished, Queued, Statuses
  <2>. QED BY <1>2, <2>1, <2>2
<1>8. Flight \subseteq Status!Message /\ Finished \subseteq Flight
  BY FlightType DEF StatusInv
<1>9. Numbered' /\ Ordered' /\ Read'
  BY <1>6, <1>7, <1>8, StatusFields, MessageFields DEF StatusInv, Numbered, Ordered, Read
<1>10. Fresh' /\ Status!NoStepBack'
  BY <1>1, <1>6, <1>7, StatusFields DEF StatusInv, Fresh, Status!NoStepBack
<1>11. Positive'
  BY <1>7 DEF StatusInv, Positive
<1>. QED BY <1>3, <1>5, <1>9, <1>10, <1>11 DEF StatusInv, Status!TypeOK, View

\* A number is drawn: it is larger than all of its era, and drawn from the newest
\* fields.
LEMMA DrawStep ==
  ASSUME Status!StatusAssumption, StatusInv, NEW t \in Tasks, Status!Compose(t),
         sending[t].pc = "idle"
  PROVE  StatusInv'
<1> DEFINE m == [kind |-> "status", seq |-> fields.seq + 1, version |-> 0,
                 era |-> fields.era, drawn |-> fields.version]
<1>1. /\ fields' = [fields EXCEPT !.seq = fields.seq + 1] /\ fields.seq < MaxSeq
      /\ sending' = [sending EXCEPT ![t] = [pc |-> "drawn", msg |-> m]]
      /\ UNCHANGED <<work, view, budget>>
  <2>1. /\ fields' = [fields EXCEPT !.seq = fields.seq + 1] /\ Status!MayDraw(t)
        /\ sending' = [sending EXCEPT ![t] = [pc |-> "drawn", msg |-> m]]
        /\ UNCHANGED <<work, view, budget>>
    BY DEF Status!Compose, Status!DrawThenRead, Status!NewStatus
  <2>2. fields.seq < MaxSeq
    BY <2>1, StatusFields DEF Status!MayDraw, Status!StatusAssumption, StatusInv
  <2>. QED BY <2>1, <2>2
<1>2. fields'.seq = fields.seq + 1 /\ fields'.version = fields.version /\ fields'.era = fields.era
  BY <1>1 DEF StatusInv, Status!TypeOK
<1>3. m \in Status!Message
  BY <1>1, StatusFields DEF Status!Message, Status!Version, StatusInv
<1>4. [pc |-> "drawn", msg |-> m] \in Status!Job
  BY <1>3 DEF Status!Job
<1>5. Status!TypeOK' /\ Paid'
  <2>1. fields' \in [seq : 0..MaxSeq, version : Status!Version, era : 0..MaxResets]
    <3>1. fields.seq + 1 \in 0..MaxSeq
      BY <1>1, StatusFields DEF StatusInv
    <3>. QED BY <1>1, <3>1 DEF StatusInv, Status!TypeOK
  <2>. QED BY <1>1, <1>2, <1>4, <2>1 DEF StatusInv, Status!TypeOK, Paid
<1> HIDE DEF m
<1>6. \A x \in Tasks : /\ x = t => sending'[x].pc = "drawn" /\ sending'[x].msg = m
                      /\ x # t => sending'[x] = sending[x]
  BY <1>1 DEF StatusInv, Status!TypeOK
<1>7. /\ OnWay' \subseteq OnWay \cup {m}
      /\ Flight' \subseteq Flight \cup {m} /\ Finished' \subseteq Finished
  BY <1>1, <1>6 DEF OnWay, Flight, Finished, Queued, Statuses
<1>8. m.seq = fields.seq + 1 /\ m.era = fields.era /\ m.drawn = fields.version
  BY DEF m
<1>9. Flight \subseteq Status!Message
  BY FlightType DEF StatusInv
<1>10. Numbered'
  BY <1>2, <1>7, <1>8, <1>9, StatusFields, MessageFields DEF StatusInv, Numbered
<1>11. Ordered'
  BY <1>2, <1>7, <1>8, <1>9, StatusFields, MessageFields DEF StatusInv, Numbered, Ordered
<1>12. Read'
  BY <1>2, <1>7 DEF StatusInv, Read
<1>13. Fresh' /\ Status!NoStepBack'
  BY <1>1, <1>2, <1>7, <1>8 DEF StatusInv, Fresh, Status!NoStepBack
<1>14. Positive'
  BY <1>7, <1>8, StatusFields DEF StatusInv, Positive
<1>. QED BY <1>5, <1>10, <1>11, <1>12, <1>13, <1>14 DEF StatusInv

\* The fields are read: they are at least as new as the number.
LEMMA ReadStep ==
  ASSUME Status!StatusAssumption, StatusInv, NEW t \in Tasks, Status!Compose(t),
         sending[t].pc = "drawn"
  PROVE  StatusInv'
<1>1. /\ sending' = [sending EXCEPT ![t].pc = "read", ![t].msg.version = fields.version]
      /\ UNCHANGED <<fields, work, view, budget>>
  BY DEF Status!Compose, Status!DrawThenRead
<1> DEFINE m == [sending[t].msg EXCEPT !.version = fields.version]
<1>2. sending[t] \in Status!Job /\ sending[t].msg \in Status!Message
  BY DEF StatusInv, Status!TypeOK, Status!Job
<1>3. m \in Status!Message
  BY <1>2, StatusFields, Zenon DEF Status!Message, StatusInv, Status!TypeOK
<1>4. sending'[t] = [sending[t] EXCEPT !.pc = "read", !.msg = m]
  BY <1>1 DEF StatusInv, Status!TypeOK, Status!Job
<1>5. sending'[t] \in Status!Job /\ sending'[t].pc = "read" /\ sending'[t].msg = m
  BY <1>2, <1>3, <1>4 DEF Status!Job
<1>6. \A x \in Tasks : x # t => sending'[x] = sending[x]
  BY <1>1 DEF StatusInv, Status!TypeOK
<1>7. sending' \in [Tasks -> Status!Job]
  BY <1>1, <1>5, <1>6 DEF StatusInv, Status!TypeOK
<1>8. /\ m.seq = sending[t].msg.seq /\ m.era = sending[t].msg.era
      /\ m.drawn = sending[t].msg.drawn /\ m.version = fields.version
      /\ m.kind = sending[t].msg.kind
  BY <1>2 DEF Status!Message
<1> HIDE DEF m
<1>9. /\ sending[t].msg \in OnWay /\ OnWay' \subseteq OnWay \cup {m}
      /\ m.kind = "status" => sending[t].msg \in Flight
      /\ Flight' \subseteq Flight \cup Statuses({m})
      /\ Finished' \subseteq Finished \cup Statuses({m})
  <2>1. /\ sending[t].msg \in OnWay
        /\ m.kind = "status" => sending[t].msg \in Flight
    BY <1>8 DEF OnWay, Flight, Statuses
  <2>2. Queued' = Queued
    BY <1>1 DEF Queued
  <2>3. ASSUME NEW x \in Tasks, x # t PROVE sending'[x] = sending[x]
    BY <1>6, <2>3
  <2>4. /\ OnWay' \subseteq OnWay \cup {m}
        /\ Flight' \subseteq Flight \cup Statuses({m})
        /\ Finished' \subseteq Finished \cup Statuses({m})
    BY <1>5, <2>2, <2>3 DEF OnWay, Flight, Finished, Statuses
  <2>. QED BY <2>1, <2>4
<1>10. Numbered' /\ Ordered' /\ Fresh'
  <2>1. \A x \in Flight' : \E n \in Flight : n.seq = x.seq /\ n.era = x.era /\ n.drawn = x.drawn
    BY <1>8, <1>9 DEF Statuses
  <2>. QED BY <1>1, <2>1, StampStep DEF StatusInv
<1>11. Read'
  BY <1>1, <1>8, <1>9, StatusFields DEF StatusInv, Read, Numbered, Statuses
<1>12. Status!TypeOK' /\ Paid' /\ Status!NoStepBack'
  BY <1>1, <1>7 DEF StatusInv, Status!TypeOK, Paid, Status!NoStepBack
<1>13. Positive'
  BY <1>8, <1>9 DEF StatusInv, Positive
<1>. QED BY <1>10, <1>11, <1>12, <1>13 DEF StatusInv

\* The text is handed to httpd, or lost.
LEMMA SendStep ==
  ASSUME Status!StatusAssumption, StatusInv, NEW t \in Tasks, Status!Send(t)
  PROVE  StatusInv'
<1> DEFINE m == sending[t].msg
<1>1. /\ sending[t].pc = "read"
      /\ work' = IF Len(work) < WorkSlots THEN Append(work, m) ELSE work
      /\ sending' = [sending EXCEPT ![t] = Status!Idle]
      /\ UNCHANGED <<fields, view, budget>>
  BY DEF Status!Send
<1>2. Status!Idle \in Status!Job /\ Status!Idle.pc = "idle"
  <2>1. 0 \in 0..MaxSeq /\ 0 \in 0..MaxChanges /\ 0 \in 0..MaxResets
    BY DEF Status!StatusAssumption
  <2>2. Status!Event(0) \in Status!Message
    BY <2>1 DEF Status!Event, Status!Message, Status!Version
  <2>. QED BY <2>2 DEF Status!Idle, Status!Job
<1>3. /\ sending' \in [Tasks -> Status!Job] /\ sending'[t].pc = "idle"
      /\ \A x \in Tasks : x # t => sending'[x] = sending[x]
  BY <1>1, <1>2 DEF StatusInv, Status!TypeOK
<1>4. /\ m \in Status!Message /\ (m.kind = "status" => m \in Finished)
      /\ work \in Seq(Status!Message) /\ Len(work) <= WorkSlots
  BY <1>1 DEF StatusInv, Status!TypeOK, Status!Job, Finished, Statuses
<1>5. /\ work' \in Seq(Status!Message) /\ Len(work') <= WorkSlots
      /\ \A i \in 1..Len(work') : work'[i] = m \/ (i \in 1..Len(work) /\ work'[i] = work[i])
  <2>1. CASE Len(work) < WorkSlots
    <3>1. work' = Append(work, m)
      BY <1>1, <2>1
    <3>2. Len(work') = Len(work) + 1 /\ Len(work) \in Nat
      BY <1>4, <3>1, StatusQueueFacts
    <3>3. Len(work') <= WorkSlots
      BY <2>1, <3>2 DEF Status!StatusAssumption
    <3>. QED BY <1>4, <3>1, <3>3, StatusQueueFacts
  <2>2. CASE ~(Len(work) < WorkSlots)
    BY <1>1, <1>4, <2>2
  <2>. QED BY <2>1, <2>2
<1>6. OnWay' \subseteq OnWay /\ Flight' \subseteq Flight /\ Finished' \subseteq Finished
  <2>1. Queued' \subseteq Queued \cup {m}
    BY <1>5 DEF Queued
  <2>2. m \in OnWay /\ (m.kind = "status" => m \in Flight /\ m \in Finished)
    BY <1>1 DEF OnWay, Flight, Finished, Statuses
  <2>. QED BY <1>3, <2>1, <2>2 DEF OnWay, Flight, Finished, Statuses
<1>7. Numbered' /\ Ordered' /\ Fresh'
  BY <1>1, <1>6, StampStep DEF StatusInv
<1>8. Read' /\ Paid' /\ Status!NoStepBack'
  BY <1>1, <1>6 DEF StatusInv, Read, Paid, Status!NoStepBack
<1>9. Status!TypeOK'
  BY <1>1, <1>3, <1>5 DEF StatusInv, Status!TypeOK
<1>10. Positive'
  BY <1>6 DEF StatusInv, Positive
<1>. QED BY <1>7, <1>8, <1>9, <1>10 DEF StatusInv

\* The browser gets a status.  One it takes in the era it is in was drawn no earlier
\* than the floor, which rises to it; and it carries fields at least as new.
LEMMA DeliverStep ==
  ASSUME Status!StatusAssumption, StatusInv, Status!Deliver
  PROVE  StatusInv'
<1> DEFINE m == Head(work)
           floor == IF m.era = view.era /\ m.drawn < view.floor THEN view.floor ELSE m.drawn
<1>1. /\ work # <<>> /\ work' = Tail(work) /\ UNCHANGED <<fields, sending, budget>>
      /\ view' = IF Status!Accepts(m.seq) THEN Status!Seen(m) ELSE view
  BY DEF Status!Deliver
<1>2. /\ work \in Seq(Status!Message) /\ work' \in Seq(Status!Message)
      /\ m = work[1] /\ 1 \in 1..Len(work) /\ Len(work') = Len(work) - 1
      /\ \A i \in 1..Len(work') : i + 1 \in 1..Len(work) /\ work'[i] = work[i + 1]
  BY <1>1, StatusQueueFacts DEF StatusInv, Status!TypeOK
<1>3. m \in Queued /\ Queued' \subseteq Queued
  <2>1. m \in Queued
    BY <1>2 DEF Queued
  <2>2. ASSUME NEW i \in 1..Len(work') PROVE work'[i] \in Queued
    <3>1. i + 1 \in 1..Len(work) /\ work'[i] = work[i + 1]
      BY <1>2
    <3>. QED BY <3>1 DEF Queued
  <2>3. Queued' \subseteq Queued
    BY <2>2 DEF Queued
  <2>. QED BY <2>1, <2>3
<1>4. /\ m \in Status!Message /\ m.kind \in {"status", "event"} /\ m.seq > 0
      /\ m.kind = "status" => m \in Finished /\ m \in Flight
  <2>1. m \in OnWay
    BY <1>3 DEF OnWay
  <2>2. m.seq > 0
    BY <2>1 DEF StatusInv, Positive
  <2>3. m.kind = "status" => m \in Finished /\ m \in Flight
    BY <1>3 DEF Finished, OnWay, Flight, Statuses
  <2>4. m \in Status!Message
    BY <1>2
  <2>5. m.kind \in {"status", "event"}
    BY <2>4 DEF Status!Message
  <2>. QED BY <2>2, <2>3, <2>4, <2>5
<1>5. OnWay' \subseteq OnWay /\ Flight' \subseteq Flight /\ Finished' \subseteq Finished
  BY <1>1, <1>3 DEF OnWay, Flight, Finished, Statuses
<1>6. Len(work') <= WorkSlots
  <2>1. Len(work) \in Nat /\ Len(work) <= WorkSlots /\ WorkSlots \in Nat
    BY <1>2 DEF StatusInv, Status!TypeOK, Status!StatusAssumption
  <2>. QED BY <1>2, <2>1
<1>7. Positive' /\ Read' /\ Paid'
  BY <1>1, <1>5 DEF StatusInv, Positive, Read, Paid
<1>8. CASE ~Status!Accepts(m.seq)
  <2>1. view' = view
    BY <1>1, <1>8
  <2>2. Numbered' /\ Ordered' /\ Fresh'
    BY <1>1, <1>5, <2>1, StampStep DEF StatusInv
  <2>3. Status!TypeOK' /\ Status!NoStepBack'
    BY <1>1, <1>2, <1>6, <2>1 DEF StatusInv, Status!TypeOK, Status!NoStepBack
  <2>. QED BY <1>7, <2>2, <2>3 DEF StatusInv
<1>9. CASE Status!Accepts(m.seq) /\ m.kind = "event"
  <2>1. view' = [view EXCEPT !.last = m.seq]
    BY <1>1, <1>9 DEF Status!Seen
  <2>2. m.seq > view.last
    BY <1>4, <1>9, StatusFields, MessageFields DEF Status!Accepts, StatusInv
  <2>3. view' \in View /\ view'.last = m.seq /\ view'.shown = view.shown
        /\ view'.era = view.era /\ view'.floor = view.floor
    BY <1>4, <2>1, MessageFields DEF StatusInv, Status!TypeOK, View
  <2>4. Numbered' /\ Ordered'
    BY <1>1, <1>5 DEF StatusInv, Numbered, Ordered
  <2>5. \A n \in Flight' : n.seq > m.seq => n.seq > view.last
    BY <1>4, <1>5, <2>2, FlightType, StatusFields, MessageFields DEF StatusInv
  <2>6. Fresh' /\ Status!NoStepBack'
    BY <1>1, <1>5, <2>3, <2>5 DEF StatusInv, Fresh, Status!NoStepBack
  <2>7. Status!TypeOK'
    BY <1>1, <1>2, <1>6, <2>3 DEF StatusInv, Status!TypeOK, View
  <2>. QED BY <1>7, <2>4, <2>6, <2>7 DEF StatusInv
<1>10. CASE Status!Accepts(m.seq) /\ m.kind = "status"
  <2>1. view' = [last |-> m.seq, shown |-> m.version, era |-> m.era, floor |-> floor]
    BY <1>1, <1>10 DEF Status!Seen
  <2>2. m.seq > view.last
    BY <1>4, <1>10, StatusFields, MessageFields DEF Status!Accepts, StatusInv, Numbered
  <2>3. floor = m.drawn
    BY <1>4, <1>10, <2>2, StatusFields, MessageFields DEF StatusInv, Fresh
  <2>4. view'.last = m.seq /\ view'.shown = m.version /\ view'.era = m.era /\ view'.floor = m.drawn
    BY <2>1, <2>3
  <2>5. view' \in View
    BY <1>4, <2>1, <2>3, MessageFields DEF View, Status!Version
  <2>6. m.drawn <= m.version /\ m.drawn <= fields.version
    BY <1>4, <1>10 DEF StatusInv, Numbered, Read
  <2>7. Status!NoStepBack'
    BY <2>4, <2>6 DEF Status!NoStepBack
  <2>8. \A n \in Flight' : n.era = m.era /\ n.seq > m.seq => m.drawn <= n.drawn
    BY <1>4, <1>5, <1>10, FlightType, MessageFields DEF StatusInv, Ordered
  <2>9. Fresh'
    BY <1>1, <2>4, <2>6, <2>8 DEF Fresh
  <2>10. Numbered' /\ Ordered'
    BY <1>1, <1>5 DEF StatusInv, Numbered, Ordered
  <2>11. Status!TypeOK'
    BY <1>1, <1>2, <1>6, <2>5 DEF StatusInv, Status!TypeOK, View
  <2>. QED BY <1>7, <2>7, <2>9, <2>10, <2>11 DEF StatusInv
<1>. QED BY <1>4, <1>8, <1>9, <1>10

\* The connection is made anew.
LEMMA RejoinStep ==
  ASSUME Status!StatusAssumption, StatusInv, Status!Rejoin
  PROVE  StatusInv'
<1>1. /\ budget.rejoins > 0 /\ UNCHANGED <<fields, sending>>
      /\ budget' = [budget EXCEPT !.rejoins = budget.rejoins - 1]
      /\ work' = work \/ work' = <<>>
      /\ view' = view \/ view' = [view EXCEPT !.last = 0, !.floor = 0]
  BY DEF Status!Rejoin
<1>2. /\ budget' \in [changes : 0..MaxChanges, resets : 0..MaxResets,
                     rejoins : 0..MaxRejoins]
      /\ budget'.changes = budget.changes /\ budget'.resets = budget.resets
  <2>1. budget.rejoins \in 0..MaxRejoins /\ MaxRejoins \in Nat
    BY StatusFields DEF StatusInv
  <2>2. budget.rejoins - 1 \in 0..MaxRejoins
    BY <1>1, <2>1
  <2>. QED BY <1>1, <2>2 DEF StatusInv, Status!TypeOK
<1>3. /\ view' \in View
      /\ view' = view \/ (view'.floor = 0 /\ view'.shown = view.shown)
  <2>1. 0 \in 0..MaxSeq /\ 0 \in 0..MaxChanges
    BY DEF Status!StatusAssumption
  <2>. QED BY <1>1, <2>1 DEF StatusInv, Status!TypeOK, Status!Version, View
<1>4. work' \in Seq(Status!Message) /\ Len(work') <= WorkSlots /\ Queued' \subseteq Queued
  <2>1. CASE work' = work
    BY <2>1 DEF StatusInv, Status!TypeOK, Queued
  <2>2. CASE work' = <<>>
    <3>1. work' \in Seq(Status!Message)
      BY <2>2, StatusEmptyFacts, Zenon
    <3>2. Len(work') = 0 /\ 0 <= WorkSlots
      BY <2>2, StatusEmptyFacts DEF Status!StatusAssumption
    <3>3. Queued' = {}
      BY <3>2 DEF Queued
    <3>. QED BY <3>1, <3>2, <3>3
  <2>. QED BY <1>1, <2>1, <2>2
<1>5. OnWay' \subseteq OnWay /\ Flight' \subseteq Flight /\ Finished' \subseteq Finished
  BY <1>1, <1>4 DEF OnWay, Flight, Finished, Statuses
<1>6. Numbered' /\ Ordered'
  BY <1>1, <1>5 DEF StatusInv, Numbered, Ordered
<1>7. Fresh' /\ Status!NoStepBack'
  <2>1. CASE view' = view
    BY <1>1, <1>5, <2>1 DEF StatusInv, Fresh, Status!NoStepBack
  <2>2. CASE view'.floor = 0 /\ view'.shown = view.shown
    <3>1. \A m \in Flight' : 0 <= m.drawn
      BY <1>5, FlightType, MessageFields DEF StatusInv
    <3>2. 0 <= fields.version /\ 0 <= view.shown
      BY StatusFields DEF StatusInv
    <3>. QED BY <1>1, <2>2, <3>1, <3>2 DEF Fresh, Status!NoStepBack
  <2>. QED BY <1>3, <2>1, <2>2
<1>8. Read' /\ Paid'
  BY <1>1, <1>2, <1>5 DEF StatusInv, Read, Paid
<1>9. Status!TypeOK'
  BY <1>1, <1>2, <1>3, <1>4 DEF StatusInv, Status!TypeOK, View
<1>10. Positive'
  BY <1>5 DEF StatusInv, Positive
<1>. QED BY <1>6, <1>7, <1>8, <1>9, <1>10 DEF StatusInv

\* An event is made: no status is on its way that was not before.
LEMMA EventStep ==
  ASSUME Status!StatusAssumption, StatusInv, NEW t \in Tasks, Status!Report(t)
  PROVE  StatusInv'
<1> DEFINE m == [kind |-> "event", seq |-> fields.seq + 1, version |-> 0, era |-> 0,
                 drawn |-> 0]
<1>1. /\ fields' = [fields EXCEPT !.seq = fields.seq + 1] /\ fields.seq < MaxSeq
      /\ sending' = [sending EXCEPT ![t] = [pc |-> "read", msg |-> m]]
      /\ UNCHANGED <<work, view, budget>>
  <2>1. fields.seq < Busy /\ Busy \in 0..MaxSeq
    BY DEF Status!Report, Status!StatusAssumption
  <2>2. fields.seq < MaxSeq
    BY <2>1, StatusFields DEF StatusInv
  <2>. QED BY <2>2 DEF Status!Report, Status!Event
<1>2. fields'.seq = fields.seq + 1 /\ fields'.version = fields.version /\ fields'.era = fields.era
  BY <1>1 DEF StatusInv, Status!TypeOK
<1>3. fields.seq + 1 \in 0..MaxSeq /\ 0 \in 0..MaxChanges /\ 0 \in 0..MaxResets
  BY <1>1, StatusFields DEF StatusInv, Status!StatusAssumption
<1>4. [pc |-> "read", msg |-> m] \in Status!Job
  <2>1. m \in Status!Message
    BY <1>3 DEF Status!Message, Status!Version
  <2>. QED BY <2>1 DEF Status!Job
<1>5. Status!TypeOK' /\ Paid'
  <2>1. fields' \in [seq : 0..MaxSeq, version : Status!Version, era : 0..MaxResets]
    BY <1>1, <1>3 DEF StatusInv, Status!TypeOK
  <2>. QED BY <1>1, <1>2, <1>4, <2>1 DEF StatusInv, Status!TypeOK, Paid
<1>6. m.kind = "event" /\ m.seq > 0
  BY StatusFields DEF StatusInv
<1> HIDE DEF m
<1>7. \A x \in Tasks : /\ x = t => sending'[x].pc = "read" /\ sending'[x].msg = m
                      /\ x # t => sending'[x] = sending[x]
  BY <1>1 DEF StatusInv, Status!TypeOK
<1>8. OnWay' \subseteq OnWay \cup {m} /\ Flight' \subseteq Flight /\ Finished' \subseteq Finished
  BY <1>1, <1>6, <1>7 DEF OnWay, Flight, Finished, Queued, Statuses
<1>9. Positive'
  BY <1>6, <1>8 DEF StatusInv, Positive
<1>10. Flight \subseteq Status!Message
  BY FlightType DEF StatusInv
<1>11. Numbered' /\ Ordered'
  BY <1>2, <1>8, <1>10, StatusFields, MessageFields DEF StatusInv, Numbered, Ordered
<1>12. Read' /\ Fresh' /\ Status!NoStepBack'
  BY <1>1, <1>2, <1>8 DEF StatusInv, Read, Fresh, Status!NoStepBack
<1>. QED BY <1>5, <1>9, <1>11, <1>12 DEF StatusInv

-----------------------------------------------------------------------------

\* Every step of the device, of httpd and of the browser keeps the invariant.
THEOREM StatusInductive == Spec => []StatusInv
<1>. Status!StatusAssumption
  BY PartsAssumption DEF PartsAssumption
<1>1. ASSUME Status!Init PROVE StatusInv
  <2>1. 0 \in 0..MaxSeq /\ 0 \in 0..MaxChanges /\ 0 \in 0..MaxResets
    BY DEF Status!StatusAssumption
  <2>2. Status!Idle \in Status!Job /\ Status!Idle.pc = "idle"
    <3>1. Status!Event(0) \in Status!Message
      BY <2>1 DEF Status!Event, Status!Message, Status!Version
    <3>. QED BY <3>1 DEF Status!Idle, Status!Job
  <2>3. /\ work \in Seq(Status!Message) /\ Len(work) = 0
    BY <1>1, StatusEmptyFacts, Zenon DEF Status!Init
  <2>4. OnWay = {} /\ Flight = {} /\ Finished = {}
    <3>1. Queued = {}
      BY <2>3 DEF Queued
    <3>2. \A t \in Tasks : sending[t].pc = "idle"
      BY <1>1, <2>2 DEF Status!Init
    <3>. QED BY <3>1, <3>2 DEF OnWay, Flight, Finished, Statuses
  <2>5. sending \in [Tasks -> Status!Job]
    BY <1>1, <2>2 DEF Status!Init
  <2>6. /\ fields \in [seq : 0..MaxSeq, version : Status!Version, era : 0..MaxResets]
        /\ view \in View
    BY <1>1, <2>1 DEF Status!Init, Status!Version, View
  <2>7. /\ budget \in [changes : 0..MaxChanges, resets : 0..MaxResets,
                       rejoins : 0..MaxRejoins]
        /\ Paid
    BY <1>1 DEF Status!Init, Paid, Status!StatusAssumption
  <2>8. Len(work) <= WorkSlots
    BY <2>3 DEF Status!StatusAssumption
  <2>9. Positive /\ Numbered /\ Ordered /\ Read /\ Fresh
    BY <1>1, <2>4 DEF Positive, Numbered, Ordered, Read, Fresh, Status!Init
  <2>10. Status!NoStepBack
    BY <1>1 DEF Status!Init, Status!NoStepBack
  <2>. QED BY <2>3, <2>5, <2>6, <2>7, <2>8, <2>9, <2>10 DEF StatusInv, Status!TypeOK, View
<1>2. ASSUME StatusInv, [Status!Next]_statusVars PROVE StatusInv'
  <2>1. CASE Status!Change
    BY <1>2, <2>1, ChangeStep
  <2>2. CASE Status!Reset(TRUE) \/ Status!Reset(FALSE)
    BY <1>2, <2>2, ResetStep
  <2>3. ASSUME NEW t \in Tasks, Status!Compose(t) PROVE StatusInv'
    <3>1. sending[t].pc = "idle" \/ sending[t].pc = "drawn"
      BY <2>3 DEF Status!Compose, Status!DrawThenRead
    <3>. QED BY <1>2, <2>3, <3>1, DrawStep, ReadStep
  <2>4. ASSUME NEW t \in Tasks, Status!Send(t) PROVE StatusInv'
    BY <1>2, <2>4, SendStep
  <2>5. ASSUME NEW t \in Tasks, Status!Report(t) PROVE StatusInv'
    BY <1>2, <2>5, EventStep
  <2>6. CASE Status!Deliver
    BY <1>2, <2>6, DeliverStep
  <2>7. CASE Status!Rejoin
    BY <1>2, <2>7, RejoinStep
  <2>8. CASE Status!BoundReached \/ UNCHANGED statusVars
    <3>1. UNCHANGED <<fields, sending, work, view, budget>>
      BY <2>8 DEF Status!BoundReached, Status!statusVars, statusVars
    <3>2. OnWay' = OnWay /\ Flight' = Flight /\ Finished' = Finished
      BY <3>1 DEF OnWay, Flight, Finished, Queued, Statuses
    <3>. QED BY <1>2, <3>1, <3>2 DEF StatusInv, Status!TypeOK, Positive, Numbered,
      Ordered, Read, Fresh, Paid, Status!NoStepBack
  <2>. QED BY <1>2, <2>1, <2>2, <2>3, <2>4, <2>5, <2>6, <2>7, <2>8 DEF Status!Next
<1>3. Init => Status!Init
  BY DEF Init
<1>4. [Next]_vars => [Status!Next]_statusVars
  BY DEF Next, ScreenStep, WifiStep, StatusStep, CommStep, BridgeStep, vars
<1>. QED BY <1>1, <1>2, <1>3, <1>4, PTL DEF Spec

\* The counter, the messages and the browser's picture keep their types.
THEOREM StatusTypeCorrect == Spec => []Status!TypeOK
<1>1. StatusInv => Status!TypeOK
  BY DEF StatusInv
<1>. QED BY <1>1, StatusInductive, PTL

\* create_status_json and handleWebSocketMessage: for any number of sending tasks, any
\* order on the wire and any events among the statuses, the browser shows fields at
\* least as new as they were when the number of any status it has taken since the last
\* clearing was drawn.
THEOREM NeverBehindANumber == Spec => []NoStepBack
<1>1. StatusInv => NoStepBack
  BY DEF StatusInv, NoStepBack
<1>. QED BY <1>1, StatusInductive, PTL
=============================================================================

-------------------------- MODULE DisplayManagerProofs --------------------------
(***************************************************************************)
(* What DisplayManager guarantees for any length of the queue and any      *)
(* number of events and presses.                                           *)
(*                                                                         *)
(* The reset screen is ended by one event in a queue that other tasks      *)
(* fill.  As long as nothing of the present press was lost or taken over,  *)
(* the queue tells how the screen will go on (Reset): while the button is  *)
(* down, the last report in the queue is one of progress, or it has been   *)
(* shown; once it is up, the last one is the release, and by the time it   *)
(* is handled the reset screen is there to be ended.                       *)
(*                                                                         *)
(* The last theorem joins the types of all parts.                          *)
(***************************************************************************)
EXTENDS WifiLinkProofs, StatusStreamProofs, LocalCommProofs

NoReset(q) == \A i \in 1..Len(q) : q[i] \notin Screen!ResetEvent

\* The last report of the button is one of progress.
EndsHeld(q) ==
  \E i \in 1..Len(q) :
    q[i] = "HELD" /\ \A k \in 1..Len(q) : k > i => q[k] \notin Screen!ResetEvent

\* The last report is the release, and the reset screen is shown before it.
EndsReleased(q, st) ==
  \E i \in 1..Len(q) :
    /\ q[i] = "RELEASED" /\ \A k \in 1..Len(q) : k > i => q[k] \notin Screen!ResetEvent
    /\ \/ st = "FACTORY_RESET" /\ \A k \in 1..Len(q) : k < i => q[k] \notin Screen!ResetEvent
       \/ \E j \in 1..Len(q) :
            /\ j < i /\ q[j] = "HELD"
            /\ \A k \in 1..Len(q) : j < k /\ k < i => q[k] \notin Screen!ResetEvent

Reset ==
  ~spoilt =>
    /\ button = "down" => EndsHeld(queue) \/ (NoReset(queue) /\ state = "FACTORY_RESET")
    /\ button = "up" =>
         EndsReleased(queue, state) \/ (NoReset(queue) /\ state # "FACTORY_RESET")

QueueType == queue \in Seq(Screen!Event) /\ Len(queue) <= QueueSlots

ScreenTypes ==
  /\ device \in {"target", "weapon"}
  /\ state \in Screen!State /\ deadline \in {"none", "ahead", "reached"}
  /\ shown \in {"boot", "connecting", "idle", "respawn"}
  /\ pass \in {"drain", "expiry", "poll"}
  /\ links \subseteq {"wifi", "ws"} /\ player \in {"up", "down"}
  /\ button \in {"up", "seen", "down"}

ScreenFlags == killed \in BOOLEAN /\ spoilt \in BOOLEAN /\ cancelled \in BOOLEAN

UsedType == used \in [events : 0..MaxEvents, presses : 0..MaxPresses]

ScreenInv == ScreenTypes /\ QueueType /\ ScreenFlags /\ UsedType /\ Reset /\ Screen!IdleScreenShown

-----------------------------------------------------------------------------
(* The queue. *)

\* The empty queue.
LEMMA ScreenEmptyFacts == <<>> \in Seq(Screen!Event) /\ Len(<<>>) = 0
OBVIOUS

\* Posting puts an event behind all others.
LEMMA AppendFacts ==
  ASSUME NEW q \in Seq(Screen!Event), NEW e \in Screen!Event
  PROVE  /\ Append(q, e) \in Seq(Screen!Event) /\ Len(q) \in Nat
         /\ Len(Append(q, e)) = Len(q) + 1
         /\ Append(q, e)[Len(q) + 1] = e
         /\ \A i \in 1..Len(q) : Append(q, e)[i] = q[i]
OBVIOUS

\* Taking the first event moves the others up.
LEMMA TailFacts ==
  ASSUME NEW q \in Seq(Screen!Event), q # <<>>
  PROVE  /\ Tail(q) \in Seq(Screen!Event) /\ Len(q) \in Nat \ {0}
         /\ Len(Tail(q)) = Len(q) - 1
         /\ Head(q) = q[1] /\ Head(q) \in Screen!Event
         /\ \A i \in 1..(Len(q) - 1) : Tail(q)[i] = q[i + 1]
OBVIOUS

\* An event of another task changes nothing about the reports of the button.
LEMMA AppendOther ==
  ASSUME NEW q \in Seq(Screen!Event), NEW e \in Screen!Event, e \notin Screen!ResetEvent
  PROVE  /\ NoReset(q) => NoReset(Append(q, e))
         /\ EndsHeld(q) => EndsHeld(Append(q, e))
         /\ \A st : EndsReleased(q, st) => EndsReleased(Append(q, e), st)
<1> DEFINE r == Append(q, e)
<1>1. /\ Len(q) \in Nat /\ Len(r) = Len(q) + 1
      /\ r[Len(q) + 1] = e /\ \A i \in 1..Len(q) : r[i] = q[i]
  BY AppendFacts
<1> HIDE DEF r
<1>2. \A i \in 1..Len(r) : i \in 1..Len(q) \/ r[i] \notin Screen!ResetEvent
  BY <1>1
<1>3. \A i \in 1..Len(q) : i \in 1..Len(r)
  BY <1>1
<1>4. NoReset(q) => NoReset(r)
  BY <1>1, <1>2 DEF NoReset
<1>5. EndsHeld(q) => EndsHeld(r)
  BY <1>1, <1>2, <1>3 DEF EndsHeld
<1>6. ASSUME NEW st, EndsReleased(q, st) PROVE EndsReleased(r, st)
  <2>1. PICK i \in 1..Len(q) :
          /\ q[i] = "RELEASED" /\ \A k \in 1..Len(q) : k > i => q[k] \notin Screen!ResetEvent
          /\ \/ st = "FACTORY_RESET" /\ \A k \in 1..Len(q) : k < i => q[k] \notin Screen!ResetEvent
             \/ \E j \in 1..Len(q) :
                  /\ j < i /\ q[j] = "HELD"
                  /\ \A k \in 1..Len(q) : j < k /\ k < i => q[k] \notin Screen!ResetEvent
    BY <1>6 DEF EndsReleased
  <2>2. r[i] = "RELEASED" /\ \A k \in 1..Len(r) : k > i => r[k] \notin Screen!ResetEvent
    BY <1>1, <1>2, <2>1
  <2>3. CASE st = "FACTORY_RESET" /\ \A k \in 1..Len(q) : k < i => q[k] \notin Screen!ResetEvent
    BY <1>1, <1>2, <1>3, <2>2, <2>3 DEF EndsReleased
  <2>4. ASSUME NEW j \in 1..Len(q), j < i, q[j] = "HELD",
               \A k \in 1..Len(q) : j < k /\ k < i => q[k] \notin Screen!ResetEvent
        PROVE  EndsReleased(r, st)
    <3>1. r[j] = "HELD" /\ \A k \in 1..Len(r) : j < k /\ k < i => r[k] \notin Screen!ResetEvent
      BY <1>1, <1>2, <2>4
    <3>. QED BY <1>3, <2>2, <2>4, <3>1 DEF EndsReleased
  <2>. QED BY <2>1, <2>3, <2>4
<1>. QED BY <1>4, <1>5, <1>6 DEF r

\* A report of progress is the last one.
LEMMA AppendHeld ==
  ASSUME NEW q \in Seq(Screen!Event)
  PROVE  EndsHeld(Append(q, "HELD"))
<1>1. "HELD" \in Screen!Event
  BY DEF Screen!Event, Screen!ResetEvent
<1>. QED BY <1>1, AppendFacts DEF EndsHeld

\* A release follows a report of progress, or a reset screen.
LEMMA AppendReleased ==
  ASSUME NEW q \in Seq(Screen!Event), NEW st
  PROVE  /\ EndsHeld(q) => EndsReleased(Append(q, "RELEASED"), st)
         /\ NoReset(q) /\ st = "FACTORY_RESET" => EndsReleased(Append(q, "RELEASED"), st)
<1> DEFINE r == Append(q, "RELEASED")
           n == Len(q) + 1
<1>1. /\ Len(q) \in Nat /\ Len(r) = n /\ n \in 1..Len(r) /\ r[n] = "RELEASED"
      /\ \A i \in 1..Len(q) : r[i] = q[i] /\ i \in 1..Len(r) /\ i < n
      /\ \A i \in 1..Len(r) : ~(i > n) /\ (i < n => i \in 1..Len(q))
  <2>1. "RELEASED" \in Screen!Event
    BY DEF Screen!Event, Screen!ResetEvent
  <2>. QED BY <2>1, AppendFacts
<1> HIDE DEF r, n
<1>2. ASSUME EndsHeld(q) PROVE EndsReleased(r, st)
  <2>1. PICK j \in 1..Len(q) :
          q[j] = "HELD" /\ \A k \in 1..Len(q) : k > j => q[k] \notin Screen!ResetEvent
    BY <1>2 DEF EndsHeld
  <2>. QED BY <1>1, <2>1 DEF EndsReleased
<1>3. ASSUME NoReset(q), st = "FACTORY_RESET" PROVE EndsReleased(r, st)
  BY <1>1, <1>3 DEF NoReset, EndsReleased
<1>. QED BY <1>2, <1>3 DEF r

\* Taking an event of another task changes nothing about the reports of the button.
LEMMA TailOther ==
  ASSUME NEW q \in Seq(Screen!Event), q # <<>>, Head(q) \notin Screen!ResetEvent
  PROVE  /\ NoReset(q) => NoReset(Tail(q))
         /\ EndsHeld(q) => EndsHeld(Tail(q))
         /\ \A st : EndsReleased(q, st) => EndsReleased(Tail(q), st)
<1> DEFINE r == Tail(q)
<1>1. /\ Len(q) \in Nat \ {0} /\ Len(r) = Len(q) - 1 /\ q[1] \notin Screen!ResetEvent
      /\ \A i \in 1..Len(r) : i + 1 \in 1..Len(q) /\ r[i] = q[i + 1]
  BY TailFacts
<1> HIDE DEF r
<1>2. \A i \in 1..Len(q) : q[i] \in Screen!ResetEvent => i - 1 \in 1..Len(r) /\ r[i - 1] = q[i]
  <2> SUFFICES ASSUME NEW i \in 1..Len(q), q[i] \in Screen!ResetEvent
               PROVE  i - 1 \in 1..Len(r) /\ r[i - 1] = q[i]
    OBVIOUS
  <2>1. i # 1
    BY <1>1
  <2>2. i - 1 \in 1..Len(r) /\ (i - 1) + 1 = i
    BY <1>1, <2>1
  <2>. QED BY <1>1, <2>2
<1>3. "HELD" \in Screen!ResetEvent /\ "RELEASED" \in Screen!ResetEvent
  BY DEF Screen!ResetEvent
<1>4. NoReset(q) => NoReset(r)
  BY <1>1 DEF NoReset
<1>5. ASSUME EndsHeld(q) PROVE EndsHeld(r)
  <2>1. PICK i \in 1..Len(q) :
          q[i] = "HELD" /\ \A k \in 1..Len(q) : k > i => q[k] \notin Screen!ResetEvent
    BY <1>5 DEF EndsHeld
  <2>2. i - 1 \in 1..Len(r) /\ r[i - 1] = "HELD"
    BY <1>2, <1>3, <2>1
  <2>3. \A k \in 1..Len(r) : k > i - 1 => r[k] \notin Screen!ResetEvent
    BY <1>1, <2>1
  <2>. QED BY <2>2, <2>3 DEF EndsHeld
<1>6. ASSUME NEW st, EndsReleased(q, st) PROVE EndsReleased(r, st)
  <2>1. PICK i \in 1..Len(q) :
          /\ q[i] = "RELEASED" /\ \A k \in 1..Len(q) : k > i => q[k] \notin Screen!ResetEvent
          /\ \/ st = "FACTORY_RESET" /\ \A k \in 1..Len(q) : k < i => q[k] \notin Screen!ResetEvent
             \/ \E j \in 1..Len(q) :
                  /\ j < i /\ q[j] = "HELD"
                  /\ \A k \in 1..Len(q) : j < k /\ k < i => q[k] \notin Screen!ResetEvent
    BY <1>6 DEF EndsReleased
  <2>2. i - 1 \in 1..Len(r) /\ r[i - 1] = "RELEASED"
    BY <1>2, <1>3, <2>1
  <2>3. \A k \in 1..Len(r) : k > i - 1 => r[k] \notin Screen!ResetEvent
    BY <1>1, <2>1
  <2>4. CASE st = "FACTORY_RESET" /\ \A k \in 1..Len(q) : k < i => q[k] \notin Screen!ResetEvent
    <3>1. \A k \in 1..Len(r) : k < i - 1 => r[k] \notin Screen!ResetEvent
      BY <1>1, <2>4
    <3>. QED BY <2>2, <2>3, <2>4, <3>1 DEF EndsReleased
  <2>5. ASSUME NEW j \in 1..Len(q), j < i, q[j] = "HELD",
               \A k \in 1..Len(q) : j < k /\ k < i => q[k] \notin Screen!ResetEvent
        PROVE  EndsReleased(r, st)
    <3>1. j - 1 \in 1..Len(r) /\ r[j - 1] = "HELD" /\ j - 1 < i - 1
      BY <1>2, <1>3, <2>5
    <3>2. \A k \in 1..Len(r) : j - 1 < k /\ k < i - 1 => r[k] \notin Screen!ResetEvent
      BY <1>1, <2>5
    <3>. QED BY <2>2, <2>3, <3>1, <3>2 DEF EndsReleased
  <2>. QED BY <2>1, <2>4, <2>5
<1>. QED BY <1>4, <1>5, <1>6 DEF r

\* Handling a report of the button.  A report of progress shows the reset screen; a
\* release that is the last report finds that screen.
LEMMA TailReset ==
  ASSUME NEW q \in Seq(Screen!Event), q # <<>>, Head(q) \in Screen!ResetEvent
  PROVE  /\ EndsHeld(q) =>
              EndsHeld(Tail(q)) \/ (Head(q) = "HELD" /\ NoReset(Tail(q)))
         /\ \A st : EndsReleased(q, st) =>
              \/ Head(q) = "HELD" /\ EndsReleased(Tail(q), "FACTORY_RESET")
              \/ Head(q) = "RELEASED" /\ \A s : EndsReleased(Tail(q), s)
              \/ Head(q) = "RELEASED" /\ NoReset(Tail(q)) /\ st = "FACTORY_RESET"
<1> DEFINE r == Tail(q)
<1>1. /\ Len(q) \in Nat \ {0} /\ Len(r) = Len(q) - 1 /\ Head(q) = q[1] /\ 1 \in 1..Len(q)
      /\ \A i \in 1..Len(r) : i + 1 \in 1..Len(q) /\ i + 1 > 1 /\ r[i] = q[i + 1]
  BY TailFacts
<1> HIDE DEF r
<1>2. \A i \in 1..Len(q) : i # 1 => i > 1 /\ i - 1 \in 1..Len(r) /\ r[i - 1] = q[i]
  <2> SUFFICES ASSUME NEW i \in 1..Len(q), i # 1
               PROVE  i > 1 /\ i - 1 \in 1..Len(r) /\ r[i - 1] = q[i]
    OBVIOUS
  <2>1. i - 1 \in 1..Len(r) /\ (i - 1) + 1 = i
    BY <1>1
  <2>. QED BY <1>1, <2>1
<1>3. q[1] = "HELD" \/ q[1] = "RELEASED"
  BY <1>1 DEF Screen!ResetEvent
<1>4. ASSUME EndsHeld(q) PROVE EndsHeld(r) \/ (Head(q) = "HELD" /\ NoReset(r))
  <2>1. PICK i \in 1..Len(q) :
          q[i] = "HELD" /\ \A k \in 1..Len(q) : k > i => q[k] \notin Screen!ResetEvent
    BY <1>4 DEF EndsHeld
  <2>2. CASE i = 1
    BY <1>1, <2>1, <2>2 DEF NoReset
  <2>3. CASE i # 1
    <3>1. i - 1 \in 1..Len(r) /\ r[i - 1] = "HELD"
      BY <1>2, <2>1, <2>3
    <3>2. \A k \in 1..Len(r) : k > i - 1 => r[k] \notin Screen!ResetEvent
      BY <1>1, <2>1
    <3>. QED BY <3>1, <3>2 DEF EndsHeld
  <2>. QED BY <2>2, <2>3
<1>5. ASSUME NEW st, EndsReleased(q, st)
      PROVE  \/ Head(q) = "HELD" /\ EndsReleased(r, "FACTORY_RESET")
             \/ Head(q) = "RELEASED" /\ \A s : EndsReleased(r, s)
             \/ Head(q) = "RELEASED" /\ NoReset(r) /\ st = "FACTORY_RESET"
  <2>1. PICK i \in 1..Len(q) :
          /\ q[i] = "RELEASED" /\ \A k \in 1..Len(q) : k > i => q[k] \notin Screen!ResetEvent
          /\ \/ st = "FACTORY_RESET" /\ \A k \in 1..Len(q) : k < i => q[k] \notin Screen!ResetEvent
             \/ \E j \in 1..Len(q) :
                  /\ j < i /\ q[j] = "HELD"
                  /\ \A k \in 1..Len(q) : j < k /\ k < i => q[k] \notin Screen!ResetEvent
    BY <1>5 DEF EndsReleased
  <2>2. CASE i = 1
    <3>1. st = "FACTORY_RESET"
      BY <1>2, <2>1, <2>2
    <3>2. NoReset(r)
      BY <1>1, <2>1, <2>2 DEF NoReset
    <3>. QED BY <1>1, <2>1, <2>2, <3>1, <3>2
  <2>3. CASE i # 1
    <3>1. i > 1 /\ i - 1 \in 1..Len(r) /\ r[i - 1] = "RELEASED"
      BY <1>2, <2>1, <2>3
    <3>2. \A k \in 1..Len(r) : k > i - 1 => r[k] \notin Screen!ResetEvent
      BY <1>1, <2>1
    <3>3. q[1] \in Screen!ResetEvent
      BY <1>1
    <3>4. PICK j \in 1..Len(q) :
            /\ j < i /\ q[j] = "HELD"
            /\ \A k \in 1..Len(q) : j < k /\ k < i => q[k] \notin Screen!ResetEvent
      BY <1>1, <2>1, <3>1, <3>3
    <3>5. CASE j = 1
      <4>1. \A k \in 1..Len(r) : k < i - 1 => r[k] \notin Screen!ResetEvent
        BY <1>1, <3>4, <3>5
      <4>2. EndsReleased(r, "FACTORY_RESET")
        BY <3>1, <3>2, <4>1 DEF EndsReleased
      <4>. QED BY <1>1, <3>4, <3>5, <4>2
    <3>6. CASE j # 1
      <4>1. j - 1 \in 1..Len(r) /\ r[j - 1] = "HELD" /\ j - 1 < i - 1
        BY <1>2, <3>4, <3>6
      <4>2. \A k \in 1..Len(r) : j - 1 < k /\ k < i - 1 => r[k] \notin Screen!ResetEvent
        BY <1>1, <3>4
      <4>3. \A s : EndsReleased(r, s)
        BY <3>1, <3>2, <4>1, <4>2 DEF EndsReleased
      <4>. QED BY <1>1, <1>3, <4>3
    <3>. QED BY <3>5, <3>6
  <2>. QED BY <2>2, <2>3
<1>. QED BY <1>4, <1>5 DEF r


-----------------------------------------------------------------------------
(* The steps. *)

\* Away from the reset screen, what the queue ends with does not depend on the screen.
LEMMA AnyScreen ==
  ASSUME NEW q, NEW st, st # "FACTORY_RESET", EndsReleased(q, st)
  PROVE  \A s : EndsReleased(q, s)
BY DEF EndsReleased

\* A step that may post an event of another task, and neither enters nor leaves the
\* reset screen.
LEMMA PostStep ==
  ASSUME Screen!DisplayAssumption, QueueType, Reset,
         queue' = queue \/ \E e \in Screen!Event \ Screen!ResetEvent : Screen!Post(e),
         state' = state \/ (state # "FACTORY_RESET" /\ state' # "FACTORY_RESET"),
         UNCHANGED <<button, spoilt>>
  PROVE  QueueType' /\ Reset'
<1> DEFINE Kept == /\ NoReset(queue) => NoReset(queue')
                   /\ EndsHeld(queue) => EndsHeld(queue')
                   /\ \A st : EndsReleased(queue, st) => EndsReleased(queue', st)
<1>1. QueueType' /\ Kept
  <2>1. CASE queue' = queue
    BY <2>1 DEF QueueType
  <2>2. ASSUME NEW e \in Screen!Event \ Screen!ResetEvent, queue' = Append(queue, e),
  ~Screen!Full
        PROVE  QueueType' /\ Kept
    <3>1. queue \in Seq(Screen!Event) /\ Len(queue) < QueueSlots
      BY <2>2, AppendFacts DEF QueueType, Screen!Full, Screen!DisplayAssumption
    <3>2. Append(queue, e) \in Seq(Screen!Event) /\ Len(Append(queue, e)) <= QueueSlots
      BY <3>1, AppendFacts DEF Screen!DisplayAssumption
    <3>3. Kept
      BY <2>2, <3>1, AppendOther
    <3>. QED BY <2>2, <3>2, <3>3 DEF QueueType
  <2>. QED BY <2>1, <2>2 DEF Screen!Post
<1>2. Reset'
  <2>1. CASE state' = state
    BY <1>1, <2>1 DEF Reset
  <2>2. CASE state # "FACTORY_RESET" /\ state' # "FACTORY_RESET"
    BY <1>1, <2>2, AnyScreen DEF Reset
  <2>. QED BY <2>1, <2>2
<1>. QED BY <1>1, <1>2

\* Posting a report of the button, if there is room.
LEMMA ReportStep ==
  ASSUME Screen!DisplayAssumption, QueueType, NEW e \in Screen!ResetEvent, Screen!Post(e)
  PROVE  QueueType' /\ (~Screen!Full => queue' = Append(queue, e))
<1>1. CASE Screen!Full
  BY <1>1 DEF Screen!Post, QueueType
<1>2. CASE ~Screen!Full
  <2>1. queue \in Seq(Screen!Event) /\ Len(queue) < QueueSlots /\ e \in Screen!Event
    BY <1>2, AppendFacts DEF QueueType, Screen!Full, Screen!DisplayAssumption,
      Screen!Event
  <2>2. Append(queue, e) \in Seq(Screen!Event) /\ Len(Append(queue, e)) <= QueueSlots
    BY <2>1, AppendFacts DEF Screen!DisplayAssumption
  <2>. QED BY <1>2, <2>2 DEF Screen!Post, QueueType
<1>. QED BY <1>1, <1>2

\* The display task handles an event.
LEMMA HandleStep ==
  ASSUME Screen!DisplayAssumption, ScreenInv, Screen!HandleEvent
  PROVE  ScreenInv'
<1>1. /\ queue \in Seq(Screen!Event) /\ queue # <<>> /\ queue' = Tail(queue)
      /\ \/ Screen!ShowAlert \/ Screen!ShowRespawn \/ Screen!ShowReady
         \/ Screen!ShowReset \/ Screen!UpdateReset
      /\ UNCHANGED <<device, pass, links, player, killed, button, used>>
  BY DEF Screen!HandleEvent, ScreenInv, QueueType, Screen!game
<1>2. QueueType' /\ Head(queue) = queue[1] /\ 1 \in 1..Len(queue)
  <2>1. /\ Tail(queue) \in Seq(Screen!Event) /\ Len(queue) \in Nat \ {0}
        /\ Len(Tail(queue)) = Len(queue) - 1 /\ Head(queue) = queue[1]
    BY <1>1, TailFacts
  <2>2. Len(Tail(queue)) <= QueueSlots /\ 1 \in 1..Len(queue)
    BY <2>1 DEF ScreenInv, QueueType, Screen!DisplayAssumption
  <2>. QED BY <1>1, <2>1, <2>2 DEF QueueType
<1>3. UsedType'
  BY <1>1 DEF ScreenInv, UsedType
<1>4. CASE Screen!ShowAlert \/ Screen!ShowRespawn \/ Screen!ShowReady
  <2>1. /\ Head(queue) \notin Screen!ResetEvent
        /\ state' \in {"ALERT", "RESPAWNING"} /\ deadline' \in {"none", "ahead"}
        /\ shown' \in {shown, "respawn", "idle"}
    BY <1>4 DEF Screen!ShowAlert, Screen!ShowRespawn, Screen!ShowReady,
      Screen!AlertEvent, Screen!ResetEvent, Screen!EnterAlert,
                Screen!Enters,
      Screen!EnterState
  <2>2. cancelled' = FALSE /\ spoilt' = (spoilt \/ state = "FACTORY_RESET")
    BY <1>4 DEF Screen!ShowAlert, Screen!ShowRespawn, Screen!ShowReady, Screen!Enters,
      Screen!TakeOver
  <2>3. ScreenTypes' /\ Screen!IdleScreenShown'
    BY <1>1, <2>1 DEF ScreenInv, ScreenTypes, Screen!State, Screen!IdleScreenShown
  <2>4. ScreenFlags'
    BY <1>1, <2>2, Zenon DEF ScreenInv, ScreenFlags
  <2>5. /\ NoReset(queue) => NoReset(queue')
        /\ EndsHeld(queue) => EndsHeld(queue')
        /\ \A st : EndsReleased(queue, st) => EndsReleased(queue', st)
    BY <1>1, <2>1, TailOther
  <2>6. ASSUME ~spoilt' PROVE ~spoilt /\ state # "FACTORY_RESET" /\ state' # "FACTORY_RESET"
    BY <2>1, <2>2, <2>6
  <2>7. Reset'
    BY <1>1, <2>5, <2>6, AnyScreen DEF ScreenInv, Reset
  <2>. QED BY <1>2, <1>3, <2>3, <2>4, <2>7 DEF ScreenInv
<1>5. CASE Screen!ShowReset \/ Screen!UpdateReset
  <2>1. /\ Head(queue) \in Screen!ResetEvent /\ ~NoReset(queue) /\ spoilt' = spoilt
    BY <1>2, <1>5 DEF Screen!ShowReset, Screen!UpdateReset, NoReset
  <2>2. /\ EndsHeld(queue) => EndsHeld(queue') \/ (Head(queue) = "HELD" /\ NoReset(queue'))
        /\ EndsReleased(queue, state) =>
             \/ Head(queue) = "HELD" /\ EndsReleased(queue', "FACTORY_RESET")
             \/ Head(queue) = "RELEASED" /\ \A s : EndsReleased(queue', s)
             \/ Head(queue) = "RELEASED" /\ NoReset(queue') /\ state = "FACTORY_RESET"
    BY <1>1, <2>1, TailReset
  <2>3. CASE state # "FACTORY_RESET"
    <3>1. state' = "FACTORY_RESET" /\ deadline' = "none" /\ shown' = "respawn"
      BY <1>5, <2>3 DEF Screen!ShowReset, Screen!UpdateReset, Screen!Enters,
        Screen!EnterState
    <3>2. ScreenTypes' /\ Screen!IdleScreenShown'
      BY <1>1, <3>1 DEF ScreenInv, ScreenTypes, Screen!State, Screen!IdleScreenShown
    <3>3. cancelled' = FALSE
      BY <1>5, <2>3 DEF Screen!ShowReset, Screen!UpdateReset, Screen!Enters
    <3>4. ScreenFlags'
      BY <1>1, <2>1, <3>3 DEF ScreenInv, ScreenFlags
    <3>5. Reset'
      BY <1>1, <2>1, <2>2, <2>3, <3>1 DEF ScreenInv, Reset
    <3>. QED BY <1>2, <1>3, <3>2, <3>4, <3>5 DEF ScreenInv
  <2>4. CASE state = "FACTORY_RESET" /\ Head(queue) = "RELEASED"
    <3>1. state' = "IDLE" /\ deadline' = "none" /\ shown' = shown /\ cancelled' = TRUE
      BY <1>5, <2>4 DEF Screen!ShowReset, Screen!UpdateReset, Screen!EnterState
    <3>2. ScreenTypes' /\ Screen!IdleScreenShown'
      BY <1>1, <3>1 DEF ScreenInv, ScreenTypes, Screen!State, Screen!IdleScreenShown
    <3>3. ScreenFlags'
      BY <1>1, <2>1, <3>1 DEF ScreenInv, ScreenFlags
    <3>4. Reset'
      BY <1>1, <2>1, <2>2, <2>4, <3>1 DEF ScreenInv, Reset
    <3>. QED BY <1>2, <1>3, <3>2, <3>3, <3>4 DEF ScreenInv
  <2>5. CASE state = "FACTORY_RESET" /\ Head(queue) # "RELEASED"
    <3>1. UNCHANGED <<state, deadline, shown, cancelled>> /\ Head(queue) = "HELD"
      BY <1>5, <2>1, <2>5 DEF Screen!ShowReset, Screen!UpdateReset, Screen!display,
        Screen!ResetEvent
    <3>2. ScreenTypes' /\ Screen!IdleScreenShown'
      BY <1>1, <3>1 DEF ScreenInv, ScreenTypes, Screen!IdleScreenShown
    <3>3. ScreenFlags'
      BY <1>1, <2>1, <3>1 DEF ScreenInv, ScreenFlags
    <3>4. Reset'
      BY <1>1, <2>1, <2>2, <2>5, <3>1 DEF ScreenInv, Reset
    <3>. QED BY <1>2, <1>3, <3>2, <3>3, <3>4 DEF ScreenInv
  <2>. QED BY <2>3, <2>4, <2>5
<1>. QED BY <1>1, <1>4, <1>5

\* The rest of the display task's pass, and time.
LEMMA PassStep ==
  ASSUME Screen!DisplayAssumption, ScreenInv,
         Screen!Drained \/ Screen!Expire \/ Screen!Poll \/ Screen!Elapse
  PROVE  ScreenInv'
<1>1. UNCHANGED <<device, links, player, killed, button, spoilt, used>>
  BY DEF Screen!Drained, Screen!Expire, Screen!Poll, Screen!Elapse, Screen!game
<1>2. queue' = queue \/ \E e \in Screen!Event \ Screen!ResetEvent : Screen!Post(e)
  <2>1. "RESPAWN_COMPLETE" \in Screen!Event \ Screen!ResetEvent
    BY DEF Screen!Event, Screen!ResetEvent
  <2>. QED BY <2>1 DEF Screen!Drained, Screen!Expire, Screen!Poll, Screen!Elapse,
    Screen!PollRespawn
<1>3. \/ UNCHANGED <<state, shown, cancelled>> /\ deadline' \in {deadline, "reached"}
      \/ /\ state \in {"BOOT", "ALERT", "CONNECTING"} /\ deadline' = "none" /\ cancelled' = FALSE
         /\ \/ state' = "IDLE" /\ shown' = "idle"
            \/ state' = "CONNECTING" /\ shown' = "connecting"
  BY DEF Screen!Drained, Screen!Expire, Screen!Poll, Screen!Elapse, Screen!display,
    Screen!AlertOver, Screen!Enters, Screen!EnterState
<1>4. pass' \in {"drain", "expiry", "poll"}
  BY DEF Screen!Drained, Screen!Expire, Screen!Poll, Screen!Elapse, ScreenInv, ScreenTypes
<1>5. ScreenTypes' /\ Screen!IdleScreenShown'
  BY <1>1, <1>3, <1>4 DEF ScreenInv, ScreenTypes, Screen!State, Screen!IdleScreenShown
<1>6. ScreenFlags'
  BY <1>1, <1>3 DEF ScreenInv, ScreenFlags
<1>7. UsedType'
  BY <1>1 DEF ScreenInv, UsedType
<1>8. QueueType' /\ Reset'
  <2>1. state' = state \/ (state # "FACTORY_RESET" /\ state' # "FACTORY_RESET")
    BY <1>3
  <2>. QED BY <1>1, <1>2, <2>1, PostStep DEF ScreenInv
<1>. QED BY <1>5, <1>6, <1>7, <1>8 DEF ScreenInv

\* The tasks of the game and the network: they touch the queue only.
LEMMA GameStep ==
  ASSUME Screen!DisplayAssumption, ScreenInv,
         \/ Screen!Hit \/ Screen!Kill \/ Screen!PostRespawnStart
         \/ Screen!Respawn \/ Screen!Notify \/ Screen!Connectivity
  PROVE  ScreenInv'
<1>1. UNCHANGED <<device, state, deadline, shown, cancelled, pass, button, spoilt>>
  BY DEF Screen!Hit, Screen!Kill, Screen!PostRespawnStart, Screen!Respawn,
    Screen!Notify, Screen!Connectivity, Screen!display
<1>2. queue' = queue \/ \E e \in Screen!Event \ Screen!ResetEvent : Screen!Post(e)
  <2>1. {"HIT", "KILLED", "RESPAWN_START", "KILL",
  "MSG"} \subseteq Screen!Event \ Screen!ResetEvent
    BY DEF Screen!Event, Screen!AlertEvent, Screen!ResetEvent
  <2>. QED BY <2>1 DEF Screen!Hit, Screen!Kill, Screen!PostRespawnStart, Screen!Respawn,
    Screen!Notify, Screen!Connectivity
<1>3. /\ links' \subseteq {"wifi", "ws"} /\ player' \in {"up", "down"}
  BY DEF Screen!Hit, Screen!Kill, Screen!PostRespawnStart, Screen!Respawn,
    Screen!Notify, Screen!Connectivity, Screen!game, ScreenInv, ScreenTypes
<1>4. killed' \in BOOLEAN
  BY DEF Screen!Hit, Screen!Kill, Screen!PostRespawnStart, Screen!Respawn,
    Screen!Notify, Screen!Connectivity, Screen!game, ScreenInv, ScreenFlags
<1>5. UsedType'
  <2>1. CASE Screen!Count
    <3>1. used.events + 1 \in 0..MaxEvents
      BY <2>1 DEF Screen!Count, ScreenInv, UsedType, Screen!DisplayAssumption
    <3>. QED BY <2>1, <3>1 DEF Screen!Count, ScreenInv, UsedType
  <2>2. CASE used' = used
    BY <2>2 DEF ScreenInv, UsedType
  <2>. QED BY <2>1, <2>2 DEF Screen!Hit, Screen!Kill, Screen!PostRespawnStart,
    Screen!Respawn, Screen!Notify, Screen!Connectivity
<1>6. ScreenTypes' /\ Screen!IdleScreenShown'
  BY <1>1, <1>3 DEF ScreenInv, ScreenTypes, Screen!IdleScreenShown
<1>7. ScreenFlags'
  BY <1>1, <1>4 DEF ScreenInv, ScreenFlags
<1>8. QueueType' /\ Reset'
  BY <1>1, <1>2, PostStep DEF ScreenInv
<1>. QED BY <1>5, <1>6, <1>7, <1>8 DEF ScreenInv

\* reset_button_task: a press, a report of progress, a release.
LEMMA ButtonStep ==
  ASSUME Screen!DisplayAssumption, ScreenInv, Screen!Press \/ Screen!Hold \/ Screen!Release
  PROVE  ScreenInv'
<1>1. UNCHANGED <<device, state, deadline, shown, cancelled, pass, links, player, killed>>
  BY DEF Screen!Press, Screen!Hold, Screen!Release, Screen!display, Screen!game
<1>2. /\ "HELD" \in Screen!ResetEvent /\ "RELEASED" \in Screen!ResetEvent
      /\ queue \in Seq(Screen!Event)
  BY DEF Screen!ResetEvent, ScreenInv, QueueType
<1>3. ScreenTypes' /\ Screen!IdleScreenShown'
  BY <1>1 DEF Screen!Press, Screen!Hold, Screen!Release, ScreenInv, ScreenTypes,
    Screen!IdleScreenShown
<1>4. ScreenFlags'
  <2>1. Screen!Full \in BOOLEAN
    BY DEF Screen!Full
  <2>2. spoilt' \in BOOLEAN
    BY <2>1 DEF Screen!Press, Screen!Hold, Screen!Release, ScreenInv, ScreenFlags
  <2>. QED BY <1>1, <2>2 DEF ScreenInv, ScreenFlags
<1>5. UsedType'
  <2>1. CASE Screen!Press
    <3>1. used.presses + 1 \in 0..MaxPresses
      BY <2>1 DEF Screen!Press, ScreenInv, UsedType, Screen!DisplayAssumption
    <3>. QED BY <2>1, <3>1 DEF Screen!Press, ScreenInv, UsedType
  <2>2. CASE Screen!Hold \/ Screen!Release
    BY <2>2 DEF Screen!Hold, Screen!Release, ScreenInv, UsedType
  <2>. QED BY <2>1, <2>2
<1>6. QueueType' /\ Reset'
  <2>1. CASE Screen!Press
    <3>1. queue' = queue /\ button' = "seen"
      BY <2>1 DEF Screen!Press
    <3>. QED BY <3>1 DEF ScreenInv, QueueType, Reset
  <2>2. CASE Screen!Hold
    <3>1. QueueType' /\ (~Screen!Full => queue' = Append(queue, "HELD"))
      BY <1>2, <2>2, ReportStep DEF Screen!Hold, ScreenInv
    <3>2. button' = "down" /\ (~spoilt' => ~Screen!Full)
      BY <2>2 DEF Screen!Hold
    <3>. QED BY <1>2, <3>1, <3>2, AppendHeld DEF Reset
  <2>3. CASE Screen!Release
    <3>1. QueueType' /\ (~Screen!Full => queue' = Append(queue, "RELEASED"))
      BY <1>2, <2>3, ReportStep DEF Screen!Release, ScreenInv
    <3>2. button' = "up" /\ (~spoilt' => ~spoilt /\ ~Screen!Full /\ button = "down")
      BY <2>3 DEF Screen!Release
    <3>3. ASSUME ~spoilt' PROVE EndsReleased(queue', state)
      BY <1>2, <3>1, <3>2, <3>3, AppendReleased DEF ScreenInv, Reset
    <3>. QED BY <1>1, <3>1, <3>2, <3>3 DEF Reset
  <2>. QED BY <2>1, <2>2, <2>3
<1>. QED BY <1>3, <1>4, <1>5, <1>6 DEF ScreenInv

\* The device starts anew.
LEMMA RestartStep ==
  ASSUME Screen!DisplayAssumption, ScreenInv, Screen!FactoryReset
  PROVE  ScreenInv'
<1>1. /\ queue' = <<>> /\ state' = "BOOT" /\ deadline' = "ahead" /\ shown' = "boot"
      /\ pass' = "drain" /\ links' = {} /\ player' = "up" /\ button' = "up"
      /\ device' = device
  BY DEF Screen!FactoryReset, Screen!Start
<1>2. killed' = FALSE /\ spoilt' = FALSE /\ cancelled' = FALSE /\ used' = used
  BY DEF Screen!FactoryReset, Screen!Start
<1>3. ScreenTypes' /\ Screen!IdleScreenShown'
  BY <1>1 DEF ScreenInv, ScreenTypes, Screen!State, Screen!IdleScreenShown
<1>4. queue' \in Seq(Screen!Event) /\ Len(queue') = 0
  BY <1>1, ScreenEmptyFacts, Zenon
<1>5. QueueType' /\ NoReset(queue')
  BY <1>4 DEF QueueType, NoReset, Screen!DisplayAssumption
<1>6. Reset'
  BY <1>1, <1>5 DEF Reset
<1>. QED BY <1>2, <1>3, <1>5, <1>6 DEF ScreenInv, ScreenFlags, UsedType

-----------------------------------------------------------------------------

\* Every pass of the display task and every step of the tasks that post keep the
\* invariant.
THEOREM ScreenInductive == Spec => []ScreenInv
<1>. Screen!DisplayAssumption
  BY PartsAssumption DEF PartsAssumption
<1>1. ASSUME Screen!Init PROVE ScreenInv
  <2>1. ScreenTypes /\ Screen!IdleScreenShown
    BY <1>1 DEF Screen!Init, ScreenTypes, Screen!State, Screen!IdleScreenShown
  <2>2. ScreenFlags
    BY <1>1 DEF Screen!Init, ScreenFlags
  <2>3. UsedType
    BY <1>1 DEF Screen!Init, UsedType, Screen!DisplayAssumption
  <2>4. queue \in Seq(Screen!Event) /\ Len(queue) = 0
    BY <1>1, ScreenEmptyFacts, Zenon DEF Screen!Init
  <2>5. QueueType /\ NoReset(queue)
    BY <2>4 DEF QueueType, NoReset, Screen!DisplayAssumption
  <2>6. Reset
    BY <1>1, <2>5 DEF Screen!Init, Reset
  <2>. QED BY <2>1, <2>2, <2>3, <2>5, <2>6 DEF ScreenInv
<1>2. ScreenInv /\ [Screen!Next]_displayVars => ScreenInv'
  <2> SUFFICES ASSUME ScreenInv, [Screen!Next]_displayVars PROVE ScreenInv'
    OBVIOUS
  <2>1. CASE Screen!HandleEvent
    BY <2>1, HandleStep
  <2>2. CASE Screen!Drained \/ Screen!Expire \/ Screen!Poll \/ Screen!Elapse
    BY <2>2, PassStep
  <2>3. CASE \/ Screen!Hit \/ Screen!Kill \/ Screen!PostRespawnStart
             \/ Screen!Respawn \/ Screen!Notify \/ Screen!Connectivity
    BY <2>3, GameStep
  <2>4. CASE Screen!Press \/ Screen!Hold \/ Screen!Release
    BY <2>4, ButtonStep
  <2>5. CASE Screen!FactoryReset
    BY <2>5, RestartStep
  <2>6. CASE UNCHANGED displayVars
    BY <2>6 DEF displayVars, ScreenInv, ScreenTypes, QueueType, ScreenFlags, UsedType,
      Reset, Screen!IdleScreenShown
  <2>. QED BY <2>1, <2>2, <2>3, <2>4, <2>5, <2>6 DEF Screen!Next
<1>3. Init => Screen!Init
  BY DEF Init
<1>4. [Next]_vars => [Screen!Next]_displayVars
  BY DEF Next, ScreenStep, WifiStep, StatusStep, CommStep, BridgeStep, vars
<1>. QED BY <1>1, <1>2, <1>3, <1>4, PTL DEF Spec

\* The queue never holds more than it can, and everything else has its type.
THEOREM ScreenTypeCorrect == Spec => []Screen!TypeOK
<1>1. ScreenInv => Screen!TypeOK
  BY DEF ScreenInv, ScreenTypes, QueueType, ScreenFlags, UsedType, Screen!TypeOK
<1>. QED BY <1>1, ScreenInductive, PTL

\* handle_event (FACTORY_RESET): for any length of the queue and any number of
\* presses, the reset screen of a button that is up stays only if one of its events
\* was lost, the screen was taken over, or its release was its only event.
THEOREM ResetIsExplained == Spec => []ResetScreenExplained
<1>1. ASSUME ScreenInv, state = "FACTORY_RESET", button = "up", ~Screen!ResetPending PROVE spoilt
  <2>1. NoReset(queue)
    BY <1>1 DEF NoReset, Screen!ResetPending
  <2>2. ~EndsReleased(queue, state)
    BY <2>1 DEF EndsReleased, NoReset, Screen!ResetEvent
  <2>. QED BY <1>1, <2>2 DEF ScreenInv, Reset
<1>2. ScreenInv => ResetScreenExplained
  BY <1>1 DEF ResetScreenExplained, Screen!ResetScreenExplained
<1>. QED BY <1>2, ScreenInductive, PTL

\* switch_to_*: an idle device without the idle screen is one whose reset was
\* cancelled.
THEOREM IdleIsShown == Spec => []IdleScreenShown
<1>1. ScreenInv => IdleScreenShown
  BY DEF ScreenInv, IdleScreenShown
<1>. QED BY <1>1, ScreenInductive, PTL
-----------------------------------------------------------------------------
(* The parts together. *)

\* Every variable of every part has its type, whichever part it is that moves.
THEOREM PartsTypeCorrect == Spec => []TypeOK
BY ScreenTypeCorrect, WifiTypeCorrect, StatusTypeCorrect, CommTypeCorrect,
  BridgeTypeCorrect, PTL DEF TypeOK
=============================================================================

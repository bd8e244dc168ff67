--------------------------- MODULE HitLinkProofs ---------------------------
(***************************************************************************)
(* Theorems about HitLink, for any weapons, ids, queue lengths and bounds. *)
(***************************************************************************)
EXTENDS HitLink, TLAPS, FiniteSetTheorems

-----------------------------------------------------------------------------
(* Queues *)

\* An empty queue has no items, of whatever kind.
LEMMA EmptyFacts == ASSUME NEW S PROVE <<>> \in Seq(S) /\ Len(<<>>) = 0
OBVIOUS

\* An item of a queue is of the queue's kind.
LEMMA ItemFacts ==
  ASSUME NEW S, NEW q \in Seq(S)
  PROVE  Len(q) \in Nat /\ \A i \in 1..Len(q) : q[i] \in S
OBVIOUS

\* Removing the head of a queue moves the rest up.
LEMMA TailFacts ==
  ASSUME NEW S, NEW q \in Seq(S), q # <<>>
  PROVE  /\ Tail(q) \in Seq(S) /\ Head(q) = q[1] /\ Head(q) \in S
         /\ Len(q) \in Nat /\ Len(q) >= 1 /\ Len(Tail(q)) = Len(q) - 1
         /\ \A i \in 1..Len(Tail(q)) : i + 1 \in 1..Len(q) /\ Tail(q)[i] = q[i + 1]
OBVIOUS

\* Offering adds one item behind the others, or none; the queue never outgrows its slots.
LEMMA OfferFacts ==
  ASSUME NEW S, NEW q \in Seq(S), NEW x \in S, NEW n \in Nat, Len(q) <= n
  PROVE  /\ Offer(q, x, n) \in Seq(S) /\ Len(Offer(q, x, n)) <= n
         /\ Len(q) \in Nat
         /\ \/ Offer(q, x, n) = q
            \/ /\ Len(Offer(q, x, n)) = Len(q) + 1
               /\ Offer(q, x, n)[Len(q) + 1] = x
               /\ \A i \in 1..Len(q) : Offer(q, x, n)[i] = q[i]
BY DEF Offer

-----------------------------------------------------------------------------
(* Histories: what each kind of step changes, and that it changes nothing else *)

\* A shot is counted.
LEMMA Fired ==
  ASSUME NEW h \in History, NEW i \in DeviceIds,
         NEW d, d = [h EXCEPT !.sent[i] = @ + 1]
  PROVE  /\ d \in History
         /\ d.sent = [h.sent EXCEPT ![i] = @ + 1]
         /\ d.looked = h.looked /\ d.hits = h.hits /\ d.announced = h.announced /\ d.browser = h.browser
<1>1. /\ d.sent = [h.sent EXCEPT ![i] = @ + 1]
      /\ d.looked = h.looked /\ d.hits = h.hits /\ d.announced = h.announced /\ d.browser = h.browser
  BY DEF History
<1>2. d.sent \in [DeviceIds -> Nat]
  BY <1>1 DEF History
<1>3. d = [h EXCEPT !.sent = d.sent]
  BY <1>1 DEF History
<1>4. d \in History
  BY <1>2, <1>3, Zenon DEF History
<1> QED
  BY <1>1, <1>4

\* A weapon starts afresh.
LEMMA Restarted ==
  ASSUME NEW h \in History, NEW w \in Weapons,
         NEW d, d = [h EXCEPT !.browser[w] = 0]
  PROVE  /\ d \in History
         /\ d.browser = [h.browser EXCEPT ![w] = 0]
         /\ d.sent = h.sent /\ d.looked = h.looked /\ d.hits = h.hits /\ d.announced = h.announced
<1>1. /\ d.browser = [h.browser EXCEPT ![w] = 0]
      /\ d.sent = h.sent /\ d.looked = h.looked /\ d.hits = h.hits /\ d.announced = h.announced
  BY DEF History
<1>2. d.browser \in [Weapons -> Nat]
  BY <1>1 DEF History
<1>3. d = [h EXCEPT !.browser = d.browser]
  BY <1>1 DEF History
<1>4. d \in History
  BY <1>2, <1>3, Zenon DEF History
<1> QED
  BY <1>1, <1>4

\* The browser confirms a kill.
LEMMA Confirmed ==
  ASSUME NEW h \in History, NEW w \in Weapons,
         NEW d, d = [h EXCEPT !.browser[w] = @ + 1]
  PROVE  /\ d \in History
         /\ d.browser = [h.browser EXCEPT ![w] = @ + 1]
         /\ d.sent = h.sent /\ d.looked = h.looked /\ d.hits = h.hits /\ d.announced = h.announced
<1>1. /\ d.browser = [h.browser EXCEPT ![w] = @ + 1]
      /\ d.sent = h.sent /\ d.looked = h.looked /\ d.hits = h.hits /\ d.announced = h.announced
  BY DEF History
<1>2. d.browser \in [Weapons -> Nat]
  BY <1>1 DEF History
<1>3. d = [h EXCEPT !.browser = d.browser]
  BY <1>1 DEF History
<1>4. d \in History
  BY <1>2, <1>3, Zenon DEF History
<1> QED
  BY <1>1, <1>4

\* A word is looked at.
LEMMA LookedAt ==
  ASSUME NEW h \in History, NEW i \in DeviceIds, NEW k \in Nat, NEW n \in Nat,
         NEW d, d = [h EXCEPT !.looked[i] = @ \cup {k}, !.hits[i] = @ + n]
  PROVE  /\ d \in History
         /\ d.looked = [h.looked EXCEPT ![i] = @ \cup {k}] /\ d.hits = [h.hits EXCEPT ![i] = @ + n]
         /\ d.sent = h.sent /\ d.announced = h.announced /\ d.browser = h.browser
<1>1. /\ d.looked = [h.looked EXCEPT ![i] = @ \cup {k}] /\ d.hits = [h.hits EXCEPT ![i] = @ + n]
      /\ d.sent = h.sent /\ d.announced = h.announced /\ d.browser = h.browser
  BY DEF History
<1>2. d.looked \in [DeviceIds -> SUBSET Nat] /\ d.hits \in [DeviceIds -> Nat]
  BY <1>1 DEF History
<1>3. d = [h EXCEPT !.looked = d.looked, !.hits = d.hits]
  BY <1>1 DEF History
<1>4. d \in History
  BY <1>2, <1>3, Zenon DEF History
<1> QED
  BY <1>1, <1>4

\* A hit is announced.
LEMMA Announced ==
  ASSUME NEW h \in History, NEW i \in DeviceIds,
         NEW d, d = [h EXCEPT !.announced[i] = @ + 1]
  PROVE  /\ d \in History
         /\ d.announced = [h.announced EXCEPT ![i] = @ + 1]
         /\ d.sent = h.sent /\ d.looked = h.looked /\ d.hits = h.hits /\ d.browser = h.browser
<1>1. /\ d.announced = [h.announced EXCEPT ![i] = @ + 1]
      /\ d.sent = h.sent /\ d.looked = h.looked /\ d.hits = h.hits /\ d.browser = h.browser
  BY DEF History
<1>2. d.announced \in [DeviceIds -> Nat]
  BY <1>1 DEF History
<1>3. d = [h EXCEPT !.announced = d.announced]
  BY <1>1 DEF History
<1>4. d \in History
  BY <1>2, <1>3, Zenon DEF History
<1> QED
  BY <1>1, <1>4

-----------------------------------------------------------------------------
(* Types *)

LEMMA InitType == Init => TypeOK
<1> SUFFICES ASSUME Init PROVE TypeOK
  OBVIOUS
<1>1. hist \in History
  <2>1. /\ [w \in Weapons |-> 0] \in [Weapons -> Nat]
        /\ [i \in DeviceIds |-> 0] \in [DeviceIds -> Nat]
        /\ [i \in DeviceIds |-> {}] \in [DeviceIds -> SUBSET Nat]
    OBVIOUS
  <2> QED
    BY <2>1, Zenon DEF Init, History
<1>2. /\ id \in [Weapons -> Ids] /\ cached \in [Weapons -> DeviceIds]
      /\ laser \in [Weapons -> Seq(Word)] /\ rx \in [Weapons -> Seq(HitEvent)]
      /\ \A w \in Weapons : Len(laser[w]) <= LaserSlots /\ Len(rx[w]) <= RadioSlots
      /\ kills \in [Weapons -> Nat]
  <2>1. /\ id \in [Weapons -> Ids] /\ cached \in [Weapons -> DeviceIds]
        /\ kills \in [Weapons -> Nat]
    BY LinkAssumption DEF Init, Drawn
  <2>2. /\ laser = [w \in Weapons |-> <<>>] /\ rx = [w \in Weapons |-> <<>>]
        /\ <<>> \in Seq(Word) /\ <<>> \in Seq(HitEvent)
    BY DEF Init
  <2>3. \A w \in Weapons : laser[w] = <<>> /\ rx[w] = <<>>
    BY <2>2
  <2>4. laser \in [Weapons -> Seq(Word)] /\ rx \in [Weapons -> Seq(HitEvent)]
    BY <2>2, Zenon
  <2>5. \A w \in Weapons : Len(laser[w]) <= LaserSlots /\ Len(rx[w]) <= RadioSlots
    <3>1. 0 <= LaserSlots /\ 0 <= RadioSlots
      BY LinkAssumption
    <3> QED
      BY <2>3, <3>1, EmptyFacts, Zenon
  <2> QED
    BY <2>1, <2>4, <2>5
<1>3. /\ photo \in Seq(Word) /\ Len(photo) <= PhotoSlots
      /\ half \in Seq(Word) /\ Len(half) <= 1 /\ age \in 0..Window
      /\ proc \in {"idle", "hit", "tell"} /\ respawning \in BOOLEAN
      /\ struck \in Seq(Word) /\ Len(struck) = IF proc = "idle" THEN 0 ELSE 1
  <2>1. photo = <<>> /\ half = <<>> /\ struck = <<>> /\ age = 0 /\ proc = "idle"
        /\ respawning = FALSE
    BY DEF Init
  <2>2. 0 <= PhotoSlots /\ 0 <= 1 /\ 0 \in 0..Window
    BY LinkAssumption
  <2>3. photo \in Seq(Word) /\ half \in Seq(Word) /\ struck \in Seq(Word)
    BY <2>1, EmptyFacts, Zenon
  <2>4. Len(photo) = 0 /\ Len(half) = 0 /\ Len(struck) = 0
    BY <2>1, EmptyFacts, Zenon
  <2> QED
    BY <2>1, <2>2, <2>3, <2>4
<1> QED
  BY <1>1, <1>2, <1>3 DEF TypeOK

LEMMA TypeStep == TypeOK /\ [Next]_vars => TypeOK'
<1> SUFFICES ASSUME TypeOK, [Next]_vars PROVE TypeOK'
  OBVIOUS
<1> USE LinkAssumption
<1>1. ASSUME NEW w \in Weapons, Fire(w) PROVE TypeOK'
  <2> DEFINE d == id[w].device
             word == [id |-> id[w], shot |-> hist.sent[d] + 1]
  <2>1. id[w] \in Ids /\ d \in DeviceIds /\ hist.sent[d] + 1 \in Nat
    BY DEF TypeOK, History
  <2>2. word \in Word
    BY <2>1 DEF Word
  <2>3. /\ Offer(laser[w], word, LaserSlots) \in Seq(Word)
        /\ Len(Offer(laser[w], word, LaserSlots)) <= LaserSlots
    BY <2>2, OfferFacts DEF TypeOK
  <2>4. hist' \in History
    BY <1>1, <2>1, Fired DEF Fire, TypeOK
  <2>5. laser' = [laser EXCEPT ![w] = Offer(laser[w], word, LaserSlots)]
    BY <1>1, Zenon DEF Fire
  <2> HIDE DEF word
  <2> QED
    BY <1>1, <2>3, <2>4, <2>5 DEF Fire, TypeOK, target
<1>2. ASSUME NEW w \in Weapons, Transmit(w) PROVE TypeOK'
  <2>1. /\ Tail(laser[w]) \in Seq(Word) /\ Head(laser[w]) \in Word
        /\ Len(Tail(laser[w])) <= LaserSlots
    BY <1>2, TailFacts DEF Transmit, TypeOK
  <2>2. photo' \in Seq(Word) /\ Len(photo') <= PhotoSlots
    BY <1>2, <2>1, OfferFacts DEF Transmit, TypeOK
  <2> QED
    BY <1>2, <2>1, <2>2 DEF Transmit, TypeOK
<1>3. ASSUME NEW w \in Weapons, Receive(w) PROVE TypeOK'
  <2>1. /\ Tail(rx[w]) \in Seq(HitEvent) /\ Head(rx[w]) \in HitEvent
        /\ Len(Tail(rx[w])) <= RadioSlots
    BY <1>3, TailFacts DEF Receive, TypeOK
  <2>2. kills' \in [Weapons -> Nat]
    <3>1. kills' = [kills EXCEPT ![w] = kills[w] + 1] \/ kills' = kills
      <4>1. CASE Head(rx[w]).device = cached[w]
        BY <1>3, <4>1, Zenon DEF Receive
      <4>2. CASE Head(rx[w]).device # cached[w]
        BY <1>3, <4>2 DEF Receive, TypeOK
      <4> QED BY <4>1, <4>2
    <3>2. kills \in [Weapons -> Nat] /\ kills[w] + 1 \in Nat
      BY DEF TypeOK
    <3> QED BY <3>1, <3>2
  <2>3. /\ rx' \in [Weapons -> Seq(HitEvent)]
        /\ \A v \in Weapons : Len(rx'[v]) <= RadioSlots
    BY <1>3, <2>1 DEF Receive, TypeOK
  <2>4. UNCHANGED <<id, cached, laser, photo, half, age, proc, struck, respawning, hist>>
    BY <1>3 DEF Receive, target
  <2> QED
    BY <2>2, <2>3, <2>4 DEF TypeOK
<1>4. ASSUME NEW w \in Weapons, NEW i \in Ids, Rename(w, i) PROVE TypeOK'
  BY <1>4 DEF Rename, TypeOK, target
<1>5. ASSUME NEW w \in Weapons, NEW d \in DeviceIds, Restart(w, d) PROVE TypeOK'
  <2>1. hist' \in History
    BY <1>5, Restarted DEF Restart, TypeOK
  <2>2. Drawn(d) \in Ids
    BY DEF Drawn
  <2>3. /\ id' \in [Weapons -> Ids] /\ cached' \in [Weapons -> DeviceIds]
        /\ kills' \in [Weapons -> Nat]
    BY <1>5, <2>2 DEF Restart, TypeOK
  <2>4. /\ laser' \in [Weapons -> Seq(Word)] /\ rx' \in [Weapons -> Seq(HitEvent)]
        /\ \A v \in Weapons : Len(laser'[v]) <= LaserSlots /\ Len(rx'[v]) <= RadioSlots
    BY <1>5, EmptyFacts DEF Restart, TypeOK
  <2>5. UNCHANGED <<photo, half, age, proc, struck, respawning>>
    BY <1>5 DEF Restart, target
  <2> QED
    BY <2>1, <2>3, <2>4, <2>5 DEF TypeOK
<1>6. ASSUME NEW w \in Weapons, KillConfirmed(w) PROVE TypeOK'
  <2>1. hist' \in History
    BY <1>6, Confirmed DEF KillConfirmed, TypeOK
  <2> QED
    BY <1>6, <2>1 DEF KillConfirmed, TypeOK, target
<1>7. ASSUME NEW word, TakeWord(word)
      PROVE  /\ word \in Word /\ photo' \in Seq(Word) /\ Len(photo') <= PhotoSlots
             /\ id' = id /\ cached' = cached /\ laser' = laser /\ rx' = rx /\ kills' = kills
             /\ respawning' = respawning
             /\ \A n \in {0, 1} : Looked(word, n) \in History
  <2>1. /\ word \in Word /\ photo' \in Seq(Word) /\ Len(photo') <= PhotoSlots
    BY <1>7, TailFacts DEF TakeWord, TypeOK
  <2>2. word.id.device \in DeviceIds /\ word.shot \in Nat
    BY <2>1 DEF Word
  <2>3. ASSUME NEW n \in {0, 1} PROVE Looked(word, n) \in History
    <3>1. n \in Nat
      OBVIOUS
    <3> QED
      BY <2>2, <3>1, LookedAt DEF Looked, TypeOK
  <2> QED
    BY <1>7, <2>1, <2>3 DEF TakeWord, weapon
<1>8. ASSUME NEW word, WordWhileDown(word) PROVE TypeOK'
  <2>1. TakeWord(word) /\ half' = <<>> /\ age' = 0 /\ proc' = proc /\ struck' = struck
        /\ hist' \in History
    BY <1>8, <1>7 DEF WordWhileDown
  <2> QED
    BY <2>1, <1>7 DEF TypeOK
<1>9. ASSUME NEW word, WordWaits(word) PROVE TypeOK'
  <2>1. TakeWord(word) /\ half' = <<word>> /\ age' = 0 /\ proc' = proc /\ struck' = struck
        /\ hist' \in History
    BY <1>9, <1>7 DEF WordWaits
  <2> QED
    BY <2>1, <1>7 DEF TypeOK
<1>10. ASSUME NEW word, NEW ignored, HitConfirmed(word, ignored) PROVE TypeOK'
  <2>1. TakeWord(word) /\ half' = <<>> /\ age' = 0
    BY <1>10 DEF HitConfirmed
  <2>2. proc = "idle"
    BY <2>1 DEF TakeWord
  <2>3. hist' \in History /\ struck' \in Seq(Word) /\ proc' \in {"idle", "hit", "tell"}
        /\ Len(struck') = IF proc' = "idle" THEN 0 ELSE 1
    <3>1. CASE hist' = Looked(word, 0) /\ UNCHANGED <<proc, struck>>
      BY <3>1, <2>1, <1>7 DEF TypeOK
    <3>2. CASE hist' = Looked(word, 1) /\ proc' = "hit" /\ struck' = <<word>>
      BY <3>2, <2>1, <1>7
    <3> QED
      BY <1>10, <3>1, <3>2 DEF HitConfirmed
  <2> QED
    BY <2>1, <2>3, <1>7 DEF TypeOK
<1>11. ASSUME RecordDeath PROVE TypeOK'
  BY <1>11 DEF RecordDeath, TypeOK, weapon
<1>12. ASSUME Announce PROVE TypeOK'
  <2> DEFINE device == struck[1].id.device
             event == [device |-> device, nth |-> hist.announced[device] + 1,
                       known |-> {w \in Weapons : cached[w] = device}]
  <2>1. struck[1] \in Word
    <3>1. Len(struck) = 1 /\ struck \in Seq(Word)
      BY <1>12 DEF Announce, TypeOK
    <3>2. 1 \in 1..Len(struck)
      BY <3>1
    <3> QED
      BY <3>1, <3>2, ItemFacts, Zenon
  <2>2. device \in DeviceIds /\ hist.announced[device] + 1 \in Nat
    <3>1. device \in DeviceIds
      BY <2>1 DEF Word
    <3>2. hist.announced \in [DeviceIds -> Nat]
      BY DEF TypeOK, History
    <3> QED
      BY <3>1, <3>2
  <2>3. event \in HitEvent
    BY <2>2 DEF HitEvent
  <2>4. \A w \in Weapons : /\ Offer(rx[w], event, RadioSlots) \in Seq(HitEvent)
                           /\ Len(Offer(rx[w], event, RadioSlots)) <= RadioSlots
    BY <2>3, OfferFacts DEF TypeOK
  <2>5. hist' \in History
    BY <1>12, <2>2, Announced DEF Announce, TypeOK
  <2>6. /\ rx' \in [Weapons -> Seq(HitEvent)]
        /\ \A w \in Weapons : Len(rx'[w]) <= RadioSlots
    <3>1. PICK heard \in SUBSET Weapons :
            rx' = [w \in Weapons |->
                     IF w \in heard THEN Offer(rx[w], event, RadioSlots) ELSE rx[w]]
      BY <1>12 DEF Announce
    <3>2. ASSUME NEW w \in Weapons
          PROVE  rx'[w] \in Seq(HitEvent) /\ Len(rx'[w]) <= RadioSlots
      BY <3>1, <2>4 DEF TypeOK
    <3> QED
      BY <3>1, <3>2
  <2>7. /\ id' = id /\ cached' = cached /\ laser' = laser /\ kills' = kills
        /\ photo' = photo /\ half' = half /\ age' = age /\ respawning' = respawning
        /\ proc' = "idle" /\ struck' = <<>>
    BY <1>12 DEF Announce
  <2> QED
    BY <2>5, <2>6, <2>7 DEF TypeOK
<1>13. ASSUME NEW down \in BOOLEAN, Respawn(down) PROVE TypeOK'
  BY <1>13 DEF Respawn, TypeOK, weapon
<1>14. ASSUME Tick PROVE TypeOK'
  BY <1>14 DEF Tick, TypeOK, weapon
<1>15. ASSUME TargetRestart PROVE TypeOK'
  <2>1. /\ photo' = <<>> /\ half' = <<>> /\ age' = 0 /\ proc' = "idle"
        /\ struck' = <<>> /\ respawning' = FALSE /\ hist' = hist
        /\ id' = id /\ cached' = cached /\ laser' = laser /\ rx' = rx /\ kills' = kills
    BY <1>15 DEF TargetRestart, weapon
  <2>2. /\ photo' \in Seq(Word) /\ Len(photo') <= PhotoSlots
        /\ half' \in Seq(Word) /\ Len(half') <= 1
        /\ struck' \in Seq(Word) /\ Len(struck') = 0
    <3>1. 0 <= PhotoSlots /\ 0 <= 1
      BY LinkAssumption
    <3>2. photo' \in Seq(Word) /\ half' \in Seq(Word) /\ struck' \in Seq(Word)
      BY <2>1, EmptyFacts, Zenon
    <3>3. Len(photo') = 0 /\ Len(half') = 0 /\ Len(struck') = 0
      BY <2>1, EmptyFacts, Zenon
    <3> QED
      BY <3>1, <3>2, <3>3, Zenon
  <2>3. proc' = "idle" /\ age' \in 0..Window /\ respawning' \in BOOLEAN
    <3>1. 0 \in 0..Window
      BY LinkAssumption
    <3> QED
      BY <2>1, <3>1, Zenon
  <2>4. /\ id' = id /\ cached' = cached /\ laser' = laser /\ rx' = rx /\ kills' = kills
        /\ hist' = hist
    BY <2>1
  <2> QED
    BY <2>2, <2>3, <2>4 DEF TypeOK
<1>16. ASSUME UNCHANGED vars PROVE TypeOK'
  BY <1>16 DEF vars, TypeOK
<1> QED
  BY <1>1, <1>2, <1>3, <1>4, <1>5, <1>6, <1>8, <1>9, <1>10, <1>11, <1>12, <1>13, <1>14,
     <1>15, <1>16 DEF Next, Weapon, Target

\* Queues, counters and histories keep their types, and no queue outgrows its slots.
THEOREM TypeCorrect == Spec => []TypeOK
<1>1. Init => TypeOK
  BY InitType
<1>2. TypeOK /\ [Next]_vars => TypeOK'
  BY TypeStep
<1> QED
  BY <1>1, <1>2, PTL DEF Spec

-----------------------------------------------------------------------------
(* Kills are backed by announced hits *)

\* The hits of one id are in a receive queue in the order they were announced, ...
Ascending(q) ==
  \A i, j \in 1..Len(q) : i < j /\ q[i].device = q[j].device => q[i].nth < q[j].nth

\* ... all of them announced, ...
HeardOf(q, announced) == \A i \in 1..Len(q) : q[i].nth <= announced[q[i].device]

\* ... and those of id d come after the n kills that were credited for it.
Behind(q, d, n) == \A i \in 1..Len(q) : q[i].device = d => n < q[i].nth

\* The kills of a weapon that the radio accounts for.
ByRadio(w) == kills[w] - hist.browser[w]

KillInv ==
  \A w \in Weapons :
     /\ Ascending(rx[w]) /\ HeardOf(rx[w], hist.announced)
     /\ Behind(rx[w], cached[w], ByRadio(w))
     /\ ByRadio(w) <= hist.announced[cached[w]]

\* Taking the oldest hit of a queue: it is announced and, for id d, not yet counted;
\* those behind it are still to be counted after it.
LEMMA Taken ==
  ASSUME NEW q \in Seq(HitEvent), q # <<>>, NEW d, NEW n \in Int, NEW a,
         Ascending(q), HeardOf(q, a), Behind(q, d, n)
  PROVE  /\ Ascending(Tail(q)) /\ HeardOf(Tail(q), a) /\ Behind(Tail(q), d, n)
         /\ Head(q).nth <= a[Head(q).device]
         /\ Head(q).device = d => n + 1 <= Head(q).nth /\ Behind(Tail(q), d, n + 1)
<1>1. /\ Tail(q) \in Seq(HitEvent) /\ Head(q) = q[1] /\ Head(q) \in HitEvent
      /\ Len(q) \in Nat /\ Len(q) >= 1 /\ Len(Tail(q)) = Len(q) - 1
      /\ \A i \in 1..Len(Tail(q)) : i + 1 \in 1..Len(q) /\ Tail(q)[i] = q[i + 1]
  BY TailFacts
<1>2. 1 \in 1..Len(q) /\ \A i \in 1..Len(q) : q[i] \in HitEvent
  BY <1>1, ItemFacts
<1>3. \A i \in 1..Len(q) : q[i].nth \in Nat
  BY <1>2 DEF HitEvent
<1>4. Ascending(Tail(q))
  BY <1>1 DEF Ascending
<1>5. HeardOf(Tail(q), a) /\ Behind(Tail(q), d, n) /\ Head(q).nth <= a[Head(q).device]
  BY <1>1, <1>2 DEF HeardOf, Behind
<1>6. ASSUME Head(q).device = d
      PROVE  n + 1 <= Head(q).nth /\ Behind(Tail(q), d, n + 1)
  <2>1. n < q[1].nth
    BY <1>1, <1>2, <1>6 DEF Behind
  <2>2. ASSUME NEW i \in 1..Len(Tail(q)), Tail(q)[i].device = d
        PROVE  n + 1 < Tail(q)[i].nth
    <3>1. i + 1 \in 1..Len(q) /\ Tail(q)[i] = q[i + 1] /\ 1 < i + 1
      BY <1>1
    <3>2. q[1].nth < q[i + 1].nth
      BY <3>1, <2>2, <1>1, <1>2, <1>6 DEF Ascending
    <3> QED
      BY <3>1, <3>2, <2>1, <1>2, <1>3
  <2> QED
    BY <2>1, <2>2, <1>1, <1>2, <1>3 DEF Behind
<1> QED
  BY <1>4, <1>5, <1>6

\* A hit that is announced next takes its place behind all others.
LEMMA Heard ==
  ASSUME NEW q \in Seq(HitEvent), Len(q) <= RadioSlots, NEW d \in DeviceIds, NEW n \in Int,
         NEW a \in [DeviceIds -> Nat], NEW e \in HitEvent, e.nth = a[e.device] + 1,
         NEW b \in [DeviceIds -> Nat], b[e.device] = e.nth,
         \A i \in DeviceIds : a[i] <= b[i],
         Ascending(q), HeardOf(q, a), Behind(q, d, n), n <= a[d],
         NEW r, r = q \/ r = Offer(q, e, RadioSlots)
  PROVE  Ascending(r) /\ HeardOf(r, b) /\ Behind(r, d, n) /\ n <= b[d]
<1>1. e.device \in DeviceIds /\ e.nth \in Nat
  BY DEF HitEvent
<1>2. \A i \in DeviceIds : a[i] \in Nat /\ b[i] \in Nat /\ a[i] <= b[i]
  BY <1>1
<1>3. b[e.device] = e.nth
  BY <1>1
<1>4. \A i \in 1..Len(q) : q[i].device \in DeviceIds /\ q[i].nth \in Nat
  <2>1. \A i \in 1..Len(q) : q[i] \in HitEvent
    BY ItemFacts
  <2> QED
    BY <2>1 DEF HitEvent
<1>5. n <= b[d]
  BY <1>2
<1>6. HeardOf(q, b)
  BY <1>2, <1>4 DEF HeardOf
<1>7. CASE r = q
  BY <1>5, <1>6, <1>7
<1>8. CASE r # q
  <2>1. Len(r) = Len(q) + 1 /\ r[Len(q) + 1] = e /\ Len(q) \in Nat
        /\ \A i \in 1..Len(q) : r[i] = q[i]
    <3>1. r = Append(q, e)
      BY <1>8, Zenon DEF Offer
    <3> QED
      BY <3>1
  <2>2. \A i \in 1..Len(r) : \/ i \in 1..Len(q) /\ r[i] = q[i]
                             \/ i = Len(q) + 1 /\ r[i] = e
    <3>1. 1..Len(r) = 1..Len(q) \cup {Len(q) + 1}
      BY <2>1
    <3> QED
      BY <2>1, <3>1, Zenon
  <2>3. \A i \in 1..Len(q) : q[i].device = e.device => q[i].nth < e.nth
    BY <1>1, <1>2, <1>4 DEF HeardOf
  <2>4. Ascending(r)
    <3> SUFFICES ASSUME NEW i \in 1..Len(r), NEW j \in 1..Len(r),
                        i < j, r[i].device = r[j].device
                 PROVE  r[i].nth < r[j].nth
      BY DEF Ascending
    <3>1. i \in 1..Len(q) /\ r[i] = q[i]
      BY <2>1
    <3>2. CASE j \in 1..Len(q) /\ r[j] = q[j]
      BY <3>1, <3>2 DEF Ascending
    <3>3. CASE r[j] = e
      BY <3>1, <3>3, <2>3
    <3> QED
      BY <2>2, <3>2, <3>3
  <2>5. HeardOf(r, b)
    BY <2>2, <1>3, <1>1, <1>6 DEF HeardOf
  <2>6. Behind(r, d, n)
    BY <2>2, <1>1, <1>2 DEF Behind
  <2> QED
    BY <1>5, <2>4, <2>5, <2>6
<1> QED
  BY <1>7, <1>8

LEMMA KillInit == Init => KillInv
<1> SUFFICES ASSUME Init, NEW w \in Weapons
             PROVE  /\ Ascending(rx[w]) /\ HeardOf(rx[w], hist.announced)
                    /\ Behind(rx[w], cached[w], ByRadio(w))
                    /\ ByRadio(w) <= hist.announced[cached[w]]
  BY DEF KillInv
<1>1. rx[w] = <<>> /\ cached[w] \in DeviceIds /\ kills[w] = 0
  BY LinkAssumption DEF Init
<1>2. hist.browser[w] = 0 /\ \A d \in DeviceIds : hist.announced[d] = 0
  BY DEF Init
<1>3. 1..Len(rx[w]) = {}
  BY <1>1, EmptyFacts
<1> QED
  BY <1>1, <1>2, <1>3 DEF Ascending, HeardOf, Behind, ByRadio

LEMMA KillStep == TypeOK /\ KillInv /\ [Next]_vars => KillInv'
<1> SUFFICES ASSUME TypeOK, KillInv, [Next]_vars PROVE KillInv'
  OBVIOUS
<1> DEFINE Part(v) == /\ Ascending(rx[v]) /\ HeardOf(rx[v], hist.announced)
                      /\ Behind(rx[v], cached[v], ByRadio(v))
                      /\ ByRadio(v) <= hist.announced[cached[v]]
<1>1. \A v \in Weapons : /\ rx[v] \in Seq(HitEvent) /\ Len(rx[v]) <= RadioSlots
                         /\ cached[v] \in DeviceIds /\ kills[v] \in Nat
                         /\ hist.browser[v] \in Nat /\ ByRadio(v) \in Int
  BY DEF TypeOK, History, ByRadio
<1>2. hist \in History /\ hist.announced \in [DeviceIds -> Nat]
  BY DEF TypeOK, History
\* A step that leaves these alone keeps the invariant.
<1>3. ASSUME rx' = rx, cached' = cached, kills' = kills,
             hist'.announced = hist.announced, hist'.browser = hist.browser
      PROVE  KillInv'
  BY <1>3 DEF KillInv, ByRadio
<1>4. ASSUME NEW w \in Weapons, Fire(w) PROVE KillInv'
  <2>1. id[w].device \in DeviceIds
    BY LinkAssumption DEF TypeOK
  <2> QED
    BY <1>3, <1>4, <1>2, <2>1, Fired DEF Fire
<1>5. ASSUME NEW w \in Weapons, Transmit(w) PROVE KillInv'
  BY <1>3, <1>5 DEF Transmit
<1>6. ASSUME NEW w \in Weapons, Receive(w) PROVE KillInv'
  <2>1. /\ rx[w] # <<>> /\ rx' = [rx EXCEPT ![w] = Tail(@)] /\ cached' = cached
        /\ kills' = [kills EXCEPT ![w] = IF Head(rx[w]).device = cached[w] THEN @ + 1 ELSE @]
    BY <1>6 DEF Receive
  <2>2. hist'.announced = hist.announced /\ hist'.browser = hist.browser
    BY <1>6 DEF Receive
  <2>3. ASSUME NEW v \in Weapons, v # w PROVE Part(v)'
    <3>1. rx'[v] = rx[v] /\ kills'[v] = kills[v]
      BY <2>1, <2>3, <1>1 DEF TypeOK
    <3> QED
      BY <3>1, <2>1, <2>2 DEF KillInv, ByRadio
  <2>4. rx'[w] = Tail(rx[w])
    BY <2>1 DEF TypeOK
  <2>5. Part(w)
    BY DEF KillInv
  <2>6. CASE Head(rx[w]).device = cached[w]
    <3>1. ByRadio(w)' = ByRadio(w) + 1
      <4>1. kills'[w] = kills[w] + 1
        BY <2>1, <2>6 DEF TypeOK
      <4> QED
        BY <4>1, <2>2, <1>1 DEF ByRadio
    <3>2. /\ Ascending(Tail(rx[w])) /\ HeardOf(Tail(rx[w]), hist.announced)
          /\ Head(rx[w]).nth <= hist.announced[cached[w]]
          /\ ByRadio(w) + 1 <= Head(rx[w]).nth
          /\ Behind(Tail(rx[w]), cached[w], ByRadio(w) + 1)
      BY <2>1, <2>5, <2>6, <1>1, Taken
    <3>3. Head(rx[w]).nth \in Nat /\ hist.announced[cached[w]] \in Nat
      <4>1. Head(rx[w]) \in HitEvent
        BY <2>1, <1>1, TailFacts
      <4> QED
        BY <4>1, <1>1, <1>2 DEF HitEvent
    <3>4. ByRadio(w) + 1 <= hist.announced[cached[w]]
      BY <3>2, <3>3, <1>1
    <3> QED
      BY <2>1, <2>2, <2>3, <2>4, <3>1, <3>2, <3>4 DEF KillInv
  <2>7. CASE Head(rx[w]).device # cached[w]
    <3>1. ByRadio(w)' = ByRadio(w)
      BY <2>1, <2>2, <2>7, <1>1 DEF ByRadio, TypeOK
    <3>2. /\ Ascending(Tail(rx[w])) /\ HeardOf(Tail(rx[w]), hist.announced)
          /\ Behind(Tail(rx[w]), cached[w], ByRadio(w))
      BY <2>1, <2>5, <1>1, Taken
    <3> QED
      BY <2>1, <2>2, <2>3, <2>4, <2>5, <3>1, <3>2 DEF KillInv
  <2> QED
    BY <2>6, <2>7
<1>7. ASSUME NEW w \in Weapons, NEW i \in Ids, Rename(w, i) PROVE KillInv'
  BY <1>3, <1>7 DEF Rename
<1>8. ASSUME NEW w \in Weapons, NEW i \in DeviceIds, Restart(w, i) PROVE KillInv'
  <2>1. /\ hist'.announced = hist.announced
        /\ hist'.browser = [hist.browser EXCEPT ![w] = 0]
    BY <1>8, <1>2 DEF Restart, History
  <2>2. ASSUME NEW v \in Weapons, v # w PROVE Part(v)'
    <3>1. rx'[v] = rx[v] /\ kills'[v] = kills[v] /\ cached'[v] = cached[v]
      BY <1>8, <2>2 DEF Restart, TypeOK
    <3>2. hist'.browser[v] = hist.browser[v]
      BY <2>1, <2>2, <1>2 DEF History
    <3> QED
      BY <3>1, <3>2, <2>1 DEF KillInv, ByRadio
  <2>3. Part(w)'
    <3>1. rx'[w] = <<>> /\ kills'[w] = 0 /\ cached'[w] \in DeviceIds
      BY <1>8 DEF Restart, TypeOK
    <3>2. hist'.browser[w] = 0
      BY <2>1, <1>2 DEF History
    <3>3. 1..Len(rx'[w]) = {}
      BY <3>1, EmptyFacts
    <3>4. Ascending(rx'[w]) /\ HeardOf(rx'[w], hist'.announced)
          /\ Behind(rx'[w], cached'[w], ByRadio(w)')
      BY <3>3 DEF Ascending, HeardOf, Behind
    <3>5. ByRadio(w)' <= hist'.announced[cached'[w]]
      BY <3>1, <3>2, <2>1, <1>2 DEF ByRadio
    <3> QED
      BY <3>4, <3>5
  <2> QED
    BY <2>2, <2>3 DEF KillInv
<1>9. ASSUME NEW w \in Weapons, KillConfirmed(w) PROVE KillInv'
  <2>1. /\ hist'.announced = hist.announced
        /\ hist'.browser = [hist.browser EXCEPT ![w] = @ + 1]
        /\ kills' = [kills EXCEPT ![w] = @ + 1] /\ rx' = rx /\ cached' = cached
    BY <1>9, <1>2, Confirmed DEF KillConfirmed
  <2>2. ASSUME NEW v \in Weapons PROVE ByRadio(v)' = ByRadio(v)
    <3>1. hist.browser \in [Weapons -> Nat] /\ kills \in [Weapons -> Nat]
      BY DEF TypeOK, History
    <3>2. CASE v = w
      <4>1. kills'[v] = kills[v] + 1 /\ hist'.browser[v] = hist.browser[v] + 1
        BY <2>1, <3>1, <3>2
      <4> QED
        BY <4>1, <1>1 DEF ByRadio
    <3>3. CASE v # w
      BY <2>1, <3>1, <3>3 DEF ByRadio
    <3> QED
      BY <3>2, <3>3
  <2> QED
    BY <2>1, <2>2 DEF KillInv
<1>10. ASSUME NEW word, TakeWord(word), NEW n \in {0, 1}, hist' = Looked(word, n)
       PROVE  KillInv'
  <2>1. word.id.device \in DeviceIds /\ word.shot \in Nat /\ n \in Nat
    <3>1. word \in Word
      BY <1>10, TailFacts DEF TakeWord, TypeOK
    <3> QED
      BY <3>1, LinkAssumption DEF Word
  <2>2. hist'.announced = hist.announced /\ hist'.browser = hist.browser
    BY <1>10, <2>1, <1>2 DEF Looked, History
  <2> QED
    BY <1>3, <1>10, <2>2 DEF TakeWord, weapon
<1>11. ASSUME NEW word, WordWhileDown(word) PROVE KillInv'
  BY <1>10, <1>11 DEF WordWhileDown
<1>12. ASSUME NEW word, WordWaits(word) PROVE KillInv'
  BY <1>10, <1>12 DEF WordWaits
<1>13. ASSUME NEW word, NEW ignored, HitConfirmed(word, ignored)
       PROVE  KillInv'
  BY <1>10, <1>13 DEF HitConfirmed
<1>14. ASSUME Announce PROVE KillInv'
  <2> DEFINE device == struck[1].id.device
             event == [device |-> device, nth |-> hist.announced[device] + 1,
                       known |-> {w \in Weapons : cached[w] = device}]
  <2>1. device \in DeviceIds /\ event \in HitEvent
    <3>1. Len(struck) = 1 /\ struck \in Seq(Word) /\ 1 \in 1..1
      BY <1>14 DEF Announce, TypeOK
    <3>2. struck[1] \in Word
      BY <3>1, ItemFacts, Zenon
    <3>3. device \in DeviceIds
      BY <3>2, LinkAssumption DEF Word
    <3>4. hist.announced[device] + 1 \in Nat
      BY <3>3, <1>2
    <3> QED
      BY <3>3, <3>4 DEF HitEvent
  <2>2. /\ hist'.announced = [hist.announced EXCEPT ![device] = @ + 1]
        /\ hist'.browser = hist.browser
    BY <1>14, <2>1, <1>2, Announced DEF Announce
  <2>3. PICK heard \in SUBSET Weapons :
          rx' = [w \in Weapons |->
                   IF w \in heard THEN Offer(rx[w], event, RadioSlots) ELSE rx[w]]
    BY <1>14 DEF Announce
  <2>4. kills' = kills /\ cached' = cached
    BY <1>14 DEF Announce
  <2>5. /\ event.device = device /\ event.nth = hist.announced[event.device] + 1
        /\ hist'.announced = [hist.announced EXCEPT ![event.device] = @ + 1]
    BY <2>2
  <2>6. ASSUME NEW v \in Weapons PROVE Part(v)'
    <3>1. rx'[v] = rx[v] \/ rx'[v] = Offer(rx[v], event, RadioSlots)
      BY <2>3
    <3>2. ByRadio(v)' = ByRadio(v)
      BY <2>2, <2>4 DEF ByRadio
    <3>3. Part(v)
      BY DEF KillInv
    <3> DEFINE q == rx[v]  r == rx'[v]  a == hist.announced  b == hist'.announced  n == ByRadio(v)
    <3>5. /\ q \in Seq(HitEvent) /\ Len(q) <= RadioSlots /\ cached[v] \in DeviceIds /\ n \in Int
          /\ a \in [DeviceIds -> Nat] /\ event \in HitEvent
      BY <1>1, <1>2, <2>1
    <3>6. /\ event.nth = a[event.device] + 1 /\ b[event.device] = event.nth
          /\ b \in [DeviceIds -> Nat] /\ \A i \in DeviceIds : a[i] <= b[i]
      BY <2>5, <2>1, <1>2
    <3>7. Ascending(q) /\ HeardOf(q, a) /\ Behind(q, cached[v], n) /\ n <= a[cached[v]]
      BY <3>3
    <3>8. r = q \/ r = Offer(q, event, RadioSlots)
      BY <3>1
    <3> HIDE DEF event, q, r, a, b, n
    <3>9. Ascending(r) /\ HeardOf(r, b) /\ Behind(r, cached[v], n) /\ n <= b[cached[v]]
      BY <3>5, <3>6, <3>7, <3>8, Heard, Zenon
    <3>4. /\ Ascending(rx'[v]) /\ HeardOf(rx'[v], hist'.announced)
          /\ Behind(rx'[v], cached[v], ByRadio(v)) /\ ByRadio(v) <= hist'.announced[cached[v]]
      BY <3>9 DEF q, r, a, b, n
    <3> QED
      BY <3>2, <3>4, <2>4
  <2> QED
    BY <2>6 DEF KillInv
<1>15. ASSUME RecordDeath \/ Tick \/ TargetRestart \/ (\E down \in BOOLEAN : Respawn(down))
       PROVE  KillInv'
  BY <1>3, <1>15 DEF RecordDeath, Tick, TargetRestart, Respawn, weapon
<1>16. ASSUME UNCHANGED vars PROVE KillInv'
  BY <1>3, <1>16 DEF vars
<1> QED
  BY <1>4, <1>5, <1>6, <1>7, <1>8, <1>9, <1>11, <1>12, <1>13, <1>14, <1>15, <1>16
  DEF Next, Weapon, Target

\* No weapon counts a kill that was neither announced for the id it goes by nor
\* confirmed by the browser, for any number of weapons, renames, restarts and losses.
THEOREM Backed == Spec => []KillsBacked
<1>1. Init => TypeOK /\ KillInv
  BY InitType, KillInit
<1>2. TypeOK /\ KillInv /\ [Next]_vars => TypeOK' /\ KillInv'
  BY TypeStep, KillStep
<1>3. TypeOK /\ KillInv => KillsBacked
  <2> SUFFICES ASSUME TypeOK, KillInv, NEW w \in Weapons
               PROVE  kills[w] <= hist.announced[cached[w]] + hist.browser[w]
    BY DEF KillsBacked
  <2>1. kills[w] \in Nat /\ hist.browser[w] \in Nat /\ hist.announced[cached[w]] \in Nat
    BY DEF TypeOK, History
  <2>2. ByRadio(w) <= hist.announced[cached[w]]
    BY DEF KillInv
  <2> QED
    BY <2>1, <2>2 DEF ByRadio
<1> QED
  BY <1>1, <1>2, <1>3, PTL DEF Spec

-----------------------------------------------------------------------------
(* A hit is credited to weapons that went by its id *)

LEMMA CreditStep == TypeOK /\ OneCreditPerHit /\ [Next]_vars => OneCreditPerHit'
<1> SUFFICES ASSUME TypeOK, OneCreditPerHit, [Next]_vars PROVE OneCreditPerHit'
  OBVIOUS
<1>1. /\ rx \in [Weapons -> Seq(HitEvent)] /\ cached \in [Weapons -> DeviceIds]
  BY DEF TypeOK
<1>2. ASSUME rx' = rx, cached' = cached PROVE OneCreditPerHit'
  BY <1>2 DEF OneCreditPerHit
<1>3. ASSUME NEW w \in Weapons, Receive(w) PROVE OneCreditPerHit'
  <2>1. /\ rx[w] # <<>> /\ rx' = [rx EXCEPT ![w] = Tail(@)] /\ cached' = cached
    BY <1>3 DEF Receive
  <2>2. /\ rx'[w] = Tail(rx[w])
        /\ \A i \in 1..Len(rx'[w]) : i + 1 \in 1..Len(rx[w]) /\ rx'[w][i] = rx[w][i + 1]
    BY <1>1, <2>1, TailFacts
  <2>3. \A v \in Weapons : v # w => rx'[v] = rx[v]
    BY <1>1, <2>1
  <2> QED
    BY <2>1, <2>2, <2>3 DEF OneCreditPerHit
<1>4. ASSUME NEW w \in Weapons, NEW d \in DeviceIds, Restart(w, d) PROVE OneCreditPerHit'
  <2>1. /\ rx' = [rx EXCEPT ![w] = <<>>] /\ cached' = [cached EXCEPT ![w] = d]
    BY <1>4 DEF Restart
  <2>2. 1..Len(rx'[w]) = {}
    BY <1>1, <2>1, EmptyFacts
  <2>3. \A v \in Weapons : v # w => rx'[v] = rx[v] /\ cached'[v] = cached[v]
    BY <1>1, <2>1
  <2> QED
    BY <2>2, <2>3 DEF OneCreditPerHit
<1>5. ASSUME Announce PROVE OneCreditPerHit'
  <2> DEFINE device == struck[1].id.device
             event == [device |-> device, nth |-> hist.announced[device] + 1,
                       known |-> {w \in Weapons : cached[w] = device}]
  <2>1. PICK heard \in SUBSET Weapons :
          rx' = [w \in Weapons |->
                   IF w \in heard THEN Offer(rx[w], event, RadioSlots) ELSE rx[w]]
    BY <1>5 DEF Announce
  <2>2. cached' = cached
    BY <1>5 DEF Announce
  <2>3. \A w \in Weapons : event.device = cached[w] => w \in event.known
    OBVIOUS
  <2> HIDE DEF event
  <2>4. ASSUME NEW w \in Weapons, NEW i \in 1..Len(rx'[w])
        PROVE  (i \in 1..Len(rx[w]) /\ rx'[w][i] = rx[w][i]) \/ rx'[w][i] = event
    <3>1. rx'[w] = rx[w] \/ rx'[w] = Append(rx[w], event)
      BY <2>1 DEF Offer
    <3> QED
      BY <1>1, <3>1
  <2> QED
    BY <2>2, <2>3, <2>4 DEF OneCreditPerHit
<1>6. ASSUME NEW w \in Weapons, Fire(w) \/ Transmit(w) \/ KillConfirmed(w)
                                \/ \E i \in Ids : Rename(w, i)
      PROVE  OneCreditPerHit'
  BY <1>2, <1>6 DEF Fire, Transmit, KillConfirmed, Rename
<1>7. ASSUME NEW word, TakeWord(word) PROVE OneCreditPerHit'
  BY <1>2, <1>7 DEF TakeWord, weapon
<1>8. ASSUME NEW word, NEW ignored,
             WordWhileDown(word) \/ WordWaits(word) \/ HitConfirmed(word, ignored)
      PROVE  OneCreditPerHit'
  BY <1>7, <1>8 DEF WordWhileDown, WordWaits, HitConfirmed
<1>9. ASSUME RecordDeath \/ Tick \/ TargetRestart \/ (\E down \in BOOLEAN : Respawn(down))
      PROVE  OneCreditPerHit'
  BY <1>2, <1>9 DEF RecordDeath, Tick, TargetRestart, Respawn, weapon
<1>10. ASSUME UNCHANGED vars PROVE OneCreditPerHit'
  BY <1>2, <1>10 DEF vars
<1> QED
  BY <1>3, <1>4, <1>5, <1>6, <1>8, <1>9, <1>10 DEF Next, Weapon, Target

\* Whatever ids the weapons draw or are given, a hit is credited only to weapons that
\* went by its id when it was announced.
THEOREM CreditedOnce == Spec => []OneCreditPerHit
<1>1. Init => TypeOK /\ OneCreditPerHit
  <2>1. Init => OneCreditPerHit
    BY EmptyFacts DEF Init, OneCreditPerHit
  <2> QED
    BY <2>1, InitType
<1>2. TypeOK /\ OneCreditPerHit /\ [Next]_vars => TypeOK' /\ OneCreditPerHit'
  BY TypeStep, CreditStep
<1> QED
  BY <1>1, <1>2, PTL DEF Spec

-----------------------------------------------------------------------------
(* Two shots per hit *)

\* Two words are one and the same shot.
SameShot(u, v) == u.id.device = v.id.device /\ u.shot = v.shot

\* No shot is in a queue twice, ...
Distinct(q) == \A i, j \in 1..Len(q) : SameShot(q[i], q[j]) => i = j

\* ... or in two of them, ...
Apart(p, q) == \A i \in 1..Len(p), j \in 1..Len(q) : ~SameShot(p[i], q[j])

\* ... and none in a queue has been looked at.
Unseen(q, looked, sent) ==
  \A i \in 1..Len(q) : /\ q[i].shot \in 1..sent[q[i].id.device]
                       /\ q[i].shot \notin looked[q[i].id.device]

\* The word that waits for its confirmation is one shot of its id.
Waiting(d) == IF half # <<>> /\ half[1].id.device = d THEN 1 ELSE 0

InFlight ==
  /\ Distinct(photo) /\ Unseen(photo, hist.looked, hist.sent)
  /\ \A w \in Weapons :
        /\ Distinct(laser[w]) /\ Unseen(laser[w], hist.looked, hist.sent)
        /\ Apart(photo, laser[w])
        /\ \A v \in Weapons : v # w => Apart(laser[v], laser[w])

Counted ==
  \A d \in DeviceIds :
     /\ hist.looked[d] \subseteq 1..hist.sent[d]
     /\ 2 * hist.hits[d] + Waiting(d) <= Cardinality(hist.looked[d])

ShotInv == InFlight /\ Counted

\* Some of the first n shots are finitely many, at most n.
LEMMA SomeShots ==
  ASSUME NEW n \in Nat, NEW S, S \subseteq 1..n
  PROVE  IsFiniteSet(S) /\ Cardinality(S) \in Nat /\ Cardinality(S) <= n
<1>1. n \in Int /\ 1 \in Int
  OBVIOUS
<1>2. IsFiniteSet(1..n) /\ Cardinality(1..n) = IF 1 > n THEN 0 ELSE n - 1 + 1
  BY <1>1, FS_Interval
<1>3. Cardinality(1..n) = n
  BY <1>2
<1>4. IsFiniteSet(S) /\ Cardinality(S) <= n
  BY <1>2, <1>3, FS_Subset
<1> QED
  BY <1>4, FS_CardinalityType

\* An empty queue holds no shot.
LEMMA NoShots ==
  /\ Distinct(<<>>) /\ \A looked, sent : Unseen(<<>>, looked, sent)
  /\ \A q : Apart(<<>>, q) /\ Apart(q, <<>>)
<1>1. 1..Len(<<>>) = {}
  BY EmptyFacts
<1> QED
  BY <1>1 DEF Distinct, Unseen, Apart

\* What is left of a queue when its head is taken.
LEMMA WordTaken ==
  ASSUME NEW q \in Seq(Word), q # <<>>
  PROVE  /\ Head(q) \in Word /\ Tail(q) \in Seq(Word)
         /\ Distinct(q) => /\ Distinct(Tail(q))
                           /\ \A i \in 1..Len(Tail(q)) : ~SameShot(Tail(q)[i], Head(q))
         /\ \A looked, sent : Unseen(q, looked, sent) =>
               /\ Unseen(Tail(q), looked, sent)
               /\ Head(q).shot \in 1..sent[Head(q).id.device]
               /\ Head(q).shot \notin looked[Head(q).id.device]
         /\ \A p : Apart(p, q) => /\ Apart(p, Tail(q))
                                  /\ \A i \in 1..Len(p) : ~SameShot(p[i], Head(q))
         /\ \A p : Apart(q, p) => /\ Apart(Tail(q), p)
                                  /\ \A i \in 1..Len(p) : ~SameShot(p[i], Head(q))
<1> DEFINE t == Tail(q)  h == Head(q)
<1>1. /\ t \in Seq(Word) /\ h = q[1] /\ h \in Word
      /\ Len(q) \in Nat /\ Len(q) >= 1 /\ Len(t) = Len(q) - 1
      /\ \A i \in 1..Len(t) : i + 1 \in 1..Len(q) /\ t[i] = q[i + 1]
  BY TailFacts
<1>2. 1 \in 1..Len(q) /\ \A i \in 1..Len(t) : i \in Nat /\ 1 # i + 1
  BY <1>1
<1> HIDE DEF t, h
<1>3. Distinct(q) => Distinct(t) /\ \A i \in 1..Len(t) : ~SameShot(t[i], h)
  <2> SUFFICES ASSUME Distinct(q)
               PROVE  Distinct(t) /\ \A i \in 1..Len(t) : ~SameShot(t[i], h)
    OBVIOUS
  <2>1. ASSUME NEW i \in 1..Len(t), NEW j \in 1..Len(t), SameShot(t[i], t[j]) PROVE i = j
    <3>1. i + 1 = j + 1
      BY <1>1, <2>1 DEF Distinct
    <3> QED BY <1>1, <3>1
  <2>2. ASSUME NEW i \in 1..Len(t), SameShot(t[i], h) PROVE FALSE
    <3>1. i + 1 = 1
      BY <1>1, <1>2, <2>2 DEF Distinct
    <3> QED BY <1>2, <3>1
  <2> QED BY <2>1, <2>2 DEF Distinct
<1>4. \A looked, sent : Unseen(q, looked, sent) =>
         /\ Unseen(t, looked, sent)
         /\ h.shot \in 1..sent[h.id.device] /\ h.shot \notin looked[h.id.device]
  BY <1>1, <1>2 DEF Unseen
<1>5. \A p : Apart(p, q) => Apart(p, t) /\ \A i \in 1..Len(p) : ~SameShot(p[i], h)
  BY <1>1, <1>2 DEF Apart
<1>6. \A p : Apart(q, p) => Apart(t, p) /\ \A i \in 1..Len(p) : ~SameShot(p[i], h)
  BY <1>1, <1>2 DEF Apart, SameShot
<1> QED
  BY <1>1, <1>3, <1>4, <1>5, <1>6 DEF t, h

\* A shot that is in no queue is offered to one of them.
LEMMA WordOffered ==
  ASSUME NEW q \in Seq(Word), NEW x \in Word, NEW n, NEW r, r = q \/ r = Offer(q, x, n),
         \A i \in 1..Len(q) : ~SameShot(q[i], x)
  PROVE  /\ Distinct(q) => Distinct(r)
         /\ \A looked, sent :
               Unseen(q, looked, sent) /\ x.shot \in 1..sent[x.id.device]
               /\ x.shot \notin looked[x.id.device] => Unseen(r, looked, sent)
         /\ \A p : Apart(p, q) /\ (\A i \in 1..Len(p) : ~SameShot(p[i], x)) =>
                  Apart(p, r) /\ Apart(r, p)
<1>1. \A i \in 1..Len(r) : \/ i \in 1..Len(q) /\ r[i] = q[i]
                           \/ i = Len(q) + 1 /\ r[i] = x
  <2>1. r = q \/ r = Append(q, x)
    BY DEF Offer
  <2> QED
    BY <2>1
<1>2. Distinct(q) => Distinct(r)
  BY <1>1 DEF Distinct, SameShot
<1>3. \A looked, sent :
         Unseen(q, looked, sent) /\ x.shot \in 1..sent[x.id.device]
         /\ x.shot \notin looked[x.id.device] => Unseen(r, looked, sent)
  <2> SUFFICES ASSUME NEW looked, NEW sent, Unseen(q, looked, sent),
                      x.shot \in 1..sent[x.id.device], x.shot \notin looked[x.id.device]
               PROVE  Unseen(r, looked, sent)
    OBVIOUS
  <2> SUFFICES ASSUME NEW i \in 1..Len(r)
               PROVE  /\ r[i].shot \in 1..sent[r[i].id.device]
                      /\ r[i].shot \notin looked[r[i].id.device]
    BY DEF Unseen
  <2>1. CASE i \in 1..Len(q) /\ r[i] = q[i]
    BY <2>1, Zenon DEF Unseen
  <2>2. CASE r[i] = x
    BY <2>2, Zenon
  <2> QED BY <1>1, <2>1, <2>2
<1>4. \A p : Apart(p, q) /\ (\A i \in 1..Len(p) : ~SameShot(p[i], x)) =>
            Apart(p, r) /\ Apart(r, p)
  BY <1>1 DEF Apart, SameShot
<1> QED
  BY <1>2, <1>3, <1>4

LEMMA ShotInit == Init => ShotInv
<1> SUFFICES ASSUME Init PROVE ShotInv
  OBVIOUS
<1>1. photo = <<>> /\ half = <<>> /\ \A w \in Weapons : laser[w] = <<>>
  BY DEF Init
<1>2. InFlight
  BY <1>1, NoShots DEF InFlight
<1>3. \A d \in DeviceIds : hist.looked[d] = {} /\ hist.hits[d] = 0 /\ Waiting(d) = 0
  BY <1>1 DEF Init, Waiting
<1> QED
  BY <1>2, <1>3, FS_EmptySet DEF ShotInv, Counted

\* Looking at the next word leaves the rest in flight and counts a shot of its id.
LEMMA WordLookedAt ==
  ASSUME TypeOK, ShotInv, NEW word, TakeWord(word), NEW n \in {0, 1}, hist' = Looked(word, n)
  PROVE  /\ word \in Word /\ word.id.device \in DeviceIds
         /\ InFlight'
         /\ hist'.sent = hist.sent
         /\ hist'.hits = [hist.hits EXCEPT ![word.id.device] = @ + n]
         /\ hist'.looked[word.id.device] \subseteq 1..hist.sent[word.id.device]
         /\ Cardinality(hist.looked[word.id.device]) \in Nat
         /\ Cardinality(hist'.looked[word.id.device])
              = Cardinality(hist.looked[word.id.device]) + 1
         /\ \A d \in DeviceIds : d # word.id.device => hist'.looked[d] = hist.looked[d]
<1> DEFINE c == word.id.device
<1>1. /\ photo \in Seq(Word) /\ photo # <<>> /\ word = Head(photo) /\ photo' = Tail(photo)
      /\ laser' = laser /\ laser \in [Weapons -> Seq(Word)]
  BY DEF TakeWord, TypeOK, weapon
<1>2. /\ word \in Word /\ c \in DeviceIds /\ word.shot \in Nat
  BY <1>1, WordTaken, LinkAssumption DEF Word
<1>3. /\ hist'.looked = [hist.looked EXCEPT ![c] = @ \cup {word.shot}]
      /\ hist'.hits = [hist.hits EXCEPT ![c] = @ + n] /\ hist'.sent = hist.sent
      /\ hist.looked \in [DeviceIds -> SUBSET Nat] /\ hist.sent \in [DeviceIds -> Nat]
  <2>1. n \in Nat /\ hist \in History
    BY DEF TypeOK
  <2> QED
    BY <1>2, <2>1, LookedAt DEF Looked, History
<1>4. /\ Distinct(photo') /\ Unseen(photo', hist.looked, hist.sent)
      /\ \A i \in 1..Len(photo') : ~SameShot(photo'[i], word)
      /\ word.shot \in 1..hist.sent[c] /\ word.shot \notin hist.looked[c]
      /\ \A w \in Weapons : /\ Apart(photo', laser[w])
                           /\ \A i \in 1..Len(laser[w]) : ~SameShot(laser[w][i], word)
  <2>1. Distinct(photo) /\ Unseen(photo, hist.looked, hist.sent)
        /\ \A w \in Weapons : Apart(photo, laser[w])
    BY DEF ShotInv, InFlight
  <2> QED
    BY <1>1, <2>1, WordTaken
<1>5. ASSUME NEW q \in Seq(Word), Unseen(q, hist.looked, hist.sent),
             \A i \in 1..Len(q) : ~SameShot(q[i], word)
      PROVE  Unseen(q, hist'.looked, hist'.sent)
  <2> SUFFICES ASSUME NEW i \in 1..Len(q)
               PROVE  /\ q[i].shot \in 1..hist'.sent[q[i].id.device]
                      /\ q[i].shot \notin hist'.looked[q[i].id.device]
    BY DEF Unseen
  <2>1. q[i].id.device \in DeviceIds
    <3>1. q[i] \in Word
      BY ItemFacts
    <3> QED
      BY <3>1, LinkAssumption DEF Word
  <2>2. ~(q[i].id.device = c /\ q[i].shot = word.shot)
    BY <1>5 DEF SameShot
  <2>3. hist'.looked[q[i].id.device] =
          IF q[i].id.device = c THEN hist.looked[c] \cup {word.shot}
          ELSE hist.looked[q[i].id.device]
    BY <1>2, <1>3, <2>1
  <2> QED
    BY <1>3, <1>5, <2>2, <2>3 DEF Unseen
<1>6. InFlight'
  <2>1. Unseen(photo', hist'.looked, hist'.sent)
    <3>1. photo' \in Seq(Word)
      BY <1>1, WordTaken
    <3> QED
      BY <1>4, <1>5, <3>1
  <2>2. \A w \in Weapons : Unseen(laser[w], hist'.looked, hist'.sent)
    BY <1>1, <1>4, <1>5 DEF ShotInv, InFlight
  <2> QED
    BY <1>1, <1>4, <2>1, <2>2 DEF ShotInv, InFlight
<1>7. /\ hist.looked[c] \subseteq 1..hist.sent[c] /\ hist.sent[c] \in Nat
  BY <1>2, <1>3 DEF ShotInv, Counted
<1>8. IsFiniteSet(hist.looked[c])
  BY <1>7, SomeShots
<1>9. hist'.looked[c] = hist.looked[c] \cup {word.shot}
  BY <1>2, <1>3
<1>10. /\ Cardinality(hist.looked[c]) \in Nat
       /\ Cardinality(hist'.looked[c]) = Cardinality(hist.looked[c]) + 1
  BY <1>4, <1>8, <1>9, FS_AddElement, FS_CardinalityType
<1>11. hist'.looked[c] \subseteq 1..hist.sent[c]
  BY <1>4, <1>7, <1>9
<1>12. \A d \in DeviceIds : d # c => hist'.looked[d] = hist.looked[d]
  BY <1>3
<1> QED
  BY <1>2, <1>3, <1>6, <1>10, <1>11, <1>12

\* Looking at the next word keeps count: a hit uses up the shot that waited.
LEMMA WordCounted ==
  ASSUME TypeOK, ShotInv, NEW word, TakeWord(word), NEW n \in {0, 1}, hist' = Looked(word, n),
         n = 1 => half # <<>> /\ half[1].id.device = word.id.device,
         half' = <<>> \/ (n = 0 /\ half' = <<word>>)
  PROVE  ShotInv'
<1> DEFINE c == word.id.device
<1>1. /\ c \in DeviceIds /\ InFlight' /\ hist'.sent = hist.sent
      /\ hist'.hits = [hist.hits EXCEPT ![c] = @ + n]
      /\ hist'.looked[c] \subseteq 1..hist.sent[c]
      /\ Cardinality(hist.looked[c]) \in Nat
      /\ Cardinality(hist'.looked[c]) = Cardinality(hist.looked[c]) + 1
      /\ \A d \in DeviceIds : d # c => hist'.looked[d] = hist.looked[d]
  BY WordLookedAt
<1>2. ASSUME NEW d \in DeviceIds
      PROVE  /\ hist'.looked[d] \subseteq 1..hist'.sent[d]
             /\ 2 * hist'.hits[d] + Waiting(d)' <= Cardinality(hist'.looked[d])
  <2>1. /\ hist.looked[d] \subseteq 1..hist.sent[d] /\ hist.sent[d] \in Nat
        /\ 2 * hist.hits[d] + Waiting(d) <= Cardinality(hist.looked[d])
    BY DEF ShotInv, Counted, TypeOK, History
  <2>2. hist.hits \in [DeviceIds -> Nat] /\ hist.hits[d] \in Nat
    BY DEF TypeOK, History
  <2>3. Waiting(d) \in {0, 1} /\ Waiting(d)' \in {0, 1}
    BY DEF Waiting
  <2>4. CASE d = c
    <3>1. hist'.hits[d] = hist.hits[d] + n
      BY <1>1, <2>2, <2>4
    <3>2. CASE n = 0
      BY <1>1, <2>1, <2>2, <2>3, <2>4, <3>1, <3>2
    <3>3. CASE n = 1
      <4>1. Waiting(d) = 1 /\ Waiting(d)' = 0
        BY <2>4, <3>3 DEF Waiting
      <4> QED
        BY <1>1, <2>1, <2>2, <2>4, <3>1, <3>3, <4>1
    <3> QED
      BY <3>2, <3>3
  <2>5. CASE d # c
    <3>1. hist'.hits[d] = hist.hits[d] /\ hist'.looked[d] = hist.looked[d]
      BY <1>1, <2>2, <2>5
    <3>2. half' = <<>> \/ half'[1] = word
      OBVIOUS
    <3>3. Waiting(d)' = 0
      BY <2>5, <3>2 DEF Waiting
    <3>4. Cardinality(hist.looked[d]) \in Nat
      BY <2>1, SomeShots
    <3> QED
      BY <1>1, <2>1, <2>2, <2>3, <3>1, <3>3, <3>4
  <2> QED
    BY <2>4, <2>5
<1> QED
  BY <1>1, <1>2 DEF ShotInv, Counted

LEMMA ShotStep == TypeOK /\ ShotInv /\ [Next]_vars => ShotInv'
<1> SUFFICES ASSUME TypeOK, ShotInv, [Next]_vars PROVE ShotInv'
  OBVIOUS
<1>1. /\ laser \in [Weapons -> Seq(Word)] /\ photo \in Seq(Word) /\ hist \in History
      /\ hist.sent \in [DeviceIds -> Nat] /\ hist.hits \in [DeviceIds -> Nat]
      /\ hist.looked \in [DeviceIds -> SUBSET Nat]
  BY DEF TypeOK, History
<1>2. InFlight /\ Counted
  BY DEF ShotInv
\* Steps that leave the words and their counts alone.
<1>3. ASSUME half' = half, hist'.sent = hist.sent, hist'.hits = hist.hits,
             hist'.looked = hist.looked
      PROVE  Counted'
  BY <1>2, <1>3 DEF Counted, Waiting
<1>4. ASSUME photo' = photo, laser' = laser, half' = half, hist'.sent = hist.sent,
             hist'.hits = hist.hits, hist'.looked = hist.looked
      PROVE  ShotInv'
  BY <1>2, <1>3, <1>4 DEF ShotInv, InFlight
<1>5. ASSUME NEW w \in Weapons, Fire(w) PROVE ShotInv'
  <2> DEFINE d == id[w].device
             word == [id |-> id[w], shot |-> hist.sent[d] + 1]
  <2>1. id[w] \in Ids /\ d \in DeviceIds /\ hist.sent[d] \in Nat
    BY <1>1, LinkAssumption DEF TypeOK
  <2>2. word \in Word /\ word.id.device = d /\ word.shot = hist.sent[d] + 1
    BY <2>1 DEF Word
  <2>3. /\ hist'.sent = [hist.sent EXCEPT ![d] = @ + 1]
        /\ hist'.looked = hist.looked /\ hist'.hits = hist.hits
    BY <1>1, <1>5, <2>1, Fired DEF Fire
  <2>4. /\ laser' = [laser EXCEPT ![w] = Offer(laser[w], word, LaserSlots)]
        /\ photo' = photo /\ half' = half
    BY <1>5, Zenon DEF Fire, target
  <2> HIDE DEF word
  \* The new word is none of those in flight, which stay unseen.
  <2>5. ASSUME NEW q \in Seq(Word), Unseen(q, hist.looked, hist.sent)
        PROVE  /\ Unseen(q, hist'.looked, hist'.sent)
               /\ \A i \in 1..Len(q) : ~SameShot(q[i], word)
    <3>1. ASSUME NEW i \in 1..Len(q)
          PROVE  /\ q[i].shot \in 1..hist'.sent[q[i].id.device]
                 /\ q[i].shot \notin hist'.looked[q[i].id.device]
                 /\ ~SameShot(q[i], word)
      <4>1. q[i].id.device \in DeviceIds
        <5>1. q[i] \in Word
          BY ItemFacts
        <5> QED
          BY <5>1, LinkAssumption DEF Word
      <4>2. /\ q[i].shot \in 1..hist.sent[q[i].id.device]
            /\ q[i].shot \notin hist.looked[q[i].id.device]
        BY <2>5 DEF Unseen
      <4>3. /\ hist'.sent[q[i].id.device] \in Nat /\ hist.sent[q[i].id.device] \in Nat
            /\ hist.sent[q[i].id.device] <= hist'.sent[q[i].id.device]
        BY <1>1, <2>1, <2>3, <4>1
      <4>4. ~SameShot(q[i], word)
        BY <2>1, <2>2, <4>2, <4>3 DEF SameShot
      <4> QED
        BY <2>3, <4>2, <4>3, <4>4
    <3> QED
      BY <3>1 DEF Unseen
  <2>6. /\ word.shot \in 1..hist'.sent[word.id.device]
        /\ word.shot \notin hist'.looked[word.id.device]
    <3>1. hist'.sent[d] = hist.sent[d] + 1
      BY <1>1, <2>1, <2>3
    <3>2. hist.looked[d] \subseteq 1..hist.sent[d]
      BY <1>2, <2>1 DEF Counted
    <3>3. hist.sent[d] + 1 \notin 1..hist.sent[d] /\ hist.sent[d] + 1 \in 1..(hist.sent[d] + 1)
      BY <2>1
    <3> QED
      BY <2>2, <2>3, <3>1, <3>2, <3>3
  <2>7. /\ laser'[w] = Offer(laser[w], word, LaserSlots)
        /\ \A v \in Weapons : v # w => laser'[v] = laser[v]
    BY <1>1, <2>4
  <2>8. /\ Unseen(photo', hist'.looked, hist'.sent)
        /\ \A i \in 1..Len(photo') : ~SameShot(photo'[i], word)
        /\ \A v \in Weapons : /\ Unseen(laser[v], hist'.looked, hist'.sent)
                             /\ \A i \in 1..Len(laser[v]) : ~SameShot(laser[v][i], word)
    BY <1>1, <1>2, <2>4, <2>5 DEF InFlight
  <2>9. /\ Distinct(laser'[w]) /\ Unseen(laser'[w], hist'.looked, hist'.sent)
        /\ Apart(photo', laser'[w])
        /\ \A v \in Weapons : v # w => Apart(laser[v], laser'[w]) /\ Apart(laser'[w], laser[v])
    <3>1. Distinct(laser[w]) /\ Apart(photo', laser[w])
          /\ \A v \in Weapons : v # w => Apart(laser[v], laser[w])
      BY <1>2, <2>4 DEF InFlight
    <3>2. laser[w] \in Seq(Word)
      BY <1>1
    <3> QED
      BY <2>2, <2>6, <2>7, <2>8, <3>1, <3>2, WordOffered
  <2>10. InFlight'
    BY <1>2, <2>4, <2>7, <2>8, <2>9 DEF InFlight
  <2>11. Counted'
    <3> SUFFICES ASSUME NEW e \in DeviceIds
                 PROVE  /\ hist'.looked[e] \subseteq 1..hist'.sent[e]
                        /\ 2 * hist'.hits[e] + Waiting(e)' <= Cardinality(hist'.looked[e])
      BY DEF Counted
    <3>1. hist'.sent[e] \in Nat /\ hist.sent[e] \in Nat /\ hist.sent[e] <= hist'.sent[e]
      BY <1>1, <2>1, <2>3
    <3>2. hist.looked[e] \subseteq 1..hist.sent[e]
          /\ 2 * hist.hits[e] + Waiting(e) <= Cardinality(hist.looked[e])
      BY <1>2 DEF Counted
    <3>3. Waiting(e)' = Waiting(e)
      BY <2>4 DEF Waiting
    <3> QED
      BY <2>3, <3>1, <3>2, <3>3
  <2> QED
    BY <2>10, <2>11 DEF ShotInv
<1>6. ASSUME NEW w \in Weapons, Transmit(w) PROVE ShotInv'
  <2> DEFINE x == Head(laser[w])
  <2>1. /\ laser[w] # <<>> /\ laser' = [laser EXCEPT ![w] = Tail(laser[w])]
        /\ photo' = photo \/ photo' = Offer(photo, x, PhotoSlots)
        /\ half' = half /\ hist' = hist
    BY <1>6, Zenon DEF Transmit
  <2>2. /\ laser'[w] = Tail(laser[w]) /\ laser[w] \in Seq(Word)
        /\ \A v \in Weapons : v # w => laser'[v] = laser[v]
    BY <1>1, <2>1
  <2>3. /\ x \in Word
        /\ Distinct(laser'[w]) /\ \A i \in 1..Len(laser'[w]) : ~SameShot(laser'[w][i], x)
        /\ Unseen(laser'[w], hist.looked, hist.sent)
        /\ x.shot \in 1..hist.sent[x.id.device] /\ x.shot \notin hist.looked[x.id.device]
        /\ Apart(photo, laser'[w]) /\ \A i \in 1..Len(photo) : ~SameShot(photo[i], x)
        /\ \A v \in Weapons : v # w =>
              /\ Apart(laser[v], laser'[w]) /\ Apart(laser'[w], laser[v])
              /\ \A i \in 1..Len(laser[v]) : ~SameShot(laser[v][i], x)
    <3>1. /\ Distinct(laser[w]) /\ Unseen(laser[w], hist.looked, hist.sent)
          /\ Apart(photo, laser[w])
          /\ \A v \in Weapons : v # w => Apart(laser[v], laser[w]) /\ Apart(laser[w], laser[v])
      BY <1>2 DEF InFlight
    <3>2. /\ Head(laser[w]) \in Word
          /\ Distinct(Tail(laser[w]))
          /\ \A i \in 1..Len(Tail(laser[w])) : ~SameShot(Tail(laser[w])[i], Head(laser[w]))
          /\ Unseen(Tail(laser[w]), hist.looked, hist.sent)
          /\ Head(laser[w]).shot \in 1..hist.sent[Head(laser[w]).id.device]
          /\ Head(laser[w]).shot \notin hist.looked[Head(laser[w]).id.device]
          /\ Apart(photo, Tail(laser[w]))
          /\ \A i \in 1..Len(photo) : ~SameShot(photo[i], Head(laser[w]))
      BY <2>1, <2>2, <3>1, WordTaken
    <3>3. ASSUME NEW v \in Weapons, v # w
          PROVE  /\ Apart(laser[v], Tail(laser[w])) /\ Apart(Tail(laser[w]), laser[v])
                 /\ \A i \in 1..Len(laser[v]) : ~SameShot(laser[v][i], Head(laser[w]))
      <4>1. Apart(laser[v], laser[w]) /\ Apart(laser[w], laser[v])
        BY <3>1, <3>3
      <4> QED
        BY <2>1, <2>2, <4>1, WordTaken
    <3> QED
      BY <2>2, <3>2, <3>3
  <2> HIDE DEF x
  <2>4. /\ Distinct(photo') /\ Unseen(photo', hist.looked, hist.sent)
        /\ Apart(photo', laser'[w])
        /\ \A v \in Weapons : v # w => Apart(photo', laser[v])
    <3>1. /\ Distinct(photo) /\ Unseen(photo, hist.looked, hist.sent)
          /\ \A v \in Weapons : Apart(photo, laser[v]) /\ Apart(laser[v], photo)
      BY <1>2 DEF InFlight, Apart, SameShot
    <3>2. Apart(laser'[w], photo)
      BY <2>3 DEF Apart, SameShot
    <3> QED
      BY <1>1, <2>1, <2>3, <3>1, <3>2, WordOffered
  <2>5. InFlight'
    BY <1>2, <2>1, <2>2, <2>3, <2>4 DEF InFlight
  <2> QED
    BY <1>3, <2>1, <2>5 DEF ShotInv
<1>7. ASSUME NEW w \in Weapons, NEW i \in DeviceIds, Restart(w, i) PROVE ShotInv'
  <2>1. /\ laser' = [laser EXCEPT ![w] = <<>>] /\ photo' = photo /\ half' = half
        /\ hist'.sent = hist.sent /\ hist'.hits = hist.hits /\ hist'.looked = hist.looked
    BY <1>1, <1>7, Restarted DEF Restart, target
  <2>2. laser'[w] = <<>> /\ \A v \in Weapons : v # w => laser'[v] = laser[v]
    BY <1>1, <2>1
  <2>3. InFlight'
    BY <1>2, <2>1, <2>2, NoShots DEF InFlight
  <2> QED
    BY <1>3, <2>1, <2>3 DEF ShotInv
<1>8. ASSUME NEW w \in Weapons, Receive(w) \/ KillConfirmed(w) \/ \E i \in Ids : Rename(w, i)
      PROVE  ShotInv'
  <2>1. hist'.sent = hist.sent /\ hist'.hits = hist.hits /\ hist'.looked = hist.looked
    <3>1. CASE hist' = hist
      BY <3>1
    <3>2. CASE KillConfirmed(w)
      BY <1>1, <3>2, Confirmed DEF KillConfirmed
    <3> QED
      BY <1>8, <3>1, <3>2 DEF Receive, Rename
  <2> QED
    BY <1>4, <1>8, <2>1 DEF Receive, KillConfirmed, Rename, target
<1>9. ASSUME NEW word, WordWhileDown(word) PROVE ShotInv'
  BY <1>9, WordCounted DEF WordWhileDown
<1>10. ASSUME NEW word, WordWaits(word) PROVE ShotInv'
  BY <1>10, WordCounted DEF WordWaits
<1>11. ASSUME NEW word, NEW ignored, HitConfirmed(word, ignored) PROVE ShotInv'
  <2>1. TakeWord(word) /\ half' = <<>> /\ half # <<>> /\ SameBits(word, half[1])
    BY <1>11 DEF HitConfirmed, Confirms
  <2>2. half[1].id.device = word.id.device
    BY <2>1 DEF SameBits
  <2>3. PICK n \in {0, 1} : hist' = Looked(word, n)
    BY <1>11 DEF HitConfirmed
  <2> QED
    BY <2>1, <2>2, <2>3, WordCounted
<1>12. ASSUME Announce PROVE ShotInv'
  <2>1. struck[1].id.device \in DeviceIds
    <3>1. Len(struck) = 1 /\ struck \in Seq(Word) /\ 1 \in 1..1
      BY <1>12 DEF Announce, TypeOK
    <3>2. struck[1] \in Word
      BY <3>1, ItemFacts, Zenon
    <3> QED
      BY <3>2, LinkAssumption DEF Word
  <2>2. hist'.sent = hist.sent /\ hist'.hits = hist.hits /\ hist'.looked = hist.looked
    BY <1>1, <1>12, <2>1, Announced DEF Announce
  <2> QED
    BY <1>4, <1>12, <2>2 DEF Announce
<1>13. ASSUME RecordDeath \/ Tick \/ (\E down \in BOOLEAN : Respawn(down)) PROVE ShotInv'
  BY <1>4, <1>13 DEF RecordDeath, Tick, Respawn, weapon
<1>14. ASSUME TargetRestart PROVE ShotInv'
  <2>1. photo' = <<>> /\ half' = <<>> /\ laser' = laser /\ hist' = hist
    BY <1>14 DEF TargetRestart, weapon
  <2>2. InFlight'
    BY <1>2, <2>1, NoShots DEF InFlight
  <2>3. ASSUME NEW d \in DeviceIds
        PROVE  /\ hist'.looked[d] \subseteq 1..hist'.sent[d]
               /\ 2 * hist'.hits[d] + Waiting(d)' <= Cardinality(hist'.looked[d])
    <3>1. /\ hist.looked[d] \subseteq 1..hist.sent[d] /\ hist.sent[d] \in Nat
          /\ 2 * hist.hits[d] + Waiting(d) <= Cardinality(hist.looked[d])
          /\ hist.hits[d] \in Nat
      BY <1>1, <1>2 DEF Counted
    <3>2. Waiting(d) \in {0, 1} /\ Waiting(d)' = 0
      BY <2>1 DEF Waiting
    <3>3. Cardinality(hist.looked[d]) \in Nat
      BY <3>1, SomeShots
    <3> QED
      BY <2>1, <3>1, <3>2, <3>3
  <2> QED
    BY <2>2, <2>3 DEF ShotInv, Counted
<1>15. ASSUME UNCHANGED vars PROVE ShotInv'
  BY <1>4, <1>15 DEF vars
<1> QED
  BY <1>5, <1>6, <1>7, <1>8, <1>9, <1>10, <1>11, <1>12, <1>13, <1>14, <1>15
  DEF Next, Weapon, Target

\* The hits of an id are at most half of its shots.
LEMMA CountedShots ==
  ASSUME TypeOK, ShotInv, NEW d \in DeviceIds
  PROVE  2 * hist.hits[d] <= hist.sent[d]
<1>1. /\ hist.looked[d] \subseteq 1..hist.sent[d] /\ hist.sent[d] \in Nat
      /\ hist.hits[d] \in Nat
      /\ 2 * hist.hits[d] + Waiting(d) <= Cardinality(hist.looked[d])
  BY DEF ShotInv, Counted, TypeOK, History
<1>2. /\ Cardinality(hist.looked[d]) \in Nat
      /\ Cardinality(hist.looked[d]) <= hist.sent[d]
  BY <1>1, SomeShots
<1>3. Waiting(d) \in {0, 1}
  BY DEF Waiting
<1> QED
  BY <1>1, <1>2, <1>3

\* Two shots per hit of an id, however many weapons fire under it and whatever is lost,
\* interrupted or restarted.
THEOREM TwoShots == Spec => []TwoShotsPerHit
<1>1. Init => TypeOK /\ ShotInv
  BY InitType, ShotInit
<1>2. TypeOK /\ ShotInv /\ [Next]_vars => TypeOK' /\ ShotInv'
  BY TypeStep, ShotStep
<1>3. TypeOK /\ ShotInv => TwoShotsPerHit
  BY CountedShots DEF TwoShotsPerHit
<1> QED
  BY <1>1, <1>2, <1>3, PTL DEF Spec

-----------------------------------------------------------------------------
(* From the trigger to the kill counter *)

\* A confirmed hit is announced at most once.
Owed(d) == IF proc # "idle" /\ struck[1].id.device = d THEN 1 ELSE 0

OwnInv == \A d \in DeviceIds : hist.announced[d] + Owed(d) <= hist.hits[d]

LEMMA OwnInit == Init => OwnInv
BY DEF Init, OwnInv, Owed

LEMMA OwnStep == TypeOK /\ OwnInv /\ [Next]_vars => OwnInv'
<1> SUFFICES ASSUME TypeOK, OwnInv, [Next]_vars PROVE OwnInv'
  OBVIOUS
<1>1. /\ hist \in History
      /\ hist.announced \in [DeviceIds -> Nat] /\ hist.hits \in [DeviceIds -> Nat]
  BY DEF TypeOK, History
<1>2. ASSUME proc' = proc, struck' = struck, hist'.hits = hist.hits,
             hist'.announced = hist.announced
      PROVE  OwnInv'
  BY <1>2 DEF OwnInv, Owed
<1>3. ASSUME NEW w \in Weapons, Fire(w) PROVE OwnInv'
  <2>1. id[w].device \in DeviceIds
    BY LinkAssumption DEF TypeOK
  <2>2. hist'.hits = hist.hits /\ hist'.announced = hist.announced
    BY <1>1, <1>3, <2>1, Fired DEF Fire
  <2> QED
    BY <1>2, <1>3, <2>2 DEF Fire, target
<1>4. ASSUME NEW w \in Weapons, Transmit(w) \/ Receive(w) \/ \E i \in Ids : Rename(w, i)
      PROVE  OwnInv'
  BY <1>2, <1>4 DEF Transmit, Receive, Rename, target
<1>5. ASSUME NEW w \in Weapons, KillConfirmed(w) \/ \E d \in DeviceIds : Restart(w, d)
      PROVE  OwnInv'
  <2>1. hist'.hits = hist.hits /\ hist'.announced = hist.announced
    <3>1. CASE KillConfirmed(w)
      BY <1>1, <3>1, Confirmed DEF KillConfirmed
    <3>2. CASE \E d \in DeviceIds : Restart(w, d)
      BY <1>1, <3>2, Restarted DEF Restart
    <3> QED
      BY <1>5, <3>1, <3>2
  <2> QED
    BY <1>2, <1>5, <2>1 DEF KillConfirmed, Restart, target
<1>6. ASSUME NEW word, TakeWord(word), NEW n \in {0, 1}, hist' = Looked(word, n)
      PROVE  /\ word.id.device \in DeviceIds /\ hist'.announced = hist.announced
             /\ hist'.hits = [hist.hits EXCEPT ![word.id.device] = @ + n]
  <2>1. word \in Word
    BY <1>6, TailFacts DEF TakeWord, TypeOK
  <2>2. word.id.device \in DeviceIds /\ word.shot \in Nat /\ n \in Nat
    BY <2>1, LinkAssumption DEF Word
  <2> QED
    BY <1>1, <1>6, <2>2 DEF Looked, History
<1>7. ASSUME NEW word, TakeWord(word), hist' = Looked(word, 0), proc' = proc, struck' = struck
      PROVE  OwnInv'
  <2>1. /\ word.id.device \in DeviceIds /\ hist'.announced = hist.announced
        /\ hist'.hits = [hist.hits EXCEPT ![word.id.device] = @ + 0]
    BY <1>6, <1>7
  <2>2. \A d \in DeviceIds : hist'.hits[d] = hist.hits[d]
    BY <1>1, <2>1
  <2> QED
    BY <1>7, <2>1, <2>2 DEF OwnInv, Owed
<1>8. ASSUME NEW word, TakeWord(word), hist' = Looked(word, 1), proc' = "hit",
             struck' = <<word>>
      PROVE  OwnInv'
  <2>1. /\ word.id.device \in DeviceIds /\ hist'.announced = hist.announced
        /\ hist'.hits = [hist.hits EXCEPT ![word.id.device] = @ + 1]
    BY <1>6, <1>8
  <2> SUFFICES ASSUME NEW d \in DeviceIds
               PROVE  hist'.announced[d] + Owed(d)' <= hist'.hits[d]
    BY DEF OwnInv
  <2>2. Owed(d) = 0 /\ hist.announced[d] <= hist.hits[d]
    <3>1. Owed(d) = 0
      BY <1>8 DEF TakeWord, Owed
    <3> QED
      BY <1>1, <3>1 DEF OwnInv
  <2>3. Owed(d)' = IF word.id.device = d THEN 1 ELSE 0
    BY <1>8 DEF Owed
  <2>4. hist.announced[d] \in Nat /\ hist.hits[d] \in Nat
    BY <1>1
  <2>5. CASE word.id.device = d
    BY <1>1, <2>1, <2>2, <2>3, <2>4, <2>5
  <2>6. CASE word.id.device # d
    BY <1>1, <2>1, <2>2, <2>3, <2>4, <2>6
  <2> QED
    BY <2>5, <2>6
<1>9. ASSUME NEW word, WordWhileDown(word) \/ WordWaits(word) PROVE OwnInv'
  BY <1>7, <1>9 DEF WordWhileDown, WordWaits
<1>10. ASSUME NEW word, NEW ignored, HitConfirmed(word, ignored) PROVE OwnInv'
  BY <1>7, <1>8, <1>10 DEF HitConfirmed
<1>11. ASSUME RecordDeath PROVE OwnInv'
  BY <1>11 DEF RecordDeath, OwnInv, Owed
<1>12. ASSUME Announce PROVE OwnInv'
  <2> DEFINE c == struck[1].id.device
  <2>1. c \in DeviceIds
    <3>1. Len(struck) = 1 /\ struck \in Seq(Word) /\ 1 \in 1..1
      BY <1>12 DEF Announce, TypeOK
    <3>2. struck[1] \in Word
      BY <3>1, ItemFacts, Zenon
    <3> QED
      BY <3>2, LinkAssumption DEF Word
  <2>2. hist'.announced = [hist.announced EXCEPT ![c] = @ + 1] /\ hist'.hits = hist.hits
    BY <1>1, <1>12, <2>1, Announced DEF Announce
  <2> SUFFICES ASSUME NEW d \in DeviceIds
               PROVE  hist'.announced[d] + Owed(d)' <= hist'.hits[d]
    BY DEF OwnInv
  <2>3. Owed(d) = (IF c = d THEN 1 ELSE 0) /\ Owed(d)' = 0
    BY <1>12 DEF Announce, Owed
  <2>4. hist.announced[d] + Owed(d) <= hist.hits[d] /\ hist.announced[d] \in Nat
    BY <1>1 DEF OwnInv
  <2>5. hist'.announced[d] = hist.announced[d] + Owed(d)
    BY <1>1, <2>1, <2>2, <2>3
  <2> QED
    BY <2>2, <2>3, <2>4, <2>5
<1>13. ASSUME \E down \in BOOLEAN : Respawn(down) PROVE OwnInv'
  BY <1>2, <1>13 DEF Respawn
<1>14. ASSUME Tick PROVE OwnInv'
  BY <1>2, <1>14 DEF Tick
<1>15. ASSUME TargetRestart PROVE OwnInv'
  <2>1. hist' = hist /\ proc' = "idle"
    BY <1>15 DEF TargetRestart
  <2>2. ASSUME NEW d \in DeviceIds PROVE hist.announced[d] <= hist.hits[d]
    <3>1. Owed(d) \in {0, 1} /\ hist.announced[d] \in Nat /\ hist.hits[d] \in Nat
      BY <1>1 DEF Owed
    <3>2. hist.announced[d] + Owed(d) <= hist.hits[d]
      BY DEF OwnInv
    <3> QED
      BY <3>1, <3>2
  <2>3. \A d \in DeviceIds : Owed(d)' = 0
    BY <2>1 DEF Owed
  <2> QED
    BY <1>1, <2>1, <2>2, <2>3 DEF OwnInv
<1>16. ASSUME UNCHANGED vars PROVE OwnInv'
  BY <1>2, <1>16 DEF vars
<1> QED
  BY <1>3, <1>4, <1>5, <1>9, <1>10, <1>11, <1>12, <1>13, <1>14, <1>15, <1>16
  DEF Next, Weapon, Target

\* Every kill that came by radio was paid for with two shots of the id its weapon's
\* espnow_task goes by, whoever restarts, whatever ids are drawn, given or shared.
THEOREM ShotsPaid == Spec => []KillsCostShots
<1> DEFINE Inv == TypeOK /\ KillInv /\ ShotInv /\ OwnInv
<1>1. Init => Inv
  BY InitType, KillInit, ShotInit, OwnInit
<1>2. Inv /\ [Next]_vars => Inv'
  BY TypeStep, KillStep, ShotStep, OwnStep
<1>3. Inv => KillsCostShots
  <2> SUFFICES ASSUME TypeOK, KillInv, ShotInv, OwnInv, NEW w \in Weapons
               PROVE  2 * (kills[w] - hist.browser[w]) <= hist.sent[cached[w]]
    BY DEF KillsCostShots
  <2> DEFINE d == cached[w]
  <2>1. /\ d \in DeviceIds /\ kills[w] \in Nat /\ hist.browser[w] \in Nat
        /\ hist.announced[d] \in Nat /\ hist.hits[d] \in Nat /\ hist.sent[d] \in Nat
    BY DEF TypeOK, History
  <2>2. kills[w] - hist.browser[w] <= hist.announced[d]
    BY DEF KillInv, ByRadio
  <2>3. hist.announced[d] <= hist.hits[d]
    <3>1. hist.announced[d] + Owed(d) <= hist.hits[d]
      BY <2>1 DEF OwnInv
    <3>2. Owed(d) \in {0, 1}
      BY DEF Owed
    <3> QED
      BY <2>1, <3>1, <3>2
  <2>4. 2 * hist.hits[d] <= hist.sent[d]
    BY <2>1, CountedShots
  <2> HIDE DEF d
  <2> QED
    BY <2>1, <2>2, <2>3, <2>4 DEF d
<1> QED
  BY <1>1, <1>2, <1>3, PTL DEF Spec
=============================================================================

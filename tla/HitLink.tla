------------------------------ MODULE HitLink ------------------------------
(***************************************************************************)
(* A hit on its way from the trigger of a weapon to its kill counter: the  *)
(* weapon's control_task and laser_task, the light, the target's           *)
(* photodiode_task and processing_task, the ESP-NOW broadcast, and the     *)
(* weapon's espnow_task.                                                   *)
(*                                                                         *)
(* A laser word carries a player and a device id, those of its weapon's    *)
(* configuration.  They are unique only as far as the operator sees to it: *)
(* CONFIG_UPDATE sets them to anything, and every start of a weapon draws  *)
(* new ones, since its main asks NVS before anything has initialised it.   *)
(* espnow_task goes by the device id it copied when the weapon started.    *)
(* The number a word carries (shot), the number of a HIT_EVENT (nth) and   *)
(* the weapons that went by its id when it was announced (known) are not   *)
(* in the code: they are history, read by the properties only.             *)
(*                                                                         *)
(* Light and radio lose anything: a word misses the sensor, meets another  *)
(* beam, or finds the queue full of windows that show no word; a HIT_EVENT *)
(* is sent while the send mutex is busy or finds a receive queue full of   *)
(* SHOT messages.  Neither duplicates: a word is aligned with the 32-bit   *)
(* window of the photodiode once, and a broadcast is not repeated.         *)
(***************************************************************************)
EXTENDS Integers, Sequences

CONSTANTS
  Weapons,      \* the weapons
  Players,      \* player ids
  DeviceIds,    \* device ids
  Ids,          \* the pairs of a player and a device id that a weapon can have
  PlayerOf,     \* the player id that goes with a device id drawn at random
  LaserSlots,   \* length of laserMessageQueue (5)
  PhotoSlots,   \* length of photodiodeMessageQueue (10)
  RadioSlots,   \* length of s_rx_queue (16)
  Window,       \* HIT_CONFIRM_WINDOW_MS, in ticks
  MaxShots,     \* bound: no further shots are fired under a device id
  MaxConfirms   \* bound: no further KILL_CONFIRMED to a weapon

ASSUME LinkAssumption ==
  /\ Ids \subseteq [player : Players, device : DeviceIds]
  /\ \A d \in DeviceIds : [player |-> PlayerOf[d], device |-> d] \in Ids
  /\ Window \in Nat \ {0}
  /\ LaserSlots \in Nat /\ PhotoSlots \in Nat /\ RadioSlots \in Nat
  /\ MaxShots \in [DeviceIds -> Nat] /\ MaxConfirms \in Nat

VARIABLES
  id,          \* player_id and device_id in the configuration of each weapon
  cached,      \* self_device_id of each weapon's espnow_task
  laser,       \* laserMessageQueue of each weapon
  rx,          \* s_rx_queue of each weapon
  kills,       \* kills of each weapon
  photo,       \* photodiodeMessageQueue
  half,        \* the word received once (last_valid_msg with a count of 1)
  age,         \* time since last_valid_time
  proc,        \* where processing_task is with a confirmed hit
  struck,      \* the confirmed word
  respawning,  \* the target's player is respawning
  hist         \* history, read by properties only

vars == <<id, cached, laser, rx, kills, photo, half, age, proc, struck, respawning, hist>>

weapon == <<id, cached, laser, rx, kills>>
target == <<photo, half, age, proc, struck, respawning>>

-----------------------------------------------------------------------------
(* Types *)

Word == [id : Ids, shot : Nat]

HitEvent == [device : DeviceIds, nth : Nat, known : SUBSET Weapons]

\* Per device id: shots fired, the numbers of the words looked at, hits confirmed and
\* hits announced; per weapon, KILL_CONFIRMED messages since it started.
History ==
  [sent : [DeviceIds -> Nat], looked : [DeviceIds -> SUBSET Nat],
   hits : [DeviceIds -> Nat], announced : [DeviceIds -> Nat],
   browser : [Weapons -> Nat]]

\* The ids of a weapon that has just started.
Drawn(d) == [player |-> PlayerOf[d], device |-> d]

Init ==
  /\ \E f \in [Weapons -> DeviceIds] :
        /\ id = [w \in Weapons |-> Drawn(f[w])]
        /\ cached = f
  /\ laser = [w \in Weapons |-> <<>>]
  /\ rx = [w \in Weapons |-> <<>>]
  /\ kills = [w \in Weapons |-> 0]
  /\ photo = <<>>
  /\ half = <<>>
  /\ age = 0
  /\ proc = "idle"
  /\ struck = <<>>
  /\ respawning = FALSE
  /\ hist = [sent |-> [d \in DeviceIds |-> 0], looked |-> [d \in DeviceIds |-> {}],
             hits |-> [d \in DeviceIds |-> 0], announced |-> [d \in DeviceIds |-> 0],
             browser |-> [w \in Weapons |-> 0]]

\* Seeded fault: the sender does not look whether there is room.
OfferAnyway(q, x, slots) == Append(q, x)

\* xQueueSend with no timeout: the item is lost when the queue is full.
Offer(q, x, slots) == IF Len(q) < slots THEN Append(q, x) ELSE q

-----------------------------------------------------------------------------
(* The weapon *)

\* control_task sees a press of the trigger: one shot is counted and one word goes
\* to laser_task.
Fire(w) ==
  LET d == id[w].device  word == [id |-> id[w], shot |-> hist.sent[d] + 1] IN
  /\ hist.sent[d] < MaxShots[d]
  /\ laser' = [laser EXCEPT ![w] = Offer(@, word, LaserSlots)]
  /\ hist' = [hist EXCEPT !.sent[d] = @ + 1]
  /\ UNCHANGED <<id, cached, rx, kills, target>>

\* laser_task sends the next word; photodiode_task hears it, or does not.
Transmit(w) ==
  /\ laser[w] # <<>>
  /\ laser' = [laser EXCEPT ![w] = Tail(@)]
  /\ photo' \in {photo, Offer(photo, Head(laser[w]), PhotoSlots)}
  /\ UNCHANGED <<id, cached, rx, kills, half, age, proc, struck, respawning, hist>>

\* Seeded fault: espnow_task learns of a new device id at once, hits already received
\* or not.
RenameAtOnce(w, i) ==
  /\ id' = [id EXCEPT ![w] = i]
  /\ cached' = [cached EXCEPT ![w] = i.device]
  /\ UNCHANGED <<laser, rx, kills, target, hist>>

\* CONFIG_UPDATE gives the weapon other ids, whoever has them already.
Rename(w, i) ==
  /\ id' = [id EXCEPT ![w] = i]
  /\ UNCHANGED <<cached, laser, rx, kills, target, hist>>

\* The weapon restarts: queues and counters are empty, the saved ids are not found,
\* so that a device id is drawn, and espnow_task copies it.
Restart(w, d) ==
  /\ id' = [id EXCEPT ![w] = Drawn(d)]
  /\ cached' = [cached EXCEPT ![w] = d]
  /\ laser' = [laser EXCEPT ![w] = <<>>]
  /\ rx' = [rx EXCEPT ![w] = <<>>]
  /\ kills' = [kills EXCEPT ![w] = 0]
  /\ hist' = [hist EXCEPT !.browser[w] = 0]
  /\ UNCHANGED target

\* Seeded fault: espnow_task compares with the configuration instead of its copy.
ReceiveByConfig(w) ==
  /\ rx[w] # <<>>
  /\ rx' = [rx EXCEPT ![w] = Tail(@)]
  /\ kills' = [kills EXCEPT ![w] = IF Head(rx[w]).device = id[w].device THEN @ + 1 ELSE @]
  /\ UNCHANGED <<id, cached, laser, target, hist>>

\* espnow_task takes the next HIT_EVENT: record_hit and record_kill if it names the
\* id this task goes by.
Receive(w) ==
  /\ rx[w] # <<>>
  /\ rx' = [rx EXCEPT ![w] = Tail(@)]
  /\ kills' = [kills EXCEPT ![w] = IF Head(rx[w]).device = cached[w] THEN @ + 1 ELSE @]
  /\ UNCHANGED <<id, cached, laser, target, hist>>

\* OP_KILL_CONFIRMED from the browser.
KillConfirmed(w) ==
  /\ hist.browser[w] < MaxConfirms
  /\ kills' = [kills EXCEPT ![w] = @ + 1]
  /\ hist' = [hist EXCEPT !.browser[w] = @ + 1]
  /\ UNCHANGED <<id, cached, laser, rx, target>>

Weapon(w) ==
  \/ Fire(w) \/ Transmit(w) \/ Receive(w)
  \/ KillConfirmed(w)
  \/ \E i \in Ids : Rename(w, i)
  \/ \E d \in DeviceIds : Restart(w, d)

-----------------------------------------------------------------------------
(* The target *)

\* The same bits as the word waiting for confirmation.
SameBits(v, w) == v.id = w.id

\* Enough receptions of the same word, the second within the window of the first.
Confirms(word) == half # <<>> /\ SameBits(word, half[1]) /\ age < Window

\* A confirmed word that is no hit: the player's own, or, when the server is
\* connected and there is a roster, one of a stranger.  The target's player and its
\* roster change like the ids of a weapon, so they may be any.
Ignored(word, owner, roster, connected) ==
  \/ word.id.player = owner
  \/ connected /\ roster # {} /\ word.id.player \notin roster

\* processing_task takes the next word that passes validateLaserMessage.
TakeWord(word) ==
  /\ proc = "idle"
  /\ photo # <<>> /\ word = Head(photo)
  /\ photo' = Tail(photo)
  /\ UNCHANGED <<weapon, respawning>>

\* History of a word looked at, and of the hit it confirms if n is 1.
Looked(word, n) ==
  [hist EXCEPT !.looked[word.id.device] = @ \cup {word.shot},
               !.hits[word.id.device] = @ + n]

\* During a respawn words are thrown away, and the one waiting with them.
WordWhileDown(word) ==
  /\ TakeWord(word)
  /\ respawning
  /\ half' = <<>> /\ age' = 0
  /\ hist' = Looked(word, 0)
  /\ UNCHANGED <<proc, struck>>

\* A word that confirms nothing waits for its confirmation.
WordWaits(word) ==
  /\ TakeWord(word)
  /\ ~respawning /\ ~Confirms(word)
  /\ half' = <<word>> /\ age' = 0
  /\ hist' = Looked(word, 0)
  /\ UNCHANGED <<proc, struck>>

\* Seeded fault: the confirmation is not started over.
HitConfirmedOn(word, ignored) ==
  /\ TakeWord(word)
  /\ ~respawning /\ Confirms(word)
  /\ IF ignored
     THEN /\ hist' = Looked(word, 0)
          /\ UNCHANGED <<proc, struck>>
     ELSE /\ hist' = Looked(word, 1)
          /\ proc' = "hit" /\ struck' = <<word>>
  /\ UNCHANGED <<half, age>>

\* The second reception: confirmation starts over, and it is a hit unless ignored.
HitConfirmed(word, ignored) ==
  /\ TakeWord(word)
  /\ ~respawning /\ Confirms(word)
  /\ half' = <<>> /\ age' = 0
  /\ IF ignored
     THEN /\ hist' = Looked(word, 0)
          /\ UNCHANGED <<proc, struck>>
     ELSE /\ hist' = Looked(word, 1)
          /\ proc' = "hit" /\ struck' = <<word>>

\* After the vibration: game_state_record_death.
RecordDeath ==
  /\ proc = "hit" /\ proc' = "tell"
  /\ respawning' = TRUE
  /\ UNCHANGED <<weapon, photo, half, age, struck, hist>>

\* Seeded fault: the broadcast may be repeated, to be on the safe side.
AnnounceAgain ==
  LET device == struck[1].id.device
      event == [device |-> device, nth |-> hist.announced[device] + 1,
                known |-> {w \in Weapons : cached[w] = device}]
  IN
  /\ proc = "tell"
  /\ \/ proc' = "idle" /\ struck' = <<>>
     \/ UNCHANGED <<proc, struck>>
  /\ \E heard \in SUBSET Weapons :
        rx' = [w \in Weapons |->
                 IF w \in heard THEN Offer(rx[w], event, RadioSlots) ELSE rx[w]]
  /\ hist' = [hist EXCEPT !.announced[device] = @ + 1]
  /\ UNCHANGED <<id, cached, laser, kills, photo, half, age, respawning>>

\* espnow_comm_broadcast of the HIT_EVENT: any of the weapons may miss it.
Announce ==
  LET device == struck[1].id.device
      event == [device |-> device, nth |-> hist.announced[device] + 1,
                known |-> {w \in Weapons : cached[w] = device}]
  IN
  /\ proc = "tell" /\ proc' = "idle" /\ struck' = <<>>
  /\ \E heard \in SUBSET Weapons :
        rx' = [w \in Weapons |->
                 IF w \in heard THEN Offer(rx[w], event, RadioSlots) ELSE rx[w]]
  /\ hist' = [hist EXCEPT !.announced[device] = @ + 1]
  /\ UNCHANGED <<id, cached, laser, kills, photo, half, age, respawning>>

\* Another task completes the respawn, or begins one (HIT_FORWARD).
Respawn(down) ==
  /\ respawning = ~down /\ respawning' = down
  /\ UNCHANGED <<weapon, photo, half, age, proc, struck, hist>>

\* Time passes; only the age of a waiting word is measured.
Tick ==
  /\ half # <<>> /\ age < Window
  /\ age' = age + 1
  /\ UNCHANGED <<weapon, photo, half, proc, struck, respawning, hist>>

\* The target restarts, in the middle of whatever it was doing.
TargetRestart ==
  /\ photo' = <<>> /\ half' = <<>> /\ age' = 0
  /\ proc' = "idle" /\ struck' = <<>> /\ respawning' = FALSE
  /\ UNCHANGED <<weapon, hist>>

Target ==
  \/ \E i \in 1..Len(photo) :
        \/ WordWhileDown(photo[i]) \/ WordWaits(photo[i])
        \/ \E owner \in Players, roster \in SUBSET Players, connected \in BOOLEAN :
              HitConfirmed(photo[i], Ignored(photo[i], owner, roster, connected))
  \/ RecordDeath \/ Announce
  \/ \E down \in BOOLEAN : Respawn(down)
  \/ TargetRestart

Next == (\E w \in Weapons : Weapon(w)) \/ Target \/ Tick

Spec == Init /\ [][Next]_vars

-----------------------------------------------------------------------------
(* Properties *)

\* Every variable has its type; no queue is longer than it was made.
TypeOK ==
  /\ id \in [Weapons -> Ids] /\ cached \in [Weapons -> DeviceIds]
  /\ laser \in [Weapons -> Seq(Word)] /\ rx \in [Weapons -> Seq(HitEvent)]
  /\ \A w \in Weapons : Len(laser[w]) <= LaserSlots /\ Len(rx[w]) <= RadioSlots
  /\ kills \in [Weapons -> Nat]
  /\ photo \in Seq(Word) /\ Len(photo) <= PhotoSlots
  /\ half \in Seq(Word) /\ Len(half) <= 1
  /\ age \in 0..Window
  /\ proc \in {"idle", "hit", "tell"}
  /\ struck \in Seq(Word) /\ Len(struck) = IF proc = "idle" THEN 0 ELSE 1
  /\ respawning \in BOOLEAN
  /\ hist \in History

\* A hit costs two shots: whatever is dropped, delayed, mixed with other shooters'
\* words, interrupted by respawns or restarted, no word confirms two hits
\* (processing_task's confirm_count, "Reset so the same laser burst doesn't trigger
\* multiple hits").  The shots are counted by the id they carry: the target cannot tell
\* two weapons of one id apart, and takes a word of each for the two that make a hit.
TwoShotsPerHit == \A d \in DeviceIds : 2 * hist.hits[d] <= hist.sent[d]

\* A weapon counts no kill that was not announced for the id its espnow_task goes
\* by or confirmed by the browser, whichever ids the weapons have had.
KillsBacked ==
  \A w \in Weapons : kills[w] <= hist.announced[cached[w]] + hist.browser[w]

\* From the trigger to the kill counter: for every kill that a weapon gets by radio, two
\* shots were fired under the id its espnow_task goes by (by itself, unless another
\* weapon has drawn or been given that id), whoever restarts and whatever the weapons
\* are called meanwhile.  Two words of the id confirm a hit, the hit is announced once
\* and the announcement counted once.
KillsCostShots ==
  \A w \in Weapons : 2 * (kills[w] - hist.browser[w]) <= hist.sent[cached[w]]

\* A hit is only ever credited to weapons that went by its id when it was announced: one
\* that takes over another's id, by restarting, finds no old hit of that id in its receive
\* queue.  So a hit is credited twice only if two weapons went by one id at that time.
OneCreditPerHit ==
  \A w \in Weapons : \A i \in 1..Len(rx[w]) :
     rx[w][i].device = cached[w] => w \in rx[w][i].known
=============================================================================

------------------------ MODULE TriggerSchedulerProofs ------------------------
(***************************************************************************)
(* Theorems about TriggerScheduler for any nodes, definitions, bounds and  *)
(* clock: the state keeps its shape, two runs of one trigger are never     *)
(* under way together, what fires on schedule has the user's consent, and  *)
(* an armed recurring trigger always has a time.                           *)
(***************************************************************************)
EXTENDS TriggerScheduler, WellFoundedInduction, TLAPS

-----------------------------------------------------------------------------
(* Occurrences.                                                              *)

LEMMA EarliestIsOne ==
  ASSUME NEW S \in SUBSET Nat, S # {}
  PROVE  Min(S) \in S
<1> DEFINE less == OpToRel(<, Nat)
<1>1. \A m, k \in Nat : k < m => <<k, m>> \in less
  BY DEF OpToRel
<1>2. \E m \in S : \A k \in S : ~ (<<k, m>> \in less)
  BY NatLessThanWellFounded, WFMin
<1> HIDE DEF less
<1>3. PICK m \in S : \A k \in S : ~ (<<k, m>> \in less)
  BY <1>2
<1>4. ASSUME NEW k \in S PROVE m <= k
  <2>1. m \in Nat /\ k \in Nat /\ ~ (k < m)
    BY <1>1, <1>3, <1>4
  <2>2. QED
    BY <2>1
<1>5. QED
  BY <1>3, <1>4 DEF Min

LEMMA NextIsTime ==
  ASSUME NEW spec \in Specs, NEW after \in Nat
  PROVE  NextOccurrence(spec.schedule, after) \in Nat \cup {None}
<1>1. spec.schedule \in Schedules /\ Minute \in Nat /\ Horizon \in Nat
  BY TriggerAssumption DEF Horizon
<1>2. CASE spec.schedule.kind = "once"
  BY <1>1, <1>2 DEF NextOccurrence, Schedules
<1>3. CASE spec.schedule.kind = "interval"
  <2>1. spec.schedule.every \in Nat
    BY <1>1, <1>3 DEF Schedules
  <2>2. spec.schedule.every * Minute \in Nat
    BY <1>1, <2>1
  <2>3. QED
    BY <1>3, <2>2 DEF NextOccurrence
<1>4. CASE spec.schedule.kind = "cron"
  <2> DEFINE minutes == {t \in (after + 1) .. Horizon :
                           t % Minute = 0 /\ (t \div Minute) % spec.schedule.step = 0}
  <2>1. minutes \in SUBSET Nat
    BY <1>1
  <2>2. NextOccurrence(spec.schedule, after) = IF minutes = {} THEN None ELSE Min(minutes)
    BY <1>4 DEF NextOccurrence
  <2>3. minutes # {} => Min(minutes) \in Nat
    BY <2>1, EarliestIsOne
  <2>4. QED
    BY <2>2, <2>3
<1>5. QED
  BY <1>1, <1>2, <1>3, <1>4 DEF Schedules

LEMMA ScheduledIsTime ==
  ASSUME NEW spec \in Specs, NEW records, NEW n, now \in Nat, now >= Minute
  PROVE  Scheduled(records, n, spec) \in Nat \cup {None}
<1>1. now - Minute \in Nat
  BY TriggerAssumption
<1>2. QED
  BY <1>1, NextIsTime DEF Scheduled

-----------------------------------------------------------------------------
(* The inductive invariant.                                                  *)

Typed ==
  /\ now \in Nat /\ now <= MaxNow /\ lastTick \in 0 .. now
  /\ canvas \in Records /\ arms \in Records /\ armFile \in Records
  /\ slots \in [Nodes -> {None} \cup Slot]
  /\ runs \subseteq Run
  /\ writeQueue \in Seq([records : Records, call : Call]) /\ Len(writeQueue) <= MaxWrites

\* The slot a run has captured stays in the map until its trigger goes.
Captured == \A r \in runs : r.held => ~ r.removed

\* A trigger that stays on the canvas shows its run in whatever slot it has.
Shown == \A r \in runs : ~ r.removed => slots[r.node] # None /\ slots[r.node].inFlight

Inv == Typed /\ now >= Minute /\ Captured /\ Shown /\ OneRunAtATime

LEMMA InvInit == Init => Inv
<1> SUFFICES ASSUME Init PROVE Inv
  OBVIOUS
<1>1. Typed
  <2>1. Minute \in Nat /\ now = Minute /\ lastTick = Minute
    BY TriggerAssumption DEF Init
  <2>2. writeQueue = <<>>
    BY DEF Init
  <2>3. <<>> \in Seq([records : Records, call : Call]) /\ Len(<<>>) = 0
    OBVIOUS
  <2>4. now \in Nat /\ now <= MaxNow /\ lastTick \in 0 .. now
    BY <2>1, TriggerAssumption
  <2>5. canvas \in Records /\ arms \in Records /\ armFile \in Records
    BY DEF Init, Records
  <2>6. slots \in [Nodes -> {None} \cup Slot] /\ runs \subseteq Run
    BY DEF Init
  <2>7. QED
    BY <2>2, <2>3, <2>4, <2>5, <2>6, TriggerAssumption DEF Typed
<1>2. runs = {} /\ now >= Minute
  BY TriggerAssumption DEF Init
<1>3. QED
  BY <1>1, <1>2 DEF Inv, Captured, Shown, OneRunAtATime

\* Steps that leave the runs alone and keep every slot's run.
LEMMA RunsKept ==
  ASSUME Inv, UNCHANGED runs, now' \in Nat, now' >= Minute, Typed',
         \A n \in Nodes : slots[n] # None =>
           slots'[n] # None /\ slots'[n].inFlight = slots[n].inFlight
  PROVE  Inv'
<1>1. \A r \in runs : r.node \in Nodes
  BY DEF Inv, Typed, Run
<1>2. Captured' /\ OneRunAtATime'
  BY DEF Inv, Captured, OneRunAtATime
<1>3. Shown'
  BY <1>1 DEF Inv, Shown
<1>4. QED
  BY <1>2, <1>3 DEF Inv

\* A new time leaves the rest of a slot as it is.
LEMMA Retimed ==
  ASSUME NEW slot \in Slot, NEW t \in Nat \cup {None}
  PROVE  /\ [slot EXCEPT !.next = t] \in Slot
         /\ [slot EXCEPT !.next = t] # None
         /\ [slot EXCEPT !.next = t].inFlight = slot.inFlight
<1>1. [slot EXCEPT !.next = t] \in Slot
  BY DEF Slot
<1>2. QED
  BY <1>1, TriggerAssumption DEF Slot

-----------------------------------------------------------------------------
(* updateProject.                                                            *)

LEMMA KeptInv ==
  ASSUME Inv, NEW n \in Nodes, slots[n] # None
  PROVE  KeptSlot(n) \in Slot /\ KeptSlot(n) # None /\ KeptSlot(n).inFlight = slots[n].inFlight
<1>1. slots[n] \in Slot /\ slots[n].spec \in Specs /\ now \in Nat /\ now >= Minute
  BY DEF Inv, Typed, Slot
<1>2. Scheduled(arms, n, slots[n].spec) \in Nat \cup {None}
  BY <1>1, ScheduledIsTime
<1>3. QED
  BY <1>1, <1>2, Retimed, TriggerAssumption DEF KeptSlot

LEMMA NewInv ==
  ASSUME Inv, NEW n \in Nodes, NEW spec \in Specs
  PROVE  /\ NewSlot(n, spec) \in Slot /\ NewSlot(n, spec) # None
         /\ slots[n] # None /\ slots[n].inFlight => NewSlot(n, spec).inFlight
<1>1. Scheduled(arms, n, spec) \in Nat \cup {None}
  BY ScheduledIsTime DEF Inv, Typed
<1>2. (slots[n] # None /\ slots[n].inFlight) \in BOOLEAN
  OBVIOUS
<1>3. NewSlot(n, spec) \in Slot
  BY <1>1, <1>2 DEF NewSlot, Slot
<1>4. NewSlot(n, spec).inFlight = (slots[n] # None /\ slots[n].inFlight)
  BY DEF NewSlot
<1>5. QED
  BY <1>3, <1>4, TriggerAssumption

LEMMA SaveInv ==
  ASSUME Inv, NEW m \in Nodes, NEW spec \in Specs \cup {None}, SaveCanvas(m, spec)
  PROVE  Inv'
<1> DEFINE nodes == canvas'
           follow(r) == [r EXCEPT !.held = @ /\ SameSlot(r.node, nodes),
                                  !.removed = @ \/ nodes[r.node] = None]
<1>1. nodes \in Records /\ runs' = {follow(r) : r \in runs}
      /\ UNCHANGED <<now, lastTick, arms, writeQueue, armFile>>
  BY DEF SaveCanvas, updateProject, Inv, Typed, Records
<1>2. \A n \in Nodes : slots'[n] = IF nodes[n] = None THEN None
                                   ELSE IF SameSlot(n, nodes) THEN KeptSlot(n)
                                   ELSE NewSlot(n, nodes[n])
  BY DEF SaveCanvas, updateProject
<1>3. ASSUME NEW n \in Nodes
      PROVE  /\ slots'[n] \in {None} \cup Slot
             /\ nodes[n] # None /\ slots[n] # None /\ slots[n].inFlight =>
                  slots'[n] # None /\ slots'[n].inFlight
  <2>1. CASE nodes[n] = None
    BY <1>2, <2>1
  <2>2. CASE nodes[n] # None /\ SameSlot(n, nodes)
    <3>1. slots[n] # None /\ slots'[n] = KeptSlot(n)
      BY <1>2, <2>2 DEF SameSlot
    <3>2. QED
      BY <3>1, KeptInv
  <2>3. CASE nodes[n] # None /\ ~ SameSlot(n, nodes)
    <3>1. nodes[n] \in Specs /\ slots'[n] = NewSlot(n, nodes[n])
      BY <1>1, <1>2, <2>3 DEF Records
    <3>2. QED
      BY <3>1, NewInv
  <2>4. QED
    BY <2>1, <2>2, <2>3
<1>4. ASSUME NEW r \in runs
      PROVE  /\ follow(r) \in Run /\ follow(r).node = r.node
             /\ follow(r).held => r.held /\ nodes[r.node] # None
             /\ follow(r).removed <=> r.removed \/ nodes[r.node] = None
  <2>1. r \in Run
    BY DEF Inv, Typed
  <2>2. (r.held /\ SameSlot(r.node, nodes)) \in BOOLEAN
        /\ (r.removed \/ nodes[r.node] = None) \in BOOLEAN
    OBVIOUS
  <2>3. follow(r) \in Run
    BY <2>1, <2>2 DEF Run
  <2>4. /\ follow(r).node = r.node
        /\ follow(r).held = (r.held /\ SameSlot(r.node, nodes))
        /\ follow(r).removed = (r.removed \/ nodes[r.node] = None)
    BY <2>1 DEF Run
  <2>5. QED
    BY <2>3, <2>4 DEF SameSlot
<1> HIDE DEF follow
<1>5. Typed'
  <2>1. slots' \in [Nodes -> {None} \cup Slot]
    BY <1>3 DEF SaveCanvas, updateProject
  <2>2. runs' \subseteq Run
    BY <1>1, <1>4
  <2>3. QED
    BY <1>1, <2>1, <2>2 DEF Inv, Typed, Records
<1>6. Captured'
  BY <1>1, <1>4 DEF Inv, Captured
<1>7. Shown'
  <2> SUFFICES ASSUME NEW r \in runs, ~ follow(r).removed
               PROVE  slots'[follow(r).node] # None /\ slots'[follow(r).node].inFlight
    BY <1>1 DEF Shown
  <2>1. r.node \in Nodes /\ follow(r).node = r.node /\ ~ r.removed /\ nodes[r.node] # None
    BY <1>4 DEF Inv, Typed, Run
  <2>2. slots[r.node] # None /\ slots[r.node].inFlight
    BY <2>1 DEF Inv, Shown
  <2>3. QED
    BY <1>3, <2>1, <2>2
<1>8. OneRunAtATime'
  <2> SUFFICES ASSUME NEW q \in runs, NEW r \in runs,
                      follow(q).node = follow(r).node, follow(q) # follow(r)
               PROVE  follow(q).removed \/ follow(r).removed
    BY <1>1 DEF OneRunAtATime
  <2>1. q # r /\ q.node = r.node
    BY <1>4
  <2>2. q.removed \/ r.removed
    BY <2>1 DEF Inv, OneRunAtATime
  <2>3. QED
    BY <1>4, <2>2
<1>9. QED
  BY <1>1, <1>5, <1>6, <1>7, <1>8 DEF Inv

-----------------------------------------------------------------------------
(* Runs.                                                                     *)

\* Runs that start where none is shown.
LEMMA StartInv ==
  ASSUME Inv, Typed', UNCHANGED now, NEW fresh, runs' = runs \cup fresh,
         \A r \in fresh : r.node \in Nodes /\ r.held /\ ~ r.removed
                            /\ slots[r.node] # None /\ ~ slots[r.node].inFlight
                            /\ slots'[r.node] # None /\ slots'[r.node].inFlight,
         \A q, r \in fresh : q.node = r.node => q = r,
         \A n \in Nodes : slots[n] # None /\ slots[n].inFlight =>
                            slots'[n] # None /\ slots'[n].inFlight
  PROVE  Inv'
<1>1. \A r \in runs : r.node \in Nodes
  BY DEF Inv, Typed, Run
<1>2. \A q \in runs, r \in fresh : q.node = r.node => q.removed
  BY DEF Inv, Shown
<1>3. Captured'
  BY DEF Inv, Captured
<1>4. Shown'
  BY <1>1 DEF Inv, Shown
<1>5. OneRunAtATime'
  BY <1>2 DEF Inv, OneRunAtATime
<1>6. QED
  BY <1>3, <1>4, <1>5 DEF Inv

LEMMA NewRunIsOne ==
  ASSUME Inv, NEW n \in Nodes, slots[n] # None, NEW id \in RunIds, NEW manual \in BOOLEAN
  PROVE  /\ NewRun(id, n, manual) \in Run /\ NewRun(id, n, manual).node = n
         /\ NewRun(id, n, manual).held /\ ~ NewRun(id, n, manual).removed
<1>1. slots[n].spec \in Specs
  BY DEF Inv, Typed, Slot
<1>2. QED
  BY <1>1 DEF NewRun, Run

LEMMA VerdictStarts ==
  ASSUME NEW n, NEW manual, NEW found, Verdict(n, manual, found) = "started"
  PROVE  slots[n] # None /\ ~ slots[n].inFlight
BY DEF Verdict

LEMMA RunNowInv ==
  ASSUME Inv, NEW n \in Nodes, RunNow(n)
  PROVE  Inv'
<1>1. PICK targetFound \in BOOLEAN, id \in FreeIds :
        /\ IF Verdict(n, TRUE, targetFound) = "started"
           THEN /\ slots' = [slots EXCEPT ![n].inFlight = TRUE]
                /\ runs' = runs \cup {NewRun(id, n, TRUE)}
           ELSE UNCHANGED <<slots, runs>>
        /\ UNCHANGED <<now, lastTick, canvas, arms, writeQueue, armFile>>
  BY DEF RunNow
<1>2. id \in RunIds
  BY DEF FreeIds
<1>3. CASE Verdict(n, TRUE, targetFound) = "started"
  <2>1. slots[n] # None /\ slots[n] \in Slot /\ ~ slots[n].inFlight
    BY <1>3, VerdictStarts DEF Inv, Typed
  <2>2. [slots[n] EXCEPT !.inFlight = TRUE] \in Slot
        /\ [slots[n] EXCEPT !.inFlight = TRUE].inFlight
    BY <2>1 DEF Slot
  <2>3. /\ slots' \in [Nodes -> {None} \cup Slot] /\ slots'[n] # None /\ slots'[n].inFlight
        /\ \A k \in Nodes : k # n => slots'[k] = slots[k]
    BY <1>1, <1>3, <2>2, TriggerAssumption DEF Inv, Typed
  <2>4. /\ NewRun(id, n, TRUE) \in Run /\ NewRun(id, n, TRUE).node = n
        /\ NewRun(id, n, TRUE).held /\ ~ NewRun(id, n, TRUE).removed
    BY <1>2, <2>1, NewRunIsOne
  <2>5. runs' = runs \cup {NewRun(id, n, TRUE)}
    BY <1>1, <1>3
  <2>6. Typed'
    BY <1>1, <2>3, <2>4, <2>5 DEF Inv, Typed, Records
  <2> DEFINE fresh == {NewRun(id, n, TRUE)}
  <2>7. \A r \in fresh : r.node = n /\ r.held /\ ~ r.removed
    BY <2>4
  <2>8. \A q, r \in fresh : q = r
    OBVIOUS
  <2>9. runs' = runs \cup fresh
    BY <2>5
  <2> HIDE DEF fresh
  <2>10. \A r \in fresh : r.node \in Nodes /\ r.held /\ ~ r.removed
                            /\ slots[r.node] # None /\ ~ slots[r.node].inFlight
                            /\ slots'[r.node] # None /\ slots'[r.node].inFlight
    BY <2>1, <2>3, <2>7
  <2>11. \A k \in Nodes : slots[k] # None /\ slots[k].inFlight =>
                             slots'[k] # None /\ slots'[k].inFlight
    BY <2>3
  <2>12. QED
    BY <1>1, <2>6, <2>8, <2>9, <2>10, <2>11, StartInv
<1>4. CASE Verdict(n, TRUE, targetFound) # "started"
  <2>1. UNCHANGED <<now, lastTick, canvas, arms, writeQueue, armFile, slots, runs>>
    BY <1>1, <1>4
  <2>2. Typed'
    BY <2>1 DEF Inv, Typed, Records
  <2>3. QED
    BY <2>1, <2>2, RunsKept DEF Inv, Typed
<1>5. QED
  BY <1>3, <1>4

LEMMA FinishInv ==
  ASSUME Inv, NEW r \in runs, NEW outcome, Finish(r, outcome)
  PROVE  Inv'
<1>1. /\ runs' = runs \ {r} /\ r \in Run /\ r.node \in Nodes
      /\ slots' = IF r.held THEN [slots EXCEPT ![r.node].inFlight = FALSE] ELSE slots
      /\ UNCHANGED <<now, lastTick, canvas, arms, writeQueue, armFile>>
  BY DEF Finish, Inv, Typed, Run
<1>2. CASE r.held
  <2>1. ~ r.removed /\ slots[r.node] # None /\ slots[r.node] \in Slot
    BY <1>1, <1>2 DEF Inv, Captured, Shown, Typed
  <2>2. [slots[r.node] EXCEPT !.inFlight = FALSE] \in Slot
    BY <2>1 DEF Slot
  <2>3. /\ slots' \in [Nodes -> {None} \cup Slot]
        /\ \A n \in Nodes : n # r.node => slots'[n] = slots[n]
    BY <1>1, <1>2, <2>2 DEF Inv, Typed
  <2>4. Typed'
    BY <1>1, <2>3 DEF Inv, Typed, Records
  <2>5. \A q \in runs : q # r /\ q.node = r.node => q.removed
    BY <2>1 DEF Inv, OneRunAtATime
  <2>6. Shown'
    <3> SUFFICES ASSUME NEW q \in runs, q # r, ~ q.removed
                 PROVE  slots'[q.node] # None /\ slots'[q.node].inFlight
      BY <1>1 DEF Shown
    <3>1. q.node # r.node /\ q.node \in Nodes
      BY <2>5 DEF Inv, Typed, Run
    <3>2. QED
      BY <2>3, <3>1 DEF Inv, Shown
  <2>7. Captured' /\ OneRunAtATime'
    BY <1>1 DEF Inv, Captured, OneRunAtATime
  <2>8. QED
    BY <1>1, <2>4, <2>6, <2>7 DEF Inv
<1>3. CASE ~ r.held
  <2>1. UNCHANGED slots /\ Typed'
    BY <1>1, <1>3 DEF Inv, Typed, Records
  <2>2. Captured' /\ Shown' /\ OneRunAtATime'
    BY <1>1, <2>1 DEF Inv, Captured, Shown, OneRunAtATime
  <2>3. QED
    BY <1>1, <2>1, <2>2 DEF Inv
<1>4. QED
  BY <1>2, <1>3

LEMMA TickInv == ASSUME Inv, Tick PROVE Inv'
<1> DEFINE due == {n \in Nodes : Due(n)}
           attempted == due \ {n \in due : Missed(n)}
           after(n) == IF OneShot(slots[n].spec) THEN None
                       ELSE NextOccurrence(slots[n].spec.schedule, now)
<1>1. PICK found \in SUBSET attempted :
        LET verdict(n) == Verdict(n, FALSE, n \in found)
            started == {n \in attempted : verdict(n) = "started"}
        IN  \E id \in [started -> FreeIds] :
              /\ runs' = runs \cup {NewRun(id[n], n, FALSE) : n \in started}
              /\ slots' = [n \in Nodes |->
                   IF n \in due
                   THEN [slots[n] EXCEPT !.next = after(n),
                                         !.inFlight = @ \/ n \in started]
                   ELSE slots[n]]
  BY DEF Tick
<1> DEFINE started == {n \in attempted : Verdict(n, FALSE, n \in found) = "started"}
<1>2. PICK id \in [started -> FreeIds] :
        /\ runs' = runs \cup {NewRun(id[n], n, FALSE) : n \in started}
        /\ slots' = [n \in Nodes |->
             IF n \in due
             THEN [slots[n] EXCEPT !.next = after(n), !.inFlight = @ \/ n \in started]
             ELSE slots[n]]
  BY <1>1
<1>3. UNCHANGED <<now, canvas, arms, writeQueue, armFile>> /\ lastTick' = now
  BY DEF Tick
<1>4. \A n \in due : n \in Nodes /\ slots[n] # None /\ slots[n] \in Slot
  BY DEF Due, Inv, Typed
<1>5. started \subseteq due /\ \A n \in started : ~ slots[n].inFlight
  BY VerdictStarts
<1>6. \A n \in started : id[n] \in RunIds
  BY DEF FreeIds
<1>7. \A n \in due : after(n) \in Nat \cup {None}
  BY <1>4, NextIsTime DEF Inv, Typed, Slot
<1> DEFINE fresh == {NewRun(id[n], n, FALSE) : n \in started}
<1>8. \A r \in fresh : r \in Run /\ r.node \in started /\ r.held /\ ~ r.removed
                         /\ r = NewRun(id[r.node], r.node, FALSE)
  <2> SUFFICES ASSUME NEW n \in started
               PROVE  LET r == NewRun(id[n], n, FALSE)
                      IN r \in Run /\ r.node = n /\ r.held /\ ~ r.removed
    OBVIOUS
  <2>1. n \in Nodes /\ slots[n] # None /\ id[n] \in RunIds
    BY <1>4, <1>5, <1>6
  <2>2. QED
    BY <2>1, NewRunIsOne
<1>9. runs' = runs \cup fresh
  BY <1>2
<1>10. \A n \in Nodes : slots'[n] = IF n \in due
                                    THEN [slots[n] EXCEPT !.next = after(n),
                                                          !.inFlight = @ \/ n \in started]
                                    ELSE slots[n]
  BY <1>2
<1> HIDE DEF due, after, started, fresh
<1>11. ASSUME NEW n \in due
       PROVE  /\ slots'[n] \in Slot /\ slots'[n] # None
              /\ slots'[n].inFlight <=> slots[n].inFlight \/ n \in started
  <2>1. slots[n] \in Slot /\ after(n) \in Nat \cup {None}
    BY <1>4, <1>7
  <2>2. slots'[n] = [slots[n] EXCEPT !.next = after(n), !.inFlight = @ \/ n \in started]
    BY <1>4, <1>10
  <2>3. (slots[n].inFlight \/ n \in started) \in BOOLEAN
    OBVIOUS
  <2>4. slots'[n] \in Slot /\ slots'[n].inFlight = (slots[n].inFlight \/ n \in started)
    BY <2>1, <2>2, <2>3 DEF Slot
  <2>5. QED
    BY <2>4, TriggerAssumption
<1>12. Typed'
  <2>1. slots' \in [Nodes -> {None} \cup Slot]
    <3>1. \A n \in Nodes : slots'[n] \in {None} \cup Slot
      BY <1>10, <1>11 DEF Inv, Typed
    <3>2. slots' = [n \in Nodes |-> slots'[n]]
      BY <1>2
    <3>3. QED
      BY <3>1, <3>2
  <2>2. runs' \subseteq Run
    BY <1>8, <1>9 DEF Inv, Typed
  <2>3. lastTick' \in 0 .. now'
    BY <1>3 DEF Inv, Typed
  <2>4. QED
    BY <1>3, <2>1, <2>2, <2>3 DEF Inv, Typed, Records
<1>13. \A n \in Nodes : slots[n] # None /\ slots[n].inFlight =>
                          slots'[n] # None /\ slots'[n].inFlight
  BY <1>10, <1>11
<1>14. \A r \in fresh : r.node \in Nodes /\ r.held /\ ~ r.removed
                          /\ slots[r.node] # None /\ ~ slots[r.node].inFlight
                          /\ slots'[r.node] # None /\ slots'[r.node].inFlight
  BY <1>4, <1>5, <1>8, <1>11
<1>15. \A q, r \in fresh : q.node = r.node => q = r
  BY <1>8
<1>16. QED
  BY <1>3, <1>9, <1>12, <1>13, <1>14, <1>15, StartInv

-----------------------------------------------------------------------------
(* Consent, time and restarts.                                               *)

LEMMA PersistTyped ==
  ASSUME Inv, NEW call \in Call, persist(call), arms' \in Records,
         Len(writeQueue) < MaxWrites
  PROVE  writeQueue' \in Seq([records : Records, call : Call]) /\ Len(writeQueue') <= MaxWrites
<1> DEFINE Write == [records : Records, call : Call]
<1>1. [records |-> arms', call |-> call] \in Write
  OBVIOUS
<1>2. writeQueue \in Seq(Write) /\ writeQueue' = Append(writeQueue, [records |-> arms', call |-> call])
  BY DEF Inv, Typed, persist
<1> HIDE DEF Write
<1>3. writeQueue' \in Seq(Write) /\ Len(writeQueue') = Len(writeQueue) + 1
  BY <1>1, <1>2
<1>4. Len(writeQueue) \in Nat /\ MaxWrites \in Nat
  BY <1>2, TriggerAssumption
<1>5. QED
  BY <1>3, <1>4 DEF Write

LEMMA ArmInv ==
  ASSUME Inv, NEW n \in Nodes, NEW spec \in Specs \cup {None}, persist([node |-> n, spec |-> spec]),
         arms' = [arms EXCEPT ![n] = spec], Len(writeQueue) < MaxWrites,
         UNCHANGED <<now, lastTick, canvas, slots, runs, armFile>>
  PROVE  Inv'
<1>1. arms' \in Records /\ [node |-> n, spec |-> spec] \in Call
  BY DEF Inv, Typed, Records, Call
<1>2. Typed'
  BY <1>1, PersistTyped DEF Inv, Typed, Records
<1>3. QED
  BY <1>2, RunsKept DEF Inv, Typed

LEMMA UnscheduleKeeps ==
  ASSUME Inv, NEW n \in Nodes, Unschedule(n)
  PROVE  /\ slots' \in [Nodes -> {None} \cup Slot]
         /\ \A k \in Nodes : slots[k] # None =>
              slots'[k] # None /\ slots'[k].inFlight = slots[k].inFlight
<1>1. CASE slots[n] = None
  BY <1>1 DEF Unschedule, Inv, Typed
<1>2. CASE slots[n] # None
  <2>1. slots[n] \in Slot /\ slots' = [slots EXCEPT ![n] = [slots[n] EXCEPT !.next = None]]
    BY <1>2 DEF Unschedule, Inv, Typed
  <2>2. QED
    BY <2>1, Retimed DEF Inv, Typed
<1>3. QED
  BY <1>1, <1>2

LEMMA TailTyped ==
  ASSUME Inv, writeQueue # <<>>
  PROVE  /\ Head(writeQueue) \in [records : Records, call : Call]
         /\ Tail(writeQueue) \in Seq([records : Records, call : Call])
         /\ Len(Tail(writeQueue)) <= MaxWrites
<1> DEFINE Write == [records : Records, call : Call]
<1>1. writeQueue \in Seq(Write) /\ Len(writeQueue) <= MaxWrites /\ MaxWrites \in Nat
  BY TriggerAssumption DEF Inv, Typed
<1> HIDE DEF Write
<1>2. /\ Head(writeQueue) \in Write /\ Tail(writeQueue) \in Seq(Write)
      /\ Len(Tail(writeQueue)) = Len(writeQueue) - 1 /\ Len(writeQueue) \in Nat
  BY <1>1
<1>3. QED
  BY <1>1, <1>2 DEF Write

LEMMA RescheduledIsTime ==
  ASSUME Inv, NEW spec \in Specs
  PROVE  Rescheduled(spec) \in Nat \cup {None}
<1>1. now - Minute \in Nat /\ spec.schedule \in Schedules
  BY TriggerAssumption DEF Inv, Typed
<1>2. OneShot(spec) => spec.schedule.at \in Nat
  BY <1>1 DEF OneShot, Schedules
<1>3. NextOccurrence(spec.schedule, now - Minute) \in Nat \cup {None}
  BY <1>1, NextIsTime
<1>4. QED
  BY <1>2, <1>3 DEF Rescheduled

LEMMA WriteInv == ASSUME Inv, WriteArms \/ WriteFails PROVE Inv'
<1>1. /\ Head(writeQueue) \in [records : Records, call : Call]
      /\ writeQueue' = Tail(writeQueue) /\ UNCHANGED <<now, lastTick, canvas, runs, arms>>
      /\ writeQueue' \in Seq([records : Records, call : Call]) /\ Len(writeQueue') <= MaxWrites
  BY TailTyped DEF WriteArms, WriteFails
<1> DEFINE write == Head(writeQueue)
           n == write.call.node
           spec == write.call.spec
<1>2. n \in Nodes /\ spec \in Specs \cup {None} /\ write.records \in Records
  BY <1>1 DEF Call
<1>3. /\ slots' \in [Nodes -> {None} \cup Slot]
      /\ \A k \in Nodes : slots[k] # None =>
           slots'[k] # None /\ slots'[k].inFlight = slots[k].inFlight
  <2>1. CASE WriteFails
    BY <2>1 DEF WriteFails, Inv, Typed
  <2>2. CASE WriteArms /\ spec = None
    <3>1. Unschedule(n)
      BY <2>2 DEF WriteArms
    <3>2. QED
      BY <1>2, <3>1, UnscheduleKeeps
  <2>3. CASE WriteArms /\ spec # None
    <3>1. slots' = IF slots[n] = None THEN slots
                   ELSE [slots EXCEPT ![n] = [slots[n] EXCEPT !.next = Rescheduled(spec)]]
      BY <2>3 DEF WriteArms
    <3>2. Rescheduled(spec) \in Nat \cup {None}
      BY <1>2, <2>3, RescheduledIsTime
    <3> HIDE DEF n, spec
    <3>3. CASE slots[n] = None
      BY <3>1, <3>3 DEF Inv, Typed
    <3>4. CASE slots[n] # None
      <4>1. slots[n] \in Slot /\ slots' = [slots EXCEPT ![n] = [slots[n] EXCEPT !.next = Rescheduled(spec)]]
        BY <1>2, <3>1, <3>4 DEF Inv, Typed
      <4>2. QED
        BY <1>2, <3>2, <4>1, Retimed DEF Inv, Typed
    <3>5. QED
      BY <3>3, <3>4
  <2>4. QED
    BY <2>1, <2>2, <2>3
<1>4. armFile' \in Records
  BY <1>2 DEF WriteArms, WriteFails, Inv, Typed
<1>5. Typed'
  BY <1>1, <1>3, <1>4 DEF Inv, Typed, Records
<1>6. QED
  BY <1>1, <1>3, <1>5, RunsKept DEF Inv, Typed

LEMMA PassInv == ASSUME Inv, Pass PROVE Inv'
<1>1. /\ now' = now + 1 /\ now < MaxNow
      /\ UNCHANGED <<lastTick, canvas, slots, runs, arms, writeQueue, armFile>>
  BY DEF Pass, memory
<1>2. now' \in Nat /\ now' >= Minute /\ now' <= MaxNow /\ lastTick' \in 0 .. now'
  BY <1>1, TriggerAssumption DEF Inv, Typed
<1>3. Typed'
  BY <1>1, <1>2 DEF Inv, Typed, Records
<1>4. QED
  BY <1>1, <1>2, <1>3, RunsKept

LEMMA RestartInv == ASSUME Inv, Restart PROVE Inv'
<1>1. /\ now' = now + 1 /\ now < MaxNow /\ lastTick' = now' /\ arms' = armFile
      /\ slots' = [n \in Nodes |-> BootSlot(n)] /\ runs' = {} /\ writeQueue' = <<>>
      /\ UNCHANGED <<canvas, armFile>>
  BY DEF Restart
<1>2. now' \in Nat /\ now' >= Minute /\ now' <= MaxNow /\ lastTick' \in 0 .. now'
      /\ now' - Minute \in Nat
  BY <1>1, TriggerAssumption DEF Inv, Typed
<1>3. ASSUME NEW n \in Nodes PROVE BootSlot(n) \in {None} \cup Slot
  <2>1. CASE canvas[n] = None
    BY <2>1 DEF BootSlot
  <2>2. CASE canvas[n] # None
    <3>1. canvas[n] \in Specs
      BY <2>2 DEF Inv, Typed, Records
    <3>2. NextOccurrence(canvas[n].schedule, now' - Minute) \in Nat \cup {None}
      BY <1>2, <3>1, NextIsTime
    <3>3. QED
      BY <2>2, <3>1, <3>2 DEF BootSlot, Slot
  <2>3. QED
    BY <2>1, <2>2
<1>4. slots' \in [Nodes -> {None} \cup Slot]
  BY <1>1, <1>3
<1>5. writeQueue' \in Seq([records : Records, call : Call]) /\ Len(writeQueue') <= MaxWrites
  <2>1. <<>> \in Seq([records : Records, call : Call]) /\ Len(<<>>) = 0
    OBVIOUS
  <2>2. QED
    BY <1>1, <2>1, TriggerAssumption
<1>6. Typed'
  BY <1>1, <1>2, <1>4, <1>5 DEF Inv, Typed, Records
<1>7. Captured' /\ Shown' /\ OneRunAtATime'
  BY <1>1 DEF Captured, Shown, OneRunAtATime
<1>8. QED
  BY <1>2, <1>6, <1>7 DEF Inv

LEMMA InvKept == Inv /\ [Next]_vars => Inv'
<1> SUFFICES ASSUME Inv, [Next]_vars PROVE Inv'
  OBVIOUS
<1>1. ASSUME NEW n \in Nodes, NEW spec \in Specs \cup {None}, SaveCanvas(n, spec) PROVE Inv'
  BY <1>1, SaveInv
<1>2. ASSUME NEW n \in Nodes, RunNow(n) PROVE Inv'
  BY <1>2, RunNowInv
<1>3. ASSUME NEW n \in Nodes, NEW spec \in Specs, Arm(n, spec) PROVE Inv'
  BY <1>3, ArmInv DEF Arm
<1>4. ASSUME NEW n \in Nodes, Disarm(n) PROVE Inv'
  BY <1>4, ArmInv DEF Disarm
<1>5. ASSUME NEW n \in Nodes, DisarmUnarmed(n) PROVE Inv'
  <2>1. Unschedule(n) /\ UNCHANGED <<now, lastTick, canvas, runs, arms, writeQueue, armFile>>
    BY <1>5 DEF DisarmUnarmed
  <2>2. Typed'
    BY <2>1, UnscheduleKeeps DEF Inv, Typed, Records
  <2>3. QED
    BY <2>1, <2>2, UnscheduleKeeps, RunsKept DEF Inv, Typed
<1>6. ASSUME NEW r \in runs, NEW outcome \in {"delivered", "failed"}, Finish(r, outcome) PROVE Inv'
  BY <1>6, FinishInv
<1>7. CASE UNCHANGED vars
  <2>1. UNCHANGED <<now, lastTick, canvas, slots, runs, arms, writeQueue, armFile>>
    BY <1>7 DEF vars, memory
  <2>2. Typed'
    BY <2>1 DEF Inv, Typed, Records
  <2>3. QED
    BY <2>1, <2>2, RunsKept DEF Inv, Typed
<1>8. QED
  BY <1>1, <1>2, <1>3, <1>4, <1>5, <1>6, <1>7, TickInv, WriteInv, PassInv, RestartInv DEF Next

LEMMA Invariance == Spec => []Inv
BY InvInit, InvKept, PTL DEF Spec

\* The state keeps its shape, and the slot a run has captured shows it for as
\* long as it is the one in the map (trigger-scheduler.ts, TriggerSlot).
THEOREM TypeCorrect == Spec => []TypeOK
<1>1. Inv => TypeOK
  BY DEF Inv, Typed, Captured, Shown, TypeOK
<1>2. QED
  BY <1>1, Invariance, PTL

\* Two runs of a trigger that stays on the canvas are never under way together,
\* whatever edits, ticks and restarts happen while one delivers
\* (trigger-scheduler.ts, run).
THEOREM OneRun == Spec => []OneRunAtATime
<1>1. Inv => OneRunAtATime
  BY DEF Inv
<1>2. QED
  BY <1>1, Invariance, PTL

-----------------------------------------------------------------------------
(* Consent.                                                                  *)

\* One of the queued calls i .. k sets the record of n to x.
AskedFor(n, x, i, k) ==
  \E j \in i .. k : writeQueue[j].call.node = n /\ writeQueue[j].call.spec = x

\* From a call for n on, the records of n are those of that call or a later one.
Asked ==
  \A i \in DOMAIN writeQueue :
    LET n == writeQueue[i].call.node
    IN  /\ AskedFor(n, arms[n], i, Len(writeQueue))
        /\ \A k \in i .. Len(writeQueue) : AskedFor(n, writeQueue[k].records[n], i, k)

\* What is armed in memory, on disk or in a queued write has consent.
Allowed(records) == \A n \in Nodes : records[n] \in consented[n] \cup {None}

Consent ==
  /\ consented \in [Nodes -> SUBSET Specs]
  /\ Allowed(arms) /\ Allowed(armFile)
  /\ \A k \in DOMAIN writeQueue : Allowed(writeQueue[k].records)
  /\ Asked

LEMMA ConsentInit == Init => Consent
BY DEF Init, Consent, Allowed, Asked

LEMMA ConsentUntouched ==
  ASSUME Consent, UNCHANGED <<arms, armFile, writeQueue, consented>>
  PROVE  Consent'
BY DEF Consent, Allowed, Asked, AskedFor

\* A call for n joins the queue.
LEMMA ConsentQueued ==
  ASSUME Inv, Consent, NEW n \in Nodes, NEW spec \in Specs \cup {None},
         persist([node |-> n, spec |-> spec]), arms' = [arms EXCEPT ![n] = spec],
         UNCHANGED armFile, consented' \in [Nodes -> SUBSET Specs],
         \A m \in Nodes : consented[m] \subseteq consented'[m],
         spec \in consented'[n] \cup {None}
  PROVE  Consent'
<1> DEFINE Write == [records : Records, call : Call]
           last == Len(writeQueue) + 1
           new == [records |-> arms', call |-> [node |-> n, spec |-> spec]]
<1>1. /\ writeQueue \in Seq(Write) /\ new \in Write
      /\ arms \in Records /\ armFile \in Records
  BY DEF Inv, Typed, Records, Call
<1>2. /\ last \in Nat \ {0} /\ Len(writeQueue) = last - 1 /\ Len(writeQueue') = last
      /\ DOMAIN writeQueue = 1 .. (last - 1) /\ DOMAIN writeQueue' = 1 .. last
      /\ writeQueue'[last] = new /\ \A k \in 1 .. (last - 1) : writeQueue'[k] = writeQueue[k]
      /\ \A k \in 1 .. (last - 1) : writeQueue[k] \in Write
  <2> HIDE DEF Write
  <2>1. writeQueue' = Append(writeQueue, new)
    BY DEF persist
  <2> HIDE DEF new
  <2>2. QED
    BY <1>1, <2>1
<1>3. \A m \in Nodes : arms'[m] = IF m = n THEN spec ELSE arms[m]
  BY <1>1 DEF Records
<1>4. new.records = arms' /\ new.call.node = n /\ new.call.spec = spec
  OBVIOUS
<1> HIDE DEF last, new
<1>5. Allowed(arms)' /\ Allowed(armFile)'
  BY <1>3 DEF Consent, Allowed
<1>6. \A k \in DOMAIN writeQueue' : Allowed(writeQueue[k].records)'
  <2> SUFFICES ASSUME NEW k \in 1 .. last PROVE Allowed(writeQueue[k].records)'
    BY <1>2
  <2>1. CASE k = last
    BY <1>2, <1>4, <1>5, <2>1 DEF Allowed
  <2>2. CASE k # last
    <3>1. k \in 1 .. (last - 1)
      BY <1>2, <2>2
    <3>2. writeQueue'[k] = writeQueue[k] /\ Allowed(writeQueue[k].records)
      BY <1>2, <3>1 DEF Consent
    <3>3. QED
      BY <3>2 DEF Allowed
  <2>3. QED
    BY <2>1, <2>2
<1>7. Asked'
  <2> DEFINE asks(m, x, i, k) ==
               \E j \in i .. k : writeQueue'[j].call.node = m /\ writeQueue'[j].call.spec = x
  <2> SUFFICES ASSUME NEW i \in 1 .. last
               PROVE  LET m == writeQueue'[i].call.node
                      IN  /\ asks(m, arms'[m], i, last)
                          /\ \A k \in i .. last : asks(m, writeQueue'[k].records[m], i, k)
    BY <1>2 DEF Asked, AskedFor
  <2> DEFINE m == writeQueue'[i].call.node
  <2>1. m \in Nodes
    BY <1>1, <1>2 DEF Call
  <2>2. ASSUME NEW k \in i .. (last - 1), NEW x, AskedFor(m, x, i, k)
        PROVE  asks(m, x, i, k) /\ asks(m, x, i, last)
    <3>1. PICK j \in i .. k : writeQueue[j].call.node = m /\ writeQueue[j].call.spec = x
      BY <2>2 DEF AskedFor
    <3>2. j \in 1 .. (last - 1) /\ j \in i .. last
      BY <1>2
    <3>3. writeQueue'[j] = writeQueue[j]
      BY <1>2, <3>2
    <3>4. QED
      BY <3>1, <3>2, <3>3
  <2>3. asks(m, arms'[m], i, last)
    <3>1. CASE m = n
      <4>1. last \in i .. last
        BY <1>2
      <4>2. QED
        BY <1>2, <1>3, <1>4, <2>1, <3>1, <4>1
    <3>2. CASE m # n
      <4>1. i \in 1 .. (last - 1) /\ last - 1 \in i .. (last - 1)
        BY <1>2, <1>4, <3>2
      <4>2. AskedFor(m, arms[m], i, last - 1)
        BY <1>2, <4>1 DEF Consent, Asked
      <4>3. QED
        BY <1>3, <2>1, <2>2, <3>2, <4>1, <4>2
    <3>3. QED
      BY <3>1, <3>2
  <2>4. ASSUME NEW k \in i .. last PROVE asks(m, writeQueue'[k].records[m], i, k)
    <3>1. CASE k = last
      BY <1>2, <1>4, <2>3, <3>1
    <3>2. CASE k # last
      <4>1. i \in 1 .. (last - 1) /\ k \in i .. (last - 1) /\ k \in 1 .. (last - 1)
        BY <1>2, <3>2
      <4>2. AskedFor(m, writeQueue[k].records[m], i, k) /\ writeQueue'[k] = writeQueue[k]
        BY <1>2, <4>1 DEF Consent, Asked
      <4>3. QED
        BY <2>2, <4>1, <4>2
    <3>3. QED
      BY <3>1, <3>2
  <2>5. QED
    BY <2>3, <2>4
<1>8. QED
  BY <1>5, <1>6, <1>7 DEF Consent

\* The head leaves the queue, written or not.
LEMMA ConsentServed ==
  ASSUME Inv, Consent, WriteArms \/ WriteFails
  PROVE  Consent'
<1> DEFINE Write == [records : Records, call : Call]
           last == Len(writeQueue)
<1>1. writeQueue \in Seq(Write) /\ writeQueue # <<>> /\ writeQueue' = Tail(writeQueue)
      /\ UNCHANGED arms
  BY DEF Inv, Typed, WriteArms, WriteFails
<1>2. /\ last \in Nat \ {0} /\ Len(writeQueue) = last /\ Len(writeQueue') = last - 1
      /\ DOMAIN writeQueue = 1 .. last /\ DOMAIN writeQueue' = 1 .. (last - 1)
      /\ \A k \in 1 .. (last - 1) : writeQueue'[k] = writeQueue[k + 1]
      /\ \A k \in 1 .. last : writeQueue[k] \in Write
      /\ Head(writeQueue) = writeQueue[1]
  <2> HIDE DEF Write
  <2>1. QED
    BY <1>1
<1> HIDE DEF last
<1> DEFINE n == writeQueue[1].call.node
           spec == writeQueue[1].call.spec
<1>3. n \in Nodes /\ spec \in Specs \cup {None} /\ writeQueue[1].records \in Records
  BY <1>2 DEF Call
<1>4. Asked'
  <2> DEFINE asks(m, x, i, k) ==
               \E j \in i .. k : writeQueue'[j].call.node = m /\ writeQueue'[j].call.spec = x
  <2> SUFFICES ASSUME NEW i \in 1 .. (last - 1)
               PROVE  LET m == writeQueue'[i].call.node
                      IN  /\ asks(m, arms'[m], i, last - 1)
                          /\ \A k \in i .. (last - 1) : asks(m, writeQueue'[k].records[m], i, k)
    BY <1>2 DEF Asked, AskedFor
  <2> DEFINE m == writeQueue'[i].call.node
  <2>1. i + 1 \in 1 .. last /\ writeQueue[i + 1].call.node = m
    BY <1>2
  <2>2. /\ AskedFor(m, arms[m], i + 1, last)
        /\ \A k \in i + 1 .. last : AskedFor(m, writeQueue[k].records[m], i + 1, k)
    BY <1>2, <2>1 DEF Consent, Asked
  <2>3. ASSUME NEW k \in i .. (last - 1), NEW x, AskedFor(m, x, i + 1, k + 1) PROVE asks(m, x, i, k)
    <3>1. PICK j \in i + 1 .. k + 1 : writeQueue[j].call.node = m /\ writeQueue[j].call.spec = x
      BY <2>3 DEF AskedFor
    <3>2. j - 1 \in i .. k /\ j - 1 \in 1 .. (last - 1) /\ (j - 1) + 1 = j
      BY <1>2
    <3>3. writeQueue'[j - 1] = writeQueue[j]
      BY <1>2, <3>2
    <3>4. QED
      BY <3>1, <3>2, <3>3
  <2>4. asks(m, arms'[m], i, last - 1)
    <3>1. last - 1 \in i .. (last - 1) /\ (last - 1) + 1 = last
      BY <1>2
    <3>2. QED
      BY <1>1, <2>2, <2>3, <3>1
  <2>5. ASSUME NEW k \in i .. (last - 1) PROVE asks(m, writeQueue'[k].records[m], i, k)
    <3>1. k + 1 \in i + 1 .. last /\ k \in 1 .. (last - 1)
      BY <1>2
    <3>2. writeQueue'[k] = writeQueue[k + 1]
      BY <1>2, <3>1
    <3>3. QED
      BY <2>2, <2>3, <3>1, <3>2
  <2>6. QED
    BY <2>4, <2>5
<1>5. ASSUME WriteFails PROVE Consent'
  <2>1. UNCHANGED consented /\ armFile' \in {armFile, writeQueue[1].records}
    BY <1>2, <1>5 DEF WriteFails
  <2>2. ASSUME NEW k \in 1 .. (last - 1) PROVE Allowed(writeQueue[k].records)'
    <3>1. k + 1 \in 1 .. last /\ writeQueue'[k] = writeQueue[k + 1]
      BY <1>2
    <3>2. Allowed(writeQueue[k + 1].records)
      BY <1>2, <3>1 DEF Consent
    <3>3. QED
      BY <2>1, <3>1, <3>2 DEF Allowed
  <2>3. Allowed(armFile)'
    <3>1. Allowed(armFile) /\ Allowed(writeQueue[1].records)
      BY <1>2 DEF Consent
    <3>2. QED
      BY <2>1, <3>1 DEF Allowed
  <2>4. QED
    BY <1>1, <1>2, <1>4, <2>1, <2>2, <2>3 DEF Consent, Allowed
<1>6. ASSUME WriteArms PROVE Consent'
  <2>1. /\ armFile' = writeQueue[1].records
        /\ consented' = [consented EXCEPT ![n] = StillAsked(n) \cup ({spec} \ {None})]
    BY <1>2, <1>6 DEF WriteArms
  <2> HIDE DEF n, spec
  <2>2. consented \in [Nodes -> SUBSET Specs]
    BY DEF Consent
  <2>3. StillAsked(n) \subseteq Specs
    <3>1. \A k \in 2 .. last : writeQueue[k].call.spec \in Specs \cup {None}
      BY <1>2 DEF Call
    <3>2. QED
      BY <3>1 DEF StillAsked, last
  <2>4. /\ consented' \in [Nodes -> SUBSET Specs]
        /\ \A m \in Nodes : consented'[m] = IF m = n THEN StillAsked(n) \cup ({spec} \ {None})
                                            ELSE consented[m]
    BY <1>3, <2>1, <2>2, <2>3
  <2>5. ASSUME NEW k \in 1 .. last, NEW x, AskedFor(n, x, 1, k)
        PROVE  x \in consented'[n] \cup {None}
    <3>1. PICK j \in 1 .. k : writeQueue[j].call.node = n /\ writeQueue[j].call.spec = x
      BY <2>5 DEF AskedFor
    <3>2. CASE j = 1
      BY <1>3, <2>4, <3>1, <3>2 DEF spec
    <3>3. CASE j # 1
      <4>1. j \in 2 .. Len(writeQueue)
        BY <1>2, <3>3 DEF last
      <4>2. x = None \/ x \in StillAsked(n)
        BY <3>1, <4>1 DEF StillAsked
      <4>3. QED
        BY <1>3, <2>4, <4>2
    <3>4. QED
      BY <3>2, <3>3
  <2>6. /\ AskedFor(n, arms[n], 1, last)
        /\ \A k \in 1 .. last : AskedFor(n, writeQueue[k].records[n], 1, k)
    BY <1>2 DEF Consent, Asked, n, last
  <2>7. Allowed(arms)'
    <3> SUFFICES ASSUME NEW m \in Nodes PROVE arms[m] \in consented'[m] \cup {None}
      BY <1>1 DEF Allowed
    <3>1. last \in 1 .. last
      BY <1>2
    <3>2. CASE m = n
      BY <2>5, <2>6, <3>1, <3>2
    <3>3. CASE m # n
      BY <2>4, <3>3 DEF Consent, Allowed
    <3>4. QED
      BY <3>2, <3>3
  <2>8. ASSUME NEW k \in 1 .. last, NEW m \in Nodes
        PROVE  writeQueue[k].records[m] \in consented'[m] \cup {None}
    <3>1. CASE m = n
      BY <2>5, <2>6, <3>1
    <3>2. CASE m # n
      BY <1>2, <2>4, <3>2 DEF Consent, Allowed
    <3>3. QED
      BY <3>1, <3>2
  <2>9. Allowed(armFile)'
    <3>1. 1 \in 1 .. last
      BY <1>2
    <3>2. QED
      BY <2>1, <2>8, <3>1 DEF Allowed
  <2>10. ASSUME NEW k \in 1 .. (last - 1) PROVE Allowed(writeQueue[k].records)'
    <3>1. k + 1 \in 1 .. last /\ writeQueue'[k] = writeQueue[k + 1]
      BY <1>2
    <3>2. QED
      BY <2>8, <3>1 DEF Allowed
  <2>11. QED
    BY <1>2, <1>4, <2>4, <2>7, <2>9, <2>10 DEF Consent
<1>7. QED
  BY <1>5, <1>6

LEMMA ConsentKept == Inv /\ Consent /\ [Next]_vars => Consent'
<1> SUFFICES ASSUME Inv, Consent, [Next]_vars PROVE Consent'
  OBVIOUS
<1>1. ASSUME NEW n \in Nodes, NEW spec \in Specs \cup {None}, SaveCanvas(n, spec) PROVE Consent'
  BY <1>1, ConsentUntouched DEF SaveCanvas, ghosts
<1>2. ASSUME NEW n \in Nodes, RunNow(n) PROVE Consent'
  BY <1>2, ConsentUntouched DEF RunNow, ghosts
<1>3. ASSUME NEW n \in Nodes, NEW spec \in Specs, Arm(n, spec) PROVE Consent'
  <2>1. consented' = [consented EXCEPT ![n] = @ \cup {spec}]
        /\ persist([node |-> n, spec |-> spec]) /\ arms' = [arms EXCEPT ![n] = spec] /\ UNCHANGED armFile
    BY <1>3 DEF Arm
  <2>2. /\ consented' \in [Nodes -> SUBSET Specs] /\ spec \in consented'[n]
        /\ \A m \in Nodes : consented[m] \subseteq consented'[m]
    BY <2>1 DEF Consent
  <2>3. QED
    BY <2>1, <2>2, ConsentQueued
<1>4. ASSUME NEW n \in Nodes, Disarm(n) PROVE Consent'
  <2>1. /\ consented' = consented /\ persist([node |-> n, spec |-> None])
        /\ arms' = [arms EXCEPT ![n] = None] /\ UNCHANGED armFile
    BY <1>4 DEF Disarm, ghosts
  <2>2. consented' \in [Nodes -> SUBSET Specs]
    BY <2>1 DEF Consent
  <2>3. QED
    BY <2>1, <2>2, ConsentQueued
<1>5. ASSUME NEW n \in Nodes, DisarmUnarmed(n) PROVE Consent'
  BY <1>5, ConsentUntouched DEF DisarmUnarmed, ghosts
<1>6. ASSUME NEW r \in runs, NEW outcome, Finish(r, outcome) PROVE Consent'
  BY <1>6, ConsentUntouched DEF Finish, ghosts
<1>7. CASE Tick \/ Pass \/ UNCHANGED vars
  BY <1>7, ConsentUntouched DEF Tick, Pass, vars, memory, ghosts
<1>8. CASE Restart
  BY <1>8 DEF Restart, ghosts, Consent, Allowed, Asked
<1>9. QED
  BY <1>1, <1>2, <1>3, <1>4, <1>5, <1>6, <1>7, <1>8, ConsentServed DEF Next

\* A tick starts a run of what is armed.
LEMMA TickFires ==
  ASSUME Inv, Consent, Tick, NEW r \in ScheduledRuns
  PROVE  r.spec \in consented[r.node]
<1> DEFINE due == {n \in Nodes : Due(n)}
           attempted == due \ {n \in due : Missed(n)}
<1>1. PICK found \in SUBSET attempted :
        LET started == {n \in attempted : Verdict(n, FALSE, n \in found) = "started"}
        IN  \E id \in [started -> FreeIds] :
              runs' = runs \cup {NewRun(id[n], n, FALSE) : n \in started}
  BY DEF Tick
<1> DEFINE started == {n \in attempted : Verdict(n, FALSE, n \in found) = "started"}
<1>2. PICK id \in [started -> FreeIds] : runs' = runs \cup {NewRun(id[n], n, FALSE) : n \in started}
  BY <1>1
<1>3. r \in runs' /\ r \notin runs
  BY DEF ScheduledRuns
<1>4. PICK n \in started : r = NewRun(id[n], n, FALSE)
  BY <1>2, <1>3
<1>5. r.node = n /\ r.spec = slots[n].spec
  BY <1>4 DEF NewRun
<1>6. n \in Nodes /\ arms[n] = slots[n].spec /\ slots[n] # None
  BY DEF Verdict, isArmed
<1>7. slots[n].spec \in Specs
  BY <1>6 DEF Inv, Typed, Slot
<1>8. QED
  BY <1>5, <1>6, <1>7, TriggerAssumption DEF Consent, Allowed

LEMMA OnlyTickFires ==
  ASSUME Inv, [Next]_vars, ~ Tick, NEW r \in ScheduledRuns
  PROVE  FALSE
<1>1. /\ r \in runs' /\ ~ r.manual /\ \A q \in runs : r.id # q.id
  BY DEF ScheduledRuns
<1>2. CASE runs' \subseteq runs
  BY <1>1, <1>2
<1>3. ASSUME NEW n \in Nodes, NEW spec \in Specs \cup {None}, SaveCanvas(n, spec) PROVE FALSE
  <2>1. PICK q \in runs : r = [q EXCEPT !.held = @ /\ SameSlot(q.node, canvas'),
                                        !.removed = @ \/ canvas'[q.node] = None]
    BY <1>1, <1>3 DEF SaveCanvas, updateProject
  <2>2. q \in Run
    BY DEF Inv, Typed
  <2>3. r.id = q.id
    BY <2>1, <2>2 DEF Run
  <2>4. QED
    BY <1>1, <2>3
<1>4. ASSUME NEW n \in Nodes, RunNow(n) PROVE FALSE
  <2>1. PICK id \in FreeIds : runs' = runs \cup {NewRun(id, n, TRUE)} \/ runs' = runs
    BY <1>4 DEF RunNow
  <2>2. r = NewRun(id, n, TRUE)
    BY <1>1, <2>1
  <2>3. QED
    BY <1>1, <2>2 DEF NewRun
<1>5. QED
  <2>1. \A n \in Nodes : (\E spec \in Specs : Arm(n, spec)) \/ Disarm(n) \/ DisarmUnarmed(n)
          => runs' \subseteq runs
    BY DEF Arm, Disarm, DisarmUnarmed
  <2>2. \A q \in runs : \A outcome : Finish(q, outcome) => runs' \subseteq runs
    BY DEF Finish
  <2>3. WriteArms \/ WriteFails \/ Pass \/ Restart \/ UNCHANGED vars => runs' \subseteq runs
    BY DEF WriteArms, WriteFails, Pass, Restart, vars, memory
  <2>4. QED
    BY <1>2, <1>3, <1>4, <2>1, <2>2, <2>3 DEF Next

\* What fires on schedule has the user's consent, also while arms and disarms are
\* queued, after a write failed and after a restart from an older arm file
\* (trigger-scheduler.ts, run; trigger-arm-store.ts, persist).
THEOREM OnlyArmedFires == Spec => FiresWithConsent
<1> DEFINE Fires == \A r \in ScheduledRuns : r.spec \in consented[r.node]
<1>1. Inv /\ Consent /\ [Next]_vars => Fires
  BY TickFires, OnlyTickFires
<1>2. Spec => [][Fires]_vars
  BY <1>1, Invariance, ConsentInit, ConsentKept, PTL DEF Spec
<1>3. QED
  BY <1>2 DEF FiresWithConsent

-----------------------------------------------------------------------------
(* An armed recurring trigger is scheduled.                                  *)

\* Within the bound of the clock a recurring definition always has a next
\* occurrence: nextTriggerOccurrence looks a whole year ahead.
RecurringOccurs ==
  \A s \in Specs : ~ OneShot(s) =>
    \A t \in 0 .. MaxNow : NextOccurrence(s.schedule, t) # None

\* The last queued call of a node asked for the record it has in memory.
LastCall ==
  \A i \in DOMAIN writeQueue :
    (\A j \in i + 1 .. Len(writeQueue) : writeQueue[j].call.node # writeQueue[i].call.node)
      => writeQueue[i].call.spec = arms[writeQueue[i].call.node]

Awaited(n) == \E i \in DOMAIN writeQueue : writeQueue[i].call.node = n

Timely(n) ==
  slots[n] # None /\ isArmed(arms, n, slots[n].spec) /\ ~ OneShot(slots[n].spec)
    => slots[n].next # None

\* A trigger whose calls have all been answered, the last one without an error,
\* is scheduled.
Ready == \A n \in Nodes \ refused : ~ Awaited(n) => Timely(n)

LEMMA ScheduledOccurs ==
  ASSUME RecurringOccurs, NEW spec \in Specs, ~ OneShot(spec),
         NEW t \in Nat, t >= Minute, t <= MaxNow
  PROVE  NextOccurrence(spec.schedule, t) # None
         /\ NextOccurrence(spec.schedule, t - Minute) # None
<1>1. t \in 0 .. MaxNow /\ t - Minute \in 0 .. MaxNow
  BY TriggerAssumption
<1>2. QED
  BY <1>1 DEF RecurringOccurs

\* Steps that make no call and answer none.
LEMMA ReadyKept ==
  ASSUME LastCall, Ready, UNCHANGED <<arms, writeQueue, refused>>,
         \A n \in Nodes : Timely(n) => Timely(n)'
  PROVE  LastCall' /\ Ready'
<1>1. LastCall'
  BY DEF LastCall
<1>2. \A n \in Nodes : Awaited(n)' <=> Awaited(n)
  BY DEF Awaited
<1>3. QED
  BY <1>1, <1>2 DEF Ready

LEMMA SaveReady ==
  ASSUME Inv, RecurringOccurs, LastCall, Ready,
         NEW m \in Nodes, NEW spec \in Specs \cup {None}, SaveCanvas(m, spec)
  PROVE  LastCall' /\ Ready'
<1> DEFINE nodes == canvas'
<1>1. nodes \in Records /\ UNCHANGED <<now, arms, writeQueue, refused>>
  BY DEF SaveCanvas, Inv, Typed, Records, ghosts
<1>2. \A n \in Nodes : slots'[n] = IF nodes[n] = None THEN None
                                   ELSE IF SameSlot(n, nodes) THEN KeptSlot(n)
                                   ELSE NewSlot(n, nodes[n])
  BY DEF SaveCanvas, updateProject
<1> HIDE DEF nodes
<1>3. now \in Nat /\ now >= Minute /\ now <= MaxNow
  BY DEF Inv, Typed
<1>4. ASSUME NEW n \in Nodes, NEW s \in Specs, isArmed(arms, n, s), ~ OneShot(s)
      PROVE  Scheduled(arms, n, s) # None
  BY <1>3, <1>4, ScheduledOccurs DEF Scheduled
<1>5. ASSUME NEW n \in Nodes PROVE Timely(n)'
  <2> SUFFICES ASSUME slots'[n] # None, isArmed(arms, n, slots'[n].spec), ~ OneShot(slots'[n].spec)
               PROVE  slots'[n].next # None
    BY <1>1 DEF Timely, isArmed, OneShot
  <2>1. nodes[n] \in Specs
    BY <1>1, <1>2 DEF Records
  <2>2. CASE SameSlot(n, nodes)
    <3>1. slots[n] \in Slot /\ slots'[n] = KeptSlot(n)
      BY <1>2, <2>1, <2>2, TriggerAssumption DEF SameSlot, Inv, Typed
    <3>2. CASE slots[n].next # None
      BY <3>1, <3>2 DEF KeptSlot
    <3>3. CASE slots[n].next = None
      <4>1. slots'[n] = [slots[n] EXCEPT !.next = Scheduled(arms, n, slots[n].spec)]
        BY <3>1, <3>3 DEF KeptSlot
      <4>2. slots'[n].next = Scheduled(arms, n, slots[n].spec) /\ slots'[n].spec = slots[n].spec
        BY <3>1, <4>1 DEF Slot
      <4>3. slots[n].spec \in Specs
        BY <3>1 DEF Slot
      <4>4. QED
        BY <1>4, <4>2, <4>3
    <3>4. QED
      BY <3>2, <3>3
  <2>3. CASE ~ SameSlot(n, nodes)
    <3>1. slots'[n] = NewSlot(n, nodes[n])
      BY <1>2, <2>1, <2>3, TriggerAssumption
    <3>2. slots'[n].next = Scheduled(arms, n, nodes[n]) /\ slots'[n].spec = nodes[n]
      BY <3>1 DEF NewSlot
    <3>3. QED
      BY <1>4, <2>1, <3>2
  <2>4. QED
    BY <2>2, <2>3
<1>6. QED
  BY <1>1, <1>5, ReadyKept

\* The clock plays no part in what makes a slot timely.
LEMMA SlotTimely ==
  ASSUME NEW n, UNCHANGED arms, slots[n] # None, slots'[n].spec = slots[n].spec,
         slots'[n].next = slots[n].next, Timely(n)
  PROVE  Timely(n)'
BY DEF Timely, isArmed, OneShot

LEMMA RunReady ==
  ASSUME Inv, LastCall, Ready, NEW m \in Nodes, NEW flag \in BOOLEAN,
         UNCHANGED slots \/ (slots[m] # None /\ slots' = [slots EXCEPT ![m].inFlight = flag]),
         UNCHANGED <<arms, writeQueue, refused>>
  PROVE  LastCall' /\ Ready'
<1>1. ASSUME NEW n \in Nodes, Timely(n) PROVE Timely(n)'
  <2>1. CASE slots'[n] = slots[n]
    BY <1>1, <2>1 DEF Timely, isArmed, OneShot
  <2>2. CASE slots'[n] # slots[n]
    <3>1. n = m /\ slots'[n] = [slots[n] EXCEPT !.inFlight = flag]
      BY <2>2 DEF Inv, Typed
    <3>2. slots[n] \in Slot /\ slots[n] # None
      BY <2>2, <3>1 DEF Inv, Typed
    <3>3. slots'[n].spec = slots[n].spec /\ slots'[n].next = slots[n].next
      BY <3>1, <3>2 DEF Slot
    <3>4. QED
      BY <1>1, <3>2, <3>3, SlotTimely
  <2>3. QED
    BY <2>1, <2>2
<1>2. QED
  BY <1>1, ReadyKept

LEMMA TickReady ==
  ASSUME Inv, RecurringOccurs, LastCall, Ready, Tick
  PROVE  LastCall' /\ Ready'
<1> DEFINE due == {n \in Nodes : Due(n)}
           after(n) == IF OneShot(slots[n].spec) THEN None
                       ELSE NextOccurrence(slots[n].spec.schedule, now)
<1>1. PICK started \in SUBSET Nodes :
        slots' = [n \in Nodes |->
          IF n \in due
          THEN [slots[n] EXCEPT !.next = after(n), !.inFlight = @ \/ n \in started]
          ELSE slots[n]]
  BY DEF Tick
<1>2. UNCHANGED <<now, arms, writeQueue, refused>>
  BY DEF Tick, ghosts
<1>3. \A n \in Nodes : slots'[n] = IF n \in due
                                   THEN [slots[n] EXCEPT !.next = after(n),
                                                         !.inFlight = @ \/ n \in started]
                                   ELSE slots[n]
  BY <1>1
<1>4. now \in Nat /\ now >= Minute /\ now <= MaxNow
  BY DEF Inv, Typed
<1>5. \A n \in due : slots[n] # None /\ slots[n] \in Slot /\ slots[n].spec \in Specs
  BY DEF Due, Inv, Typed, Slot
<1>6. \A n \in due : ~ OneShot(slots[n].spec) => after(n) # None
  BY <1>4, <1>5, ScheduledOccurs
<1> HIDE DEF due, after
<1>7. ASSUME NEW n \in Nodes, Timely(n) PROVE Timely(n)'
  <2>1. CASE n \notin due
    <3>1. slots'[n] = slots[n]
      BY <1>3, <2>1
    <3>2. QED
      BY <1>2, <1>7, <3>1 DEF Timely, isArmed, OneShot
  <2>2. CASE n \in due
    <3>1. slots'[n].next = after(n) /\ slots'[n].spec = slots[n].spec
      BY <1>3, <1>5, <2>2 DEF Slot
    <3>2. QED
      BY <1>6, <2>2, <3>1 DEF Timely, OneShot
  <2>3. QED
    BY <2>1, <2>2
<1>8. QED
  BY <1>2, <1>7, ReadyKept

LEMMA CallsTyped ==
  ASSUME Inv
  PROVE  /\ Len(writeQueue) \in Nat /\ DOMAIN writeQueue = 1 .. Len(writeQueue)
         /\ \A k \in DOMAIN writeQueue :
              writeQueue[k].call.node \in Nodes /\ writeQueue[k].call.spec \in Specs \cup {None}
<1> DEFINE Write == [records : Records, call : Call]
<1>1. writeQueue \in Seq(Write)
  BY DEF Inv, Typed
<1>2. \A w \in Write : w.call.node \in Nodes /\ w.call.spec \in Specs \cup {None}
  BY DEF Call
<1> HIDE DEF Write
<1>3. QED
  BY <1>1, <1>2

\* What the queue holds after a call joins it.
LEMMA Queued ==
  ASSUME Inv, NEW n \in Nodes, NEW spec \in Specs \cup {None}, persist([node |-> n, spec |-> spec]),
         arms' = [arms EXCEPT ![n] = spec], UNCHANGED <<slots, refused>>
  PROVE  LET last == Len(writeQueue) + 1
         IN  /\ last \in Nat \ {0} /\ Len(writeQueue) = last - 1 /\ Len(writeQueue') = last
             /\ DOMAIN writeQueue = 1 .. (last - 1) /\ DOMAIN writeQueue' = 1 .. last
             /\ writeQueue'[last].call.node = n /\ writeQueue'[last].call.spec = spec
             /\ \A k \in 1 .. (last - 1) : writeQueue'[k] = writeQueue[k]
             /\ \A m \in Nodes : arms'[m] = IF m = n THEN spec ELSE arms[m]
<1> DEFINE Write == [records : Records, call : Call]
           new == [records |-> arms', call |-> [node |-> n, spec |-> spec]]
<1>1. writeQueue \in Seq(Write) /\ new \in Write /\ arms \in Records
  BY DEF Inv, Typed, Records, Call
<1>2. new.call.node = n /\ new.call.spec = spec /\ writeQueue' = Append(writeQueue, new)
  BY DEF persist
<1>3. \A m \in Nodes : arms'[m] = IF m = n THEN spec ELSE arms[m]
  BY <1>1 DEF Records
<1> HIDE DEF Write, new
<1>4. QED
  BY <1>1, <1>2, <1>3

LEMMA QueuedReady ==
  ASSUME Inv, LastCall, Ready, NEW n \in Nodes, NEW spec \in Specs \cup {None},
         persist([node |-> n, spec |-> spec]), arms' = [arms EXCEPT ![n] = spec],
         UNCHANGED <<slots, refused>>
  PROVE  LastCall' /\ Ready'
<1> DEFINE last == Len(writeQueue) + 1
<1>1. /\ last \in Nat \ {0} /\ Len(writeQueue) = last - 1 /\ Len(writeQueue') = last
      /\ DOMAIN writeQueue = 1 .. (last - 1) /\ DOMAIN writeQueue' = 1 .. last
      /\ writeQueue'[last].call.node = n /\ writeQueue'[last].call.spec = spec
      /\ \A k \in 1 .. (last - 1) : writeQueue'[k] = writeQueue[k]
      /\ \A m \in Nodes : arms'[m] = IF m = n THEN spec ELSE arms[m]
  BY Queued
<1> HIDE DEF last
<1>2. \A k \in 1 .. (last - 1) : writeQueue[k].call.node \in Nodes
  BY <1>1, CallsTyped
<1>3. LastCall'
  <2> SUFFICES ASSUME NEW i \in 1 .. last,
                      \A j \in i + 1 .. last : writeQueue'[j].call.node # writeQueue'[i].call.node
               PROVE  writeQueue'[i].call.spec = arms'[writeQueue'[i].call.node]
    BY <1>1 DEF LastCall
  <2>1. CASE i = last
    BY <1>1, <2>1
  <2>2. CASE i # last
    <3>1. i \in 1 .. (last - 1) /\ last \in i + 1 .. last
      BY <1>1, <2>2
    <3>2. writeQueue'[i] = writeQueue[i] /\ writeQueue[i].call.node # n
      BY <1>1, <3>1
    <3>3. \A j \in i + 1 .. last - 1 : writeQueue[j].call.node # writeQueue[i].call.node
      <4> SUFFICES ASSUME NEW j \in i + 1 .. last - 1
                   PROVE  writeQueue[j].call.node # writeQueue[i].call.node
        OBVIOUS
      <4>1. j \in 1 .. last - 1 /\ j \in i + 1 .. last
        BY <1>1, <3>1
      <4>2. QED
        BY <1>1, <3>2, <4>1
    <3>4. writeQueue[i].call.spec = arms[writeQueue[i].call.node]
      BY <1>1, <3>1, <3>3 DEF LastCall
    <3>5. QED
      BY <1>1, <1>2, <3>1, <3>2, <3>4
  <2>3. QED
    BY <2>1, <2>2
<1>4. Ready'
  <2> SUFFICES ASSUME NEW m \in Nodes \ refused, ~ Awaited(m)' PROVE Timely(m)'
    BY DEF Ready
  <2>1. m # n
    BY <1>1 DEF Awaited
  <2>2. ~ Awaited(m)
    <3> SUFFICES ASSUME NEW i \in 1 .. (last - 1), writeQueue[i].call.node = m PROVE FALSE
      BY <1>1 DEF Awaited
    <3>1. i \in 1 .. last /\ writeQueue'[i].call.node = m
      BY <1>1
    <3>2. QED
      BY <1>1, <3>1 DEF Awaited
  <2>3. Timely(m) /\ arms'[m] = arms[m]
    BY <1>1, <2>1, <2>2 DEF Ready
  <2>4. QED
    BY <2>3 DEF Timely, isArmed, OneShot
<1>5. QED
  BY <1>3, <1>4

\* The head leaves the queue.
LEMMA LastCallServed ==
  ASSUME Inv, LastCall, writeQueue # <<>>, writeQueue' = Tail(writeQueue), UNCHANGED arms
  PROVE  LET head == Head(writeQueue).call
         IN  /\ LastCall' /\ head.node \in Nodes /\ head.spec \in Specs \cup {None}
             /\ \A m \in Nodes : m = head.node /\ ~ Awaited(m)' => head.spec = arms[m]
             /\ \A m \in Nodes : Awaited(m) /\ m # head.node => Awaited(m)'
<1> DEFINE last == Len(writeQueue)
<1>1. /\ last \in Nat /\ DOMAIN writeQueue = 1 .. last
      /\ \A k \in 1 .. last : writeQueue[k].call.node \in Nodes
                              /\ writeQueue[k].call.spec \in Specs \cup {None}
  BY CallsTyped
<1>2. /\ last \in Nat \ {0} /\ Head(writeQueue) = writeQueue[1] /\ Len(writeQueue') = last - 1
      /\ DOMAIN writeQueue' = 1 .. (last - 1)
      /\ \A k \in 1 .. (last - 1) : writeQueue'[k] = writeQueue[k + 1]
  <2> DEFINE Write == [records : Records, call : Call]
  <2>1. writeQueue \in Seq(Write)
    BY DEF Inv, Typed
  <2> HIDE DEF Write
  <2>2. QED
    BY <2>1
<1>3. 1 \in 1 .. last
  BY <1>2
<1>4. \A i \in 1 .. last :
        (\A j \in i + 1 .. last : writeQueue[j].call.node # writeQueue[i].call.node)
          => writeQueue[i].call.spec = arms[writeQueue[i].call.node]
  BY <1>1 DEF LastCall
<1> HIDE DEF last
<1>5. LastCall'
  <2> SUFFICES ASSUME NEW i \in 1 .. (last - 1),
                      \A j \in i + 1 .. (last - 1) : writeQueue'[j].call.node # writeQueue'[i].call.node
               PROVE  writeQueue'[i].call.spec = arms[writeQueue'[i].call.node]
    BY <1>2 DEF LastCall
  <2>1. i + 1 \in 1 .. last /\ writeQueue'[i] = writeQueue[i + 1]
    BY <1>2
  <2>2. ASSUME NEW j \in (i + 1) + 1 .. last
        PROVE  writeQueue[j].call.node # writeQueue[i + 1].call.node
    <3>1. j - 1 \in i + 1 .. (last - 1) /\ j - 1 \in 1 .. (last - 1) /\ (j - 1) + 1 = j
      BY <1>2
    <3>2. writeQueue'[j - 1] = writeQueue[j]
      BY <1>2, <3>1
    <3>3. QED
      BY <2>1, <3>1, <3>2
  <2>3. QED
    BY <1>4, <2>1, <2>2
<1>6. ASSUME NEW m \in Nodes, NEW k \in 2 .. last, writeQueue[k].call.node = m PROVE Awaited(m)'
  <2>1. k - 1 \in 1 .. (last - 1) /\ (k - 1) + 1 = k
    BY <1>2
  <2>2. writeQueue'[k - 1].call.node = m
    BY <1>2, <1>6, <2>1
  <2>3. QED
    BY <1>2, <2>1, <2>2 DEF Awaited
<1> DEFINE head == Head(writeQueue).call
<1>7. head = writeQueue[1].call /\ head.node \in Nodes /\ head.spec \in Specs \cup {None}
  BY <1>1, <1>2, <1>3
<1>8. ASSUME NEW m \in Nodes, m = head.node, ~ Awaited(m)' PROVE head.spec = arms[m]
  <2>1. \A j \in 2 .. last : writeQueue[j].call.node # writeQueue[1].call.node
    BY <1>6, <1>7, <1>8
  <2>2. QED
    BY <1>3, <1>4, <1>7, <1>8, <2>1
<1>9. ASSUME NEW m \in Nodes, Awaited(m), m # head.node PROVE Awaited(m)'
  <2>1. PICK k \in 1 .. last : writeQueue[k].call.node = m
    BY <1>1, <1>9 DEF Awaited
  <2>2. k \in 2 .. last
    BY <1>2, <1>7, <1>9, <2>1
  <2>3. QED
    BY <1>6, <2>1, <2>2
<1> HIDE DEF head
<1>10. \A m \in Nodes : m = head.node /\ ~ Awaited(m)' => head.spec = arms[m]
  BY <1>8
<1>11. QED
  BY <1>5, <1>7, <1>9, <1>10 DEF head

LEMMA WriteReady ==
  ASSUME Inv, RecurringOccurs, LastCall, Ready, WriteArms \/ WriteFails
  PROVE  LastCall' /\ Ready'
<1> DEFINE head == Head(writeQueue).call
<1>1. writeQueue # <<>> /\ writeQueue' = Tail(writeQueue) /\ UNCHANGED <<now, arms>>
  BY DEF WriteArms, WriteFails
<1>2. /\ LastCall' /\ head.node \in Nodes /\ head.spec \in Specs \cup {None}
      /\ \A m \in Nodes : m = head.node /\ ~ Awaited(m)' => head.spec = arms[m]
      /\ \A m \in Nodes : Awaited(m) /\ m # head.node => Awaited(m)'
  BY <1>1, LastCallServed
<1>3. now \in Nat /\ now >= Minute /\ now <= MaxNow /\ slots \in [Nodes -> {None} \cup Slot]
  BY DEF Inv, Typed
<1>4. CASE WriteFails
  <2>1. refused' = refused \cup {head.node} /\ UNCHANGED slots
    BY <1>4 DEF WriteFails
  <2> HIDE DEF head
  <2> SUFFICES ASSUME NEW m \in Nodes \ refused', ~ Awaited(m)' PROVE Timely(m)'
    BY <1>2 DEF Ready
  <2>2. m \notin refused /\ m # head.node
    BY <2>1
  <2>3. Timely(m)
    BY <1>2, <2>2 DEF Ready
  <2>4. QED
    BY <1>1, <2>1, <2>3 DEF Timely, isArmed, OneShot
<1>5. CASE WriteArms
  <2> DEFINE n == head.node
             spec == head.spec
  <2>1. /\ refused' = refused \ {n}
        /\ IF spec = None THEN Unschedule(n)
           ELSE slots' = IF slots[n] = None THEN slots
                         ELSE [slots EXCEPT ![n].next = Rescheduled(spec)]
    BY <1>5 DEF WriteArms
  <2> HIDE DEF head
  <2>2. n \in Nodes /\ spec \in Specs \cup {None}
    BY <1>2
  <2> HIDE DEF n, spec
  <2>3. \A m \in Nodes : m # n => slots'[m] = slots[m]
    BY <1>3, <2>1, <2>2 DEF Unschedule
  <2> SUFFICES ASSUME NEW m \in Nodes \ refused', ~ Awaited(m)' PROVE Timely(m)'
    BY <1>2 DEF Ready
  <2>4. CASE m # n
    <3>1. m \notin refused /\ ~ Awaited(m)
      BY <1>2, <2>1, <2>4 DEF n
    <3>2. Timely(m) /\ slots'[m] = slots[m]
      BY <2>3, <2>4, <3>1 DEF Ready
    <3>3. QED
      BY <1>1, <3>2 DEF Timely, isArmed, OneShot
  <2>5. CASE m = n
    <3>1. spec = arms[m]
      BY <1>2, <2>5 DEF n, spec
    <3> SUFFICES ASSUME slots'[m] # None, isArmed(arms, m, slots'[m].spec), ~ OneShot(slots'[m].spec)
                 PROVE  slots'[m].next # None
      BY <1>1 DEF Timely, isArmed, OneShot
    <3>2. slots[m] # None
      BY <1>3, <2>1, <2>2, <2>5 DEF Unschedule
    <3>3. slots[m] \in Slot
      BY <1>3, <3>2
    <3>4. CASE spec = None
      <4>1. slots' = [slots EXCEPT ![n] = [slots[n] EXCEPT !.next = None]]
        BY <2>1, <2>5, <3>2, <3>4 DEF Unschedule
      <4>2. slots'[m].spec = slots[m].spec
        BY <1>3, <2>2, <2>5, <3>3, <4>1 DEF Slot
      <4>3. slots[m].spec # None
        BY <3>3, TriggerAssumption DEF Slot
      <4>4. QED
        BY <3>1, <3>4, <4>2, <4>3 DEF isArmed
    <3>5. CASE spec # None
      <4>1. slots' = [slots EXCEPT ![n] = [slots[n] EXCEPT !.next = Rescheduled(spec)]]
        BY <2>1, <2>5, <3>2, <3>5
      <4>2. slots'[m] = [slots[m] EXCEPT !.next = Rescheduled(spec)]
        BY <1>3, <2>2, <2>5, <4>1
      <4>3. slots'[m].next = Rescheduled(spec)
        BY <3>3, <4>2 DEF Slot
      <4>4. spec \in Specs /\ ~ OneShot(spec)
        BY <2>2, <3>1, <3>5 DEF isArmed
      <4>5. Rescheduled(spec) # None
        BY <1>3, <4>4, ScheduledOccurs DEF Rescheduled
      <4>6. QED
        BY <4>3, <4>5
    <3>6. QED
      BY <3>4, <3>5
  <2>6. QED
    BY <2>4, <2>5
<1>6. QED
  BY <1>4, <1>5

LEMMA RestartReady ==
  ASSUME Inv, RecurringOccurs, Restart
  PROVE  LastCall' /\ Ready'
<1>1. /\ now' = now + 1 /\ now < MaxNow /\ arms' = armFile /\ writeQueue' = <<>>
      /\ slots' = [n \in Nodes |-> BootSlot(n)] /\ canvas \in Records
  BY DEF Restart, Inv, Typed
<1>2. now' - Minute \in 0 .. MaxNow
  <2>1. now \in Nat /\ now >= Minute /\ MaxNow \in Nat /\ Minute \in Nat
    BY TriggerAssumption DEF Inv, Typed
  <2>2. QED
    BY <1>1, <2>1
<1>3. LastCall'
  BY <1>1 DEF LastCall
<1>4. ASSUME NEW n \in Nodes PROVE Timely(n)'
  <2> SUFFICES ASSUME slots'[n] # None, isArmed(armFile, n, slots'[n].spec), ~ OneShot(slots'[n].spec)
               PROVE  slots'[n].next # None
    BY <1>1 DEF Timely, isArmed, OneShot
  <2>1. slots'[n] = BootSlot(n)
    BY <1>1
  <2>2. canvas[n] \in Specs /\ slots'[n].spec = canvas[n]
        /\ slots'[n].next = IF isArmed(armFile, n, canvas[n])
                            THEN NextOccurrence(canvas[n].schedule, now' - Minute) ELSE None
    BY <1>1, <2>1 DEF BootSlot, Records
  <2>3. ~ OneShot(canvas[n])
    BY <2>2
  <2>4. NextOccurrence(canvas[n].schedule, now' - Minute) # None
    BY <1>2, <2>2, <2>3 DEF RecurringOccurs
  <2>5. QED
    BY <2>2, <2>4
<1>5. QED
  BY <1>3, <1>4 DEF Ready

LEMMA ReadyNext ==
  ASSUME Inv, RecurringOccurs, LastCall, Ready, [Next]_vars
  PROVE  LastCall' /\ Ready'
<1>1. ASSUME NEW n \in Nodes, NEW spec \in Specs \cup {None}, SaveCanvas(n, spec)
      PROVE  LastCall' /\ Ready'
  BY <1>1, SaveReady
<1>2. ASSUME NEW n \in Nodes, RunNow(n) PROVE LastCall' /\ Ready'
  <2>1. PICK targetFound \in BOOLEAN :
          IF Verdict(n, TRUE, targetFound) = "started"
          THEN slots' = [slots EXCEPT ![n].inFlight = TRUE] ELSE UNCHANGED slots
    BY <1>2 DEF RunNow
  <2>2. UNCHANGED slots \/ (slots[n] # None /\ slots' = [slots EXCEPT ![n].inFlight = TRUE])
    BY <2>1, VerdictStarts
  <2>3. UNCHANGED <<arms, writeQueue, refused>>
    BY <1>2 DEF RunNow, ghosts
  <2>4. QED
    BY <2>2, <2>3, RunReady
<1>3. ASSUME NEW n \in Nodes, NEW spec \in Specs, Arm(n, spec) PROVE LastCall' /\ Ready'
  BY <1>3, QueuedReady DEF Arm
<1>4. ASSUME NEW n \in Nodes, Disarm(n) PROVE LastCall' /\ Ready'
  BY <1>4, QueuedReady DEF Disarm, ghosts
<1>5. ASSUME NEW n \in Nodes, DisarmUnarmed(n) PROVE LastCall' /\ Ready'
  <2>1. arms[n] = None /\ Unschedule(n) /\ UNCHANGED <<arms, writeQueue, refused>>
    BY <1>5 DEF DisarmUnarmed, ghosts
  <2>2. slots \in [Nodes -> {None} \cup Slot]
    BY DEF Inv, Typed
  <2>3. ASSUME NEW m \in Nodes, Timely(m) PROVE Timely(m)'
    <3>1. CASE slots'[m] = slots[m]
      BY <2>1, <2>3, <3>1 DEF Timely, isArmed, OneShot
    <3>2. CASE slots'[m] # slots[m]
      <4>1. m = n /\ slots[m] \in Slot /\ slots'[m] = [slots[m] EXCEPT !.next = None]
        BY <2>1, <2>2, <3>2 DEF Unschedule
      <4>2. slots'[m].spec \in Specs
        BY <4>1 DEF Slot
      <4>3. ~ isArmed(arms, m, slots'[m].spec)
        BY <2>1, <4>1, <4>2, TriggerAssumption DEF isArmed
      <4>4. QED
        BY <2>1, <4>3 DEF Timely, isArmed
    <3>3. QED
      BY <3>1, <3>2
  <2>4. QED
    BY <2>1, <2>3, ReadyKept
<1>6. ASSUME NEW r \in runs, NEW outcome, Finish(r, outcome) PROVE LastCall' /\ Ready'
  <2>1. slots' = (IF r.held THEN [slots EXCEPT ![r.node].inFlight = FALSE] ELSE slots)
        /\ UNCHANGED <<arms, writeQueue, refused>> /\ r.node \in Nodes
    BY <1>6 DEF Finish, ghosts, Inv, Typed, Run
  <2>2. r.held => slots[r.node] # None
    BY DEF Inv, Captured, Shown
  <2>3. QED
    BY <2>1, <2>2, RunReady
<1>7. CASE Pass \/ UNCHANGED vars
  <2>1. UNCHANGED <<slots, arms, writeQueue, refused>>
    BY <1>7 DEF Pass, vars, memory, ghosts
  <2>2. \A n \in Nodes : Timely(n) => Timely(n)'
    BY <2>1 DEF Timely, isArmed, OneShot
  <2>3. QED
    BY <2>1, <2>2, ReadyKept
<1>8. QED
  BY <1>1, <1>2, <1>3, <1>4, <1>5, <1>6, <1>7, TickReady, WriteReady, RestartReady DEF Next

\* An armed recurring trigger whose calls have been answered has a time, in
\* whatever order saves of the canvas, arms, disarms, their writes, ticks and
\* restarts came (trigger-scheduler.ts, arm, disarm, updateProject, tick).
THEOREM ArmedGetsATime == RecurringOccurs => (Spec => []ArmedIsScheduled)
<1> SUFFICES ASSUME RecurringOccurs PROVE Spec => []ArmedIsScheduled
  OBVIOUS
<1>1. Init => LastCall /\ Ready
  BY DEF Init, LastCall, Ready, Timely
<1>2. Inv /\ LastCall /\ Ready /\ [Next]_vars => LastCall' /\ Ready'
  BY ReadyNext
<1>3. Ready => ArmedIsScheduled
  <2> SUFFICES ASSUME Ready, writeQueue = <<>>, NEW n \in Nodes \ refused PROVE Timely(n)
    BY DEF ArmedIsScheduled, Timely
  <2>1. ~ Awaited(n)
    BY DEF Awaited
  <2>2. QED
    BY <2>1 DEF Ready
<1>4. QED
  BY <1>1, <1>2, <1>3, Invariance, PTL DEF Spec
=============================================================================

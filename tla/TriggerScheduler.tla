-------------------------- MODULE TriggerScheduler --------------------------
(***************************************************************************)
(* Trigger nodes of one project (core/trigger-scheduler.ts and             *)
(* core/trigger-arm-store.ts): the canvas says what a trigger delivers and *)
(* when, this machine's arm store says for which definition the user gave  *)
(* consent, and the scheduler's tick starts the runs that are due.  Canvas *)
(* edits arrive while runs await their delivery and while the arm store's  *)
(* writes are queued; the process may stop at any point and start again    *)
(* from the arm file and the canvas.                                       *)
(*                                                                         *)
(* A slot is an object that a run holds on to across its await.  A run's   *)
(* `held` says whether the slot it captured is still the one in the map.   *)
(***************************************************************************)
EXTENDS Integers, Sequences, FiniteSets, FiniteSetsExt

CONSTANTS
  Nodes,     \* trigger nodes
  Specs,     \* their definitions: a schedule and an identity
  RunIds,    \* bound: runs that may await their delivery at once
  None,      \* no node, no slot, no consent, no occurrence
  Minute,    \* clock units per minute
  Period,    \* clock units between two ticks
  MaxNow,    \* bound: the clock
  MaxWrites  \* bound: queued writes of the arm file

Schedules ==
  [kind : {"once"}, at : Nat] \cup [kind : {"interval"}, every : Nat \ {0}]
    \cup [kind : {"cron"}, step : Nat \ {0}]

Slot == [spec : Specs, next : Nat \cup {None}, inFlight : BOOLEAN]

ASSUME TriggerAssumption ==
  /\ \A s \in Specs : s.schedule \in Schedules
  /\ None \notin Specs /\ None \notin Slot
  /\ Minute \in Nat \ {0} /\ Period \in Nat \ {0}
  /\ MaxNow \in Nat /\ MaxNow >= Minute /\ MaxWrites \in Nat

VARIABLES
  now,       \* the clock
  lastTick,  \* when the scheduler ticked last, or started
  canvas,    \* node -> its definition on the persisted canvas, or None
  slots,     \* node -> its slot, or None
  runs,      \* runs that await deliver
  arms,      \* the arm store's records in memory
  armFile,   \* and on disk
  writeQueue,\* queued writes of the arm file, each with the call that awaits it
  receipts,  \* receipts recorded by the last step
  consented, \* what the user's calls allow to fire (no state of the program)
  refused    \* nodes whose last arm or disarm call was rejected (likewise)

memory == <<slots, runs, arms, writeQueue>>
ghosts == <<consented, refused>>
vars == <<now, lastTick, canvas, memory, armFile, receipts, ghosts>>

-----------------------------------------------------------------------------
(* Schedules.                                                                *)

Horizon == MaxNow + Minute

\* nextTriggerOccurrence: the first occurrence later than `after`.
NextOccurrence(schedule, after) ==
  CASE schedule.kind = "once" -> IF schedule.at > after THEN schedule.at ELSE None
    [] schedule.kind = "interval" -> after + schedule.every * Minute
    [] schedule.kind = "cron" ->
         LET minutes == {t \in (after + 1) .. Horizon :
                           t % Minute = 0 /\ (t \div Minute) % schedule.step = 0}
         IN  IF minutes = {} THEN None ELSE Min(minutes)

\* Mutant: consent is for the node, whatever it delivers now.
isArmed_NodeOnly(records, n, spec) == records[n] # None

isArmed(records, n, spec) == records[n] = spec

\* An armed definition is scheduled from a minute ago, so that the current
\* minute still counts.
Scheduled(records, n, spec) ==
  IF isArmed(records, n, spec) THEN NextOccurrence(spec.schedule, now - Minute)
  ELSE None

-----------------------------------------------------------------------------
(* updateProject: slots follow the canvas.                                   *)

SameSlot(n, nodes) == slots[n] # None /\ nodes[n] # None /\ slots[n].spec = nodes[n]

\* Mutant: an edited trigger forgets that it is running.
NewSlot_Idle(n, spec) ==
  [spec |-> spec, next |-> Scheduled(arms, n, spec), inFlight |-> FALSE]

\* Mutant: an edited trigger waits to be armed again, armed or not.
NewSlot_Unscheduled(n, spec) ==
  [spec |-> spec, next |-> None, inFlight |-> slots[n] # None /\ slots[n].inFlight]

\* A changed definition gets a slot of its own, which inherits inFlight.
NewSlot(n, spec) ==
  [spec |-> spec, next |-> Scheduled(arms, n, spec),
   inFlight |-> slots[n] # None /\ slots[n].inFlight]

\* Mutant: a save of the canvas makes every trigger idle.
KeptSlot_Idle(n) == [slots[n] EXCEPT !.inFlight = FALSE]

\* An unchanged one is scheduled if it is armed and has no occurrence.
KeptSlot(n) ==
  IF slots[n].next = None
  THEN [slots[n] EXCEPT !.next = Scheduled(arms, n, slots[n].spec)]
  ELSE slots[n]

updateProject(nodes) ==
  /\ slots' = [n \in Nodes |->
                 IF nodes[n] = None THEN None
                 ELSE IF SameSlot(n, nodes) THEN KeptSlot(n)
                 ELSE NewSlot(n, nodes[n])]
  /\ runs' = {[r EXCEPT !.held = @ /\ SameSlot(r.node, nodes),
                        !.removed = @ \/ nodes[r.node] = None] : r \in runs}

\* The canvas is saved, edited or not; onPersist tells the scheduler.
SaveCanvas(n, spec) ==
  /\ canvas' = [canvas EXCEPT ![n] = spec]
  /\ updateProject(canvas')
  /\ receipts' = {}
  /\ UNCHANGED <<now, lastTick, arms, writeQueue, armFile, ghosts>>

-----------------------------------------------------------------------------
(* Runs.                                                                     *)

Receipt(n, outcome) == [node |-> n, outcome |-> outcome]

NewRun(id, n, manual) ==
  [id |-> id, node |-> n, spec |-> slots[n].spec, manual |-> manual,
   held |-> TRUE, removed |-> FALSE]

FreeIds == RunIds \ {r.id : r \in runs}

\* run: why a run ends before its delivery, or "started".
Verdict(n, manual, targetFound) ==
  IF slots[n] = None THEN "failed"
  ELSE IF slots[n].inFlight THEN "skipped-previous-run-active"
  ELSE IF ~targetFound THEN "target-missing"
  ELSE IF ~manual /\ ~isArmed(arms, n, slots[n].spec) THEN "cancelled"
  ELSE "started"

RunNow(n) ==
  \E targetFound \in BOOLEAN, id \in FreeIds :
    LET verdict == Verdict(n, TRUE, targetFound)
    IN  /\ IF verdict = "started"
           THEN /\ slots' = [slots EXCEPT ![n].inFlight = TRUE]
                /\ runs' = runs \cup {NewRun(id, n, TRUE)}
                /\ receipts' = {}
           ELSE receipts' = {Receipt(n, verdict)} /\ UNCHANGED <<slots, runs>>
        /\ UNCHANGED <<now, lastTick, canvas, arms, writeQueue, armFile, ghosts>>

Due(n) == slots[n] # None /\ slots[n].next # None /\ slots[n].next <= now
OneShot(spec) == spec.schedule.kind = "once"

Missed(n) == OneShot(slots[n].spec) /\ now > slots[n].next

\* tick: every slot that is due, in one go, as nothing awaits before deliver.
Tick ==
  /\ now - lastTick >= Period
  /\ lastTick' = now
  /\ LET due == {n \in Nodes : Due(n)}
         missed == {n \in due : Missed(n)}
         attempted == due \ missed
     IN  \E found \in SUBSET attempted :
           LET verdict(n) == Verdict(n, FALSE, n \in found)
               started == {n \in attempted : verdict(n) = "started"}
               after(n) == IF OneShot(slots[n].spec) THEN None
                           ELSE NextOccurrence(slots[n].spec.schedule, now)
           IN  \E id \in [started -> FreeIds] :
                 /\ \A m, n \in started : id[m] = id[n] => m = n
                 /\ runs' = runs \cup {NewRun(id[n], n, FALSE) : n \in started}
                 /\ slots' = [n \in Nodes |->
                      IF n \in due
                      THEN [slots[n] EXCEPT !.next = after(n),
                                            !.inFlight = @ \/ n \in started]
                      ELSE slots[n]]
                 /\ receipts' = {Receipt(n, "missed") : n \in missed}
                      \cup {Receipt(n, verdict(n)) : n \in attempted \ started}
  /\ UNCHANGED <<now, canvas, arms, writeQueue, armFile, ghosts>>

\* The delivery answers or throws; the run clears the slot it captured.
Finish(r, outcome) ==
  /\ runs' = runs \ {r}
  /\ slots' = IF r.held THEN [slots EXCEPT ![r.node].inFlight = FALSE] ELSE slots
  /\ receipts' = {Receipt(r.node, outcome)}
  /\ UNCHANGED <<now, lastTick, canvas, arms, writeQueue, armFile, ghosts>>

-----------------------------------------------------------------------------
(* Consent: arm and disarm, through the arm store's write queue.             *)

persist(call) == writeQueue' = Append(writeQueue, [records |-> arms', call |-> call])

Arm(n, spec) ==
  /\ Len(writeQueue) < MaxWrites
  /\ arms' = [arms EXCEPT ![n] = spec]
  /\ persist([node |-> n, spec |-> spec])
  /\ consented' = [consented EXCEPT ![n] = @ \cup {spec}]
  /\ receipts' = {}
  /\ UNCHANGED <<now, lastTick, canvas, slots, runs, armFile, refused>>

Unschedule(n) ==
  slots' = IF slots[n] = None THEN slots ELSE [slots EXCEPT ![n].next = None]

Disarm(n) ==
  /\ arms[n] # None /\ Len(writeQueue) < MaxWrites
  /\ arms' = [arms EXCEPT ![n] = None]
  /\ persist([node |-> n, spec |-> None])
  /\ receipts' = {}
  /\ UNCHANGED <<now, lastTick, canvas, slots, runs, armFile, ghosts>>

\* Nothing to disarm: answered without a write.
DisarmUnarmed(n) ==
  /\ arms[n] = None
  /\ Unschedule(n)
  /\ receipts' = {}
  /\ UNCHANGED <<now, lastTick, canvas, runs, arms, writeQueue, armFile, ghosts>>

\* arm, continued: the occurrence of the definition that was armed.
Rescheduled(spec) ==
  IF OneShot(spec) /\ spec.schedule.at <= now THEN spec.schedule.at
  ELSE NextOccurrence(spec.schedule, now - Minute)

\* Calls for the same node whose writes are still queued.
StillAsked(n) ==
  {writeQueue[k].call.spec : k \in {j \in 2 .. Len(writeQueue) : writeQueue[j].call.node = n}}
    \ {None}

WriteArms ==
  /\ writeQueue # <<>>
  /\ LET write == Head(writeQueue)
         n == write.call.node
         spec == write.call.spec
     IN  /\ armFile' = write.records
         /\ IF spec = None THEN Unschedule(n)
            ELSE slots' = IF slots[n] = None THEN slots
                          ELSE [slots EXCEPT ![n].next = Rescheduled(spec)]
         /\ consented' = [consented EXCEPT ![n] = StillAsked(n) \cup ({spec} \ {None})]
         /\ refused' = refused \ {n}
  /\ writeQueue' = Tail(writeQueue)
  /\ receipts' = {}
  /\ UNCHANGED <<now, lastTick, canvas, runs, arms>>

\* The caller hears of the error, which may follow the rename; the records in
\* memory stay as they are.
WriteFails ==
  /\ writeQueue # <<>>
  /\ writeQueue' = Tail(writeQueue)
  /\ armFile' \in {armFile, Head(writeQueue).records}
  /\ refused' = refused \cup {Head(writeQueue).call.node}
  /\ receipts' = {}
  /\ UNCHANGED <<now, lastTick, canvas, slots, runs, arms, consented>>

-----------------------------------------------------------------------------
(* Time, and a restart of the process.                                       *)

Pass ==
  /\ now < MaxNow /\ now' = now + 1
  /\ receipts' = {}
  /\ UNCHANGED <<lastTick, canvas, memory, armFile, ghosts>>

\* Slots of a process that starts: every trigger on the canvas is new to it.
BootSlot(n) ==
  IF canvas[n] = None THEN None
  ELSE [spec |-> canvas[n], inFlight |-> FALSE,
        next |-> IF isArmed(armFile, n, canvas[n])
                 THEN NextOccurrence(canvas[n].schedule, now' - Minute) ELSE None]

Restart ==
  /\ now < MaxNow /\ now' = now + 1 /\ lastTick' = now'
  /\ arms' = armFile
  /\ slots' = [n \in Nodes |-> BootSlot(n)]
  /\ runs' = {} /\ writeQueue' = <<>>
  /\ receipts' = {}
  /\ UNCHANGED <<canvas, armFile, ghosts>>

Init ==
  /\ now = Minute /\ lastTick = Minute
  /\ canvas = [n \in Nodes |-> None]
  /\ slots = [n \in Nodes |-> None] /\ runs = {}
  /\ arms = [n \in Nodes |-> None] /\ armFile = arms /\ writeQueue = <<>>
  /\ receipts = {}
  /\ consented = [n \in Nodes |-> {}] /\ refused = {}

Next ==
  \/ \E n \in Nodes :
       \/ \E spec \in Specs \cup {None} : SaveCanvas(n, spec)
       \/ RunNow(n)
       \/ \E spec \in Specs : Arm(n, spec)
       \/ Disarm(n) \/ DisarmUnarmed(n)
  \/ \E r \in runs, outcome \in {"delivered", "failed"} : Finish(r, outcome)
  \/ Tick \/ WriteArms \/ WriteFails \/ Pass \/ Restart

Spec == Init /\ [][Next]_vars

-----------------------------------------------------------------------------
(* Properties.                                                               *)

Run == [id : RunIds, node : Nodes, spec : Specs,
        manual : BOOLEAN, held : BOOLEAN, removed : BOOLEAN]
Call == [node : Nodes, spec : Specs \cup {None}]
Records == [Nodes -> Specs \cup {None}]

\* The state has the expected shape, and a slot whose run is under way says so.
TypeOK ==
  /\ now \in Nat /\ now <= MaxNow /\ lastTick \in 0 .. now
  /\ canvas \in Records /\ arms \in Records /\ armFile \in Records
  /\ slots \in [Nodes -> {None} \cup Slot]
  /\ runs \subseteq Run
  /\ \A r \in runs : r.held => slots[r.node] # None /\ slots[r.node].inFlight
  /\ writeQueue \in Seq([records : Records, call : Call]) /\ Len(writeQueue) <= MaxWrites

ScheduledRuns == {r \in runs' : r.id \notin {q.id : q \in runs} /\ ~r.manual}

\* What fires on schedule is a definition the user armed and has not taken back
\* since by an arm or disarm whose write landed: not the content an edit or a
\* pull put in its place, not a consent that a restart brings back
\* (trigger-arm-store.ts, the arm binds to content; its queued writes).
FiresWithConsent ==
  [][\A r \in ScheduledRuns : r.spec \in consented[r.node]]_vars

\* Two runs of one trigger are never under way together, through edits of the
\* trigger and ticks while it delivers, unless it was taken off the canvas in
\* between (run's inFlight and what updateProject hands to the new slot).
OneRunAtATime ==
  \A q, r \in runs : q.node = r.node /\ q # r => q.removed \/ r.removed

\* An armed recurring trigger is scheduled once the arm store's writes have
\* settled, however arms, disarms, edits and a restart were interleaved; a
\* trigger whose last call was refused is the exception
\* (arm, disarm and updateProject each set nextOccurrenceAt).
ArmedIsScheduled ==
  writeQueue = <<>> =>
    \A n \in Nodes \ refused :
      /\ slots[n] # None /\ isArmed(arms, n, slots[n].spec) /\ ~OneShot(slots[n].spec)
      => slots[n].next # None

\* "A concurrent occurrence is recorded as skipped when an earlier run remains
\* active" (docs/features/automation/triggers.md:37-38): an occurrence, or a run the
\* user asks for, is skipped only while a run of its trigger awaits delivery.
SkippedOnlyWhileRunning ==
  [][\A n \in Nodes : Receipt(n, "skipped-previous-run-active") \in receipts' =>
       \E r \in runs : r.node = n]_vars
=============================================================================

------------------------- MODULE HostStartupProofs -------------------------
(***************************************************************************)
(* Theorems about HostStartup, for any number of processes.                *)
(*                                                                         *)
(* The state file is a sound startup lock as long as nobody dies: however  *)
(* many hosts are launched together, one of them starts, and it stays      *)
(* reachable.  Once one has died or left, at whatever point, this holds    *)
(* where orderly launches overlap only with a start that has the lock.     *)
(***************************************************************************)
EXTENDS HostStartup, TLAPS

-----------------------------------------------------------------------------
(* Type correctness.                                                        *)

LEMMA InitTyped == Init => TypeOK
<1> SUFFICES ASSUME Init PROVE TypeOK
  OBVIOUS
<1>1. QED
  BY StartupConstants DEF Init, TypeOK, Absent

\* One step per group of actions that change the same variables.
LEMMA StepTyped == TypeOK /\ [Next]_vars => TypeOK'
<1> SUFFICES ASSUME TypeOK, [Next]_vars PROVE TypeOK'
  OBVIOUS
<1> USE StartupConstants DEF TypeOK, files
<1>1. ASSUME NEW p \in Procs, Launch(p) PROVE TypeOK'
  BY <1>1 DEF Launch, goto, Starting, Owning
<1>2. ASSUME NEW p \in Procs, Gate(p) \/ ReclaimCreate(p) PROVE TypeOK'
  BY <1>2 DEF Gate, ReclaimCreate, createLock, goto, at, Starting, Owning, Gone
<1>3. ASSUME NEW p \in Procs, Probe(p) PROVE TypeOK'
  BY <1>3 DEF Probe, goto, at, Starting
<1>4. ASSUME NEW p \in Procs, Hello(p) \/ Judge(p) PROVE TypeOK'
  BY <1>4 DEF Hello, Judge, goto, at, Starting, Gone
<1>5. ASSUME NEW p \in Procs, ReclaimUnlink(p) PROVE TypeOK'
  BY <1>5 DEF ReclaimUnlink, Absent, goto, at, Starting
<1>6. ASSUME NEW p \in Procs, ClearEndpoint(p) \/ Listen(p) \/ ListenBusy(p) PROVE TypeOK'
  BY <1>6 DEF ClearEndpoint, Listen, ListenBusy, goto, at, Starting, Owning, Leaving
<1>7. ASSUME NEW p \in Procs, WriteToken(p) \/ PublishState(p) PROVE TypeOK'
  BY <1>7 DEF WriteToken, PublishState, closeServer, goto, at, Starting, Owning, Leaving
<1>8. ASSUME NEW p \in Procs, Leave(p) PROVE TypeOK'
  BY <1>8 DEF Leave, IdleExit, ShutdownExit, closeServer, DropState, DropToken, DropEndpoint, Absent,
              goto, at, Leaving, Gone
<1>9. ASSUME NEW p \in Procs, Crash(p) PROVE TypeOK'
  BY <1>9 DEF Crash, goto, Gone
<1>10. CASE PipeFreed
  BY <1>10 DEF PipeFreed
<1>11. CASE Tick
  <2>1. age' \in 0..Stale
    BY <1>11 DEF Tick
  <2>2. waited' \in [Procs -> 0..Retry]
    BY <1>11 DEF Tick
  <2> QED
    BY <1>11, <2>1, <2>2 DEF Tick
<1>12. CASE UNCHANGED vars
  BY <1>12 DEF vars
<1>13. QED
  BY <1>1, <1>2, <1>3, <1>4, <1>5, <1>6, <1>7, <1>8, <1>9, <1>10, <1>11, <1>12 DEF Next, Start

\* The state file, the token file, the endpoint and every process's place are
\* of their types, whatever crashes, leaves and overlaps.
THEOREM TypeCorrect == Spec => []TypeOK
  BY InitTyped, StepTyped, PTL DEF Spec

-----------------------------------------------------------------------------
(* One owner.  Before anybody dies or leaves, the state file is a sound     *)
(* startup lock for any number of processes that start together.            *)

\* Nobody has died and nobody cleans up.
Calm == \A p \in Procs : pc[p] \notin {"dead"} \cup Leaving

\* Nobody is past judging without owning the lock.
NothingStale == Calm /\ \A p \in Procs : pc[p] \notin {"unlink", "relock"}

\* The heartbeat: the lock of a live start is no older than its last attempt
\* to listen.
Fresh ==
  \A p \in Procs :
    /\ pc[p] = "clear" => age = 0
    /\ pc[p] = "listen" => age <= waited[p]
    /\ pc[p] \in {"token", "publish"} => age <= Retry

\* The state file is absent, or its creator owns the start; it is empty
\* until the creator serves.
LockHasOwner ==
  lock = Absent \/ /\ lock.by \in Procs /\ pc[lock.by] \in Owning
                   /\ lock.kind = IF pc[lock.by] = "serving" THEN "ready" ELSE "empty"

OwnerHasLock == \A p \in Procs : pc[p] \in Owning => lock # Absent /\ lock.by = p

OwnerHasFiles ==
  \A p \in Procs :
    /\ pc[p] \in {"token", "publish", "serving"} => endpoint = p
    /\ pc[p] \in {"publish", "serving"} => token = p

\* Who probes has seen the lock taken, and what it read proves nothing
\* abandoned.
ProbesAreHarmless ==
  \A p \in Procs :
    /\ pc[p] \in {"probe", "hello", "judge"} => lock # Absent
    /\ pc[p] = "hello" => \/ seen[p] = "unreadable"
                          \/ lock.kind = "ready" /\ seen[p] = lock.by
    /\ pc[p] = "judge" => seen[p] = "unreadable"

LockInv ==
  /\ TypeOK /\ NothingStale /\ Fresh
  /\ LockHasOwner /\ OwnerHasLock /\ OwnerHasFiles /\ ProbesAreHarmless

LEMMA InitLock == Init => LockInv
<1> SUFFICES ASSUME Init PROVE LockInv
  OBVIOUS
<1>1. TypeOK
  BY InitTyped
<1>2. QED
  BY <1>1, StartupConstants
  DEF Init, LockInv, Calm, NothingStale, Fresh, LockHasOwner, OwnerHasLock, OwnerHasFiles, ProbesAreHarmless,
      Owning, Leaving

LEMMA StepLock == LockInv /\ [Next]_vars /\ Calm' => LockInv'
<1> SUFFICES ASSUME LockInv, [Next]_vars, Calm' PROVE LockInv'
  OBVIOUS
<1>0. TypeOK'
  BY StepTyped DEF LockInv
<1> USE <1>0, StartupConstants
    DEF LockInv, TypeOK, NothingStale, Fresh, LockHasOwner, OwnerHasLock, OwnerHasFiles,
        ProbesAreHarmless, Calm, Owning, Leaving, Absent, files
<1>1. ASSUME NEW p \in Procs, Launch(p) PROVE LockInv'
  BY <1>1 DEF Launch, goto
<1>2. ASSUME NEW p \in Procs, Gate(p) PROVE LockInv'
  BY <1>2 DEF Gate, createLock, goto, at
<1>3. ASSUME NEW p \in Procs, Probe(p) PROVE LockInv'
  <2>1. /\ pc[p] = "probe" /\ pc' = [pc EXCEPT ![p] = "hello"]
        /\ waited' = [waited EXCEPT ![p] = 0] /\ UNCHANGED <<lock, age, token, endpoint, crashed>>
    BY <1>3 DEF Probe, goto, at
  <2>2. lock # Absent
    BY <2>1
  <2>3. CASE pc[lock.by] = "serving"
    <3>1. lock.kind = "ready" /\ token = lock.by /\ token # None
      BY <2>2, <2>3
    <3>2. seen' = [seen EXCEPT ![p] = lock.by]
      BY <1>3, <2>2, <3>1 DEF Probe
    <3>3. QED
      BY <2>1, <2>2, <3>1, <3>2
  <2>4. CASE pc[lock.by] # "serving"
    <3>1. lock.kind = "empty"
      BY <2>2, <2>4
    <3>2. seen' = [seen EXCEPT ![p] = "unreadable"]
      BY <1>3, <3>1 DEF Probe
    <3>3. QED
      BY <2>1, <2>2, <3>2
  <2>5. QED
    BY <2>3, <2>4
<1>4. ASSUME NEW p \in Procs, Hello(p) PROVE LockInv'
  <2>1. CASE answersHello(p)
    BY <1>4, <2>1 DEF Hello, goto, at
  <2>2. CASE ~answersHello(p)
    <3>1. seen[p] = "unreadable"
      BY <1>4, <2>2 DEF Hello, answersHello, at
    <3>2. QED
      BY <1>4, <2>2, <3>1 DEF Hello, goto, at
  <2>3. QED
    BY <2>1, <2>2
<1>5. ASSUME NEW p \in Procs, Judge(p) PROVE LockInv'
  <2>1. ~abandoned
    BY DEF abandoned
  <2> QED
    BY <1>5, <2>1 DEF Judge, goto, at
<1>6. ASSUME NEW p \in Procs, ReclaimUnlink(p) \/ ReclaimCreate(p) PROVE FALSE
  BY <1>6 DEF ReclaimUnlink, ReclaimCreate, at
<1>7. ASSUME NEW p \in Procs, ClearEndpoint(p) PROVE LockInv'
  BY <1>7 DEF ClearEndpoint, goto, at
<1>8. ASSUME NEW p \in Procs, Listen(p) PROVE LockInv'
  BY <1>8 DEF Listen, goto, at
<1>9. ASSUME NEW p \in Procs, ListenBusy(p) PROVE LockInv'
  BY <1>9 DEF ListenBusy, goto, at
<1>10. ASSUME NEW p \in Procs, WriteToken(p) PROVE LockInv'
  BY <1>10 DEF WriteToken, closeServer, goto, at
<1>11. ASSUME NEW p \in Procs, PublishState(p) PROVE LockInv'
  <2>1. /\ lock' = [kind |-> "ready", by |-> p] /\ age' = 0
        /\ pc' = [pc EXCEPT ![p] = "serving"] /\ waited' = [waited EXCEPT ![p] = 0]
        /\ UNCHANGED <<seen, token, endpoint, crashed>>
    BY <1>11 DEF PublishState, closeServer, goto
  <2>2. lock.by = p
    BY <1>11 DEF PublishState, at
  <2>3. QED
    BY <1>11, <2>1, <2>2 DEF PublishState, at
<1>12. ASSUME NEW p \in Procs, Leave(p) \/ Crash(p) PROVE FALSE
  BY <1>12 DEF Leave, IdleExit, ShutdownExit, closeServer, DropState, DropToken, DropEndpoint, Crash,
               goto, at
<1>13. CASE PipeFreed
  BY <1>13 DEF PipeFreed, Gone
<1>14. CASE Tick
  BY <1>14 DEF Tick
<1>15. CASE UNCHANGED vars
  BY <1>15 DEF vars
<1>16. QED
  BY <1>1, <1>2, <1>3, <1>4, <1>5, <1>6, <1>7, <1>8, <1>9, <1>10, <1>11, <1>12, <1>13, <1>14, <1>15
  DEF Next, Start

-----------------------------------------------------------------------------
(* After the first crash or departure the state file may be left by the     *)
(* dead, and orderly starts overlap only where one has the lock.            *)

Building == Owning \ {"serving"}
Probing == Starting \ Owning

StartsTakeTurns ==
  \A p, q \in Procs :
    {pc[p], pc[q]} \subseteq Building \/ {pc[p], pc[q]} \subseteq Probing => p = q

\* Who has the lock shows it, and who starts beside it has seen no more than that.
BuildsAlone ==
  \A p, q \in Procs : pc[p] \in Building =>
    /\ lock = [kind |-> "empty", by |-> p]
    /\ pc[q] \notin {"serving", "unlink", "relock"}
    /\ pc[q] \in {"hello", "judge"} => seen[q] = "unreadable"

\* Who cleans up was the only owner.
CleansAlone == \A p, q \in Procs : pc[p] \in Leaving /\ pc[q] \in Owning \cup Leaving => p = q

\* What a serving host published is its own, and who starts beside it has read
\* no sign of its absence.
ServesAlone ==
  \A p, q \in Procs : pc[p] = "serving" =>
    /\ lock = [kind |-> "ready", by |-> p]
    /\ pc[q] \in Starting => pc[q] \in {"gate", "probe", "hello", "judge"}
    /\ pc[q] = "hello" => seen[q] \in {"unreadable", p}
    /\ pc[q] = "judge" => seen[q] = "unreadable"

TroubledInv ==
  /\ TypeOK /\ ~Calm /\ Fresh
  /\ StartsTakeTurns /\ BuildsAlone /\ CleansAlone /\ OwnerHasFiles /\ ServesAlone

StartupInv == LockInv \/ (Orderly /\ TroubledInv)

\* Whoever dies or leaves first leaves at most one other process starting.
LEMMA FirstTrouble ==
  ASSUME Orderly, LockInv, [Next]_vars, ~Calm'
  PROVE  TroubledInv'
<1>0. TypeOK'
  BY StepTyped DEF LockInv
<1> USE <1>0, StartupConstants
    DEF LockInv, TypeOK, NothingStale, Calm, Leaving, Owning, Starting, files
<1>1. PICK p \in Procs :
        /\ pc[p] \in Starting \cup {"serving"} /\ \A q, r \in starting(p) : q = r
        /\ \E step \in Leaving \cup {"dead"} : pc' = [pc EXCEPT ![p] = step]
        /\ pc'[p] \in Leaving => pc[p] \in Owning
        /\ endpoint' = endpoint \/ pc[p] \in Owning
        /\ waited' = [waited EXCEPT ![p] = 0] /\ UNCHANGED <<seen, lock, age, token>>
  <2>1. ASSUME NEW p \in Procs, Crash(p) \/ IdleExit(p) \/ ShutdownExit(p)
        PROVE  /\ pc[p] \in Starting \cup {"serving"} /\ \A q, r \in starting(p) : q = r
               /\ \E step \in Leaving \cup {"dead"} : pc' = [pc EXCEPT ![p] = step]
               /\ pc'[p] \in Leaving => pc[p] \in Owning
               /\ endpoint' = endpoint \/ pc[p] \in Owning
               /\ waited' = [waited EXCEPT ![p] = 0] /\ UNCHANGED <<seen, lock, age, token>>
    BY <2>1 DEF Crash, IdleExit, ShutdownExit, closeServer, mayLeave, mayEnd, goto, at
  <2>2. ASSUME NEW p \in Procs, ListenBusy(p) \/ WriteToken(p) \/ PublishState(p)
        PROVE  /\ pc[p] \in Starting \cup {"serving"} /\ \A q, r \in starting(p) : q = r
               /\ \E step \in Leaving \cup {"dead"} : pc' = [pc EXCEPT ![p] = step]
               /\ pc'[p] \in Leaving => pc[p] \in Owning
               /\ endpoint' = endpoint \/ pc[p] \in Owning
               /\ waited' = [waited EXCEPT ![p] = 0] /\ UNCHANGED <<seen, lock, age, token>>
    BY <2>2 DEF ListenBusy, WriteToken, PublishState, closeServer, mayLeave, mayEnd, goto, at
  <2>3. ASSUME NEW p \in Procs, DropState(p) \/ DropToken(p) \/ DropEndpoint(p) PROVE FALSE
    BY <2>3 DEF DropState, DropToken, DropEndpoint, at
  <2>4. ASSUME NEW p \in Procs,
               Launch(p) \/ Gate(p) \/ Probe(p) \/ Hello(p) \/ Judge(p)
               \/ ReclaimUnlink(p) \/ ReclaimCreate(p) \/ ClearEndpoint(p) \/ Listen(p)
        PROVE  FALSE
    BY <2>4 DEF Launch, Gate, Probe, Hello, Judge, ReclaimUnlink, ReclaimCreate, createLock,
                ClearEndpoint, Listen, goto, at
  <2>5. ASSUME PipeFreed \/ Tick \/ UNCHANGED vars PROVE FALSE
    BY <2>5 DEF PipeFreed, Tick, vars
  <2> QED
    BY <2>1, <2>2, <2>3, <2>4, <2>5 DEF Next, Start, Leave
<1>2. \A q, r \in Procs \ {p} : pc[q] \in Starting /\ pc[r] \in Starting => q = r
  BY <1>1 DEF starting
<1>3. StartsTakeTurns' /\ Fresh'
  BY <1>1, <1>2 DEF StartsTakeTurns, Building, Probing, Fresh
<1>4. CleansAlone'
  <2>1. ASSUME NEW q \in Procs, NEW r \in Procs, pc'[q] \in Leaving, pc'[r] \in Owning \cup Leaving
        PROVE  q = r
    <3>1. q = p
      BY <1>1, <2>1
    <3>2. CASE r # p
      <4>1. pc'[r] = pc[r] /\ pc[r] \in Owning
        BY <1>1, <2>1, <3>2
      <4>2. lock.by = r
        BY <4>1 DEF OwnerHasLock
      <4>3. pc[p] \in Owning
        BY <1>1, <2>1, <3>1
      <4> QED
        BY <3>1, <4>2, <4>3 DEF OwnerHasLock
    <3> QED
      BY <3>1, <3>2
  <2> QED
    BY <2>1 DEF CleansAlone
<1>5. OwnerHasFiles'
  BY <1>1 DEF OwnerHasFiles, OwnerHasLock
<1>7. BuildsAlone'
  <2> SUFFICES ASSUME NEW q \in Procs, NEW r \in Procs, pc'[q] \in Building
               PROVE  /\ lock = [kind |-> "empty", by |-> q]
                      /\ pc'[r] \notin {"serving", "unlink", "relock"}
                      /\ pc'[r] \in {"hello", "judge"} => seen[r] = "unreadable"
    BY <1>1 DEF BuildsAlone
  <2>1. pc[q] \in Building /\ lock # Absent /\ lock.by = q /\ lock.kind = "empty"
    BY <1>1 DEF OwnerHasLock, LockHasOwner, Building
  <2>2. pc'[r] = pc[r] \/ pc'[r] \in Leaving \cup {"dead"}
    BY <1>1
  <2>3. pc[r] \in Owning => r = q
    BY <2>1 DEF OwnerHasLock
  <2> QED
    BY <2>1, <2>2, <2>3 DEF ProbesAreHarmless, Building
<1>6. ServesAlone'
  <2> SUFFICES ASSUME NEW q \in Procs, NEW r \in Procs, pc'[q] = "serving"
               PROVE  /\ lock = [kind |-> "ready", by |-> q]
                      /\ pc'[r] \in Starting => pc'[r] \in {"gate", "probe", "hello", "judge"}
                      /\ pc'[r] = "hello" => seen[r] \in {"unreadable", q}
                      /\ pc'[r] = "judge" => seen[r] = "unreadable"
    BY <1>1 DEF ServesAlone
  <2>1. pc[q] = "serving" /\ lock # Absent /\ lock.by = q /\ lock.kind = "ready"
    BY <1>1 DEF OwnerHasLock, LockHasOwner
  <2>2. pc'[r] = pc[r] \/ pc'[r] \in Leaving \cup {"dead"}
    BY <1>1
  <2>3. pc[r] \in Owning => r = q
    BY <2>1 DEF OwnerHasLock
  <2> QED
    BY <2>1, <2>2, <2>3 DEF ProbesAreHarmless
<1> QED
  BY <1>3, <1>4, <1>5, <1>6, <1>7 DEF TroubledInv

LEMMA StepTroubled ==
  ASSUME Orderly, TroubledInv, [Next]_vars
  PROVE  TroubledInv'
<1>0. TypeOK'
  BY StepTyped DEF TroubledInv
<1> USE <1>0, StartupConstants
    DEF TroubledInv, TypeOK, Calm, Fresh, StartsTakeTurns, BuildsAlone, CleansAlone, OwnerHasFiles,
        ServesAlone, Building, Probing, Owning, Starting, Leaving, files
<1>1. ASSUME NEW p \in Procs, Launch(p) PROVE TroubledInv'
  <2>1. /\ pc[p] = "off" /\ nobodyCleans /\ pc' = [pc EXCEPT ![p] = "gate"]
        /\ waited' = [waited EXCEPT ![p] = 0] /\ UNCHANGED <<seen, lock, age, token, endpoint, crashed>>
    BY <1>1 DEF Launch, mayLaunch, goto
  <2>2. \A q \in Procs : pc[q] \in Starting => pc[q] \in Building
    BY <1>1, <2>1 DEF Launch, mayLaunch, nobodyCleans, starting
  <2> QED
    BY <2>1, <2>2
<1>2. ASSUME NEW p \in Procs, Gate(p) \/ ReclaimCreate(p) PROVE TroubledInv'
  BY <1>2 DEF Gate, ReclaimCreate, createLock, goto, at, nobodyCleans, Absent
<1>3. ASSUME NEW p \in Procs, Probe(p) PROVE TroubledInv'
  BY <1>3 DEF Probe, goto, at, Absent
<1>4. ASSUME NEW p \in Procs, Hello(p) PROVE TroubledInv'
  BY <1>4 DEF Hello, answersHello, goto, at
<1>5. ASSUME NEW p \in Procs, Judge(p) PROVE TroubledInv'
  <2>1. (\E q \in Procs : pc[q] \in Building) => ~abandoned
    BY DEF abandoned
  <2> QED
    BY <1>5, <2>1 DEF Judge, abandoned, goto, at
<1>6. ASSUME NEW p \in Procs, ReclaimUnlink(p) PROVE TroubledInv'
  BY <1>6 DEF ReclaimUnlink, goto, at
<1>7. ASSUME NEW p \in Procs, ClearEndpoint(p) \/ Listen(p) PROVE TroubledInv'
  BY <1>7 DEF ClearEndpoint, Listen, goto, at, nobodyCleans
<1>8. ASSUME NEW p \in Procs, ListenBusy(p) PROVE TroubledInv'
  BY <1>8 DEF ListenBusy, goto, at, nobodyCleans
<1>9. ASSUME NEW p \in Procs, WriteToken(p) PROVE TroubledInv'
  BY <1>9 DEF WriteToken, closeServer, goto, at, nobodyCleans
<1>10. ASSUME NEW p \in Procs, PublishState(p) PROVE TroubledInv'
  BY <1>10 DEF PublishState, closeServer, goto, at, nobodyCleans
<1>11. ASSUME NEW p \in Procs, IdleExit(p) \/ ShutdownExit(p) PROVE TroubledInv'
  BY <1>11 DEF IdleExit, ShutdownExit, closeServer, goto, at, nobodyCleans
<1>12. ASSUME NEW p \in Procs, DropState(p) \/ DropToken(p) \/ DropEndpoint(p) PROVE TroubledInv'
  BY <1>12 DEF DropState, DropToken, DropEndpoint, goto, at
<1>13. ASSUME NEW p \in Procs, Crash(p) PROVE TroubledInv'
  BY <1>13 DEF Crash, goto
<1>14. CASE PipeFreed
  <2>1. /\ endpoint \in Procs /\ pc[endpoint] \in Gone
        /\ UNCHANGED <<pc, seen, waited, lock, age, token>>
    BY <1>14 DEF PipeFreed
  <2>2. OwnerHasFiles'
    BY <2>1 DEF Gone
  <2> QED
    BY <2>1, <2>2
<1>15. CASE Tick
  BY <1>15 DEF Tick
<1>16. CASE UNCHANGED vars
  BY <1>16 DEF vars
<1> QED
  BY <1>1, <1>2, <1>3, <1>4, <1>5, <1>6, <1>7, <1>8, <1>9, <1>10, <1>11, <1>12, <1>13, <1>14, <1>15,
     <1>16
  DEF Next, Start, Leave

-----------------------------------------------------------------------------
(* Both together, from the start.                                           *)

\* Nobody dies and nobody leaves: then launches need not take turns.
Undisturbed == Crashes = 0 /\ ~Leaves

LEMMA StaysCalm ==
  ASSUME Undisturbed, LockInv, [Next]_vars
  PROVE  Calm'
<1> USE StartupConstants
    DEF Undisturbed, LockInv, NothingStale, Calm, TypeOK, Starting, Owning, Leaving, Gone
<1>1. ASSUME NEW p \in Procs, Leave(p) \/ Crash(p) PROVE FALSE
  BY <1>1 DEF Leave, IdleExit, ShutdownExit, DropState, DropToken, DropEndpoint, Crash, closeServer,
              mayLeave, at
<1>2. ASSUME NEW p \in Procs, Launch(p) PROVE Calm'
  BY <1>2 DEF Launch, goto
<1>3. ASSUME NEW p \in Procs, Start(p) PROVE Calm'
  BY <1>3 DEF Start, Gate, Probe, Hello, Judge, ReclaimUnlink, ReclaimCreate, createLock,
              ClearEndpoint, Listen, ListenBusy, WriteToken, PublishState, closeServer, mayLeave,
              goto
<1>4. CASE PipeFreed \/ Tick \/ UNCHANGED vars
  BY <1>4 DEF PipeFreed, Tick, vars
<1> QED
  BY <1>1, <1>2, <1>3, <1>4 DEF Next

LEMMA StartupInvariant == Undisturbed \/ Orderly => (Spec => []StartupInv)
<1> SUFFICES ASSUME Undisturbed \/ Orderly PROVE Spec => []StartupInv
  OBVIOUS
<1>1. Init => StartupInv
  BY InitLock DEF StartupInv
<1>2. ASSUME StartupInv, [Next]_vars PROVE StartupInv'
  <2>1. CASE LockInv /\ Calm'
    BY <1>2, <2>1, StepLock DEF StartupInv
  <2>2. CASE LockInv /\ ~Calm'
    BY <1>2, <2>2, StaysCalm, FirstTrouble DEF StartupInv
  <2>3. CASE Orderly /\ TroubledInv
    BY <1>2, <2>3, StepTroubled DEF StartupInv
  <2> QED
    BY <1>2, <2>1, <2>2, <2>3 DEF StartupInv
<1> QED
  BY <1>1, <1>2, PTL DEF Spec

\* Of hosts launched at once the exclusive create lets one past the startup gate
\* (host.ts:162); and where later launches, once one has died or left, overlap
\* only with a start that has the lock, a reclaimed lock has one owner too: the
\* heartbeat of the start that waits for its endpoint keeps its lock from being
\* judged abandoned (host.ts:1223).
THEOREM OneStarts == Undisturbed \/ Orderly => (Spec => []OneOwner)
<1> SUFFICES ASSUME Undisturbed \/ Orderly PROVE Spec => []OneOwner
  OBVIOUS
<1>1. LockInv => OneOwner
  BY DEF LockInv, OwnerHasLock, OneOwner
<1>2. TroubledInv => OneOwner
  BY DEF TroubledInv, StartsTakeTurns, BuildsAlone, ServesAlone, OneOwner, Building, Owning
<1> QED
  BY <1>1, <1>2, StartupInvariant, PTL DEF StartupInv

\* And a serving host keeps the state file, the token file and the endpoint:
\* late starters neither reclaim its lock nor clear its socket.
THEOREM StaysReachable == Undisturbed \/ Orderly => (Spec => []ServingIsReachable)
<1> SUFFICES ASSUME Undisturbed \/ Orderly PROVE Spec => []ServingIsReachable
  OBVIOUS
<1>1. LockInv => ServingIsReachable
  BY DEF LockInv, TypeOK, LockHasOwner, OwnerHasLock, OwnerHasFiles, ServingIsReachable, Owning, Absent
<1>2. TroubledInv => ServingIsReachable
  BY DEF TroubledInv, OwnerHasFiles, ServesAlone, ServingIsReachable
<1> QED
  BY <1>1, <1>2, StartupInvariant, PTL DEF StartupInv
=============================================================================

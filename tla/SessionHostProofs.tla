------------------------- MODULE SessionHostProofs -------------------------
(***************************************************************************)
(* Theorems about SessionHost, for any names, connections, kill ids and    *)
(* number of processes.                                                    *)
(***************************************************************************)
EXTENDS SessionHost, SequenceTheorems, TLAPS

-----------------------------------------------------------------------------
(* Requests.                                                                *)

\* A request; one that waits for a kill carries the kill's id.
Request ==
  {r \in [pc : Steps, kind : Kinds \cup {"kill", "none"}, id : Ids \cup {None},
          want : Gens \cup {NoGen}, gen : Gens \cup {NoGen}] :
     r.pc \in {"awaitEnd", "killing"} => r.id \in Ids}

Requests == [Sockets -> [Names -> Request]]

\* The awaits of an attach during which it holds its name's turn.
Holding == {"inspect", "warm", "cold", "launch", "coldEnd"}

\* The one request that moves, and to what.
OnlyReq(s, n, r) ==
  /\ req' \in Requests
  /\ req'[s][n] = r
  /\ \A t \in Sockets, m \in Names : t # s \/ m # n => req'[t][m] = req[t][m]

LEMMA SetReq ==
  ASSUME req \in Requests, NEW s \in Sockets, NEW n \in Names, NEW r \in Request,
         req' = [req EXCEPT ![s][n] = r]
  PROVE  OnlyReq(s, n, r)
  BY DEF OnlyReq, Requests

LEMMA IdleReq == Idle \in Request
  BY DEF Idle, Request, Steps

LEMMA EndReq ==
  ASSUME req \in Requests, NEW s \in Sockets, NEW n \in Names, endRequest(s, n)
  PROVE  OnlyReq(s, n, Idle)
  BY SetReq, IdleReq DEF endRequest

LEMMA StepReq ==
  ASSUME req \in Requests, NEW s \in Sockets, NEW n \in Names, NEW pc \in Holding \cup {"turn"},
         NEW g \in Gens \cup {NoGen}, step(s, n, pc, g)
  PROVE  OnlyReq(s, n, [req[s][n] EXCEPT !.pc = pc, !.gen = g])
<1> DEFINE r == [req[s][n] EXCEPT !.pc = pc, !.gen = g]
<1>1. req[s][n] \in Request
  BY DEF Requests
<1>2. r \in Request
  BY <1>1 DEF Request, Holding, Steps
<1>3. req' = [req EXCEPT ![s][n] = r]
  BY DEF step, Requests, Request
<1>4. QED
  BY <1>2, <1>3, SetReq

LEMMA AckAllReq ==
  ASSUME req \in Requests, NEW n, NEW id, ackAll(n, id)
  PROVE  /\ req' \in Requests
         /\ \A t \in Sockets, m \in Names :
              req'[t][m] = IF m = n /\ req[t][n].pc = "killing" THEN Idle ELSE req[t][m]
  BY IdleReq DEF ackAll, Requests

LEMMA FailReq ==
  ASSUME req \in Requests, NEW n, failOperation(n)
  PROVE  /\ req' \in Requests
         /\ \A t \in Sockets, m \in Names :
              req'[t][m] = IF m = n /\ req[t][n].pc = "killing" THEN Idle ELSE req[t][m]
  BY IdleReq DEF failOperation, Requests

-----------------------------------------------------------------------------
(* Turns: whoever works on a name is at the head of its queue.              *)

TurnsHeld ==
  \A s \in Sockets, n \in Names :
    /\ req[s][n].pc \in Holding \cup {"turn"} => \E i \in 1..Len(turns[n]) : turns[n][i] = s
    /\ req[s][n].pc \in Holding => turns[n][1] = s

Queued ==
  /\ req \in Requests
  /\ turns \in [Names -> Seq(Sockets)]
  /\ sessions \in [Names -> Gens \cup {NoGen}]
  /\ granted \subseteq Ids
  /\ TurnsHeld

\* A turn goes to the next in the queue.
LEMMA ReleaseQueued ==
  ASSUME Queued, NEW s \in Sockets, NEW n \in Names, req[s][n].pc \in Holding,
         OnlyReq(s, n, Idle), releaseTurn(n)
  PROVE  turns' \in [Names -> Seq(Sockets)] /\ TurnsHeld'
<1>1. turns[n] \in Seq(Sockets) /\ turns[n] # <<>> /\ turns[n][1] = s
  BY DEF Queued, TurnsHeld
<1>2. /\ turns' \in [Names -> Seq(Sockets)]
      /\ turns'[n] = Tail(turns[n])
      /\ \A m \in Names : m # n => turns'[m] = turns[m]
  BY <1>1 DEF releaseTurn, Queued
<1>3. /\ Len(Tail(turns[n])) = Len(turns[n]) - 1
      /\ \A i \in 1..Len(turns[n]) - 1 : Tail(turns[n])[i] = turns[n][i + 1]
  BY <1>1
<1>4. ASSUME NEW t \in Sockets, t # s
      PROVE  /\ req'[t][n].pc \in Holding \cup {"turn"} =>
                  \E i \in 1..Len(turns'[n]) : turns'[n][i] = t
             /\ req'[t][n].pc \notin Holding
  <2>1. req'[t][n] = req[t][n]
    BY <1>4 DEF OnlyReq
  <2>2. req[t][n].pc \notin Holding
    BY <1>1, <1>4 DEF Queued, TurnsHeld
  <2>3. ASSUME req[t][n].pc = "turn" PROVE \E i \in 1..Len(turns'[n]) : turns'[n][i] = t
    <3>1. PICK i \in 1..Len(turns[n]) : turns[n][i] = t
      BY <2>3 DEF Queued, TurnsHeld
    <3>2. i # 1 /\ i \in Nat /\ Len(turns[n]) \in Nat
      BY <1>1, <1>4, <3>1
    <3>3. i - 1 \in 1..Len(turns'[n]) /\ turns'[n][i - 1] = t
      BY <1>2, <1>3, <3>1, <3>2
    <3>4. QED
      BY <3>3
  <2>4. QED
    BY <2>1, <2>2, <2>3
<1>5. req'[s][n].pc = "idle"
  BY DEF OnlyReq, Idle
<1>6. ASSUME NEW t \in Sockets, NEW m \in Names, m # n
      PROVE  req'[t][m] = req[t][m] /\ turns'[m] = turns[m]
  BY <1>2, <1>6 DEF OnlyReq
<1>7. ASSUME NEW t \in Sockets, NEW m \in Names
      PROVE  /\ req'[t][m].pc \in Holding \cup {"turn"} =>
                  \E i \in 1..Len(turns'[m]) : turns'[m][i] = t
             /\ req'[t][m].pc \in Holding => turns'[m][1] = t
  <2>1. CASE m # n
    <3>1. req'[t][m] = req[t][m] /\ turns'[m] = turns[m]
      BY <1>6, <2>1
    <3>2. /\ req[t][m].pc \in Holding \cup {"turn"} =>
               \E i \in 1..Len(turns[m]) : turns[m][i] = t
          /\ req[t][m].pc \in Holding => turns[m][1] = t
      BY DEF Queued, TurnsHeld
    <3>3. QED
      BY <3>1, <3>2
  <2>2. CASE m = n /\ t # s
    BY <1>4, <2>2
  <2>3. CASE m = n /\ t = s
    BY <1>5, <2>3 DEF Holding
  <2>4. QED
    BY <2>1, <2>2, <2>3
<1>8. QED
  BY <1>2, <1>7 DEF TurnsHeld

\* A request goes on without giving up its turn, or without having one.
LEMMA MoveHeld ==
  ASSUME Queued, NEW s \in Sockets, NEW n \in Names, NEW r, OnlyReq(s, n, r),
         UNCHANGED turns, r.pc \in Holding \cup {"turn"} => req[s][n].pc \in Holding
  PROVE  TurnsHeld'
<1> SUFFICES ASSUME NEW t \in Sockets, NEW m \in Names
             PROVE  /\ req'[t][m].pc \in Holding \cup {"turn"} =>
                         \E i \in 1..Len(turns[m]) : turns[m][i] = t
                    /\ req'[t][m].pc \in Holding => turns[m][1] = t
  BY DEF TurnsHeld
<1>1. /\ req[t][m].pc \in Holding \cup {"turn"} => \E i \in 1..Len(turns[m]) : turns[m][i] = t
      /\ req[t][m].pc \in Holding => turns[m][1] = t
  BY DEF Queued, TurnsHeld
<1>2. CASE t # s \/ m # n
  BY <1>1, <1>2 DEF OnlyReq
<1>3. CASE t = s /\ m = n
  BY <1>1, <1>3 DEF OnlyReq
<1>4. QED
  BY <1>2, <1>3

\* Requests that are answered all at once held no turn.
LEMMA AnswerHeld ==
  ASSUME Queued, NEW n, UNCHANGED turns,
         \A t \in Sockets, m \in Names :
            req'[t][m] = IF m = n /\ req[t][n].pc = "killing" THEN Idle ELSE req[t][m]
  PROVE  TurnsHeld'
<1> SUFFICES ASSUME NEW t \in Sockets, NEW m \in Names
             PROVE  /\ req'[t][m].pc \in Holding \cup {"turn"} =>
                         \E i \in 1..Len(turns[m]) : turns[m][i] = t
                    /\ req'[t][m].pc \in Holding => turns[m][1] = t
  BY DEF TurnsHeld
<1>1. /\ req[t][m].pc \in Holding \cup {"turn"} => \E i \in 1..Len(turns[m]) : turns[m][i] = t
      /\ req[t][m].pc \in Holding => turns[m][1] = t
  BY DEF Queued, TurnsHeld
<1>2. Idle.pc \notin Holding \cup {"turn"}
  BY DEF Idle, Holding
<1>3. req'[t][m] = Idle \/ req'[t][m] = req[t][m]
  OBVIOUS
<1>4. QED
  BY <1>1, <1>2, <1>3

LEMMA AckGranted ==
  ASSUME granted \subseteq Ids, NEW id \in Ids, ack(id)
  PROVE  granted' \subseteq Ids
  BY DEF ack

LEMMA AttachReq ==
  ASSUME Queued, NEW s \in Sockets, NEW n \in Names, Attach(s, n)
  PROVE  \E r \in Request : OnlyReq(s, n, r) /\ r.pc = "turn"
<1>1. PICK kind \in Kinds, id \in {None} \cup granted, want \in {NoGen} \cup Gens :
        req' = [req EXCEPT ![s][n] = [pc |-> "turn", kind |-> kind, id |-> id, want |-> want,
                                      gen |-> NoGen]]
  BY DEF Attach
<1> DEFINE r == [pc |-> "turn", kind |-> kind, id |-> id, want |-> want, gen |-> NoGen]
<1>2. r \in Request
  BY DEF Request, Steps, Queued
<1>3. OnlyReq(s, n, r)
  BY <1>1, <1>2, SetReq DEF Queued
<1>4. QED
  BY <1>2, <1>3

LEMMA AttachQueued ==
  ASSUME Queued, NEW s \in Sockets, NEW n \in Names, Attach(s, n)
  PROVE  Queued'
<1>1. PICK r \in Request : OnlyReq(s, n, r) /\ r.pc = "turn"
  BY AttachReq
<1>2. /\ turns' = [turns EXCEPT ![n] = Append(@, s)]
      /\ UNCHANGED <<sessions, granted>>
  BY DEF Attach
<1>3. turns[n] \in Seq(Sockets)
  BY DEF Queued
<1>4. /\ turns' \in [Names -> Seq(Sockets)]
      /\ turns'[n] = Append(turns[n], s)
      /\ \A m \in Names : m # n => turns'[m] = turns[m]
  BY <1>2, <1>3 DEF Queued
<1>5. /\ Len(turns'[n]) = Len(turns[n]) + 1
      /\ turns'[n][Len(turns[n]) + 1] = s
      /\ \A i \in 1..Len(turns[n]) : turns'[n][i] = turns[n][i]
      /\ Len(turns[n]) \in Nat
  BY <1>3, <1>4
<1>6. ASSUME NEW t \in Sockets, NEW m \in Names
      PROVE  /\ req'[t][m].pc \in Holding \cup {"turn"} =>
                  \E i \in 1..Len(turns'[m]) : turns'[m][i] = t
             /\ req'[t][m].pc \in Holding => turns'[m][1] = t
  <2>1. /\ req[t][m].pc \in Holding \cup {"turn"} => \E i \in 1..Len(turns[m]) : turns[m][i] = t
        /\ req[t][m].pc \in Holding => turns[m][1] = t
    BY DEF Queued, TurnsHeld
  <2>2. CASE m # n
    <3>1. turns'[m] = turns[m] /\ req'[t][m] = req[t][m]
      BY <1>1, <1>4, <2>2 DEF OnlyReq
    <3>2. QED
      BY <2>1, <3>1
  <2>3. CASE m = n /\ t = s
    <3>1. req'[t][m].pc = "turn"
      BY <1>1, <2>3 DEF OnlyReq
    <3>2. Len(turns[n]) + 1 \in 1..Len(turns'[n])
      BY <1>5
    <3>3. QED
      BY <1>5, <2>3, <3>1, <3>2 DEF Holding
  <2>4. CASE m = n /\ t # s
    <3>1. req'[t][m] = req[t][m]
      BY <1>1, <2>4 DEF OnlyReq
    <3>2. ASSUME req[t][m].pc \in Holding \cup {"turn"}
          PROVE  \E i \in 1..Len(turns'[m]) : turns'[m][i] = t
      <4>1. PICK i \in 1..Len(turns[n]) : turns[n][i] = t
        BY <2>1, <2>4, <3>2
      <4>2. i \in 1..Len(turns'[n]) /\ turns'[n][i] = t
        BY <1>5, <4>1
      <4>3. QED
        BY <2>4, <4>2
    <3>3. ASSUME req[t][m].pc \in Holding PROVE turns'[m][1] = t
      <4>1. Len(turns[n]) >= 1 /\ turns[n][1] = t
        BY <1>5, <2>1, <2>4, <3>3
      <4>2. QED
        BY <1>5, <2>4, <4>1
    <3>4. QED
      BY <3>1, <3>2, <3>3
  <2>5. QED
    BY <2>2, <2>3, <2>4
<1>7. QED
  BY <1>1, <1>2, <1>4, <1>6 DEF Queued, TurnsHeld, OnlyReq

\* A request that goes on, and nothing else of what is queued changes.
LEMMA MoveQueued ==
  ASSUME Queued, NEW s \in Sockets, NEW n \in Names, NEW r, OnlyReq(s, n, r),
         UNCHANGED <<turns, sessions>>, granted' \subseteq Ids,
         r.pc \in Holding \cup {"turn"} => req[s][n].pc \in Holding
  PROVE  Queued'
  BY MoveHeld DEF Queued, OnlyReq

\* A request that ends, and gives its turn to the next.
LEMMA DoneQueued ==
  ASSUME Queued, NEW s \in Sockets, NEW n \in Names, req[s][n].pc \in Holding,
         endRequest(s, n), releaseTurn(n), UNCHANGED <<sessions, granted>>
  PROVE  Queued'
<1>1. OnlyReq(s, n, Idle)
  BY EndReq DEF Queued
<1>2. QED
  BY <1>1, ReleaseQueued DEF Queued, OnlyReq

LEMMA KillNowQueued ==
  ASSUME Queued, NEW s \in Sockets, NEW n \in Names, NEW id \in Ids, KillNow(s, n, id)
  PROVE  Queued'
<1>1. CASE KillAbsent(s, n, id) \/ KillOther(s, n, id) \/ KillRefused(s, n, id)
  <2>1. OnlyReq(s, n, Idle)
    BY <1>1, EndReq DEF KillAbsent, KillOther, KillRefused, Queued
  <2>2. UNCHANGED <<turns, sessions>> /\ granted' \subseteq Ids
    BY <1>1, AckGranted DEF KillAbsent, KillOther, KillRefused, Queued
  <2>3. QED
    BY <2>1, <2>2, MoveQueued DEF Idle, Holding
<1>2. CASE KillExpected(s, n, id)
  <2> DEFINE r == [Idle EXCEPT !.pc = "killing", !.kind = "kill", !.id = id]
  <2>1. r \in Request
    BY DEF Idle, Request, Steps
  <2>2. OnlyReq(s, n, r)
    BY <1>2, <2>1, SetReq DEF KillExpected, Queued
  <2>3. UNCHANGED <<turns, sessions, granted>>
    BY <1>2 DEF KillExpected
  <2>4. QED
    BY <2>2, <2>3, MoveQueued DEF Idle, Holding, Queued
<1>3. QED
  BY <1>1, <1>2 DEF KillNow

LEMMA OperateQueued ==
  ASSUME Queued, NEW s \in Sockets, NEW n \in Names, Operate(s, n)
  PROVE  Queued'
<1>1. req[s][n].pc \in Holding /\ existing(s, n) \in Gens \cup {NoGen}
  BY DEF Operate, RefuseWarm, PrepareWarm, RefuseCold, SpawnFails, Create, inspecting, Holding,
         existing, Queued, Requests, Request
<1>2. CASE RefuseWarm(s, n) \/ RefuseCold(s, n) \/ SpawnFails(s, n)
  BY <1>1, <1>2, DoneQueued DEF RefuseWarm, RefuseCold, SpawnFails
<1>3. CASE PrepareWarm(s, n)
  <2>1. OnlyReq(s, n, [req[s][n] EXCEPT !.pc = "warm", !.gen = existing(s, n)])
    BY <1>1, <1>3, StepReq DEF PrepareWarm, Queued, Holding
  <2>2. UNCHANGED <<turns, sessions, granted>>
    BY <1>3 DEF PrepareWarm
  <2>3. QED
    BY <1>1, <2>1, <2>2, MoveQueued DEF Queued
<1>4. CASE Create(s, n)
  <2>1. PICK g \in Gens : sessions' = [sessions EXCEPT ![n] = g] /\ step(s, n, "cold", g)
    BY <1>4 DEF Create
  <2>2. OnlyReq(s, n, [req[s][n] EXCEPT !.pc = "cold", !.gen = g])
    BY <2>1, StepReq DEF Queued, Holding
  <2>3. UNCHANGED <<turns, granted>>
    BY <1>4 DEF Create
  <2>4. TurnsHeld'
    BY <1>1, <2>2, <2>3, MoveHeld
  <2>5. QED
    BY <2>1, <2>2, <2>3, <2>4 DEF Queued, OnlyReq
<1>5. QED
  BY <1>2, <1>3, <1>4 DEF Operate

\* What a committed attach does next: answer, or launch.
LEMMA ActivateQueued ==
  ASSUME Queued, NEW s \in Sockets, NEW n \in Names, NEW g \in Gens \cup {NoGen}, NEW plan,
         req[s][n].pc \in Holding, activate(s, n, g, plan)
  PROVE  Queued'
<1>1. UNCHANGED <<sessions, granted>>
  BY DEF activate, host
<1>2. CASE respond(s, n, g)
  BY <1>1, <1>2, DoneQueued DEF respond
<1>3. CASE step(s, n, "launch", g) /\ UNCHANGED turns
  <2>1. OnlyReq(s, n, [req[s][n] EXCEPT !.pc = "launch", !.gen = g])
    BY <1>3, StepReq DEF Queued, Holding
  <2>2. QED
    BY <1>1, <1>3, <2>1, MoveQueued DEF Queued
<1>4. QED
  BY <1>2, <1>3 DEF activate

LEMMA AttachingQueued ==
  ASSUME Queued, NEW s \in Sockets, NEW n \in Names,
         Observe(s, n) \/ Activate(s, n) \/ ColdEnd(s, n)
  PROVE  Queued'
<1>1. CASE Observe(s, n)
  <2>1. OnlyReq(s, n, [req[s][n] EXCEPT !.pc = "inspect", !.gen = sessions[n]])
    BY <1>1, StepReq DEF Observe, Queued, Holding
  <2>2. UNCHANGED <<turns, sessions, granted>>
    BY <1>1 DEF Observe
  <2>3. turns[n] # <<>> /\ turns[n] \in Seq(Sockets) /\ Head(turns[n]) = s
    BY <1>1 DEF Observe, atBarrier, Queued, TurnsHeld
  <2>4. Len(turns[n]) \in Nat /\ Len(turns[n]) >= 1 /\ turns[n][1] = s
    BY <2>3
  <2>5. TurnsHeld'
    <3> SUFFICES ASSUME NEW t \in Sockets, NEW m \in Names
                 PROVE  /\ req'[t][m].pc \in Holding \cup {"turn"} =>
                             \E i \in 1..Len(turns[m]) : turns[m][i] = t
                        /\ req'[t][m].pc \in Holding => turns[m][1] = t
      BY <2>2 DEF TurnsHeld
    <3>1. CASE t # s \/ m # n
      BY <2>1, <3>1 DEF OnlyReq, Queued, TurnsHeld
    <3>2. CASE t = s /\ m = n
      BY <2>4, <3>2
    <3>3. QED
      BY <3>1, <3>2
  <2>6. QED
    BY <2>1, <2>2, <2>5 DEF Queued, OnlyReq
<1>2. CASE WarmDone(s, n)
  <2>1. req[s][n].pc \in Holding /\ req[s][n].gen \in Gens \cup {NoGen}
    BY <1>2 DEF WarmDone, Holding, Queued, Requests, Request
  <2>2. CASE respond(s, n, NoGen) /\ UNCHANGED <<sessions, granted>>
    BY <2>1, <2>2, DoneQueued DEF respond
  <2>3. CASE step(s, n, "turn", NoGen) /\ UNCHANGED <<turns, sessions, granted>>
    <3>1. OnlyReq(s, n, [req[s][n] EXCEPT !.pc = "turn", !.gen = NoGen])
      BY <2>3, StepReq DEF Queued, Holding
    <3>2. QED
      BY <2>1, <2>3, <3>1, MoveQueued DEF Queued
  <2>4. CASE activate(s, n, req[s][n].gen, token(s, n) # None)
    BY <2>1, <2>4, ActivateQueued
  <2>5. QED
    BY <1>2, <2>2, <2>3, <2>4 DEF WarmDone
<1>3. CASE ColdDone(s, n)
  <2>1. req[s][n].pc \in Holding /\ req[s][n].gen \in Gens \cup {NoGen}
    BY <1>3 DEF ColdDone, Holding, Queued, Requests, Request
  <2>2. CASE respond(s, n, NoGen) /\ UNCHANGED <<sessions, granted>>
    BY <2>1, <2>2, DoneQueued DEF respond
  <2>3. CASE step(s, n, "coldEnd", req[s][n].gen) /\ UNCHANGED <<turns, sessions, granted>>
    <3>1. OnlyReq(s, n, [req[s][n] EXCEPT !.pc = "coldEnd", !.gen = req[s][n].gen])
      BY <2>1, <2>3, StepReq DEF Queued, Holding
    <3>2. QED
      BY <2>1, <2>3, <3>1, MoveQueued DEF Queued
  <2>4. CASE activate(s, n, req[s][n].gen, TRUE)
    BY <2>1, <2>4, ActivateQueued
  <2>5. QED
    BY <1>3, <2>2, <2>3, <2>4 DEF ColdDone
<1>6. CASE LaunchDone(s, n)
  BY <1>6, DoneQueued DEF LaunchDone, respond, Holding
<1>4. CASE ColdEnd(s, n)
  BY <1>4, DoneQueued DEF ColdEnd, Holding
<1>5. QED
  BY <1>1, <1>2, <1>3, <1>4, <1>6 DEF Activate

LEMMA WaitReq ==
  ASSUME Queued, NEW s \in Sockets, NEW n \in Names, NEW id \in Ids,
         KillJoin(s, n, id) \/ KillWaits(s, n, id)
  PROVE  \E r \in Request : OnlyReq(s, n, r) /\ r.pc \in {"killing", "awaitEnd"}
<1> DEFINE joins == [Idle EXCEPT !.pc = "killing", !.kind = "kill", !.id = id]
           waits == [Idle EXCEPT !.pc = "awaitEnd", !.kind = "kill", !.id = id,
                                 !.gen = sessions[n]]
<1>1. sessions[n] \in Gens \cup {NoGen}
  BY DEF Queued
<1>2. joins \in Request /\ waits \in Request
  BY <1>1 DEF Idle, Request, Steps
<1>3. joins.pc = "killing" /\ waits.pc = "awaitEnd"
  BY DEF Idle
<1>4. req' = [req EXCEPT ![s][n] = joins] \/ req' = [req EXCEPT ![s][n] = waits]
  BY DEF KillJoin, KillWaits
<1>5. QED
  BY <1>2, <1>3, <1>4, SetReq DEF Queued

LEMMA KillQueued ==
  ASSUME Queued, NEW s \in Sockets, NEW n \in Names, NEW id \in Ids,
         KillReplay(s, n, id) \/ KillJoin(s, n, id) \/ KillWaits(s, n, id) \/ Kill(s, n, id)
  PROVE  Queued'
<1>1. CASE KillReplay(s, n, id)
  <2>1. UNCHANGED <<turns, sessions, req>>
    BY <1>1 DEF KillReplay
  <2>2. granted' \subseteq Ids
    BY <1>1, AckGranted DEF KillReplay, Queued
  <2>3. QED
    BY <2>1, <2>2 DEF Queued, TurnsHeld
<1>2. CASE KillJoin(s, n, id) \/ KillWaits(s, n, id)
  <2>1. PICK r \in Request : OnlyReq(s, n, r) /\ r.pc \in {"killing", "awaitEnd"}
    BY <1>2, WaitReq
  <2>2. UNCHANGED <<turns, sessions, granted>>
    BY <1>2 DEF KillJoin, KillWaits
  <2>3. QED
    BY <2>1, <2>2, MoveQueued DEF Holding, Queued
<1>3. CASE Kill(s, n, id)
  BY <1>3, KillNowQueued DEF Kill
<1>4. QED
  BY <1>1, <1>2, <1>3

LEMMA KillResumesQueued ==
  ASSUME Queued, NEW s \in Sockets, NEW n \in Names,
         KillResumes(s, n)
  PROVE  Queued'
<1>1. req[s][n].id \in Ids
  BY DEF KillResumes, Queued, Requests, Request
<1>2. QED
  BY <1>1, KillNowQueued DEF KillResumes

LEMMA RetireQueued ==
  ASSUME Queued, NEW g \in Gens, Retire(g)
  PROVE  Queued'
<1>1. UNCHANGED turns
  BY DEF Retire
<1>2. sessions' \in [Names -> Gens \cup {NoGen}]
  BY DEF Retire, Queued
<1>3. CASE owner[g] = None
  BY <1>1, <1>2, <1>3 DEF Retire, Queued, TurnsHeld
<1>4. CASE owner[g] # None
  <2>1. ackAll(nameOf[g], owner[g])
    BY <1>4 DEF Retire
  <2>2. granted' \subseteq Ids
    BY <2>1, AckGranted DEF ackAll, Queued
  <2>3. TurnsHeld' /\ req' \in Requests
    BY <1>1, <2>1, AckAllReq, AnswerHeld DEF Queued
  <2>4. QED
    BY <1>1, <1>2, <2>2, <2>3 DEF Queued
<1>5. QED
  BY <1>3, <1>4

LEMMA TreeKillQueued ==
  ASSUME Queued, NEW n \in Names, TreeKill(n)
  PROVE  Queued'
<1>1. CASE TreeKilled(n)
  BY <1>1 DEF TreeKilled, Queued, TurnsHeld
<1>2. CASE TreeKillFails(n)
  <2>1. UNCHANGED <<turns, sessions, granted>> /\ failOperation(n)
    BY <1>2 DEF TreeKillFails
  <2>2. TurnsHeld' /\ req' \in Requests
    BY <2>1, FailReq, AnswerHeld DEF Queued
  <2>3. QED
    BY <2>1, <2>2 DEF Queued
<1>3. QED
  BY <1>1, <1>2 DEF TreeKill

\* The steps that touch no request.
Elsewhere ==
  \/ \E id \in Ids, n \in Names : Decide(id, n)
  \/ \E n \in Names : LeaseExpires(n)
  \/ \E g \in Gens : ProcessExit(g) \/ ShutdownDeadline(g)
  \/ \E id \in Ids : CompletedForgotten(id)
  \/ \E s \in Sockets : SocketClose(s)
  \/ GraceExit \/ ShutdownStart \/ ShutdownDone \/ ShutdownExit

LEMMA ElsewhereQueued == Queued /\ Elsewhere => Queued'
<1> SUFFICES ASSUME Queued, Elsewhere PROVE UNCHANGED <<turns, sessions, req, granted>>
  BY DEF Queued, TurnsHeld
<1>1. CASE \E id \in Ids, n \in Names : Decide(id, n)
  BY <1>1 DEF Decide
<1>2. CASE \E g \in Gens : ProcessExit(g) \/ ShutdownDeadline(g)
  BY <1>2 DEF ProcessExit, ShutdownDeadline
<1>3. CASE \/ \E n \in Names : LeaseExpires(n)
           \/ \E id \in Ids : CompletedForgotten(id)
           \/ \E s \in Sockets : SocketClose(s)
  BY <1>3 DEF LeaseExpires, CompletedForgotten, SocketClose
<1>4. CASE GraceExit \/ ShutdownStart \/ ShutdownDone \/ ShutdownExit
  BY <1>4 DEF GraceExit, ShutdownStart, ShutdownDone, ShutdownExit, stop
<1>5. QED
  BY <1>1, <1>2, <1>3, <1>4 DEF Elsewhere

LEMMA InitQueued == Init => Queued
  BY IdleReq DEF Init, Queued, Requests, TurnsHeld, Idle, Holding

LEMMA StepQueued == Queued /\ [Next]_vars => Queued'
<1> SUFFICES ASSUME Queued, [Next]_vars PROVE Queued'
  OBVIOUS
<1>1. ASSUME NEW s \in Sockets, NEW n \in Names,
             Attach(s, n) \/ Continue(s, n) \/ Activate(s, n)
      PROVE  Queued'
  BY <1>1, AttachQueued, OperateQueued, AttachingQueued, KillResumesQueued DEF Continue
<1>2. ASSUME NEW s \in Sockets, NEW n \in Names, NEW id \in Ids,
             KillReplay(s, n, id) \/ KillJoin(s, n, id) \/ KillWaits(s, n, id) \/ Kill(s, n, id)
      PROVE  Queued'
  BY <1>2, KillQueued
<1>3. ASSUME NEW n \in Names, TreeKill(n) PROVE Queued'
  BY <1>3, TreeKillQueued
<1>4. ASSUME NEW g \in Gens, Retire(g) PROVE Queued'
  BY <1>4, RetireQueued
<1>5. CASE Elsewhere
  BY <1>5, ElsewhereQueued
<1>6. CASE UNCHANGED vars
  BY <1>6 DEF vars, Queued, TurnsHeld
<1>7. QED
  BY <1>1, <1>2, <1>3, <1>4, <1>5, <1>6 DEF Next, Elsewhere

-----------------------------------------------------------------------------
(* The registry: a name's unretired generation is the registered one.       *)

Unretired == {"live", "killed", "exited"}

\* What an attach has observed when its operation runs: the barrier let it
\* through, and only exits and retirements could make that stale.
Observed ==
  \A s \in Sockets, n \in Names :
    req[s][n].pc = "inspect" =>
      /\ req[s][n].gen = sessions[n]
      /\ sessions[n] # NoGen => phase[sessions[n]] \in {"live", "killed"}

Registered ==
  /\ phase \in [Gens -> Phases]
  /\ nameOf \in [Gens -> Names \cup {None}]
  /\ \A g \in Gens : phase[g] \in Unretired =>
       nameOf[g] \in Names /\ sessions[nameOf[g]] = g
  /\ \A n \in Names : sessions[n] # NoGen =>
       phase[sessions[n]] \in Unretired /\ nameOf[sessions[n]] = n
  /\ Observed

LEMMA InitRegistered == Init => Registered
  BY DEF Init, Registered, Observed, Unretired, Idle, Phases

\* Nobody begins to inspect.
NoneInspects ==
  \A s \in Sockets, n \in Names : req'[s][n].pc = "inspect" => req'[s][n] = req[s][n]

\* Phases that move between unretired ones, and requests that do not begin to
\* inspect, leave the registry as it is.
LEMMA KeepRegistered ==
  ASSUME Queued, Registered, UNCHANGED <<sessions, nameOf>>,
         phase' \in [Gens -> Phases],
         \A g \in Gens : phase'[g] = phase[g] \/ (phase[g] = "live" /\ phase'[g] = "killed"),
         NoneInspects
  PROVE  Registered'
<1>1. \A g \in Gens : phase'[g] \in Unretired <=> phase[g] \in Unretired
  BY DEF Unretired
<1>2. \A g \in Gens : phase[g] \in {"live", "killed"} => phase'[g] \in {"live", "killed"}
  OBVIOUS
<1>3. \A n \in Names : sessions[n] # NoGen => sessions[n] \in Gens
  BY DEF Queued
<1>4. Observed'
  BY <1>2, <1>3 DEF Observed, Registered, NoneInspects
<1>5. QED
  BY <1>1, <1>3, <1>4 DEF Registered

LEMMA SameRegistered ==
  ASSUME Queued, Registered, UNCHANGED <<sessions, nameOf, phase>>, NoneInspects
  PROVE  Registered'
<1>1. /\ phase' \in [Gens -> Phases]
      /\ \A g \in Gens : phase'[g] = phase[g]
  BY DEF Registered
<1>2. QED
  BY <1>1, KeepRegistered

LEMMA MoveInspects ==
  ASSUME NEW s \in Sockets, NEW n \in Names, NEW r, OnlyReq(s, n, r), r.pc # "inspect"
  PROVE  NoneInspects
  BY DEF NoneInspects, OnlyReq

LEMMA AnswerInspects ==
  ASSUME NEW n,
         \A t \in Sockets, m \in Names :
            req'[t][m] = IF m = n /\ req[t][n].pc = "killing" THEN Idle ELSE req[t][m]
  PROVE  NoneInspects
<1>1. Idle.pc # "inspect"
  BY DEF Idle
<1>2. \A t \in Sockets, m \in Names : req'[t][m] = Idle \/ req'[t][m] = req[t][m]
  OBVIOUS
<1>3. QED
  BY <1>1, <1>2 DEF NoneInspects

LEMMA KillNowRegistered ==
  ASSUME Queued, Registered, NEW s \in Sockets, NEW n \in Names, NEW id \in Ids,
         KillNow(s, n, id)
  PROVE  Registered'
<1>1. CASE KillAbsent(s, n, id) \/ KillOther(s, n, id) \/ KillRefused(s, n, id)
  <2>1. OnlyReq(s, n, Idle)
    BY <1>1, EndReq DEF KillAbsent, KillOther, KillRefused, Queued
  <2>2. NoneInspects
    BY <2>1, MoveInspects DEF Idle
  <2>3. UNCHANGED <<sessions, nameOf, phase>>
    BY <1>1 DEF KillAbsent, KillOther, KillRefused, gens
  <2>4. QED
    BY <2>2, <2>3, SameRegistered
<1>2. CASE KillExpected(s, n, id)
  <2> DEFINE r == [Idle EXCEPT !.pc = "killing", !.kind = "kill", !.id = id]
             g == sessions[n]
  <2>1. OnlyReq(s, n, r)
    <3>1. r \in Request
      BY DEF Idle, Request, Steps
    <3>2. QED
      BY <1>2, <3>1, SetReq DEF KillExpected, Queued
  <2>2. NoneInspects
    BY <2>1, MoveInspects DEF Idle
  <2>3. g \in Gens /\ phase[g] \in {"live", "killed"}
    BY <1>2 DEF KillExpected, expected, isLive, isExited, Queued, Registered, Unretired
  <2>4. phase' = phase \/ phase' = [phase EXCEPT ![g] = "killed"]
    BY <1>2 DEF KillExpected
  <2>5. /\ phase' \in [Gens -> Phases]
        /\ \A h \in Gens : phase'[h] = phase[h] \/ (phase[h] = "live" /\ phase'[h] = "killed")
    <3>1. phase \in [Gens -> Phases] /\ "killed" \in Phases
      BY DEF Registered, Phases
    <3>2. CASE phase' = phase
      BY <3>1, <3>2
    <3>3. CASE phase' = [phase EXCEPT ![g] = "killed"]
      BY <2>3, <3>1, <3>3
    <3>4. QED
      BY <2>4, <3>2, <3>3
  <2>6. UNCHANGED <<sessions, nameOf>>
    BY <1>2 DEF KillExpected
  <2>7. QED
    BY <2>2, <2>5, <2>6, KeepRegistered
<1>3. QED
  BY <1>1, <1>2 DEF KillNow

LEMMA KillRegistered ==
  ASSUME Queued, Registered, NEW s \in Sockets, NEW n \in Names, NEW id \in Ids,
         KillReplay(s, n, id) \/ KillJoin(s, n, id) \/ KillWaits(s, n, id) \/ Kill(s, n, id)
  PROVE  Registered'
<1>1. CASE KillReplay(s, n, id)
  BY <1>1 DEF KillReplay, gens, Registered, Observed
<1>2. CASE KillJoin(s, n, id) \/ KillWaits(s, n, id)
  <2>1. UNCHANGED <<sessions, nameOf, phase>>
    BY <1>2 DEF KillJoin, KillWaits, gens
  <2>2. PICK r \in Request : OnlyReq(s, n, r) /\ r.pc \in {"killing", "awaitEnd"}
    BY <1>2, WaitReq
  <2>3. NoneInspects
    BY <2>2, MoveInspects
  <2>4. QED
    BY <2>1, <2>3, SameRegistered
<1>3. CASE Kill(s, n, id)
  BY <1>3, KillNowRegistered DEF Kill
<1>4. QED
  BY <1>1, <1>2, <1>3

LEMMA AttachRegistered ==
  ASSUME Queued, Registered, NEW s \in Sockets, NEW n \in Names, Attach(s, n)
  PROVE  Registered'
<1>1. UNCHANGED <<sessions, nameOf, phase>>
  BY DEF Attach, gens
<1>2. PICK r \in Request : OnlyReq(s, n, r) /\ r.pc = "turn"
  BY AttachReq
<1>3. NoneInspects
  BY <1>2, MoveInspects
<1>4. QED
  BY <1>1, <1>3, SameRegistered

LEMMA ObserveRegistered ==
  ASSUME Queued, Registered, NEW s \in Sockets, NEW n \in Names, Observe(s, n)
  PROVE  Registered'
<1>1. OnlyReq(s, n, [req[s][n] EXCEPT !.pc = "inspect", !.gen = sessions[n]])
  BY StepReq DEF Observe, Queued, Holding
<1>2. UNCHANGED <<sessions, nameOf, phase>>
  BY DEF Observe, gens
<1>3. req[s][n] \in Request
  BY DEF Queued, Requests
<1>4. req'[s][n].gen = sessions[n]
  BY <1>1, <1>3 DEF OnlyReq, Request
<1>5. sessions[n] # NoGen => phase[sessions[n]] \in {"live", "killed"}
  BY DEF Observe, atBarrier
<1>6. ASSUME NEW t \in Sockets, NEW m \in Names, req'[t][m].pc = "inspect"
      PROVE  /\ req'[t][m].gen = sessions[m]
             /\ sessions[m] # NoGen => phase[sessions[m]] \in {"live", "killed"}
  <2>1. CASE t = s /\ m = n
    BY <1>4, <1>5, <2>1
  <2>2. CASE t # s \/ m # n
    <3>1. req'[t][m] = req[t][m]
      BY <1>1, <2>2 DEF OnlyReq
    <3>2. QED
      BY <1>6, <3>1 DEF Registered, Observed
  <2>3. QED
    BY <2>1, <2>2
<1>7. QED
  BY <1>2, <1>6 DEF Registered, Observed

\* A generation is only created for a name that has none registered: what
\* the operation observed still holds, and it has the name's turn.
LEMMA CreateRegistered ==
  ASSUME Queued, Registered, NEW s \in Sockets, NEW n \in Names, Create(s, n)
  PROVE  Registered'
<1>1. PICK g \in Gens :
        /\ phase[g] = "unborn"
        /\ phase' = [phase EXCEPT ![g] = "live"]
        /\ nameOf' = [nameOf EXCEPT ![g] = n]
        /\ sessions' = [sessions EXCEPT ![n] = g]
        /\ step(s, n, "cold", g)
  BY DEF Create
<1>2. sessions[n] = NoGen
  <2>1. req[s][n].pc = "inspect" /\ existing(s, n) = NoGen
    BY DEF Create, inspecting, mayCreate
  <2>2. /\ req[s][n].gen = sessions[n]
        /\ sessions[n] # NoGen => phase[sessions[n]] \in {"live", "killed"}
    BY <2>1 DEF Registered, Observed
  <2>3. QED
    BY <2>1, <2>2 DEF existing, isExited
<1>3. /\ sessions \in [Names -> Gens \cup {NoGen}] /\ NoGen \notin Gens
      /\ phase \in [Gens -> Phases] /\ "live" \in Phases
      /\ nameOf \in [Gens -> Names \cup {None}]
  BY DEF Queued, Registered, Phases, Gens, NoGen
<1>4. \A h \in Gens : phase'[h] \in Unretired =>
        nameOf'[h] \in Names /\ sessions'[nameOf'[h]] = h
  <2> SUFFICES ASSUME NEW h \in Gens, phase'[h] \in Unretired
               PROVE  nameOf'[h] \in Names /\ sessions'[nameOf'[h]] = h
    OBVIOUS
  <2>1. CASE h = g
    BY <1>1, <1>3, <2>1
  <2>2. CASE h # g
    <3>1. phase'[h] = phase[h] /\ nameOf'[h] = nameOf[h]
      BY <1>1, <1>3, <2>2
    <3>2. nameOf[h] \in Names /\ sessions[nameOf[h]] = h
      BY <3>1 DEF Registered
    <3>3. nameOf[h] # n
      BY <1>2, <1>3, <3>2
    <3>4. QED
      BY <1>1, <1>3, <3>1, <3>2, <3>3
  <2>3. QED
    BY <2>1, <2>2
<1>5. \A m \in Names : sessions'[m] # NoGen =>
        phase'[sessions'[m]] \in Unretired /\ nameOf'[sessions'[m]] = m
  <2> SUFFICES ASSUME NEW m \in Names, sessions'[m] # NoGen
               PROVE  phase'[sessions'[m]] \in Unretired /\ nameOf'[sessions'[m]] = m
    OBVIOUS
  <2>1. CASE m = n
    BY <1>1, <1>3, <2>1 DEF Unretired
  <2>2. CASE m # n
    <3>1. sessions'[m] = sessions[m]
      BY <1>1, <1>3, <2>2
    <3>2. sessions[m] \in Gens /\ phase[sessions[m]] \in Unretired /\ nameOf[sessions[m]] = m
      BY <1>3, <3>1 DEF Registered
    <3>3. sessions[m] # g
      BY <1>1, <3>2 DEF Unretired
    <3>4. QED
      BY <1>1, <1>3, <3>1, <3>2, <3>3
  <2>3. QED
    BY <2>1, <2>2
<1>6. Observed'
  <2> SUFFICES ASSUME NEW t \in Sockets, NEW m \in Names, req'[t][m].pc = "inspect"
               PROVE  /\ req'[t][m].gen = sessions'[m]
                      /\ sessions'[m] # NoGen => phase'[sessions'[m]] \in {"live", "killed"}
    BY DEF Observed
  <2>1. OnlyReq(s, n, [req[s][n] EXCEPT !.pc = "cold", !.gen = g])
    BY <1>1, StepReq DEF Queued, Holding
  <2>2. req[s][n] \in Request /\ req[s][n].pc = "inspect"
    BY DEF Create, inspecting, Queued, Requests
  <2>3. t # s \/ m # n
    BY <2>1, <2>2 DEF OnlyReq, Request
  <2>4. req'[t][m] = req[t][m]
    BY <2>1, <2>3 DEF OnlyReq
  <2>5. m # n
    BY <2>2, <2>3, <2>4 DEF Queued, TurnsHeld, Holding
  <2>6. sessions'[m] = sessions[m]
    BY <1>1, <1>3, <2>5
  <2>7. /\ req[t][m].gen = sessions[m]
        /\ sessions[m] # NoGen => phase[sessions[m]] \in {"live", "killed"}
    BY <2>4 DEF Registered, Observed
  <2>8. sessions[m] # NoGen => phase'[sessions[m]] = phase[sessions[m]]
    BY <1>1, <1>3, <2>7
  <2>9. QED
    BY <2>4, <2>6, <2>7, <2>8
<1>7. phase' \in [Gens -> Phases] /\ nameOf' \in [Gens -> Names \cup {None}]
  BY <1>1, <1>3
<1>8. QED
  BY <1>4, <1>5, <1>6, <1>7 DEF Registered

LEMMA OperateRegistered ==
  ASSUME Queued, Registered, NEW s \in Sockets, NEW n \in Names, Operate(s, n)
  PROVE  Registered'
<1>1. CASE RefuseWarm(s, n) \/ RefuseCold(s, n) \/ SpawnFails(s, n)
  <2>1. UNCHANGED <<sessions, nameOf, phase>> /\ OnlyReq(s, n, Idle)
    BY <1>1, EndReq DEF RefuseWarm, RefuseCold, SpawnFails, gens, Queued
  <2>2. QED
    BY <2>1, MoveInspects, SameRegistered DEF Idle
<1>2. CASE PrepareWarm(s, n)
  <2>1. existing(s, n) \in Gens \cup {NoGen} /\ req[s][n] \in Request
    BY DEF existing, Queued, Requests, Request
  <2>2. OnlyReq(s, n, [req[s][n] EXCEPT !.pc = "warm", !.gen = existing(s, n)])
    BY <1>2, <2>1, StepReq DEF PrepareWarm, Queued, Holding
  <2>3. UNCHANGED <<sessions, nameOf, phase>>
    BY <1>2 DEF PrepareWarm, gens
  <2>4. NoneInspects
    BY <2>1, <2>2, MoveInspects DEF Request
  <2>5. QED
    BY <2>3, <2>4, SameRegistered
<1>3. CASE Create(s, n)
  BY <1>3, CreateRegistered
<1>4. QED
  BY <1>1, <1>2, <1>3 DEF Operate

\* A generation that is signalled.
LEMMA SignalPhase ==
  ASSUME Registered, NEW g, phase' = [phase EXCEPT ![g] = IF @ = "live" THEN "killed" ELSE @]
  PROVE  /\ phase' \in [Gens -> Phases]
         /\ \A h \in Gens : phase'[h] = phase[h] \/ (phase[h] = "live" /\ phase'[h] = "killed")
  BY DEF Registered, Phases

LEMMA AttachingRegistered ==
  ASSUME Queued, Registered, NEW s \in Sockets, NEW n \in Names,
         Activate(s, n) \/ ColdEnd(s, n)
  PROVE  Registered'
<1>1. req[s][n] \in Request
  BY DEF Queued, Requests
<1>2. CASE endRequest(s, n) /\ UNCHANGED <<sessions, nameOf, phase>>
  <2>1. NoneInspects
    BY <1>2, EndReq, MoveInspects DEF Idle, Queued
  <2>2. QED
    BY <1>2, <2>1, SameRegistered
<1>3. CASE step(s, n, "turn", NoGen) /\ UNCHANGED <<sessions, nameOf, phase>>
  <2>1. OnlyReq(s, n, [req[s][n] EXCEPT !.pc = "turn", !.gen = NoGen])
    BY <1>3, StepReq DEF Queued, Holding
  <2>2. NoneInspects
    BY <1>1, <2>1, MoveInspects DEF Request
  <2>3. QED
    BY <1>3, <2>2, SameRegistered
<1>4. CASE /\ step(s, n, "coldEnd", req[s][n].gen) /\ UNCHANGED <<sessions, nameOf>>
           /\ phase' = [phase EXCEPT ![req[s][n].gen] = IF @ = "live" THEN "killed" ELSE @]
  <2>1. OnlyReq(s, n, [req[s][n] EXCEPT !.pc = "coldEnd", !.gen = req[s][n].gen])
    BY <1>1, <1>4, StepReq DEF Queued, Holding, Request
  <2>2. NoneInspects
    BY <1>1, <2>1, MoveInspects DEF Request
  <2>3. QED
    BY <1>4, <2>2, SignalPhase, KeepRegistered
<1>5. ASSUME NEW g \in Gens \cup {NoGen}, NEW plan, activate(s, n, g, plan) PROVE Registered'
  <2>1. UNCHANGED <<sessions, nameOf, phase>>
    BY <1>5 DEF activate, host
  <2>2. CASE endRequest(s, n)
    BY <1>2, <2>1, <2>2
  <2>3. CASE step(s, n, "launch", g)
    <3>1. OnlyReq(s, n, [req[s][n] EXCEPT !.pc = "launch", !.gen = g])
      BY <2>3, StepReq DEF Queued, Holding
    <3>2. NoneInspects
      BY <1>1, <3>1, MoveInspects DEF Request
    <3>3. QED
      BY <2>1, <3>2, SameRegistered
  <2>4. QED
    BY <1>5, <2>2, <2>3 DEF activate, respond
<1>6. CASE WarmDone(s, n)
  BY <1>1, <1>2, <1>3, <1>5, <1>6 DEF WarmDone, respond, gens, Request
<1>7. CASE ColdDone(s, n)
  BY <1>1, <1>2, <1>4, <1>5, <1>7 DEF ColdDone, respond, gens, Request
<1>8. CASE LaunchDone(s, n)
  BY <1>2, <1>8 DEF LaunchDone, respond, gens
<1>9. CASE ColdEnd(s, n)
  BY <1>2, <1>9 DEF ColdEnd, gens
<1>10. QED
  BY <1>6, <1>7, <1>8, <1>9 DEF Activate

LEMMA KillResumesRegistered ==
  ASSUME Queued, Registered, NEW s \in Sockets, NEW n \in Names, KillResumes(s, n)
  PROVE  Registered'
<1>1. req[s][n].id \in Ids
  BY DEF KillResumes, Queued, Requests, Request
<1>2. QED
  BY <1>1, KillNowRegistered DEF KillResumes

\* An exit or a retirement comes when nobody is about to act on what it
\* observed of the name.
LEMMA ExitRegistered ==
  ASSUME Queued, Registered, NEW g \in Gens, ProcessExit(g)
  PROVE  Registered'
<1>1. /\ phase[g] \in {"live", "killed"} /\ phase' = [phase EXCEPT ![g] = "exited"]
      /\ UNCHANGED <<sessions, nameOf, req>>
      /\ \A s \in Sockets, n \in Names : req[s][n].pc # "inspect"
  BY DEF ProcessExit, Quiet
<1>2. /\ phase' \in [Gens -> Phases]
      /\ \A h \in Gens : phase'[h] \in Unretired <=> phase[h] \in Unretired
  BY <1>1 DEF Registered, Phases, Unretired
<1>3. \A n \in Names : sessions[n] # NoGen => sessions[n] \in Gens
  BY DEF Queued
<1>4. Observed'
  BY <1>1 DEF Observed
<1>5. QED
  BY <1>1, <1>2, <1>3, <1>4 DEF Registered

LEMMA RetireRegistered ==
  ASSUME Queued, Registered, NEW g \in Gens, Retire(g)
  PROVE  Registered'
<1> DEFINE n == nameOf[g]
<1>1. /\ phase[g] = "exited" /\ phase' = [phase EXCEPT ![g] = "retired"]
      /\ sessions' = [sessions EXCEPT ![n] = IF @ = g THEN NoGen ELSE @]
      /\ UNCHANGED nameOf
      /\ \A s \in Sockets, m \in Names : req[s][m].pc # "inspect"
  BY DEF Retire, Quiet
<1>2. /\ sessions \in [Names -> Gens \cup {NoGen}] /\ NoGen \notin Gens
      /\ phase \in [Gens -> Phases] /\ "retired" \in Phases
      /\ n \in Names /\ sessions[n] = g
  BY <1>1 DEF Queued, Registered, Phases, Gens, NoGen, Unretired
<1>3. sessions'[n] = NoGen /\ \A m \in Names : m # n => sessions'[m] = sessions[m]
  BY <1>1, <1>2
<1>4. phase'[g] = "retired" /\ \A h \in Gens : h # g => phase'[h] = phase[h]
  BY <1>1, <1>2
<1>5. \A h \in Gens : phase'[h] \in Unretired =>
        nameOf[h] \in Names /\ sessions'[nameOf[h]] = h
  <2> SUFFICES ASSUME NEW h \in Gens, phase'[h] \in Unretired
               PROVE  nameOf[h] \in Names /\ sessions'[nameOf[h]] = h
    OBVIOUS
  <2>1. h # g /\ phase[h] \in Unretired
    BY <1>4 DEF Unretired
  <2>2. nameOf[h] \in Names /\ sessions[nameOf[h]] = h
    BY <2>1 DEF Registered
  <2>3. QED
    BY <1>2, <1>3, <2>1, <2>2
<1>6. \A m \in Names : sessions'[m] # NoGen =>
        phase'[sessions'[m]] \in Unretired /\ nameOf[sessions'[m]] = m
  <2> SUFFICES ASSUME NEW m \in Names, sessions'[m] # NoGen
               PROVE  phase'[sessions'[m]] \in Unretired /\ nameOf[sessions'[m]] = m
    OBVIOUS
  <2>1. m # n /\ sessions'[m] = sessions[m]
    BY <1>3
  <2>2. sessions[m] \in Gens /\ phase[sessions[m]] \in Unretired /\ nameOf[sessions[m]] = m
    BY <1>2, <2>1 DEF Registered
  <2>3. sessions[m] # g
    BY <2>1, <2>2
  <2>4. QED
    BY <1>4, <2>1, <2>2, <2>3
<1>7. Observed'
  <2>1. NoneInspects
    <3>1. CASE owner[g] = None
      BY <3>1 DEF Retire, NoneInspects
    <3>2. CASE owner[g] # None
      <4>1. ackAll(n, owner[g])
        BY <3>2 DEF Retire
      <4>2. QED
        BY <4>1, AckAllReq, AnswerInspects DEF Queued
    <3>3. QED
      BY <3>1, <3>2
  <2>2. QED
    BY <1>1, <2>1 DEF NoneInspects, Observed
<1>8. phase' \in [Gens -> Phases]
  BY <1>1, <1>2
<1>9. QED
  BY <1>1, <1>5, <1>6, <1>7, <1>8 DEF Registered

LEMMA TreeKillRegistered ==
  ASSUME Queued, Registered, NEW n \in Names, TreeKill(n)
  PROVE  Registered'
<1>1. CASE TreeKilled(n)
  <2>1. /\ UNCHANGED <<sessions, nameOf, req>>
        /\ phase' = [phase EXCEPT ![ending[n].gen] = IF @ = "live" THEN "killed" ELSE @]
    BY <1>1 DEF TreeKilled
  <2>2. QED
    BY <2>1, SignalPhase, KeepRegistered DEF NoneInspects
<1>2. CASE TreeKillFails(n)
  <2>1. UNCHANGED <<sessions, nameOf, phase>> /\ failOperation(n)
    BY <1>2 DEF TreeKillFails, gens
  <2>2. NoneInspects
    BY <2>1, FailReq, AnswerInspects DEF Queued
  <2>3. QED
    BY <2>1, <2>2, SameRegistered
<1>3. QED
  BY <1>1, <1>2 DEF TreeKill

\* The names whose generations a shutdown signals: what it ends is live and
\* has no other kill.
Mine == {n \in Names : sessions[n] # NoGen /\ ending[n] = NoKill /\ phase[sessions[n]] = "live"}

LEMMA ShutdownSignals ==
  ASSUME ShutdownStart
  PROVE  \E S \in SUBSET Mine :
           /\ ending' = [n \in Names |-> IF n \in S
                                       THEN [gen |-> sessions[n], id |-> Shutdown, tree |-> Windows]
                                       ELSE ending[n]]
           /\ phase' = [g \in Gens |-> IF ~Windows /\ \E n \in S : g = sessions[n]
                                      THEN "killed" ELSE phase[g]]
           /\ killedBy' = [g \in Gens |-> IF \E n \in S : g = sessions[n]
                                         THEN Shutdown ELSE killedBy[g]]
<1>1. PICK thrown :
        LET signalled == {sessions[n] : n \in Mine \ thrown}
        IN  /\ ending' = [n \in Names |-> IF n \in Mine \ thrown
                                        THEN [gen |-> sessions[n], id |-> Shutdown, tree |-> Windows]
                                        ELSE ending[n]]
            /\ phase' = [g \in Gens |-> IF ~Windows /\ g \in signalled THEN "killed" ELSE phase[g]]
            /\ killedBy' = [g \in Gens |-> IF g \in signalled THEN Shutdown ELSE killedBy[g]]
  BY DEF ShutdownStart, Mine
<1> DEFINE S == Mine \ thrown
<1>2. \A g : g \in {sessions[n] : n \in S} <=> \E n \in S : g = sessions[n]
  OBVIOUS
<1>3. S \in SUBSET Mine
  OBVIOUS
<1>4. QED
  BY <1>1, <1>2, <1>3

LEMMA ShutdownRegistered ==
  ASSUME Queued, Registered, ShutdownStart
  PROVE  Registered'
<1>1. PICK S \in SUBSET Mine :
        phase' = [g \in Gens |-> IF ~Windows /\ \E n \in S : g = sessions[n]
                                THEN "killed" ELSE phase[g]]
  BY ShutdownSignals
<1>2. /\ phase' \in [Gens -> Phases]
      /\ \A h \in Gens : phase'[h] = phase[h] \/ (phase[h] = "live" /\ phase'[h] = "killed")
  BY <1>1 DEF Mine, Registered, Phases
<1>3. UNCHANGED <<sessions, nameOf, req>>
  BY DEF ShutdownStart
<1>4. QED
  BY <1>2, <1>3, KeepRegistered DEF NoneInspects

LEMMA ElsewhereRegistered == Queued /\ Registered /\ Elsewhere => Registered'
<1> SUFFICES ASSUME Queued, Registered, Elsewhere PROVE Registered'
  OBVIOUS
<1>1. CASE ShutdownStart
  BY <1>1, ShutdownRegistered
<1>2. CASE \E g \in Gens : ProcessExit(g)
  BY <1>2, ExitRegistered
<1>3. CASE \/ \E id \in Ids, n \in Names : Decide(id, n)
           \/ \E n \in Names : LeaseExpires(n)
           \/ \E id \in Ids : CompletedForgotten(id)
           \/ \E s \in Sockets : SocketClose(s)
           \/ \E g \in Gens : ShutdownDeadline(g)
           \/ GraceExit \/ ShutdownDone \/ ShutdownExit
  <2>1. UNCHANGED <<sessions, nameOf, phase, req>>
    <3>1. CASE \/ \E id \in Ids, n \in Names : Decide(id, n)
               \/ \E n \in Names : LeaseExpires(n)
               \/ \E id \in Ids : CompletedForgotten(id)
      BY <3>1 DEF Decide, LeaseExpires, CompletedForgotten, gens
    <3>2. CASE \E s \in Sockets : SocketClose(s)
      BY <3>2 DEF SocketClose, disconnect
    <3>3. CASE \E g \in Gens : ShutdownDeadline(g)
      BY <3>3 DEF ShutdownDeadline, gens
    <3>4. CASE GraceExit \/ ShutdownDone \/ ShutdownExit
      BY <3>4 DEF GraceExit, ShutdownDone, ShutdownExit, stop, gens
    <3>5. QED
      BY <1>3, <3>1, <3>2, <3>3, <3>4
  <2>2. QED
    BY <2>1, SameRegistered DEF NoneInspects
<1>4. QED
  BY <1>1, <1>2, <1>3 DEF Elsewhere

LEMMA StepRegistered == Queued /\ Registered /\ [Next]_vars => Registered'
<1> SUFFICES ASSUME Queued, Registered, [Next]_vars PROVE Registered'
  OBVIOUS
<1>1. ASSUME NEW s \in Sockets, NEW n \in Names,
             Attach(s, n) \/ Continue(s, n) \/ Activate(s, n)
      PROVE  Registered'
  BY <1>1, AttachRegistered, ObserveRegistered, OperateRegistered, AttachingRegistered,
     KillResumesRegistered DEF Continue
<1>2. ASSUME NEW s \in Sockets, NEW n \in Names, NEW id \in Ids,
             KillReplay(s, n, id) \/ KillJoin(s, n, id) \/ KillWaits(s, n, id) \/ Kill(s, n, id)
      PROVE  Registered'
  BY <1>2, KillRegistered
<1>3. ASSUME NEW n \in Names, TreeKill(n) PROVE Registered'
  BY <1>3, TreeKillRegistered
<1>4. ASSUME NEW g \in Gens, Retire(g) PROVE Registered'
  BY <1>4, RetireRegistered
<1>5. CASE Elsewhere
  BY <1>5, ElsewhereRegistered
<1>6. CASE UNCHANGED vars
  BY <1>6 DEF vars, gens, Registered, Observed
<1>7. QED
  BY <1>1, <1>2, <1>3, <1>4, <1>5, <1>6 DEF Next, Elsewhere

LEMMA RegistryInvariant == Spec => [](Queued /\ Registered)
<1>1. Init => Queued /\ Registered
  BY InitQueued, InitRegistered
<1>2. Queued /\ Registered /\ [Next]_vars => (Queued /\ Registered)'
  BY StepQueued, StepRegistered
<1>3. QED
  BY <1>1, <1>2, PTL DEF Spec

\* "A same-name PTY can have only one protocol generation at a time"
\* (generation-barrier.ts:1), whatever attaches, kills, exits and shutdowns
\* come between.
THEOREM OneGenerationPerName == Spec => []OneGeneration
<1>1. Registered => OneGeneration
  BY DEF Registered, Unretired, OneGeneration
<1>2. QED
  BY <1>1, RegistryInvariant, PTL

-----------------------------------------------------------------------------
(***************************************************************************)
(* The kills: they end what their client observed, and success is only     *)
(* reported once that is gone.  Then the host's idle timer, and who        *)
(* receives an exit.                                                       *)
(***************************************************************************)

(* What a kill is aimed at.                                                 *)

Ops == [name : Names \cup {None}, gen : Gens \cup {NoGen}, reserve : BOOLEAN]

\* A generation a client wants killed has existed under the name it gave,
\* and whatever records the kill records it for that generation.
Aimed ==
  /\ op \in [Ids -> Ops]
  /\ ending \in [Names -> [gen : Gens \cup {NoGen}, id : KillIds, tree : BOOLEAN]]
  /\ owner \in [Gens -> KillIds] /\ killedBy \in [Gens -> KillIds]
  /\ \A id \in Ids : op[id].gen # NoGen =>
       phase[op[id].gen] # "unborn" /\ nameOf[op[id].gen] = op[id].name
  /\ \A n \in Names : ending[n].id \in Ids =>
       ending[n].gen # NoGen /\ op[ending[n].id].gen = ending[n].gen
  /\ \A g \in Gens : owner[g] \in Ids => op[owner[g]].gen = g
  /\ \A g \in Gens : killedBy[g] \in Ids => op[killedBy[g]].gen = g

\* A kill that waited for a natural exit finds the name empty, or taken by a
\* generation that has not exited yet.
Awaited ==
  \A s \in Sockets, n \in Names : req[s][n].pc = "awaitEnd" =>
    LET g == req[s][n].gen
    IN  /\ op[req[s][n].id].name = n
        /\ g \in Gens /\ phase[g] # "unborn" /\ nameOf[g] = n
        /\ phase[g] = "retired" /\ sessions[n] # NoGen =>
             phase[sessions[n]] \in {"live", "killed"}

\* A kill that is through is a decided one, and its generation is gone.
Done ==
  /\ completed \subseteq Ids /\ acked \subseteq Ids
  /\ \A id \in completed \cup acked :
       /\ op[id].name \in Names
       /\ op[id].gen # NoGen => phase[op[id].gen] = "retired"

-----------------------------------------------------------------------------
(* What steps leave alone.                                                  *)

\* Generations stay born, keep their name and stay retired.
Ageing ==
  \A g \in Gens :
    /\ phase[g] # "unborn" => phase'[g] # "unborn" /\ nameOf'[g] = nameOf[g]
    /\ phase[g] = "retired" => phase'[g] = "retired"

kills == <<op, ending, owner, killedBy, completed, acked>>

LEMMA AttachAges ==
  ASSUME Registered, NEW s \in Sockets, NEW n \in Names,
         \/ Attach(s, n) \/ Observe(s, n) \/ Operate(s, n)
         \/ Activate(s, n) \/ ColdEnd(s, n)
  PROVE  Ageing /\ UNCHANGED kills
<1>1. phase \in [Gens -> Phases] /\ nameOf \in [Gens -> Names \cup {None}]
  BY DEF Registered
<1>2. CASE Attach(s, n) \/ Observe(s, n) \/ ColdEnd(s, n)
  BY <1>2 DEF Attach, Observe, ColdEnd, gens, clients, kills, Ageing
<1>3. CASE RefuseWarm(s, n) \/ PrepareWarm(s, n) \/ RefuseCold(s, n) \/ SpawnFails(s, n)
  BY <1>3 DEF RefuseWarm, PrepareWarm, RefuseCold, SpawnFails, gens, clients, kills, Ageing
<1>4. CASE Create(s, n)
  <2>1. PICK g \in Gens : /\ phase[g] = "unborn"
                          /\ phase' = [phase EXCEPT ![g] = "live"]
                          /\ nameOf' = [nameOf EXCEPT ![g] = n]
    BY <1>4 DEF Create
  <2>2. Ageing
    BY <1>1, <2>1 DEF Ageing
  <2>3. UNCHANGED kills
    BY <1>4 DEF Create, clients, kills
  <2>4. QED
    BY <2>2, <2>3
<1>5. CASE Activate(s, n)
  <2>1. UNCHANGED <<kills, nameOf>>
    BY <1>5 DEF Activate, WarmDone, ColdDone, LaunchDone, activate, gens, clients, kills
  <2>2. \/ UNCHANGED phase
        \/ phase' = [phase EXCEPT ![req[s][n].gen] = IF @ = "live" THEN "killed" ELSE @]
    BY <1>5 DEF Activate, WarmDone, ColdDone, LaunchDone, activate, gens
  <2>3. QED
    BY <1>1, <2>1, <2>2 DEF Ageing
<1>6. QED
  BY <1>2, <1>3, <1>4, <1>5 DEF Operate

LEMMA ElsewhereAges ==
  ASSUME Registered, Elsewhere
  PROVE  Ageing
<1>1. phase \in [Gens -> Phases] /\ nameOf \in [Gens -> Names \cup {None}]
  BY DEF Registered
<1>2. CASE \E g \in Gens : ProcessExit(g)
  BY <1>1, <1>2 DEF ProcessExit, Ageing
<1>3. CASE ShutdownStart
  <2>1. \A g \in Gens : phase'[g] = phase[g] \/ (phase[g] = "live" /\ phase'[g] = "killed")
    BY <1>3, ShutdownSignals DEF Mine
  <2>2. UNCHANGED nameOf
    BY <1>3 DEF ShutdownStart
  <2>3. QED
    BY <2>1, <2>2 DEF Ageing
<1>4. CASE \/ \E id \in Ids, n \in Names : Decide(id, n)
           \/ \E n \in Names : LeaseExpires(n)
           \/ \E id \in Ids : CompletedForgotten(id)
  BY <1>4 DEF Decide, LeaseExpires, CompletedForgotten, gens, Ageing
<1>5. CASE \/ \E s \in Sockets : SocketClose(s)
           \/ \E g \in Gens : ShutdownDeadline(g)
  BY <1>5 DEF SocketClose, ShutdownDeadline, gens, Ageing
<1>6. CASE GraceExit \/ ShutdownDone \/ ShutdownExit
  BY <1>6 DEF GraceExit, ShutdownDone, ShutdownExit, stop, gens, Ageing
<1>7. QED
  BY <1>2, <1>3, <1>4, <1>5, <1>6 DEF Elsewhere

LEMMA KillNowAges ==
  ASSUME Registered, NEW s \in Sockets, NEW n \in Names, NEW id \in Ids, KillNow(s, n, id)
  PROVE  Ageing
<1>1. phase \in [Gens -> Phases] /\ nameOf \in [Gens -> Names \cup {None}]
  BY DEF Registered
<1>2. CASE KillAbsent(s, n, id) \/ KillOther(s, n, id) \/ KillRefused(s, n, id)
  BY <1>2 DEF KillAbsent, KillOther, KillRefused, gens, Ageing
<1>3. CASE KillExpected(s, n, id)
  <2>1. sessions[n] # NoGen /\ phase[sessions[n]] # "retired"
    BY <1>3 DEF KillExpected, expected, isLive, isExited
  <2>2. UNCHANGED nameOf /\ (UNCHANGED phase \/ phase' = [phase EXCEPT ![sessions[n]] = "killed"])
    BY <1>3 DEF KillExpected
  <2>3. QED
    BY <1>1, <2>1, <2>2 DEF Ageing
<1>4. QED
  BY <1>2, <1>3 DEF KillNow

LEMMA EndAges ==
  ASSUME Registered,
         \/ \E g \in Gens : Retire(g)
         \/ \E n \in Names : TreeKill(n)
  PROVE  Ageing
<1>1. phase \in [Gens -> Phases] /\ nameOf \in [Gens -> Names \cup {None}]
  BY DEF Registered
<1>2. CASE \E g \in Gens : Retire(g)
  BY <1>1, <1>2 DEF Retire, Ageing
<1>3. CASE \E n \in Names : TreeKilled(n)
  BY <1>1, <1>3 DEF TreeKilled, Ageing
<1>4. CASE \E n \in Names : TreeKillFails(n)
  BY <1>4 DEF TreeKillFails, gens, Ageing
<1>5. QED
  BY <1>2, <1>3, <1>4 DEF TreeKill

-----------------------------------------------------------------------------
(* Kills stay aimed.                                                        *)

LEMMA AimedFrame ==
  ASSUME Aimed, Ageing, UNCHANGED <<op, ending, owner, killedBy>>
  PROVE  Aimed'
<1>1. \A id \in Ids : op[id].gen \in Gens \cup {NoGen}
  BY DEF Aimed, Ops
<1>2. QED
  BY <1>1 DEF Aimed, Ageing

LEMMA DecideAimed ==
  ASSUME Queued, Registered, Aimed, NEW id \in Ids, NEW n \in Names, Decide(id, n)
  PROVE  Aimed'
<1>1. PICK reserve \in BOOLEAN, g \in {NoGen, IF isLive(n) THEN sessions[n] ELSE NoGen} :
        op' = [op EXCEPT ![id] = [name |-> n, gen |-> g, reserve |-> reserve]]
  BY DEF Decide
<1>2. UNCHANGED <<ending, owner, killedBy, phase, nameOf>> /\ op[id] = NoOp
  BY DEF Decide, gens
<1>3. g # NoGen => g \in Gens /\ phase[g] # "unborn" /\ nameOf[g] = n
  BY DEF isLive, Queued, Registered, Unretired
<1>4. [name |-> n, gen |-> g, reserve |-> reserve] \in Ops
  BY <1>3 DEF Ops
<1>5. /\ op' \in [Ids -> Ops] /\ op'[id].gen = g /\ op'[id].name = n
      /\ \A i \in Ids : i # id => op'[i] = op[i]
  BY <1>1, <1>4 DEF Aimed
<1>6. op[id].gen = NoGen
  BY <1>2 DEF NoOp
<1>7. NoGen \notin Gens
  BY DEF Gens, NoGen
<1>8. /\ \A m \in Names : ending[m].id \in Ids =>
           ending[m].gen # NoGen /\ op'[ending[m].id].gen = ending[m].gen
      /\ \A h \in Gens : owner[h] \in Ids => op'[owner[h]].gen = h
      /\ \A h \in Gens : killedBy[h] \in Ids => op'[killedBy[h]].gen = h
  BY <1>5, <1>6, <1>7 DEF Aimed
<1>9. \A i \in Ids : op'[i].gen # NoGen =>
        phase[op'[i].gen] # "unborn" /\ nameOf[op'[i].gen] = op'[i].name
  BY <1>3, <1>5 DEF Aimed
<1>10. QED
  BY <1>2, <1>5, <1>8, <1>9 DEF Aimed

LEMMA KillNowAimed ==
  ASSUME Queued, Registered, Aimed, NEW s \in Sockets, NEW n \in Names, NEW id \in Ids,
         KillNow(s, n, id)
  PROVE  Aimed'
<1>1. Ageing
  BY KillNowAges
<1>2. CASE KillAbsent(s, n, id) \/ KillOther(s, n, id) \/ KillRefused(s, n, id)
  BY <1>1, <1>2, AimedFrame DEF KillAbsent, KillOther, KillRefused, gens, clients
<1>3. CASE KillExpected(s, n, id)
  <2> DEFINE g == sessions[n]
             k == [gen |-> g, id |-> id, tree |-> Windows]
  <2>1. g \in Gens /\ g # NoGen /\ op[id].gen = g
    BY <1>3 DEF KillExpected, expected, isLive, Queued
  <2>2. k \in [gen : Gens \cup {NoGen}, id : KillIds, tree : BOOLEAN]
    BY <2>1, HostConstants DEF KillIds
  <2>3. /\ ending' = [ending EXCEPT ![n] = k]
        /\ killedBy' = [killedBy EXCEPT ![g] = id]
        /\ UNCHANGED <<op, owner>>
    BY <1>3 DEF KillExpected, clients
  <2>4. /\ ending' \in [Names -> [gen : Gens \cup {NoGen}, id : KillIds, tree : BOOLEAN]]
        /\ killedBy' \in [Gens -> KillIds]
    BY <2>2, <2>3 DEF Aimed, KillIds
  <2>5. \A m \in Names : ending'[m].id \in Ids =>
          ending'[m].gen # NoGen /\ op[ending'[m].id].gen = ending'[m].gen
    BY <2>1, <2>3 DEF Aimed
  <2>6. \A h \in Gens : killedBy'[h] \in Ids => op[killedBy'[h]].gen = h
    BY <2>1, <2>3 DEF Aimed
  <2>7. \A i \in Ids : op[i].gen # NoGen =>
          phase'[op[i].gen] # "unborn" /\ nameOf'[op[i].gen] = op[i].name
    <3>1. \A i \in Ids : op[i].gen \in Gens \cup {NoGen}
      BY DEF Aimed, Ops
    <3>2. QED
      BY <1>1, <3>1 DEF Aimed, Ageing
  <2>8. QED
    BY <2>3, <2>4, <2>5, <2>6, <2>7 DEF Aimed
<1>4. QED
  BY <1>2, <1>3 DEF KillNow

LEMMA KillAimed ==
  ASSUME Queued, Registered, Aimed, NEW s \in Sockets, NEW n \in Names, NEW id \in Ids,
         KillReplay(s, n, id) \/ KillJoin(s, n, id) \/ KillWaits(s, n, id) \/ Kill(s, n, id)
  PROVE  Aimed'
<1>1. CASE KillReplay(s, n, id) \/ KillJoin(s, n, id) \/ KillWaits(s, n, id)
  <2>1. UNCHANGED <<op, ending, owner, killedBy, phase, nameOf>>
    BY <1>1 DEF KillReplay, KillJoin, KillWaits, gens, clients
  <2>2. QED
    BY <2>1, AimedFrame DEF Ageing
<1>2. CASE Kill(s, n, id)
  BY <1>2, KillNowAimed DEF Kill
<1>3. QED
  BY <1>1, <1>2

\* Kills that are dropped, and kills of the host itself, aim at nothing a
\* client named.
LEMMA EndedAimed ==
  ASSUME Aimed, Ageing, UNCHANGED <<op, owner, killedBy>>, NEW n,
         ending' = [ending EXCEPT ![n] = NoKill]
  PROVE  Aimed'
<1>1. NoKill \in [gen : Gens \cup {NoGen}, id : KillIds, tree : BOOLEAN] /\ NoKill.id \notin Ids
  BY HostConstants DEF NoKill, KillIds
<1>2. /\ ending' \in [Names -> [gen : Gens \cup {NoGen}, id : KillIds, tree : BOOLEAN]]
      /\ \A m \in Names : ending'[m] = ending[m] \/ ending'[m] = NoKill
  BY <1>1 DEF Aimed
<1>3. \A m \in Names : ending'[m].id \in Ids =>
        ending'[m].gen # NoGen /\ op[ending'[m].id].gen = ending'[m].gen
  BY <1>1, <1>2 DEF Aimed
<1>4. \A id \in Ids : op[id].gen \in Gens \cup {NoGen}
  BY DEF Aimed, Ops
<1>5. QED
  BY <1>2, <1>3, <1>4 DEF Aimed, Ageing

LEMMA TreeKillAimed ==
  ASSUME Registered, Aimed, NEW n \in Names, TreeKill(n)
  PROVE  Aimed'
<1>1. Ageing
  BY EndAges
<1>2. CASE TreeKilled(n)
  <2>1. ending' = [ending EXCEPT ![n].tree = FALSE] /\ UNCHANGED <<op, owner, killedBy>>
    BY <1>2 DEF TreeKilled, clients
  <2>2. /\ ending' \in [Names -> [gen : Gens \cup {NoGen}, id : KillIds, tree : BOOLEAN]]
        /\ \A m \in Names : ending'[m].id = ending[m].id /\ ending'[m].gen = ending[m].gen
    BY <2>1 DEF Aimed
  <2>3. \A id \in Ids : op[id].gen \in Gens \cup {NoGen}
    BY DEF Aimed, Ops
  <2>4. QED
    BY <1>1, <2>1, <2>2, <2>3 DEF Aimed, Ageing
<1>3. CASE TreeKillFails(n)
  <2>1. ending' = [ending EXCEPT ![n] = NoKill] /\ UNCHANGED <<op, owner, killedBy>>
    BY <1>3 DEF TreeKillFails, failOperation, gens, clients
  <2>2. QED
    BY <1>1, <2>1, EndedAimed
<1>4. QED
  BY <1>2, <1>3 DEF TreeKill

LEMMA RetireAimed ==
  ASSUME Registered, Aimed, NEW g \in Gens, Retire(g)
  PROVE  Aimed'
<1>1. Ageing
  BY EndAges
<1>2. ending' = [ending EXCEPT ![nameOf[g]] = NoKill] /\ UNCHANGED <<op, owner, killedBy>>
  BY DEF Retire, clients
<1>3. QED
  BY <1>1, <1>2, EndedAimed

LEMMA ExitAimed ==
  ASSUME Registered, Aimed, NEW g \in Gens, ProcessExit(g)
  PROVE  Aimed'
<1> DEFINE k == ending[nameOf[g]]
           id == IF k.gen = g THEN k.id ELSE None
<1>1. /\ owner' = [owner EXCEPT ![g] = id]
      /\ UNCHANGED <<op, ending, killedBy>>
      /\ phase[g] \in {"live", "killed"}
  BY DEF ProcessExit, clients
<1>2. nameOf[g] \in Names
  BY <1>1 DEF Registered, Unretired
<1>3. id \in KillIds /\ (id \in Ids => op[id].gen = g)
  BY <1>2, HostConstants DEF Aimed, KillIds
<1>4. owner' \in [Gens -> KillIds] /\ \A h \in Gens : owner'[h] \in Ids => op[owner'[h]].gen = h
  BY <1>1, <1>3 DEF Aimed
<1>5. Ageing
  <2>1. Elsewhere
    BY DEF Elsewhere
  <2>2. QED
    BY <2>1, ElsewhereAges
<1>6. \A i \in Ids : op[i].gen \in Gens \cup {NoGen}
  BY DEF Aimed, Ops
<1>7. QED
  BY <1>1, <1>4, <1>5, <1>6 DEF Aimed, Ageing

LEMMA ShutdownAimed ==
  ASSUME Queued, Registered, Aimed, ShutdownStart
  PROVE  Aimed'
<1> DEFINE k(n) == [gen |-> sessions[n], id |-> Shutdown, tree |-> Windows]
<1>1. PICK S \in SUBSET Mine :
        /\ ending' = [n \in Names |-> IF n \in S THEN k(n) ELSE ending[n]]
        /\ killedBy' = [g \in Gens |-> IF \E n \in S : g = sessions[n] THEN Shutdown
                                      ELSE killedBy[g]]
  BY ShutdownSignals
<1>11. UNCHANGED <<op, owner>>
  BY DEF ShutdownStart, clients
<1>2. Shutdown \in KillIds /\ Shutdown \notin Ids
  BY HostConstants DEF KillIds
<1>3. \A n \in Names : k(n) \in [gen : Gens \cup {NoGen}, id : KillIds, tree : BOOLEAN]
  BY <1>2, HostConstants DEF Queued
<1>4. /\ ending' \in [Names -> [gen : Gens \cup {NoGen}, id : KillIds, tree : BOOLEAN]]
      /\ \A n \in Names : ending'[n] = ending[n] \/ ending'[n].id = Shutdown
  BY <1>1, <1>3 DEF Aimed
<1>5. \A n \in Names : ending'[n].id \in Ids =>
        ending'[n].gen # NoGen /\ op[ending'[n].id].gen = ending'[n].gen
  BY <1>2, <1>4 DEF Aimed
<1>6. /\ killedBy' \in [Gens -> KillIds]
      /\ \A g \in Gens : killedBy'[g] = killedBy[g] \/ killedBy'[g] = Shutdown
  BY <1>1, <1>2 DEF Aimed
<1>7. \A g \in Gens : killedBy'[g] \in Ids => op[killedBy'[g]].gen = g
  BY <1>2, <1>6 DEF Aimed
<1>8. Ageing
  BY ElsewhereAges DEF Elsewhere
<1>9. \A i \in Ids : op[i].gen \in Gens \cup {NoGen}
  BY DEF Aimed, Ops
<1>10. QED
  BY <1>4, <1>5, <1>6, <1>7, <1>8, <1>9, <1>11 DEF Aimed, Ageing

LEMMA ElsewhereAimed ==
  ASSUME Queued, Registered, Aimed, Elsewhere
  PROVE  Aimed'
<1>1. Ageing
  BY ElsewhereAges
<1>2. CASE \/ \E n \in Names : LeaseExpires(n)
           \/ \E id \in Ids : CompletedForgotten(id)
           \/ \E s \in Sockets : SocketClose(s)
           \/ \E g \in Gens : ShutdownDeadline(g)
  BY <1>1, <1>2, AimedFrame
  DEF LeaseExpires, CompletedForgotten, SocketClose, ShutdownDeadline, gens, clients
<1>3. CASE GraceExit \/ ShutdownDone \/ ShutdownExit
  BY <1>1, <1>3, AimedFrame DEF GraceExit, ShutdownDone, ShutdownExit, stop, gens, clients
<1>4. QED
  BY <1>2, <1>3, DecideAimed, ExitAimed, ShutdownAimed DEF Elsewhere

LEMMA InitAimed == Init => Aimed
<1> SUFFICES ASSUME Init PROVE Aimed
  OBVIOUS
<1>1. NoOp \in Ops /\ NoOp.gen = NoGen
  BY DEF NoOp, Ops
<1>2. NoKill \in [gen : Gens \cup {NoGen}, id : KillIds, tree : BOOLEAN] /\ NoKill.id = None
  BY DEF NoKill, KillIds
<1>3. None \in KillIds /\ None \notin Ids
  BY HostConstants DEF KillIds
<1>4. QED
  BY <1>1, <1>2, <1>3 DEF Init, Aimed

LEMMA StepAimed == Queued /\ Registered /\ Aimed /\ [Next]_vars => Aimed'
<1> SUFFICES ASSUME Queued, Registered, Aimed, [Next]_vars PROVE Aimed'
  OBVIOUS
<1>1. ASSUME NEW s \in Sockets, NEW n \in Names,
             Attach(s, n) \/ Continue(s, n) \/ Activate(s, n)
      PROVE  Aimed'
  <2>1. CASE KillResumes(s, n)
    <3>1. req[s][n].id \in Ids
      BY <2>1 DEF KillResumes, Queued, Requests, Request
    <3>2. QED
      BY <2>1, <3>1, KillNowAimed DEF KillResumes
  <2>2. CASE ~KillResumes(s, n)
    <3>1. Ageing /\ UNCHANGED kills
      BY <1>1, <2>2, AttachAges DEF Continue
    <3>2. QED
      BY <3>1, AimedFrame DEF kills
  <2>3. QED
    BY <2>1, <2>2
<1>2. ASSUME NEW s \in Sockets, NEW n \in Names, NEW id \in Ids,
             KillReplay(s, n, id) \/ KillJoin(s, n, id) \/ KillWaits(s, n, id) \/ Kill(s, n, id)
      PROVE  Aimed'
  BY <1>2, KillAimed
<1>3. ASSUME NEW n \in Names, TreeKill(n) PROVE Aimed'
  BY <1>3, TreeKillAimed
<1>4. ASSUME NEW g \in Gens, Retire(g) PROVE Aimed'
  BY <1>4, RetireAimed
<1>5. CASE Elsewhere
  BY <1>5, ElsewhereAimed
<1>6. CASE UNCHANGED vars
  BY <1>6, AimedFrame DEF vars, gens, clients, Ageing
<1>7. QED
  BY <1>1, <1>2, <1>3, <1>4, <1>5, <1>6 DEF Next, Elsewhere

LEMMA AimInvariant == Spec => [](Queued /\ Registered /\ Aimed)
<1>1. Init => Queued /\ Registered /\ Aimed
  BY InitQueued, InitRegistered, InitAimed
<1>2. Queued /\ Registered /\ Aimed /\ [Next]_vars => (Queued /\ Registered /\ Aimed)'
  BY StepQueued, StepRegistered, StepAimed
<1>3. QED
  BY <1>1, <1>2, PTL DEF Spec

\* A kill never ends a generation other than the one its client observed,
\* however late it runs (host.ts:758).
THEOREM KillsHitTheirTarget == Spec => []KillsTheObserved
<1>1. Aimed => KillsTheObserved
  BY DEF Aimed, KillsTheObserved
<1>2. QED
  BY <1>1, AimInvariant, PTL

-----------------------------------------------------------------------------
(* Kills are done when their generation is gone.                            *)

\* No generation of the name is on its way out.
Settled(n) == sessions[n] # NoGen => phase[sessions[n]] \in {"live", "killed"}

\* A generation that is not the registered one of its name has retired.
LEMMA TargetGone ==
  ASSUME Registered, Aimed, NEW n \in Names, NEW id \in Ids, op[id].name = n,
         op[id].gen # NoGen, sessions[n] # op[id].gen
  PROVE  phase[op[id].gen] = "retired"
<1>1. op[id].gen \in Gens /\ phase[op[id].gen] # "unborn" /\ nameOf[op[id].gen] = n
  BY DEF Aimed, Ops
<1>2. phase[op[id].gen] \notin Unretired
  BY <1>1 DEF Registered
<1>3. phase[op[id].gen] \in Phases
  BY <1>1 DEF Registered
<1>4. QED
  BY <1>1, <1>2, <1>3 DEF Phases, Unretired

\* At most one kill more is done, and its generation is gone.
LEMMA DoneMore ==
  ASSUME Aimed, Done, Ageing, UNCHANGED op, NEW id \in Ids,
         completed' \subseteq completed \cup {id}, acked' \subseteq acked \cup {id},
         op[id].name \in Names,
         op[id].gen # NoGen => phase'[op[id].gen] = "retired"
  PROVE  Done'
<1>1. \A i \in Ids : op[i].gen \in Gens \cup {NoGen}
  BY DEF Aimed, Ops
<1>2. QED
  BY <1>1 DEF Done, Ageing

LEMMA DoneSame ==
  ASSUME Aimed, Done, Ageing, UNCHANGED op, completed' \subseteq completed, UNCHANGED acked
  PROVE  Done'
<1>1. \A i \in Ids : op[i].gen \in Gens \cup {NoGen}
  BY DEF Aimed, Ops
<1>2. QED
  BY <1>1 DEF Done, Ageing

LEMMA KillNowDone ==
  ASSUME Queued, Registered, Aimed, Done, NEW s \in Sockets, NEW n \in Names, NEW id \in Ids,
         op[id].name = n, Settled(n), KillNow(s, n, id)
  PROVE  Done'
<1>1. Ageing
  BY KillNowAges
<1>2. CASE KillAbsent(s, n, id) \/ KillOther(s, n, id)
  <2>1. UNCHANGED <<op, phase>> /\ completed' = completed \cup {id} /\ acked' = acked \cup {id}
    BY <1>2 DEF KillAbsent, KillOther, ack, gens, clients
  <2>2. op[id].gen # NoGen => sessions[n] # op[id].gen
    <3>1. CASE KillAbsent(s, n, id)
      BY <3>1 DEF KillAbsent, isLive, isExited, Settled
    <3>2. CASE KillOther(s, n, id)
      BY <3>2 DEF KillOther, expected
    <3>3. QED
      BY <1>2, <3>1, <3>2
  <2>3. op[id].gen # NoGen => phase'[op[id].gen] = "retired"
    BY <2>1, <2>2, TargetGone
  <2>4. QED
    BY <1>1, <2>1, <2>3, DoneMore
<1>3. CASE KillRefused(s, n, id) \/ KillExpected(s, n, id)
  <2>1. UNCHANGED <<op, completed, acked>>
    BY <1>3 DEF KillRefused, KillExpected, clients
  <2>2. QED
    BY <1>1, <2>1, DoneSame
<1>4. QED
  BY <1>2, <1>3 DEF KillNow

LEMMA KillDone ==
  ASSUME Queued, Registered, Aimed, Done, NEW s \in Sockets, NEW n \in Names, NEW id \in Ids,
         KillReplay(s, n, id) \/ KillJoin(s, n, id) \/ KillWaits(s, n, id) \/ Kill(s, n, id)
  PROVE  Done'
<1>1. CASE KillReplay(s, n, id)
  <2>1. /\ id \in completed /\ UNCHANGED <<op, completed, phase, nameOf>>
        /\ acked' \subseteq acked \cup {id}
    BY <1>1 DEF KillReplay, ack, gens, clients
  <2>2. QED
    BY <2>1, DoneMore DEF Done, Ageing
<1>2. CASE KillJoin(s, n, id) \/ KillWaits(s, n, id)
  <2>1. UNCHANGED <<op, completed, acked, phase, nameOf>>
    BY <1>2 DEF KillJoin, KillWaits, gens, clients
  <2>2. QED
    BY <2>1, DoneSame DEF Ageing
<1>3. CASE Kill(s, n, id)
  <2>1. Settled(n) /\ op[id].name = n
    BY <1>3 DEF Kill, startKill, retiring, Settled
  <2>2. QED
    BY <1>3, <2>1, KillNowDone DEF Kill
<1>4. QED
  BY <1>1, <1>2, <1>3

LEMMA RetireDone ==
  ASSUME Queued, Registered, Aimed, Done, NEW g \in Gens, Retire(g)
  PROVE  Done'
<1> DEFINE id == owner[g]
<1>1. Ageing
  BY EndAges
<1>2. UNCHANGED op
  BY DEF Retire, clients
<1>3. phase[g] = "exited" /\ phase'[g] = "retired"
  BY DEF Retire, Registered
<1>4. CASE id \in Ids
  <2>1. op[id].gen = g /\ nameOf[g] \in Names /\ g # NoGen
    BY <1>3, <1>4 DEF Aimed, Registered, Unretired, Gens, NoGen
  <2>2. op[id].name \in Names
    BY <1>4, <2>1 DEF Aimed
  <2>3. completed' = completed \cup {id}
    BY <1>4 DEF Retire
  <2>4. acked' \subseteq acked \cup {id}
    BY <1>4 DEF Retire, ackAll, ack
  <2>5. QED
    BY <1>1, <1>2, <1>3, <1>4, <2>1, <2>2, <2>3, <2>4, DoneMore
<1>5. CASE id \notin Ids
  <2>1. UNCHANGED <<completed, acked>>
    BY <1>5 DEF Retire, ackAll
  <2>2. QED
    BY <1>1, <1>2, <2>1, DoneSame
<1>6. QED
  BY <1>4, <1>5

\* An operation is decided once.
Deciding == \A id \in Ids : op[id].name \in Names => op'[id] = op[id]

LEMMA DecideOnce ==
  ASSUME Aimed, NEW id \in Ids, NEW n \in Names, Decide(id, n)
  PROVE  Deciding
<1>1. op[id].name \notin Names
  BY HostConstants DEF Decide, NoOp
<1>2. \A i \in Ids : i # id => op'[i] = op[i]
  BY DEF Decide, Aimed
<1>3. QED
  BY <1>1, <1>2 DEF Deciding

LEMMA ElsewhereDone ==
  ASSUME Queued, Registered, Aimed, Done, Elsewhere
  PROVE  Done'
<1>1. Ageing
  BY ElsewhereAges
<1>2. CASE \E id \in Ids, n \in Names : Decide(id, n)
  <2>1. Deciding /\ UNCHANGED <<completed, acked>>
    BY <1>2, DecideOnce DEF Decide
  <2>2. \A i \in Ids : op[i].gen \in Gens \cup {NoGen}
    BY DEF Aimed, Ops
  <2>3. QED
    BY <1>1, <2>1, <2>2 DEF Done, Ageing, Deciding
<1>3. CASE \/ \E n \in Names : LeaseExpires(n)
           \/ \E id \in Ids : CompletedForgotten(id)
           \/ \E s \in Sockets : SocketClose(s)
  <2>1. UNCHANGED <<op, acked>> /\ completed' \subseteq completed
    BY <1>3 DEF LeaseExpires, CompletedForgotten, SocketClose, clients
  <2>2. QED
    BY <1>1, <2>1, DoneSame
<1>4. CASE \E g \in Gens : ProcessExit(g) \/ ShutdownDeadline(g)
  <2>1. UNCHANGED <<op, completed, acked>>
    BY <1>4 DEF ProcessExit, ShutdownDeadline, clients
  <2>2. QED
    BY <1>1, <2>1, DoneSame
<1>5. CASE GraceExit \/ ShutdownStart \/ ShutdownDone \/ ShutdownExit
  <2>1. UNCHANGED <<op, completed, acked>>
    BY <1>5 DEF GraceExit, ShutdownStart, ShutdownDone, ShutdownExit, stop, clients
  <2>2. QED
    BY <1>1, <2>1, DoneSame
<1>6. QED
  BY <1>2, <1>3, <1>4, <1>5 DEF Elsewhere

-----------------------------------------------------------------------------
(* Kills that wait for a natural exit.                                      *)

\* No request begins to wait for an exit.
NoneAwaits ==
  \A s \in Sockets, n \in Names : req'[s][n].pc = "awaitEnd" => req'[s][n] = req[s][n]

\* No generation exits or retires, and one that is registered anew is live.
NothingEnds ==
  /\ \A g \in Gens : phase'[g] = "retired" => phase[g] = "retired"
  /\ \A n \in Names : sessions'[n] # NoGen =>
       \/ phase'[sessions'[n]] = "live"
       \/ /\ sessions'[n] = sessions[n]
          /\ phase[sessions[n]] \in {"live", "killed"} =>
               phase'[sessions[n]] \in {"live", "killed"}

LEMMA MoveAwaits ==
  ASSUME NEW s \in Sockets, NEW n \in Names, NEW r, OnlyReq(s, n, r), r.pc # "awaitEnd"
  PROVE  NoneAwaits
  BY DEF NoneAwaits, OnlyReq

LEMMA AnswerAwaits ==
  ASSUME NEW n,
         \A t \in Sockets, m \in Names :
            req'[t][m] = IF m = n /\ req[t][n].pc = "killing" THEN Idle ELSE req[t][m]
  PROVE  NoneAwaits
<1>1. Idle.pc # "awaitEnd"
  BY DEF Idle
<1>2. \A t \in Sockets, m \in Names : req'[t][m] = Idle \/ req'[t][m] = req[t][m]
  OBVIOUS
<1>3. QED
  BY <1>1, <1>2 DEF NoneAwaits

LEMMA AwaitedFrame ==
  ASSUME Queued, Aimed, Awaited, Ageing, Deciding, NoneAwaits, NothingEnds
  PROVE  Awaited'
<1> SUFFICES ASSUME NEW s \in Sockets, NEW n \in Names, req'[s][n].pc = "awaitEnd"
             PROVE  LET g == req'[s][n].gen
                    IN  /\ op'[req'[s][n].id].name = n
                        /\ g \in Gens /\ phase'[g] # "unborn" /\ nameOf'[g] = n
                        /\ phase'[g] = "retired" /\ sessions'[n] # NoGen =>
                             phase'[sessions'[n]] \in {"live", "killed"}
  BY DEF Awaited
<1> DEFINE g == req[s][n].gen
<1>1. req'[s][n] = req[s][n]
  BY DEF NoneAwaits
<1>2. /\ op[req[s][n].id].name = n
      /\ g \in Gens /\ phase[g] # "unborn" /\ nameOf[g] = n
      /\ phase[g] = "retired" /\ sessions[n] # NoGen => phase[sessions[n]] \in {"live", "killed"}
  BY <1>1 DEF Awaited
<1>3. req[s][n].id \in Ids
  BY <1>1 DEF Queued, Requests, Request
<1>4. op'[req[s][n].id].name = n
  BY <1>2, <1>3 DEF Deciding
<1>5. phase'[g] # "unborn" /\ nameOf'[g] = n
  BY <1>2 DEF Ageing
<1>6. phase'[g] = "retired" /\ sessions'[n] # NoGen => phase'[sessions'[n]] \in {"live", "killed"}
  BY <1>2 DEF NothingEnds
<1>7. QED
  BY <1>1, <1>2, <1>4, <1>5, <1>6

\* Phases that stay, or go from live to killed.
LEMMA SignalEnds ==
  ASSUME Queued, UNCHANGED sessions,
         \A g \in Gens : phase'[g] = phase[g] \/ (phase[g] = "live" /\ phase'[g] = "killed")
  PROVE  NothingEnds
<1>1. \A n \in Names : sessions[n] # NoGen => sessions[n] \in Gens
  BY DEF Queued
<1>2. QED
  BY <1>1 DEF NothingEnds

LEMMA KillNowAwaited ==
  ASSUME Queued, Registered, Aimed, Awaited, NEW s \in Sockets, NEW n \in Names, NEW id \in Ids,
         KillNow(s, n, id)
  PROVE  Awaited'
<1>1. Ageing
  BY KillNowAges
<1>2. UNCHANGED <<op, sessions>>
  BY DEF KillNow, KillAbsent, KillOther, KillRefused, KillExpected, clients
<1>3. NoneAwaits
  <2>1. CASE endRequest(s, n)
    BY <2>1, EndReq, MoveAwaits DEF Idle, Queued
  <2>2. CASE KillExpected(s, n, id)
    <3> DEFINE r == [Idle EXCEPT !.pc = "killing", !.kind = "kill", !.id = id]
    <3>1. r \in Request /\ r.pc = "killing"
      BY DEF Idle, Request, Steps
    <3>2. OnlyReq(s, n, r)
      BY <2>2, <3>1, SetReq DEF KillExpected, Queued
    <3>3. QED
      BY <3>1, <3>2, MoveAwaits
  <2>3. QED
    BY <2>1, <2>2 DEF KillNow, KillAbsent, KillOther, KillRefused
<1>4. \A g \in Gens : phase'[g] = phase[g] \/ (phase[g] = "live" /\ phase'[g] = "killed")
  <2>1. CASE KillAbsent(s, n, id) \/ KillOther(s, n, id) \/ KillRefused(s, n, id)
    BY <2>1 DEF KillAbsent, KillOther, KillRefused, gens
  <2>2. CASE KillExpected(s, n, id)
    <3> DEFINE g == sessions[n]
    <3>1. g \in Gens /\ phase[g] \in {"live", "killed"}
      BY <2>2 DEF KillExpected, expected, isLive, isExited, Queued, Registered, Unretired
    <3>2. phase' = phase \/ phase' = [phase EXCEPT ![g] = "killed"]
      BY <2>2 DEF KillExpected
    <3>3. phase \in [Gens -> Phases]
      BY DEF Registered
    <3>4. CASE phase' = phase
      BY <3>4
    <3>5. CASE phase' = [phase EXCEPT ![g] = "killed"]
      BY <3>1, <3>3, <3>5
    <3>6. QED
      BY <3>2, <3>4, <3>5
  <2>3. QED
    BY <2>1, <2>2 DEF KillNow
<1>5. NothingEnds
  BY <1>2, <1>4, SignalEnds
<1>6. QED
  BY <1>1, <1>2, <1>3, <1>5, AwaitedFrame DEF Deciding

LEMMA KillWaitsAwaited ==
  ASSUME Queued, Registered, Aimed, Awaited, NEW s \in Sockets, NEW n \in Names, NEW id \in Ids,
         KillWaits(s, n, id)
  PROVE  Awaited'
<1> DEFINE r == [Idle EXCEPT !.pc = "awaitEnd", !.kind = "kill", !.id = id, !.gen = sessions[n]]
<1>1. sessions[n] \in Gens /\ phase[sessions[n]] \in Unretired /\ nameOf[sessions[n]] = n
  BY DEF KillWaits, retiring, Queued, Registered
<1>2. r \in Request /\ r.id = id /\ r.gen = sessions[n]
  BY <1>1 DEF Idle, Request, Steps
<1>3. OnlyReq(s, n, r)
  BY <1>2, SetReq DEF KillWaits, Queued
<1>4. UNCHANGED <<op, phase, nameOf, sessions>> /\ op[id].name = n
  BY DEF KillWaits, startKill, gens, clients
<1> SUFFICES ASSUME NEW t \in Sockets, NEW m \in Names, req'[t][m].pc = "awaitEnd"
             PROVE  LET g == req'[t][m].gen
                    IN  /\ op[req'[t][m].id].name = m
                        /\ g \in Gens /\ phase[g] # "unborn" /\ nameOf[g] = m
                        /\ phase[g] = "retired" /\ sessions[m] # NoGen =>
                             phase[sessions[m]] \in {"live", "killed"}
  BY <1>4 DEF Awaited
<1>5. CASE t = s /\ m = n
  BY <1>1, <1>2, <1>3, <1>4, <1>5 DEF OnlyReq, Unretired
<1>6. CASE t # s \/ m # n
  <2>1. req'[t][m] = req[t][m]
    BY <1>3, <1>6 DEF OnlyReq
  <2>2. QED
    BY <2>1 DEF Awaited
<1>7. QED
  BY <1>5, <1>6

LEMMA KillAwaited ==
  ASSUME Queued, Registered, Aimed, Awaited, NEW s \in Sockets, NEW n \in Names, NEW id \in Ids,
         KillReplay(s, n, id) \/ KillJoin(s, n, id) \/ KillWaits(s, n, id) \/ Kill(s, n, id)
  PROVE  Awaited'
<1>1. CASE KillReplay(s, n, id)
  <2>1. UNCHANGED <<op, phase, nameOf, sessions, req>>
    BY <1>1 DEF KillReplay, gens, clients
  <2>2. QED
    BY <2>1 DEF Awaited
<1>2. CASE KillJoin(s, n, id)
  <2> DEFINE r == [Idle EXCEPT !.pc = "killing", !.kind = "kill", !.id = id]
  <2>1. r \in Request /\ r.pc = "killing"
    BY DEF Idle, Request, Steps
  <2>2. OnlyReq(s, n, r)
    BY <1>2, <2>1, SetReq DEF KillJoin, Queued
  <2>3. UNCHANGED <<op, phase, nameOf, sessions>>
    BY <1>2 DEF KillJoin, gens, clients
  <2>4. NoneAwaits /\ NothingEnds
    BY <2>1, <2>2, <2>3, MoveAwaits, SignalEnds
  <2>5. QED
    BY <2>3, <2>4, AwaitedFrame DEF Ageing, Deciding
<1>3. CASE KillWaits(s, n, id)
  BY <1>3, KillWaitsAwaited
<1>4. CASE Kill(s, n, id)
  BY <1>4, KillNowAwaited DEF Kill
<1>5. QED
  BY <1>1, <1>2, <1>3, <1>4

LEMMA OperateAwaited ==
  ASSUME Queued, Registered, Aimed, Awaited, NEW s \in Sockets, NEW n \in Names,
         Attach(s, n) \/ Observe(s, n) \/ Operate(s, n)
  PROVE  Awaited'
<1>1. Ageing /\ UNCHANGED kills
  BY AttachAges
<1>2. existing(s, n) \in Gens \cup {NoGen} /\ req[s][n] \in Request
  BY DEF existing, Queued, Requests, Request
<1>3. CASE Attach(s, n)
  <2>1. NoneAwaits
    BY <1>3, AttachReq, MoveAwaits
  <2>2. NothingEnds
    BY <1>3, SignalEnds DEF Attach, gens
  <2>3. QED
    BY <1>1, <2>1, <2>2, AwaitedFrame DEF Deciding, kills
<1>4. CASE Observe(s, n)
  <2>1. OnlyReq(s, n, [req[s][n] EXCEPT !.pc = "inspect", !.gen = sessions[n]])
    BY <1>4, StepReq DEF Observe, Queued, Holding
  <2>2. NoneAwaits
    BY <1>2, <2>1, MoveAwaits DEF Request
  <2>3. NothingEnds
    BY <1>4, SignalEnds DEF Observe, gens
  <2>4. QED
    BY <1>1, <2>2, <2>3, AwaitedFrame DEF Deciding, kills
<1>5. CASE RefuseWarm(s, n) \/ RefuseCold(s, n) \/ SpawnFails(s, n)
  <2>1. NoneAwaits
    BY <1>5, EndReq, MoveAwaits DEF RefuseWarm, RefuseCold, SpawnFails, Idle, Queued
  <2>2. NothingEnds
    BY <1>5, SignalEnds DEF RefuseWarm, RefuseCold, SpawnFails, gens
  <2>3. QED
    BY <1>1, <2>1, <2>2, AwaitedFrame DEF Deciding, kills
<1>6. CASE PrepareWarm(s, n)
  <2>1. OnlyReq(s, n, [req[s][n] EXCEPT !.pc = "warm", !.gen = existing(s, n)])
    BY <1>2, <1>6, StepReq DEF PrepareWarm, Queued, Holding
  <2>2. NoneAwaits
    BY <1>2, <2>1, MoveAwaits DEF Request
  <2>3. NothingEnds
    BY <1>6, SignalEnds DEF PrepareWarm, gens
  <2>4. QED
    BY <1>1, <2>2, <2>3, AwaitedFrame DEF Deciding, kills
<1>7. CASE Create(s, n)
  <2>1. PICK g \in Gens : /\ phase[g] = "unborn"
                          /\ phase' = [phase EXCEPT ![g] = "live"]
                          /\ sessions' = [sessions EXCEPT ![n] = g]
                          /\ step(s, n, "cold", g)
    BY <1>7 DEF Create
  <2>2. OnlyReq(s, n, [req[s][n] EXCEPT !.pc = "cold", !.gen = g])
    BY <2>1, StepReq DEF Queued, Holding
  <2>3. NoneAwaits
    BY <1>2, <2>2, MoveAwaits DEF Request
  <2>4. NothingEnds
    BY <2>1 DEF NothingEnds, Queued, Registered
  <2>5. QED
    BY <1>1, <2>3, <2>4, AwaitedFrame DEF Deciding, kills
<1>8. QED
  BY <1>3, <1>4, <1>5, <1>6, <1>7 DEF Operate

LEMMA AttachingAwaited ==
  ASSUME Queued, Registered, Aimed, Awaited, NEW s \in Sockets, NEW n \in Names,
         Activate(s, n) \/ ColdEnd(s, n)
  PROVE  Awaited'
<1>1. Ageing /\ UNCHANGED kills
  BY AttachAges
<1>2. req[s][n] \in Request
  BY DEF Queued, Requests
<1>3. \/ endRequest(s, n) \/ step(s, n, "turn", NoGen)
      \/ \E pc \in {"coldEnd", "launch"} : step(s, n, pc, req[s][n].gen)
  BY DEF Activate, WarmDone, ColdDone, LaunchDone, ColdEnd, activate, respond
<1>4. NoneAwaits
  <2>1. CASE endRequest(s, n)
    BY <2>1, EndReq, MoveAwaits DEF Idle, Queued
  <2>2. CASE step(s, n, "turn", NoGen)
    <3>1. OnlyReq(s, n, [req[s][n] EXCEPT !.pc = "turn", !.gen = NoGen])
      BY <2>2, StepReq DEF Queued, Holding
    <3>2. QED
      BY <1>2, <3>1, MoveAwaits DEF Request
  <2>3. ASSUME NEW pc \in {"coldEnd", "launch"}, step(s, n, pc, req[s][n].gen) PROVE NoneAwaits
    <3>1. OnlyReq(s, n, [req[s][n] EXCEPT !.pc = pc, !.gen = req[s][n].gen])
      BY <1>2, <2>3, StepReq DEF Queued, Holding, Request
    <3>2. QED
      BY <1>2, <3>1, MoveAwaits DEF Request
  <2>4. QED
    BY <1>3, <2>1, <2>2, <2>3
<1>5. UNCHANGED sessions
  BY DEF Activate, WarmDone, ColdDone, LaunchDone, ColdEnd, activate
<1>6. \/ UNCHANGED phase
      \/ phase' = [phase EXCEPT ![req[s][n].gen] = IF @ = "live" THEN "killed" ELSE @]
  BY DEF Activate, WarmDone, ColdDone, LaunchDone, ColdEnd, activate, gens
<1>7. NothingEnds
  BY <1>5, <1>6, SignalPhase, SignalEnds
<1>8. QED
  BY <1>1, <1>4, <1>7, AwaitedFrame DEF Deciding, kills

LEMMA TreeKillAwaited ==
  ASSUME Queued, Registered, Aimed, Awaited, NEW n \in Names, TreeKill(n)
  PROVE  Awaited'
<1>1. Ageing
  BY EndAges
<1>2. CASE TreeKilled(n)
  <2>1. /\ UNCHANGED <<op, sessions, req>>
        /\ phase' = [phase EXCEPT ![ending[n].gen] = IF @ = "live" THEN "killed" ELSE @]
    BY <1>2 DEF TreeKilled, clients
  <2>2. NothingEnds
    BY <2>1, SignalPhase, SignalEnds
  <2>3. QED
    BY <1>1, <2>1, <2>2, AwaitedFrame DEF NoneAwaits, Deciding
<1>3. CASE TreeKillFails(n)
  <2>1. UNCHANGED <<op, sessions, phase>> /\ failOperation(n)
    BY <1>3 DEF TreeKillFails, gens, clients
  <2>2. NoneAwaits
    BY <2>1, FailReq, AnswerAwaits DEF Queued
  <2>3. NothingEnds
    BY <2>1, SignalEnds
  <2>4. QED
    BY <1>1, <2>1, <2>2, <2>3, AwaitedFrame DEF Deciding
<1>4. QED
  BY <1>2, <1>3 DEF TreeKill

\* A generation that retires leaves its name empty behind it.
LEMMA RetireAwaited ==
  ASSUME Queued, Registered, Aimed, Awaited, NEW g \in Gens, Retire(g)
  PROVE  Awaited'
<1>1. /\ phase[g] = "exited" /\ phase' = [phase EXCEPT ![g] = "retired"]
      /\ sessions' = [sessions EXCEPT ![nameOf[g]] = IF @ = g THEN NoGen ELSE @]
      /\ UNCHANGED <<op, nameOf>>
      /\ \A s \in Sockets, n \in Names :
           req[s][n].pc = "awaitEnd" => phase[req[s][n].gen] # "retired"
  BY DEF Retire, Quiet, clients
<1>2. nameOf[g] \in Names /\ sessions[nameOf[g]] = g
  BY <1>1 DEF Registered, Unretired
<1>3. phase \in [Gens -> Phases] /\ sessions \in [Names -> Gens \cup {NoGen}]
  BY DEF Registered, Queued
<1>4. NoneAwaits
  <2>1. CASE owner[g] = None
    BY <2>1 DEF Retire, NoneAwaits
  <2>2. CASE owner[g] # None
    <3>1. ackAll(nameOf[g], owner[g])
      BY <2>2 DEF Retire
    <3>2. QED
      BY <3>1, AckAllReq, AnswerAwaits DEF Queued
  <2>3. QED
    BY <2>1, <2>2
<1> SUFFICES ASSUME NEW s \in Sockets, NEW n \in Names, req'[s][n].pc = "awaitEnd"
             PROVE  LET h == req'[s][n].gen
                    IN  /\ op[req'[s][n].id].name = n
                        /\ h \in Gens /\ phase'[h] # "unborn" /\ nameOf[h] = n
                        /\ phase'[h] = "retired" /\ sessions'[n] # NoGen =>
                             phase'[sessions'[n]] \in {"live", "killed"}
  BY <1>1 DEF Awaited
<1> DEFINE h == req[s][n].gen
<1>5. req'[s][n] = req[s][n]
  BY <1>4 DEF NoneAwaits
<1>6. op[req[s][n].id].name = n /\ h \in Gens /\ phase[h] # "unborn" /\ nameOf[h] = n
  BY <1>5 DEF Awaited
<1>7. phase'[h] # "unborn"
  BY <1>1, <1>3, <1>6
<1>8. phase'[h] = "retired" => sessions'[n] = NoGen
  <2>1. ASSUME phase'[h] = "retired" PROVE h = g
    BY <1>1, <1>3, <1>5, <1>6, <2>1
  <2>2. QED
    BY <1>1, <1>2, <1>3, <1>6, <2>1
<1>9. QED
  BY <1>5, <1>6, <1>7, <1>8

LEMMA ExitAwaited ==
  ASSUME Queued, Registered, Aimed, Awaited, NEW g \in Gens, ProcessExit(g)
  PROVE  Awaited'
<1>1. /\ phase' = [phase EXCEPT ![g] = "exited"]
      /\ UNCHANGED <<op, nameOf, req, sessions>>
      /\ \A s \in Sockets, n \in Names :
           req[s][n].pc = "awaitEnd" => phase[req[s][n].gen] # "retired"
  BY DEF ProcessExit, Quiet, clients
<1>2. phase \in [Gens -> Phases]
  BY DEF Registered
<1>3. \A h \in Gens : /\ phase[h] # "unborn" => phase'[h] # "unborn"
                      /\ phase[h] # "retired" => phase'[h] # "retired"
  BY <1>1, <1>2
<1>4. QED
  BY <1>1, <1>3 DEF Awaited

LEMMA ElsewhereAwaited ==
  ASSUME Queued, Registered, Aimed, Awaited, Elsewhere
  PROVE  Awaited'
<1>1. Ageing
  BY ElsewhereAges
<1>2. CASE \E id \in Ids, n \in Names : Decide(id, n)
  <2>1. Deciding /\ UNCHANGED <<phase, sessions, req>>
    BY <1>2, DecideOnce DEF Decide, gens
  <2>2. NothingEnds
    BY <2>1, SignalEnds
  <2>3. QED
    BY <1>1, <2>1, <2>2, AwaitedFrame DEF NoneAwaits
<1>3. CASE \E g \in Gens : ProcessExit(g)
  BY <1>3, ExitAwaited
<1>4. CASE ShutdownStart
  <2>1. /\ UNCHANGED <<op, sessions, req>>
        /\ \A g \in Gens : phase'[g] = phase[g] \/ (phase[g] = "live" /\ phase'[g] = "killed")
    BY <1>4, ShutdownSignals DEF ShutdownStart, clients, Mine
  <2>2. NothingEnds
    BY <2>1, SignalEnds
  <2>3. QED
    BY <1>1, <2>1, <2>2, AwaitedFrame DEF NoneAwaits, Deciding
<1>5. CASE \/ \E n \in Names : LeaseExpires(n)
           \/ \E id \in Ids : CompletedForgotten(id)
           \/ \E s \in Sockets : SocketClose(s)
  <2>1. UNCHANGED <<op, phase, nameOf, sessions, req>>
    BY <1>5 DEF LeaseExpires, CompletedForgotten, SocketClose, gens, clients
  <2>2. QED
    BY <2>1 DEF Awaited
<1>6. CASE \/ \E g \in Gens : ShutdownDeadline(g)
           \/ GraceExit \/ ShutdownDone \/ ShutdownExit
  <2>1. UNCHANGED <<op, phase, nameOf, sessions, req>>
    BY <1>6 DEF ShutdownDeadline, GraceExit, ShutdownDone, ShutdownExit, stop, gens, clients
  <2>2. QED
    BY <2>1 DEF Awaited
<1>7. QED
  BY <1>2, <1>3, <1>4, <1>5, <1>6 DEF Elsewhere

LEMMA KillResumesSettled ==
  ASSUME Queued, Awaited, NEW s \in Sockets, NEW n \in Names, KillResumes(s, n)
  PROVE  LET id == req[s][n].id
         IN  id \in Ids /\ op[id].name = n /\ Settled(n) /\ KillNow(s, n, id)
<1>1. req[s][n].id \in Ids
  BY DEF KillResumes, Queued, Requests, Request
<1>2. op[req[s][n].id].name = n /\ Settled(n)
  BY DEF KillResumes, Awaited, Settled
<1>3. QED
  BY <1>1, <1>2 DEF KillResumes

-----------------------------------------------------------------------------
(* The invariant.                                                           *)

KillInv == Queued /\ Registered /\ Aimed /\ Awaited /\ Done

LEMMA InitKillInv == Init => KillInv
<1>1. Init => Awaited /\ Done
  BY DEF Init, Awaited, Done, Idle
<1>2. QED
  BY <1>1, InitQueued, InitRegistered, InitAimed DEF KillInv

LEMMA StepAwaited ==
  ASSUME Queued, Registered, Aimed, Awaited, Next
  PROVE  Awaited'
<1>1. ASSUME NEW s \in Sockets, NEW n \in Names,
             Attach(s, n) \/ Continue(s, n) \/ Activate(s, n)
      PROVE  Awaited'
  <2>1. CASE KillResumes(s, n)
    BY <2>1, KillResumesSettled, KillNowAwaited
  <2>2. CASE ~KillResumes(s, n)
    BY <1>1, <2>2, OperateAwaited, AttachingAwaited DEF Continue
  <2>3. QED
    BY <2>1, <2>2
<1>2. ASSUME NEW s \in Sockets, NEW n \in Names, NEW id \in Ids,
             KillReplay(s, n, id) \/ KillJoin(s, n, id) \/ KillWaits(s, n, id) \/ Kill(s, n, id)
      PROVE  Awaited'
  BY <1>2, KillAwaited
<1>3. ASSUME NEW n \in Names, TreeKill(n) PROVE Awaited'
  BY <1>3, TreeKillAwaited
<1>4. ASSUME NEW g \in Gens, Retire(g) PROVE Awaited'
  BY <1>4, RetireAwaited
<1>5. CASE Elsewhere
  BY <1>5, ElsewhereAwaited
<1>6. QED
  BY <1>1, <1>2, <1>3, <1>4, <1>5 DEF Next, Elsewhere

LEMMA StepDone ==
  ASSUME KillInv, Next
  PROVE  Done'
<1> USE DEF KillInv
<1>1. ASSUME NEW s \in Sockets, NEW n \in Names,
             Attach(s, n) \/ Continue(s, n) \/ Activate(s, n)
      PROVE  Done'
  <2>1. CASE KillResumes(s, n)
    BY <2>1, KillResumesSettled, KillNowDone
  <2>2. CASE ~KillResumes(s, n)
    <3>1. Ageing /\ UNCHANGED kills
      BY <1>1, <2>2, AttachAges DEF Continue
    <3>2. QED
      BY <3>1, DoneSame DEF kills
  <2>3. QED
    BY <2>1, <2>2
<1>2. ASSUME NEW s \in Sockets, NEW n \in Names, NEW id \in Ids,
             KillReplay(s, n, id) \/ KillJoin(s, n, id) \/ KillWaits(s, n, id) \/ Kill(s, n, id)
      PROVE  Done'
  BY <1>2, KillDone
<1>3. ASSUME NEW n \in Names, TreeKill(n) PROVE Done'
  <2>1. Ageing
    BY <1>3, EndAges
  <2>2. UNCHANGED <<op, completed, acked>>
    BY <1>3 DEF TreeKill, TreeKilled, TreeKillFails, clients
  <2>3. QED
    BY <2>1, <2>2, DoneSame
<1>4. ASSUME NEW g \in Gens, Retire(g) PROVE Done'
  BY <1>4, RetireDone
<1>5. CASE Elsewhere
  BY <1>5, ElsewhereDone
<1>6. QED
  BY <1>1, <1>2, <1>3, <1>4, <1>5 DEF Next, Elsewhere

LEMMA StepKillInv == KillInv /\ [Next]_vars => KillInv'
<1> SUFFICES ASSUME KillInv, [Next]_vars PROVE KillInv'
  OBVIOUS
<1>1. (Queued /\ Registered /\ Aimed)'
  BY StepQueued, StepRegistered, StepAimed DEF KillInv
<1>2. CASE Next
  BY <1>1, <1>2, StepAwaited, StepDone DEF KillInv
<1>3. CASE UNCHANGED vars
  <2>1. (Awaited /\ Done)'
    BY <1>3 DEF KillInv, Awaited, Done, vars, gens, clients
  <2>2. QED
    BY <1>1, <2>1 DEF KillInv
<1>4. QED
  BY <1>2, <1>3

\* Success is reported, first or to a retry, only for a kill whose generation
\* is retired: its process has exited and its name is free (host.ts:796).
THEOREM AckedKillsAreDone == Spec => []AckedIsGone
<1>1. KillInv => AckedIsGone
  BY DEF KillInv, Done, AckedIsGone
<1>2. Spec => []KillInv
  BY InitKillInv, StepKillInv, PTL DEF Spec
<1>3. QED
  BY <1>1, <1>2, PTL

-----------------------------------------------------------------------------
(* An empty host is timed.                                                  *)

\* What a kill is ending is registered.
EndsRegistered == \A n \in Names : ending[n] # NoKill => sessions[n] # NoGen

TimedInv == Queued /\ Registered /\ Aimed /\ EndsRegistered /\ IdleHostIsTimed

\* A step that leaves the timer, the registry and the kills under way alone,
\* starts the timer anew, or cancels it while the registry is not empty.
LEMMA TimedFrame ==
  ASSUME IdleHostIsTimed, UNCHANGED <<up, shutting, grace, sessions>>
  PROVE  IdleHostIsTimed'
  BY DEF IdleHostIsTimed

LEMMA TimedAnew ==
  ASSUME rescheduleGrace(sessions')
  PROVE  IdleHostIsTimed'
  BY DEF IdleHostIsTimed, rescheduleGrace

LEMMA TimedOccupied ==
  ASSUME NEW n \in Names, sessions'[n] # NoGen
  PROVE  IdleHostIsTimed'
  BY DEF IdleHostIsTimed

LEMMA KillNowTimed ==
  ASSUME TimedInv, NEW s \in Sockets, NEW n \in Names, NEW id \in Ids, KillNow(s, n, id)
  PROVE  (EndsRegistered /\ IdleHostIsTimed)'
<1> USE DEF TimedInv
<1>1. CASE KillAbsent(s, n, id)
  <2>1. UNCHANGED <<up, shutting, sessions, ending>>
        /\ (rescheduleGrace(sessions) \/ UNCHANGED grace)
    BY <1>1 DEF KillAbsent, setReplacementReservation
  <2>2. IdleHostIsTimed'
    <3>1. CASE rescheduleGrace(sessions)
      <4>1. rescheduleGrace(sessions')
        BY <2>1, <3>1
      <4>2. QED
        BY <4>1, TimedAnew
    <3>2. CASE UNCHANGED grace
      BY <2>1, <3>2, TimedFrame
    <3>3. QED
      BY <2>1, <3>1, <3>2
  <2>3. QED
    BY <2>1, <2>2 DEF EndsRegistered
<1>2. CASE KillOther(s, n, id) \/ KillRefused(s, n, id)
  <2>1. UNCHANGED <<up, shutting, grace, sessions, ending>>
    BY <1>2 DEF KillOther, KillRefused, host
  <2>2. QED
    BY <2>1, TimedFrame DEF EndsRegistered
<1>3. CASE KillExpected(s, n, id)
  <2>1. UNCHANGED <<up, shutting, grace, sessions>> /\ sessions[n] # NoGen
    BY <1>3 DEF KillExpected, expected, isLive, host
  <2>2. \A m \in Names : m # n => ending'[m] = ending[m]
    BY <1>3 DEF KillExpected, Aimed
  <2>3. QED
    BY <2>1, <2>2, TimedFrame DEF EndsRegistered
<1>4. QED
  BY <1>1, <1>2, <1>3 DEF KillNow

LEMMA KillTimed ==
  ASSUME TimedInv, NEW s \in Sockets, NEW n \in Names, NEW id \in Ids,
         KillReplay(s, n, id) \/ KillJoin(s, n, id) \/ KillWaits(s, n, id) \/ Kill(s, n, id)
  PROVE  (EndsRegistered /\ IdleHostIsTimed)'
<1> USE DEF TimedInv
<1>1. CASE KillReplay(s, n, id)
  <2>1. UNCHANGED <<up, shutting, sessions, ending>>
        /\ (rescheduleGrace(sessions) \/ UNCHANGED grace)
    BY <1>1 DEF KillReplay, setReplacementReservation
  <2>2. rescheduleGrace(sessions) => rescheduleGrace(sessions')
    BY <2>1
  <2>3. IdleHostIsTimed'
    BY <2>1, <2>2, TimedAnew, TimedFrame
  <2>4. QED
    BY <2>1, <2>3 DEF EndsRegistered
<1>2. CASE KillJoin(s, n, id) \/ KillWaits(s, n, id)
  <2>1. UNCHANGED <<up, shutting, grace, sessions, ending>>
    BY <1>2 DEF KillJoin, KillWaits, host
  <2>2. QED
    BY <2>1, TimedFrame DEF EndsRegistered
<1>3. CASE Kill(s, n, id)
  BY <1>3, KillNowTimed DEF Kill
<1>4. QED
  BY <1>1, <1>2, <1>3

\* Attaches: whoever cancels the timer found a generation, or made one.
LEMMA OperateTimed ==
  ASSUME TimedInv, NEW s \in Sockets, NEW n \in Names, Operate(s, n)
  PROVE  (EndsRegistered /\ IdleHostIsTimed)'
<1> USE DEF TimedInv
<1>1. sessions \in [Names -> Gens \cup {NoGen}] /\ NoGen \notin Gens
  BY DEF Queued, Gens, NoGen
<1>2. inspecting(s, n) => req[s][n].gen = sessions[n]
  BY DEF inspecting, Registered, Observed
<1>3. CASE RefuseWarm(s, n) \/ PrepareWarm(s, n)
  <2>1. UNCHANGED <<sessions, ending>> /\ inspecting(s, n)
        /\ (ending[n] # NoKill \/ existing(s, n) # NoGen)
    BY <1>3 DEF RefuseWarm, PrepareWarm
  <2>2. sessions[n] # NoGen
    BY <1>2, <2>1 DEF existing, EndsRegistered
  <2>3. QED
    BY <2>1, <2>2, TimedOccupied DEF EndsRegistered
<1>4. CASE RefuseCold(s, n) \/ SpawnFails(s, n)
  <2>1. UNCHANGED <<sessions, ending>> /\ rescheduleGrace(sessions)
    BY <1>4 DEF RefuseCold, SpawnFails
  <2>2. rescheduleGrace(sessions')
    BY <2>1
  <2>3. QED
    BY <2>1, <2>2, TimedAnew DEF EndsRegistered
<1>5. CASE Create(s, n)
  <2>1. PICK g \in Gens : sessions' = [sessions EXCEPT ![n] = g]
    BY <1>5 DEF Create
  <2>2. UNCHANGED ending
    BY <1>5 DEF Create
  <2>3. sessions'[n] # NoGen /\ \A m \in Names : m # n => sessions'[m] = sessions[m]
    BY <1>1, <2>1
  <2>4. QED
    BY <2>2, <2>3, TimedOccupied DEF EndsRegistered
<1>6. QED
  BY <1>3, <1>4, <1>5 DEF Operate

LEMMA AttachingTimed ==
  ASSUME TimedInv, NEW s \in Sockets, NEW n \in Names,
         Attach(s, n) \/ Observe(s, n) \/ Activate(s, n) \/ ColdEnd(s, n)
  PROVE  (EndsRegistered /\ IdleHostIsTimed)'
<1>1. UNCHANGED <<up, shutting, grace, sessions, ending>>
  BY DEF Attach, Observe, Activate, WarmDone, ColdDone, LaunchDone, ColdEnd, activate, host
<1>2. QED
  BY <1>1, TimedFrame DEF TimedInv, EndsRegistered

LEMMA TreeKillTimed ==
  ASSUME TimedInv, NEW n \in Names, TreeKill(n)
  PROVE  (EndsRegistered /\ IdleHostIsTimed)'
<1> USE DEF TimedInv
<1>1. UNCHANGED <<up, shutting, grace, sessions>> /\ ending[n].tree
  BY DEF TreeKill, TreeKilled, TreeKillFails, host
<1>2. sessions[n] # NoGen
  BY <1>1 DEF EndsRegistered, NoKill
<1>3. \A m \in Names : m # n => ending'[m] = ending[m]
  <2>1. ending' = [ending EXCEPT ![n].tree = FALSE] \/ ending' = [ending EXCEPT ![n] = NoKill]
    BY DEF TreeKill, TreeKilled, TreeKillFails, failOperation
  <2>2. QED
    BY <2>1 DEF Aimed
<1>4. QED
  BY <1>1, <1>2, <1>3, TimedFrame DEF EndsRegistered

LEMMA RetireTimed ==
  ASSUME TimedInv, NEW g \in Gens, Retire(g)
  PROVE  (EndsRegistered /\ IdleHostIsTimed)'
<1> USE DEF TimedInv
<1>1. rescheduleGrace(sessions')
  BY DEF Retire, setReplacementReservation
<1>2. /\ nameOf[g] \in Names
      /\ sessions' = [sessions EXCEPT ![nameOf[g]] = IF @ = g THEN NoGen ELSE @]
      /\ ending' = [ending EXCEPT ![nameOf[g]] = NoKill]
  BY DEF Retire, Registered, Unretired
<1>3. EndsRegistered'
  BY <1>2 DEF EndsRegistered, Queued, Aimed
<1>4. QED
  BY <1>1, <1>3, TimedAnew

LEMMA ElsewhereTimed ==
  ASSUME TimedInv, Elsewhere
  PROVE  (EndsRegistered /\ IdleHostIsTimed)'
<1> USE DEF TimedInv
<1>1. CASE ShutdownStart
  <2>1. UNCHANGED sessions /\ shutting' = "ending"
        /\ \A n \in Names : ending'[n] = ending[n] \/ sessions[n] # NoGen
    BY <1>1, ShutdownSignals DEF ShutdownStart, Mine
  <2>2. QED
    BY <2>1 DEF EndsRegistered, IdleHostIsTimed
<1>2. CASE ShutdownDone
  <2>1. UNCHANGED <<sessions, ending>> /\ (shutting' = "exiting" \/ rescheduleGrace(sessions))
    BY <1>2 DEF ShutdownDone
  <2>2. rescheduleGrace(sessions) => rescheduleGrace(sessions')
    BY <2>1
  <2>3. IdleHostIsTimed'
    <3>1. CASE shutting' = "exiting"
      BY <3>1 DEF IdleHostIsTimed
    <3>2. QED
      BY <2>1, <2>2, <3>1, TimedAnew
  <2>4. QED
    BY <2>1, <2>3 DEF EndsRegistered
<1>3. CASE GraceExit \/ ShutdownExit
  BY <1>3 DEF GraceExit, ShutdownExit, stop, EndsRegistered, IdleHostIsTimed
<1>4. CASE \/ \E id \in Ids, n \in Names : Decide(id, n)
           \/ \E n \in Names : LeaseExpires(n)
           \/ \E g \in Gens : ProcessExit(g) \/ ShutdownDeadline(g)
           \/ \E id \in Ids : CompletedForgotten(id)
           \/ \E s \in Sockets : SocketClose(s)
  <2>1. UNCHANGED <<up, shutting, grace, sessions, ending>>
    BY <1>4 DEF Decide, LeaseExpires, ProcessExit, ShutdownDeadline, CompletedForgotten, SocketClose,
                host
  <2>2. QED
    BY <2>1, TimedFrame DEF EndsRegistered
<1>5. QED
  BY <1>1, <1>2, <1>3, <1>4 DEF Elsewhere

LEMMA StepTimed == TimedInv /\ [Next]_vars => TimedInv'
<1> SUFFICES ASSUME TimedInv, [Next]_vars PROVE TimedInv'
  OBVIOUS
<1> DEFINE Goal == (EndsRegistered /\ IdleHostIsTimed)'
<1>1. (Queued /\ Registered /\ Aimed)'
  BY StepQueued, StepRegistered, StepAimed DEF TimedInv
<1>2. ASSUME NEW s \in Sockets, NEW n \in Names,
             Attach(s, n) \/ Continue(s, n) \/ Activate(s, n)
      PROVE  Goal
  <2>1. CASE KillResumes(s, n)
    <3>1. req[s][n].id \in Ids
      BY <2>1 DEF KillResumes, TimedInv, Queued, Requests, Request
    <3>2. QED
      BY <2>1, <3>1, KillNowTimed DEF KillResumes
  <2>2. CASE ~KillResumes(s, n)
    BY <1>2, <2>2, OperateTimed, AttachingTimed DEF Continue
  <2>3. QED
    BY <2>1, <2>2
<1>3. ASSUME NEW s \in Sockets, NEW n \in Names, NEW id \in Ids,
             KillReplay(s, n, id) \/ KillJoin(s, n, id) \/ KillWaits(s, n, id) \/ Kill(s, n, id)
      PROVE  Goal
  BY <1>3, KillTimed
<1>4. ASSUME NEW n \in Names, TreeKill(n) PROVE Goal
  BY <1>4, TreeKillTimed
<1>5. ASSUME NEW g \in Gens, Retire(g) PROVE Goal
  BY <1>5, RetireTimed
<1>6. ASSUME Elsewhere PROVE Goal
  BY <1>6, ElsewhereTimed
<1>7. CASE UNCHANGED vars
  <2>1. UNCHANGED <<up, shutting, grace, sessions, ending>>
    BY <1>7 DEF vars, host
  <2>2. QED
    BY <1>1, <2>1, TimedFrame DEF TimedInv, EndsRegistered
<1>8. Goal => TimedInv'
  BY <1>1 DEF TimedInv
<1>9. QED
  BY <1>2, <1>3, <1>4, <1>5, <1>6, <1>7, <1>8 DEF Next, Elsewhere

\* An empty host always has its exit timer armed: no refused, failed,
\* cancelled or retried attach leaves the timer cancelled (host.ts:311).
THEOREM IdleHostsAreTimed == Spec => []IdleHostIsTimed
<1>1. Init => TimedInv
  BY InitQueued, InitRegistered, InitAimed DEF Init, TimedInv, EndsRegistered, IdleHostIsTimed
<1>2. TimedInv => IdleHostIsTimed
  BY DEF TimedInv
<1>3. QED
  BY <1>1, <1>2, StepTimed, PTL DEF Spec

-----------------------------------------------------------------------------
(* Exits come before what follows them.                                     *)

\* Generations are born in their order, and a name's unretired one is its
\* youngest.
Latest ==
  /\ \A g, h \in Gens : phase[g] = "unborn" /\ phase[h] # "unborn" => h < g
  /\ \A g, h \in Gens :
       phase[g] \in Unretired /\ phase[h] # "unborn" /\ nameOf[h] = nameOf[g] => h <= g

Joining == {"warm", "cold", "launch"}

\* As long as an attach has the turn, its generation is the last of its name.
Joins ==
  \A s \in Sockets, n \in Names : req[s][n].pc \in Joining =>
    LET g == req[s][n].gen
    IN  g \in Gens /\ phase[g] # "unborn" /\ nameOf[g] = n /\ sessions[n] \in {NoGen, g}

\* What a connection was answered with has existed under that name.
Answered ==
  /\ attached \in [Sockets -> [Names -> Gens \cup {NoGen}]]
  /\ \A s \in Sockets, n \in Names : attached[s][n] # NoGen =>
       phase[attached[s][n]] # "unborn" /\ nameOf[attached[s][n]] = n

JoinInv == Queued /\ Registered /\ Latest /\ Joins /\ Answered

\* No request begins to join, and one that goes on keeps its generation.
NoneJoins ==
  \A s \in Sockets, n \in Names : req'[s][n].pc \in Joining =>
    req[s][n].pc \in Joining /\ req'[s][n].gen = req[s][n].gen

\* Generations come to their end and none is born.
Dwindling ==
  /\ Ageing /\ \A g \in Gens : phase[g] = "unborn" => phase'[g] = "unborn"
  /\ \A n \in Names : sessions'[n] \in {sessions[n], NoGen}

LEMMA SameDwindling ==
  ASSUME UNCHANGED <<phase, nameOf, sessions>>
  PROVE  Dwindling
  BY DEF Dwindling, Ageing

\* Phases that stay, or go from live to killed.
LEMMA SignalDwindling ==
  ASSUME Ageing, UNCHANGED sessions,
         \A g \in Gens : phase'[g] = phase[g] \/ (phase[g] = "live" /\ phase'[g] = "killed")
  PROVE  Dwindling
  BY DEF Dwindling

LEMMA JoinsFrame ==
  ASSUME JoinInv, Registered', Dwindling, NoneJoins
  PROVE  (Latest /\ Joins)'
<1>1. Joins'
  BY DEF JoinInv, Joins, Dwindling, Ageing, NoneJoins
<1>2. \A g \in Gens : /\ phase'[g] \in Unretired => phase[g] \in Unretired
                      /\ phase'[g] # "unborn" => phase[g] # "unborn" /\ nameOf'[g] = nameOf[g]
                      /\ phase'[g] = "unborn" => phase[g] = "unborn"
  BY DEF JoinInv, Registered, Dwindling, Ageing, Unretired, Phases
<1>3. \A g \in Gens : phase'[g] \in Unretired => phase'[g] # "unborn"
  BY DEF Unretired
<1>4. Latest'
  BY <1>2, <1>3 DEF JoinInv, Latest
<1>5. QED
  BY <1>1, <1>4

LEMMA AnsweredFrame ==
  ASSUME Answered, Ageing, UNCHANGED attached
  PROVE  Answered'
<1>1. \A s \in Sockets, n \in Names : attached[s][n] \in Gens \cup {NoGen}
  BY DEF Answered
<1>2. QED
  BY <1>1 DEF Answered, Ageing

LEMMA MoveJoins ==
  ASSUME NEW s \in Sockets, NEW n \in Names, NEW r, OnlyReq(s, n, r), r.pc \notin Joining
  PROVE  NoneJoins
  BY DEF NoneJoins, OnlyReq

LEMMA AnswerJoins ==
  ASSUME NEW n,
         \A t \in Sockets, m \in Names :
            req'[t][m] = IF m = n /\ req[t][n].pc = "killing" THEN Idle ELSE req[t][m]
  PROVE  NoneJoins
<1>1. Idle.pc \notin Joining
  BY DEF Idle, Joining
<1>2. \A t \in Sockets, m \in Names : req'[t][m] = Idle \/ req'[t][m] = req[t][m]
  OBVIOUS
<1>3. QED
  BY <1>1, <1>2 DEF NoneJoins

LEMMA KillNowJoins ==
  ASSUME JoinInv, NEW s \in Sockets, NEW n \in Names, NEW id \in Ids, KillNow(s, n, id)
  PROVE  NoneJoins /\ Dwindling /\ UNCHANGED attached
<1> USE DEF JoinInv
<1>1. CASE KillAbsent(s, n, id) \/ KillOther(s, n, id) \/ KillRefused(s, n, id)
  <2>1. OnlyReq(s, n, Idle)
    BY <1>1, EndReq DEF KillAbsent, KillOther, KillRefused, Queued
  <2>2. UNCHANGED <<attached, phase, nameOf, sessions>>
    BY <1>1 DEF KillAbsent, KillOther, KillRefused, gens
  <2>3. QED
    BY <2>1, <2>2, MoveJoins, SameDwindling DEF Idle, Joining
<1>2. CASE KillExpected(s, n, id)
  <2> DEFINE r == [Idle EXCEPT !.pc = "killing", !.kind = "kill", !.id = id]
  <2>1. r \in Request /\ r.pc = "killing"
    BY DEF Idle, Request, Steps
  <2>2. OnlyReq(s, n, r)
    BY <1>2, <2>1, SetReq DEF KillExpected, Queued
  <2>3. /\ UNCHANGED <<attached, sessions>>
        /\ UNCHANGED phase \/ phase' = [phase EXCEPT ![sessions[n]] = "killed"]
    BY <1>2 DEF KillExpected
  <2>4. phase[sessions[n]] # "unborn" /\ phase \in [Gens -> Phases]
    BY <1>2 DEF KillExpected, expected, isLive, Registered, Unretired
  <2>5. \A g \in Gens : phase[g] = "unborn" => phase'[g] = "unborn"
    BY <2>3, <2>4
  <2>6. Ageing
    BY <1>2, KillNowAges DEF KillNow
  <2>7. QED
    BY <2>1, <2>2, <2>3, <2>5, <2>6, MoveJoins DEF Joining, Dwindling
<1>3. QED
  BY <1>1, <1>2 DEF KillNow

LEMMA KillJoins ==
  ASSUME JoinInv, NEW s \in Sockets, NEW n \in Names, NEW id \in Ids,
         KillReplay(s, n, id) \/ KillJoin(s, n, id) \/ KillWaits(s, n, id) \/ Kill(s, n, id)
  PROVE  NoneJoins /\ Dwindling /\ UNCHANGED attached
<1> USE DEF JoinInv
<1>1. CASE KillReplay(s, n, id)
  <2>1. UNCHANGED <<attached, phase, nameOf, sessions, req>>
    BY <1>1 DEF KillReplay, gens
  <2>2. QED
    BY <2>1, SameDwindling DEF NoneJoins
<1>2. CASE KillJoin(s, n, id) \/ KillWaits(s, n, id)
  <2>1. UNCHANGED <<attached, phase, nameOf, sessions>>
    BY <1>2 DEF KillJoin, KillWaits, gens
  <2>2. PICK r \in Request : OnlyReq(s, n, r) /\ r.pc \in {"killing", "awaitEnd"}
    BY <1>2, WaitReq
  <2>3. NoneJoins
    BY <2>2, MoveJoins DEF Joining
  <2>4. QED
    BY <2>1, <2>3, SameDwindling
<1>3. CASE Kill(s, n, id)
  BY <1>3, KillNowJoins DEF Kill
<1>4. QED
  BY <1>1, <1>2, <1>3

\* The generation that an attach joins is its name's registered one, and
\* nobody else has the name's turn.
LEMMA BeginJoins ==
  ASSUME JoinInv, Ageing, NEW s \in Sockets, NEW n \in Names, NEW g \in Gens, NEW r,
         OnlyReq(s, n, r), r.gen = g, req[s][n].pc \in Holding,
         phase'[g] # "unborn", nameOf'[g] = n, sessions'[n] = g,
         \A m \in Names : m # n => sessions'[m] = sessions[m]
  PROVE  Joins'
<1> SUFFICES ASSUME NEW t \in Sockets, NEW m \in Names, req'[t][m].pc \in Joining
             PROVE  LET h == req'[t][m].gen
                    IN  h \in Gens /\ phase'[h] # "unborn" /\ nameOf'[h] = m
                          /\ sessions'[m] \in {NoGen, h}
  BY DEF Joins
<1>1. CASE t = s /\ m = n
  BY <1>1 DEF OnlyReq
<1>2. CASE t # s \/ m # n
  <2>1. req'[t][m] = req[t][m]
    BY <1>2 DEF OnlyReq
  <2>2. req[t][m].pc \in Holding
    BY <2>1 DEF Joining, Holding
  <2>3. m # n
    BY <1>2, <2>2 DEF JoinInv, Queued, TurnsHeld
  <2>4. LET h == req[t][m].gen
        IN  h \in Gens /\ phase[h] # "unborn" /\ nameOf[h] = m /\ sessions[m] \in {NoGen, h}
    BY <2>1 DEF JoinInv, Joins
  <2>5. QED
    BY <2>1, <2>3, <2>4 DEF Ageing
<1>3. QED
  BY <1>1, <1>2

\* A new generation is the youngest, and its name had none.
LEMMA CreateLatest ==
  ASSUME JoinInv, NEW s \in Sockets, NEW n \in Names, Create(s, n)
  PROVE  Latest' /\ Joins'
<1> USE DEF JoinInv
<1>1. PICK g \in Gens :
        /\ phase[g] = "unborn" /\ \A h \in Gens : phase[h] = "unborn" => g <= h
        /\ phase' = [phase EXCEPT ![g] = "live"]
        /\ nameOf' = [nameOf EXCEPT ![g] = n]
        /\ sessions' = [sessions EXCEPT ![n] = g]
        /\ step(s, n, "cold", g)
  BY DEF Create
<1>2. req[s][n].pc = "inspect" /\ existing(s, n) = NoGen
  BY DEF Create, inspecting, mayCreate
<1>3. sessions[n] = NoGen
  <2>1. /\ req[s][n].gen = sessions[n]
        /\ sessions[n] # NoGen => phase[sessions[n]] \in {"live", "killed"}
    BY <1>2 DEF Registered, Observed
  <2>2. QED
    BY <1>2, <2>1 DEF existing, isExited
<1>4. /\ phase \in [Gens -> Phases] /\ nameOf \in [Gens -> Names \cup {None}]
      /\ sessions \in [Names -> Gens \cup {NoGen}] /\ NoGen \notin Gens
  BY DEF Registered, Queued, Gens, NoGen
<1>5. /\ phase'[g] = "live" /\ nameOf'[g] = n
      /\ \A h \in Gens : h # g => phase'[h] = phase[h] /\ nameOf'[h] = nameOf[h]
  BY <1>1, <1>4
<1>6. \A h \in Gens : phase[h] # "unborn" => h < g
  BY <1>1 DEF Latest
<1>7. ASSUME NEW a \in Gens, NEW b \in Gens, phase'[a] = "unborn", phase'[b] # "unborn"
      PROVE  b < a
  <2>1. a # g /\ phase[a] = "unborn"
    BY <1>5, <1>7
  <2>2. CASE b = g
    <3>1. g <= a
      BY <1>1, <2>1
    <3>2. QED
      BY <2>1, <2>2, <3>1 DEF Gens
  <2>3. CASE b # g
    BY <1>5, <1>7, <2>1, <2>3 DEF Latest
  <2>4. QED
    BY <2>2, <2>3
<1>8. ASSUME NEW a \in Gens, NEW b \in Gens,
             phase'[a] \in Unretired, phase'[b] # "unborn", nameOf'[b] = nameOf'[a]
      PROVE  b <= a
  <2>1. CASE a = g
    <3>1. b = g \/ b < g
      BY <1>5, <1>6, <1>8
    <3>2. QED
      BY <2>1, <3>1 DEF Gens
  <2>2. CASE a # g
    <3>1. phase[a] \in Unretired /\ nameOf'[a] = nameOf[a]
      BY <1>5, <1>8, <2>2
    <3>2. sessions[nameOf[a]] = a
      BY <3>1 DEF Registered
    <3>3. b # g
      BY <1>3, <1>4, <1>5, <1>8, <3>1, <3>2
    <3>4. QED
      BY <1>5, <1>8, <3>1, <3>3 DEF Latest
  <2>3. QED
    BY <2>1, <2>2
<1>9. Latest'
  BY <1>7, <1>8 DEF Latest
<1>10. Joins'
  <2> DEFINE r == [req[s][n] EXCEPT !.pc = "cold", !.gen = g]
  <2>1. OnlyReq(s, n, r)
    BY <1>1, StepReq DEF Queued, Holding
  <2>2. req[s][n] \in Request
    BY DEF Queued, Requests
  <2>3. r.gen = g
    BY <2>2 DEF Request
  <2>4. Ageing
    BY AttachAges DEF Operate
  <2>5. req[s][n].pc \in Holding
    BY <1>2 DEF Holding
  <2>6. sessions'[n] = g /\ \A m \in Names : m # n => sessions'[m] = sessions[m]
    BY <1>1, <1>4
  <2>7. QED
    BY <1>5, <2>1, <2>3, <2>4, <2>5, <2>6, BeginJoins
<1>11. QED
  BY <1>9, <1>10

LEMMA OperateJoins ==
  ASSUME JoinInv, Registered', NEW s \in Sockets, NEW n \in Names,
         Attach(s, n) \/ Observe(s, n) \/ Operate(s, n)
  PROVE  (Latest /\ Joins /\ Answered)'
<1> USE DEF JoinInv
<1>1. Ageing
  BY AttachAges
<1>2. Answered'
  <2>1. UNCHANGED attached
    BY DEF Attach, Observe, Operate, RefuseWarm, PrepareWarm, RefuseCold, SpawnFails, Create
  <2>2. QED
    BY <1>1, <2>1, AnsweredFrame
<1>3. req[s][n] \in Request
  BY DEF Queued, Requests
<1>4. CASE \/ Attach(s, n) \/ Observe(s, n)
           \/ RefuseWarm(s, n) \/ RefuseCold(s, n) \/ SpawnFails(s, n)
  <2>1. UNCHANGED <<phase, nameOf, sessions>>
    BY <1>4 DEF Attach, Observe, RefuseWarm, RefuseCold, SpawnFails, gens
  <2>2. NoneJoins
    <3>1. CASE Attach(s, n)
      BY <3>1, AttachReq, MoveJoins DEF Joining
    <3>2. CASE Observe(s, n)
      <4>1. OnlyReq(s, n, [req[s][n] EXCEPT !.pc = "inspect", !.gen = sessions[n]])
        BY <3>2, StepReq DEF Observe, Queued, Holding
      <4>2. QED
        BY <1>3, <4>1, MoveJoins DEF Request, Joining
    <3>3. CASE RefuseWarm(s, n) \/ RefuseCold(s, n) \/ SpawnFails(s, n)
      BY <3>3, EndReq, MoveJoins DEF RefuseWarm, RefuseCold, SpawnFails, Idle, Joining, Queued
    <3>4. QED
      BY <1>4, <3>1, <3>2, <3>3
  <2>3. QED
    BY <1>2, <2>1, <2>2, SameDwindling, JoinsFrame
<1>5. CASE PrepareWarm(s, n)
  <2> DEFINE g == existing(s, n)
             r == [req[s][n] EXCEPT !.pc = "warm", !.gen = g]
  <2>1. req[s][n].pc = "inspect" /\ g # NoGen
    BY <1>5 DEF PrepareWarm, inspecting
  <2>2. g = sessions[n] /\ g \in Gens
    BY <2>1 DEF existing, Registered, Observed, Queued
  <2>3. phase[g] # "unborn" /\ nameOf[g] = n
    BY <2>1, <2>2 DEF Registered, Unretired
  <2>4. UNCHANGED <<phase, nameOf, sessions>>
    BY <1>5 DEF PrepareWarm, gens
  <2>5. OnlyReq(s, n, r)
    BY <1>5, <2>2, StepReq DEF PrepareWarm, Queued, Holding
  <2>6. r.gen = g
    BY <1>3 DEF Request
  <2>7. req[s][n].pc \in Holding
    BY <2>1 DEF Holding
  <2>8. Joins'
    BY <1>1, <2>2, <2>3, <2>4, <2>5, <2>6, <2>7, BeginJoins
  <2>9. Latest'
    BY <2>4 DEF Latest
  <2>10. QED
    BY <1>2, <2>8, <2>9
<1>6. CASE Create(s, n)
  BY <1>2, <1>6, CreateLatest
<1>7. QED
  BY <1>4, <1>5, <1>6 DEF Operate

\* An attach that ends or goes on; it may be answered with what it joined.
LEMMA AttachingJoins ==
  ASSUME JoinInv, NEW s \in Sockets, NEW n \in Names, Activate(s, n) \/ ColdEnd(s, n)
  PROVE  NoneJoins /\ Dwindling /\ Answered'
<1> USE DEF JoinInv
<1>1. req[s][n] \in Request /\ Ageing
  BY AttachAges DEF Queued, Requests
<1>2. Dwindling
  <2>1. UNCHANGED sessions
    BY DEF Activate, WarmDone, ColdDone, LaunchDone, ColdEnd, activate
  <2>2. \/ UNCHANGED phase
        \/ phase' = [phase EXCEPT ![req[s][n].gen] = IF @ = "live" THEN "killed" ELSE @]
    BY DEF Activate, WarmDone, ColdDone, LaunchDone, ColdEnd, activate, gens
  <2>3. \A g \in Gens : phase'[g] = phase[g] \/ (phase[g] = "live" /\ phase'[g] = "killed")
    BY <2>2, SignalPhase
  <2>4. QED
    BY <1>1, <2>1, <2>3, SignalDwindling
<1>3. \/ endRequest(s, n) \/ step(s, n, "turn", NoGen) \/ step(s, n, "coldEnd", req[s][n].gen)
      \/ req[s][n].pc \in Joining /\ step(s, n, "launch", req[s][n].gen)
  BY DEF Activate, WarmDone, ColdDone, LaunchDone, ColdEnd, activate, respond, Joining
<1>4. NoneJoins
  <2>1. CASE endRequest(s, n)
    BY <2>1, EndReq, MoveJoins DEF Idle, Joining, Queued
  <2>2. CASE step(s, n, "turn", NoGen)
    <3>1. OnlyReq(s, n, [req[s][n] EXCEPT !.pc = "turn", !.gen = NoGen])
      BY <2>2, StepReq DEF Queued, Holding
    <3>2. QED
      BY <1>1, <3>1, MoveJoins DEF Request, Joining
  <2>3. CASE step(s, n, "coldEnd", req[s][n].gen)
    <3>1. OnlyReq(s, n, [req[s][n] EXCEPT !.pc = "coldEnd", !.gen = req[s][n].gen])
      BY <1>1, <2>3, StepReq DEF Queued, Holding, Request
    <3>2. QED
      BY <1>1, <3>1, MoveJoins DEF Request, Joining
  <2>4. CASE req[s][n].pc \in Joining /\ step(s, n, "launch", req[s][n].gen)
    <3> DEFINE r == [req[s][n] EXCEPT !.pc = "launch", !.gen = req[s][n].gen]
    <3>1. OnlyReq(s, n, r)
      BY <1>1, <2>4, StepReq DEF Queued, Holding, Request
    <3>2. r.gen = req[s][n].gen
      BY <1>1 DEF Request
    <3>3. QED
      BY <2>4, <3>1, <3>2 DEF OnlyReq, NoneJoins
  <2>5. QED
    BY <1>3, <2>1, <2>2, <2>3, <2>4
<1>5. \/ UNCHANGED attached
      \/ req[s][n].pc \in Joining /\ \E g \in {req[s][n].gen, NoGen} :
           attached' = [attached EXCEPT ![s][n] = IF g # NoGen /\ s \notin closed THEN g ELSE @]
  BY DEF Activate, WarmDone, ColdDone, LaunchDone, ColdEnd, activate, respond, Joining
<1>6. req[s][n].pc \in Joining =>
        /\ req[s][n].gen \in Gens
        /\ phase[req[s][n].gen] # "unborn" /\ nameOf[req[s][n].gen] = n
  BY DEF Joins
<1>7. ASSUME req[s][n].pc \in Joining, \E g \in {req[s][n].gen, NoGen} :
               attached' = [attached EXCEPT ![s][n] = IF g # NoGen /\ s \notin closed THEN g ELSE @]
      PROVE  Answered'
  <2>1. PICK g \in {req[s][n].gen, NoGen} :
          attached' = [attached EXCEPT ![s][n] = IF g # NoGen /\ s \notin closed THEN g ELSE @]
    BY <1>7
  <2>2. attached' = [attached EXCEPT ![s][n] = req[s][n].gen] \/ attached' = attached
    BY <2>1 DEF Answered
  <2>3. CASE attached' = attached
    BY <1>1, <2>3, AnsweredFrame
  <2>4. CASE attached' = [attached EXCEPT ![s][n] = req[s][n].gen]
    <3>1. attached' \in [Sockets -> [Names -> Gens \cup {NoGen}]]
      BY <1>6, <1>7, <2>4 DEF Answered
    <3>2. \A t \in Sockets, m \in Names :
            attached'[t][m] = attached[t][m] \/ (m = n /\ attached'[t][m] = req[s][n].gen)
      BY <2>4 DEF Answered
    <3>3. ASSUME NEW t \in Sockets, NEW m \in Names, attached'[t][m] # NoGen
          PROVE  phase'[attached'[t][m]] # "unborn" /\ nameOf'[attached'[t][m]] = m
      <4>1. CASE attached'[t][m] = attached[t][m]
        <5>1. attached[t][m] \in Gens
          BY <3>3, <4>1 DEF Answered
        <5>2. phase[attached[t][m]] # "unborn" /\ nameOf[attached[t][m]] = m
          BY <3>3, <4>1 DEF Answered
        <5>3. QED
          BY <1>1, <4>1, <5>1, <5>2 DEF Ageing
      <4>2. CASE m = n /\ attached'[t][m] = req[s][n].gen
        BY <1>1, <1>6, <1>7, <4>2 DEF Ageing
      <4>3. QED
        BY <3>2, <4>1, <4>2
    <3>4. QED
      BY <3>1, <3>3 DEF Answered
  <2>5. QED
    BY <2>2, <2>3, <2>4
<1>8. Answered'
  BY <1>1, <1>5, <1>7, AnsweredFrame
<1>9. QED
  BY <1>2, <1>4, <1>8

\* Signals, exits and retirements.
LEMMA EndJoins ==
  ASSUME JoinInv,
         \/ \E g \in Gens : Retire(g)
         \/ \E n \in Names : TreeKill(n)
  PROVE  NoneJoins /\ Dwindling /\ UNCHANGED attached
<1> USE DEF JoinInv
<1>1. Ageing
  BY EndAges
<1>2. ASSUME NEW g \in Gens, Retire(g) PROVE NoneJoins /\ Dwindling /\ UNCHANGED attached
  <2>1. /\ phase[g] = "exited" /\ phase' = [phase EXCEPT ![g] = "retired"]
        /\ sessions' = [sessions EXCEPT ![nameOf[g]] = IF @ = g THEN NoGen ELSE @]
        /\ UNCHANGED attached
    BY <1>2 DEF Retire
  <2>2. Dwindling
    BY <1>1, <2>1 DEF Dwindling, Registered, Queued
  <2>3. CASE owner[g] = None
    BY <1>2, <2>1, <2>2, <2>3 DEF Retire, NoneJoins
  <2>4. CASE owner[g] # None
    <3>1. ackAll(nameOf[g], owner[g])
      BY <1>2, <2>4 DEF Retire
    <3>2. NoneJoins
      BY <3>1, AckAllReq, AnswerJoins DEF Queued
    <3>3. QED
      BY <2>1, <2>2, <3>2
  <2>5. QED
    BY <2>3, <2>4
<1>3. ASSUME NEW n \in Names, TreeKilled(n) PROVE NoneJoins /\ Dwindling /\ UNCHANGED attached
  <2>1. /\ UNCHANGED <<sessions, req, attached>>
        /\ phase' = [phase EXCEPT ![ending[n].gen] = IF @ = "live" THEN "killed" ELSE @]
    BY <1>3 DEF TreeKilled
  <2>2. \A g \in Gens : phase'[g] = phase[g] \/ (phase[g] = "live" /\ phase'[g] = "killed")
    BY <2>1, SignalPhase
  <2>3. QED
    BY <1>1, <2>1, <2>2, SignalDwindling DEF NoneJoins
<1>4. ASSUME NEW n \in Names, TreeKillFails(n) PROVE NoneJoins /\ Dwindling /\ UNCHANGED attached
  <2>1. UNCHANGED <<phase, nameOf, sessions, attached>> /\ failOperation(n)
    BY <1>4 DEF TreeKillFails, gens
  <2>2. NoneJoins
    BY <2>1, FailReq, AnswerJoins DEF Queued
  <2>3. QED
    BY <2>1, <2>2, SameDwindling
<1>5. QED
  BY <1>2, <1>3, <1>4 DEF TreeKill

LEMMA ElsewhereJoins ==
  ASSUME JoinInv, Elsewhere
  PROVE  NoneJoins /\ Dwindling /\ UNCHANGED attached
<1> USE DEF JoinInv
<1>1. Ageing
  BY ElsewhereAges
<1>2. CASE \E g \in Gens : ProcessExit(g)
  <2>1. PICK g \in Gens : /\ phase[g] \in {"live", "killed"}
                          /\ phase' = [phase EXCEPT ![g] = "exited"]
    BY <1>2 DEF ProcessExit
  <2>2. UNCHANGED <<sessions, req, attached>>
    BY <1>2 DEF ProcessExit
  <2>3. QED
    BY <1>1, <2>1, <2>2 DEF Dwindling, NoneJoins, Registered
<1>3. CASE ShutdownStart
  <2>1. \A g \in Gens : phase'[g] = phase[g] \/ (phase[g] = "live" /\ phase'[g] = "killed")
    BY <1>3, ShutdownSignals DEF Mine
  <2>2. UNCHANGED <<sessions, req, attached>>
    BY <1>3 DEF ShutdownStart
  <2>3. QED
    BY <1>1, <2>1, <2>2, SignalDwindling DEF NoneJoins
<1>4. CASE \/ \E id \in Ids, n \in Names : Decide(id, n)
           \/ \E n \in Names : LeaseExpires(n)
           \/ \E id \in Ids : CompletedForgotten(id)
           \/ \E s \in Sockets : SocketClose(s)
           \/ \E g \in Gens : ShutdownDeadline(g)
           \/ GraceExit \/ ShutdownDone \/ ShutdownExit
  <2>1. UNCHANGED <<phase, nameOf, sessions, req, attached>>
    <3>1. CASE \/ \E id \in Ids, n \in Names : Decide(id, n)
               \/ \E n \in Names : LeaseExpires(n)
               \/ \E id \in Ids : CompletedForgotten(id)
      BY <3>1 DEF Decide, LeaseExpires, CompletedForgotten, gens
    <3>2. CASE \/ \E s \in Sockets : SocketClose(s)
               \/ \E g \in Gens : ShutdownDeadline(g)
      BY <3>2 DEF SocketClose, ShutdownDeadline, gens
    <3>3. CASE GraceExit \/ ShutdownDone \/ ShutdownExit
      BY <3>3 DEF GraceExit, ShutdownDone, ShutdownExit, stop, gens
    <3>4. QED
      BY <1>4, <3>1, <3>2, <3>3
  <2>2. QED
    BY <2>1, SameDwindling DEF NoneJoins
<1>5. QED
  BY <1>2, <1>3, <1>4 DEF Elsewhere

LEMMA InitJoinInv == Init => JoinInv
<1>1. Init => Latest /\ Joins /\ Answered
  BY DEF Init, Latest, Unretired, Joins, Joining, Idle, Answered
<1>2. QED
  BY <1>1, InitQueued, InitRegistered DEF JoinInv

LEMMA StepJoinInv == JoinInv /\ [Next]_vars => JoinInv'
<1> SUFFICES ASSUME JoinInv, [Next]_vars PROVE JoinInv'
  OBVIOUS
<1>1. Queued' /\ Registered'
  BY StepQueued, StepRegistered DEF JoinInv
<1>2. NoneJoins /\ Dwindling => Latest' /\ Joins'
  BY <1>1, JoinsFrame
<1>3. Dwindling /\ UNCHANGED attached => Answered'
  BY AnsweredFrame DEF JoinInv, Dwindling
<1>4. ASSUME NEW s \in Sockets, NEW n \in Names,
             Attach(s, n) \/ Continue(s, n) \/ Activate(s, n)
      PROVE  Latest' /\ Joins' /\ Answered'
  <2>1. CASE Attach(s, n) \/ Observe(s, n) \/ Operate(s, n)
    BY <1>1, <2>1, OperateJoins
  <2>2. CASE Activate(s, n) \/ ColdEnd(s, n)
    BY <1>2, <2>2, AttachingJoins
  <2>3. CASE KillResumes(s, n)
    <3>1. req[s][n].id \in Ids
      BY <2>3 DEF KillResumes, JoinInv, Queued, Requests, Request
    <3>2. NoneJoins /\ Dwindling /\ UNCHANGED attached
      BY <2>3, <3>1, KillNowJoins DEF KillResumes
    <3>3. QED
      BY <1>2, <1>3, <3>2
  <2>4. QED
    BY <1>4, <2>1, <2>2, <2>3 DEF Continue
<1>5. ASSUME NEW s \in Sockets, NEW n \in Names, NEW id \in Ids,
             KillReplay(s, n, id) \/ KillJoin(s, n, id) \/ KillWaits(s, n, id) \/ Kill(s, n, id)
      PROVE  Latest' /\ Joins' /\ Answered'
  BY <1>2, <1>3, <1>5, KillJoins
<1>6. ASSUME (\E g \in Gens : Retire(g)) \/ (\E n \in Names : TreeKill(n))
      PROVE  Latest' /\ Joins' /\ Answered'
  BY <1>2, <1>3, <1>6, EndJoins
<1>7. ASSUME Elsewhere PROVE Latest' /\ Joins' /\ Answered'
  BY <1>2, <1>3, <1>7, ElsewhereJoins
<1>8. ASSUME UNCHANGED vars PROVE Latest' /\ Joins' /\ Answered'
  BY <1>8 DEF vars, gens, JoinInv, Latest, Joins, Answered
<1>9. Latest' /\ Joins' /\ Answered'
  BY <1>4, <1>5, <1>6, <1>7, <1>8 DEF Next, Elsewhere
<1>10. QED
  BY <1>1, <1>9 DEF JoinInv

-----------------------------------------------------------------------------
(* Types.                                                                   *)

\* What the invariants above do not say of the types.
HostTyped ==
  /\ up \in BOOLEAN /\ grace \in BOOLEAN
  /\ shutting \in {"no", "ending", "exiting"}
  /\ targets \subseteq Gens /\ failed \subseteq Gens
  /\ lease \in [Names -> Ids \cup {None}]
  /\ creator \in [Gens -> Ids \cup {None}]
  /\ subs \in [Gens -> SUBSET Sockets]
  /\ closed \subseteq Sockets

LEMMA SameHostTyped ==
  ASSUME HostTyped, UNCHANGED <<host, lease, creator, subs, closed>>
  PROVE  HostTyped'
  BY DEF HostTyped, host

\* The steps that set a lease or the timer, or neither.
LEMMA LeaseTyped ==
  ASSUME HostTyped, UNCHANGED <<up, shutting, targets, failed, creator, subs, closed>>,
         grace' \in BOOLEAN, lease' \in [Names -> Ids \cup {None}]
  PROVE  HostTyped'
  BY DEF HostTyped

LEMMA RescheduleTyped ==
  ASSUME NEW r, rescheduleGrace(r)
  PROVE  grace' \in BOOLEAN
<1>1. (\A n \in Names : r[n] = NoGen) \in BOOLEAN
  OBVIOUS
<1>2. QED
  BY <1>1 DEF rescheduleGrace

LEMMA ReserveTyped ==
  ASSUME HostTyped, NEW n, NEW id \in Ids, NEW r, setReplacementReservation(n, id, r)
  PROVE  grace' \in BOOLEAN /\ lease' \in [Names -> Ids \cup {None}]
<1>1. lease' = [lease EXCEPT ![n] = id] /\ rescheduleGrace(r)
  BY DEF setReplacementReservation
<1>2. QED
  BY <1>1, RescheduleTyped DEF HostTyped

LEMMA KillTyped ==
  ASSUME HostTyped, NEW s \in Sockets, NEW n \in Names, NEW id \in Ids,
         KillNow(s, n, id) \/ KillReplay(s, n, id) \/ KillJoin(s, n, id) \/ KillWaits(s, n, id)
  PROVE  HostTyped'
<1>1. CASE KillAbsent(s, n, id) \/ KillReplay(s, n, id)
  <2>1. UNCHANGED <<up, shutting, targets, failed, creator, subs, closed>>
    BY <1>1 DEF KillAbsent, KillReplay, gens, clients
  <2>2. setReplacementReservation(n, id, sessions) \/ UNCHANGED <<lease, grace>>
    BY <1>1 DEF KillAbsent, KillReplay
  <2>3. CASE setReplacementReservation(n, id, sessions)
    BY <2>1, <2>3, ReserveTyped, LeaseTyped
  <2>4. CASE UNCHANGED <<lease, grace>>
    BY <2>1, <2>4 DEF HostTyped
  <2>5. QED
    BY <2>2, <2>3, <2>4
<1>2. CASE \/ KillOther(s, n, id) \/ KillRefused(s, n, id) \/ KillExpected(s, n, id)
           \/ KillJoin(s, n, id) \/ KillWaits(s, n, id)
  <2>1. UNCHANGED <<host, lease, creator, subs, closed>>
    BY <1>2 DEF KillOther, KillRefused, KillExpected, KillJoin, KillWaits, gens, clients
  <2>2. QED
    BY <2>1, SameHostTyped
<1>3. QED
  BY <1>1, <1>2 DEF KillNow

LEMMA AttachTyped ==
  ASSUME Queued, HostTyped, NEW s \in Sockets, NEW n \in Names,
         \/ Attach(s, n) \/ Observe(s, n) \/ Operate(s, n)
         \/ Activate(s, n) \/ ColdEnd(s, n)
  PROVE  HostTyped'
<1>1. CASE Attach(s, n) \/ Observe(s, n) \/ ColdEnd(s, n)
  <2>1. UNCHANGED <<host, lease, creator, subs, closed>>
    BY <1>1 DEF Attach, Observe, ColdEnd, gens, clients
  <2>2. QED
    BY <2>1, SameHostTyped
<1>2. CASE Activate(s, n)
  <2>1. UNCHANGED <<host, lease, creator, closed>>
    BY <1>2 DEF Activate, WarmDone, ColdDone, LaunchDone, activate, gens, clients
  <2>2. UNCHANGED subs \/ subs' = [subs EXCEPT ![req[s][n].gen] = @ \cup {s}]
    BY <1>2 DEF Activate, WarmDone, ColdDone, LaunchDone, activate, gens
  <2>3. subs' \in [Gens -> SUBSET Sockets]
    BY <2>2 DEF HostTyped
  <2>4. QED
    BY <2>1, <2>3 DEF HostTyped, host
<1>3. CASE RefuseWarm(s, n) \/ PrepareWarm(s, n)
  BY <1>3, LeaseTyped DEF RefuseWarm, PrepareWarm, gens, clients, HostTyped
<1>4. CASE RefuseCold(s, n) \/ SpawnFails(s, n)
  <2>1. /\ UNCHANGED <<up, shutting, targets, failed, creator, subs, closed>>
        /\ rescheduleGrace(sessions)
        /\ UNCHANGED lease \/ lease' = [lease EXCEPT ![n] = None]
    BY <1>4 DEF RefuseCold, SpawnFails, gens, clients
  <2>2. QED
    BY <2>1, RescheduleTyped, LeaseTyped DEF HostTyped
<1>5. CASE Create(s, n)
  <2>1. token(s, n) \in Ids \cup {None}
    BY DEF token, Queued, Requests, Request
  <2>2. /\ UNCHANGED <<up, shutting, targets, failed, subs, closed>> /\ grace' = FALSE
        /\ lease' = [lease EXCEPT ![n] = None]
        /\ \E g \in Gens : creator' = [creator EXCEPT ![g] = token(s, n)]
    BY <1>5 DEF Create, clients
  <2>3. QED
    BY <2>1, <2>2 DEF HostTyped
<1>6. QED
  BY <1>1, <1>2, <1>3, <1>4, <1>5 DEF Operate

LEMMA EndTyped ==
  ASSUME Aimed, HostTyped,
         \/ \E g \in Gens : Retire(g)
         \/ \E n \in Names : TreeKill(n)
  PROVE  HostTyped'
<1>1. ASSUME NEW g \in Gens, Retire(g) PROVE HostTyped'
  <2> DEFINE left == [sessions EXCEPT ![nameOf[g]] = IF @ = g THEN NoGen ELSE @]
  <2>1. UNCHANGED <<up, shutting, targets, failed, creator, closed>>
    BY <1>1 DEF Retire, clients
  <2>2. subs' \in [Gens -> SUBSET Sockets]
    BY <1>1 DEF Retire, HostTyped
  <2>3. \/ owner[g] \in Ids /\ setReplacementReservation(nameOf[g], owner[g], left)
        \/ rescheduleGrace(left) /\ UNCHANGED lease
    BY <1>1 DEF Retire, reserves
  <2>4. grace' \in BOOLEAN /\ lease' \in [Names -> Ids \cup {None}]
    BY <2>3, ReserveTyped, RescheduleTyped DEF HostTyped
  <2>5. QED
    BY <2>1, <2>2, <2>4 DEF HostTyped
<1>2. ASSUME NEW n \in Names, TreeKilled(n) PROVE HostTyped'
  BY <1>2, SameHostTyped DEF TreeKilled, clients
<1>3. ASSUME NEW n \in Names, TreeKillFails(n) PROVE HostTyped'
  <2>1. /\ UNCHANGED <<up, shutting, targets, grace, lease, creator, subs, closed>>
        /\ failed' = IF ending[n].gen \in targets THEN failed \cup {ending[n].gen} ELSE failed
    BY <1>3 DEF TreeKillFails, failOperation, gens, clients
  <2>2. QED
    BY <2>1 DEF HostTyped
<1>4. QED
  BY <1>1, <1>2, <1>3 DEF TreeKill

LEMMA DisconnectTyped ==
  ASSUME HostTyped, NEW S \in SUBSET Sockets, disconnect(S)
  PROVE  closed' \subseteq Sockets /\ subs' \in [Gens -> SUBSET Sockets]
  BY DEF HostTyped, disconnect

LEMMA ElsewhereTyped ==
  ASSUME Queued, HostTyped, Elsewhere
  PROVE  HostTyped'
<1>1. CASE \/ \E id \in Ids, n \in Names : Decide(id, n)
           \/ \E g \in Gens : ProcessExit(g)
           \/ \E id \in Ids : CompletedForgotten(id)
  BY <1>1, SameHostTyped DEF Decide, ProcessExit, CompletedForgotten, gens, clients
<1>2. CASE \E n \in Names : LeaseExpires(n)
  BY <1>2 DEF LeaseExpires, HostTyped, gens, clients
<1>3. CASE \E s \in Sockets : SocketClose(s)
  <2>1. UNCHANGED <<host, lease, creator>> /\ \E s \in Sockets : disconnect({s})
    BY <1>3 DEF SocketClose
  <2>2. closed' \subseteq Sockets /\ subs' \in [Gens -> SUBSET Sockets]
    BY <2>1, DisconnectTyped
  <2>3. QED
    BY <2>1, <2>2 DEF HostTyped, host
<1>4. CASE \E g \in Gens : ShutdownDeadline(g)
  BY <1>4 DEF ShutdownDeadline, HostTyped, gens, clients
<1>5. CASE GraceExit \/ ShutdownExit
  BY <1>5 DEF GraceExit, ShutdownExit, stop, HostTyped, gens, clients
<1>6. CASE ShutdownStart
  <2>1. sessions \in [Names -> Gens \cup {NoGen}]
    BY DEF Queued
  <2>2. /\ targets' = {sessions[n] : n \in Names} \ {NoGen}
        /\ shutting' = "ending" /\ grace' = FALSE
        /\ UNCHANGED <<up, lease, creator, subs, closed>>
    BY <1>6 DEF ShutdownStart, clients
  <2>3. \E thrown \in SUBSET Mine : failed' = {sessions[n] : n \in thrown}
    BY <1>6, Zenon DEF ShutdownStart, Mine
  <2>4. failed' \subseteq Gens
    BY <2>1, <2>3 DEF Mine
  <2>5. QED
    BY <2>1, <2>2, <2>4 DEF HostTyped
<1>7. CASE ShutdownDone
  <2>1. /\ targets' = {} /\ failed' = {}
        /\ \/ shutting' = "no" /\ rescheduleGrace(sessions)
           \/ shutting' = "exiting" /\ UNCHANGED grace
        /\ UNCHANGED <<up, lease, creator>>
    BY <1>7 DEF ShutdownDone
  <2>2. UNCHANGED <<closed, subs>> \/ \E S \in SUBSET Sockets : disconnect(S)
    BY <1>7 DEF ShutdownDone
  <2>3. closed' \subseteq Sockets /\ subs' \in [Gens -> SUBSET Sockets]
    BY <2>2, DisconnectTyped DEF HostTyped
  <2>4. grace' \in BOOLEAN
    BY <2>1, RescheduleTyped DEF HostTyped
  <2>5. QED
    BY <2>1, <2>3, <2>4 DEF HostTyped
<1>8. QED
  BY <1>1, <1>2, <1>3, <1>4, <1>5, <1>6, <1>7 DEF Elsewhere

LEMMA StepHostTyped ==
  ASSUME Queued, Aimed, HostTyped, [Next]_vars
  PROVE  HostTyped'
<1>1. ASSUME NEW s \in Sockets, NEW n \in Names,
             Attach(s, n) \/ Continue(s, n) \/ Activate(s, n)
      PROVE  HostTyped'
  <2>1. CASE KillResumes(s, n)
    <3>1. req[s][n].id \in Ids
      BY <2>1 DEF KillResumes, Queued, Requests, Request
    <3>2. QED
      BY <2>1, <3>1, KillTyped DEF KillResumes
  <2>2. CASE ~KillResumes(s, n)
    BY <1>1, <2>2, AttachTyped DEF Continue
  <2>3. QED
    BY <2>1, <2>2
<1>2. ASSUME NEW s \in Sockets, NEW n \in Names, NEW id \in Ids,
             KillReplay(s, n, id) \/ KillJoin(s, n, id) \/ KillWaits(s, n, id) \/ Kill(s, n, id)
      PROVE  HostTyped'
  BY <1>2, KillTyped DEF Kill
<1>3. ASSUME (\E g \in Gens : Retire(g)) \/ (\E n \in Names : TreeKill(n)) PROVE HostTyped'
  BY <1>3, EndTyped
<1>4. CASE Elsewhere
  BY <1>4, ElsewhereTyped
<1>5. CASE UNCHANGED vars
  BY <1>5, SameHostTyped DEF vars, gens, clients
<1>6. QED
  BY <1>1, <1>2, <1>3, <1>4, <1>5 DEF Next, Elsewhere

HostInv == KillInv /\ JoinInv /\ HostTyped

LEMMA HostInvariant == Spec => []HostInv
<1>1. Init => HostInv
  <2>1. Init => HostTyped
    BY DEF Init, HostTyped
  <2>2. QED
    BY <2>1, InitKillInv, InitJoinInv DEF HostInv
<1>2. HostInv /\ [Next]_vars => HostInv'
  BY StepKillInv, StepJoinInv, StepHostTyped DEF HostInv, KillInv
<1>3. QED
  BY <1>1, <1>2, PTL DEF Spec

\* Every variable of the host keeps its type.
THEOREM HostTypeCorrect == Spec => []TypeOK
<1>1. HostInv => TypeOK
  <2> SUFFICES ASSUME HostInv PROVE TypeOK
    OBVIOUS
  <2>1. req \in [Sockets -> [Names -> [pc : Steps, kind : Kinds \cup {"kill", "none"},
                                       id : Ids \cup {None}, want : Gens \cup {NoGen},
                                       gen : Gens \cup {NoGen}]]]
    BY DEF HostInv, KillInv, Queued, Requests, Request
  <2>2. QED
    BY <2>1 DEF HostInv, KillInv, JoinInv, Queued, Registered, Aimed, Done, Answered, HostTyped,
                Ops, TypeOK
<1>2. QED
  BY <1>1, HostInvariant, PTL

\* An exit never reaches a connection that has attached to a newer generation
\* of the name, nor one whose attach waits for the launch of a newer one
\* (generation-barrier.ts:28).
THEOREM NoExitIsLate == Spec => NoLateExit
<1> DEFINE OnTime ==
             \A g \in Gens : phase[g] = "exited" /\ phase'[g] = "retired" =>
               \A s \in subs[g] : /\ attached[s][nameOf[g]] <= g
                                  /\ req[s][nameOf[g]].pc = "launch" => req[s][nameOf[g]].gen = g
<1>1. HostInv => OnTime
  <2> SUFFICES ASSUME HostInv, NEW g \in Gens, phase[g] = "exited", NEW s \in subs[g]
               PROVE  /\ attached[s][nameOf[g]] <= g
                      /\ req[s][nameOf[g]].pc = "launch" => req[s][nameOf[g]].gen = g
    OBVIOUS
  <2>1. s \in Sockets
    BY DEF HostInv, HostTyped
  <2>2. phase[g] \in Unretired /\ nameOf[g] \in Names /\ sessions[nameOf[g]] = g /\ g # NoGen
    BY DEF HostInv, JoinInv, Registered, Unretired, Gens, NoGen
  <2>3. attached[s][nameOf[g]] <= g
    <3>1. CASE attached[s][nameOf[g]] = NoGen
      BY <3>1 DEF Gens, NoGen
    <3>2. CASE attached[s][nameOf[g]] # NoGen
      <4> DEFINE h == attached[s][nameOf[g]]
      <4>1. h \in Gens /\ phase[h] # "unborn" /\ nameOf[h] = nameOf[g]
        BY <2>1, <2>2, <3>2 DEF HostInv, JoinInv, Answered
      <4>2. QED
        BY <2>2, <4>1 DEF HostInv, JoinInv, Latest
    <3>3. QED
      BY <3>1, <3>2
  <2>4. req[s][nameOf[g]].pc = "launch" => req[s][nameOf[g]].gen = g
    BY <2>1, <2>2 DEF HostInv, JoinInv, Joins, Joining
  <2>5. QED
    BY <2>3, <2>4
<1>2. HostInv /\ [Next]_vars => [OnTime]_vars
  BY <1>1
<1>3. QED
  BY <1>2, HostInvariant, PTL DEF Spec, NoLateExit
=============================================================================

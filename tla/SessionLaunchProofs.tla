------------------------- MODULE SessionLaunchProofs -------------------------
(***************************************************************************)
(* Theorems about SessionLaunch for any ids, inputs, callers and bounds:   *)
(* the ledger and the queue agree, a launch presses enter at most once and *)
(* on a line of its own, and no two answers about it disagree.             *)
(***************************************************************************)
EXTENDS SessionLaunch, TLAPS, FiniteSetTheorems

-----------------------------------------------------------------------------
(* The inductive invariant.                                                  *)

Entering == {"enter", "follow-up"}
Clears == Entering \cup {"kill-line"}
Texts == [kind : Clears \cup {"command"}, id : Ids]
Line == [by : Ids, what : Entering, line : SUBSET Ids]
Answers == [id : Ids, input : Inputs, verdict : {"refused", "failed", "executed"}]

Shape ==
  /\ launchLedger \in [Ids -> Entry \cup {Nothing}]
  /\ launchQueue \in Seq(Ids) /\ stage \in Stages
  /\ request \in [Callers -> Request \cup {Nothing}] /\ told \subseteq Answers
  /\ exited \in BOOLEAN /\ agent \in BOOLEAN /\ prompt \subseteq Ids
  /\ typed \in Seq(Texts) /\ ran \in Seq(Line)

Counts ==
  /\ attempt \in 0 .. Attempts
  /\ stage \in {"idle", "quiet"} => attempt = 0
  /\ asked \in [Callers -> Nat]
  /\ IsFiniteSet(Entries) /\ Cardinality(Entries) <= MaxLedger

Has(i, outcome) == launchLedger[i] # Nothing /\ launchLedger[i].outcome = outcome

\* The pending launches are the queued ones, each queued once.
Queued ==
  /\ \A m, n \in DOMAIN launchQueue : launchQueue[m] = launchQueue[n] => m = n
  /\ \A i \in Ids : Has(i, "pending") <=> \E n \in DOMAIN launchQueue : launchQueue[n] = i
  /\ stage # "idle" => launchQueue # <<>>

UnderWay(i, stages) == stage \in stages /\ i = current
Submitted == {"submitted", "started", "followed"}

\* Launches that have not pressed enter, and that have.
Unpressed(i) == launchLedger[i] = Nothing \/ (Has(i, "pending") /\ ~UnderWay(i, Submitted))
Pressed(i) == Has(i, "ok") \/ UnderWay(i, Submitted)

TypedEnter(i) == {n \in DOMAIN typed : typed[n] = [kind |-> "enter", id |-> i]}
RanEnter(i) == {n \in DOMAIN ran : ran[n].by = i /\ ran[n].what = "enter"}

Presses ==
  \A i \in Ids :
    /\ Unpressed(i) => TypedEnter(i) = {} /\ RanEnter(i) = {}
    /\ Pressed(i) => TypedEnter(i) # {} \/ RanEnter(i) # {}
    /\ TypedEnter(i) = {} \/ RanEnter(i) = {}
    /\ \A m, n \in TypedEnter(i) : m = n
    /\ \A m, n \in RanEnter(i) : m = n

NoClear(first, last) == \A n \in DOMAIN typed : first <= n /\ n < last => typed[n].kind = "command"

\* What stands on the prompt, and what will when the shell has read up to a text
\* that enters the line, or everything: commands of one launch.
Lines ==
  /\ agent => prompt = {}
  /\ \A n \in DOMAIN typed : typed[n].kind \in Entering =>
       /\ \A m \in DOMAIN typed : m < n /\ NoClear(m, n) => typed[m].id = typed[n].id
       /\ NoClear(1, n) => prompt \subseteq {typed[n].id}
  /\ ~exited =>
       /\ \A m \in DOMAIN typed : NoClear(m, Len(typed) + 1) => UnderWay(typed[m].id, {"echo"})
       /\ NoClear(1, Len(typed) + 1) => \A i \in prompt : UnderWay(i, {"echo"})
  /\ RunsItsOwnLine

\* What callers wait for and were told agrees with the ledger.
Told ==
  /\ \A c \in Callers : request[c] # Nothing =>
       /\ launchLedger[request[c].id] # Nothing
       /\ launchLedger[request[c].id].input = request[c].input
  /\ \A a \in told :
       /\ a.verdict = "executed" =>
            Has(a.id, "ok") /\ launchLedger[a.id].input = a.input
       /\ a.verdict = "failed" => Has(a.id, "failed")

Inv == Shape /\ Counts /\ Queued /\ Presses /\ Lines /\ Told

-----------------------------------------------------------------------------
(* The ledger and the queue.                                                 *)

LEMMA HeadIsPending ==
  ASSUME Shape, Queued, launchQueue # <<>>
  PROVE  current \in Ids /\ current = launchQueue[1] /\ Has(current, "pending")
BY DEF Shape, Queued, current

\* The delivery under way settles, and nothing else in the ledger.
LEMMA SettleLedger ==
  ASSUME Shape, Queued, launchQueue # <<>>, NEW outcome \in {"ok", "failed"}, Settle(outcome)
  PROVE  /\ launchLedger' \in [Ids -> Entry \cup {Nothing}]
         /\ \A i \in Ids \ {current} : launchLedger'[i] = launchLedger[i]
         /\ launchLedger'[current] # Nothing
         /\ launchLedger'[current].outcome = outcome
         /\ launchLedger'[current].input = launchLedger[current].input
<1>1. current \in Ids /\ launchLedger[current] # Nothing
  BY HeadIsPending DEF Has
<1>2. launchLedger[current] \in Entry
  BY <1>1 DEF Shape
<1>3. launchLedger'[current] = [launchLedger[current] EXCEPT !.outcome = outcome]
  BY <1>1 DEF Settle, Shape
<1>4. /\ launchLedger'[current] \in Entry /\ launchLedger'[current].outcome = outcome
      /\ launchLedger'[current].input = launchLedger[current].input
  BY <1>2, <1>3 DEF Entry, Outcomes
<1>5. \A i \in Ids \ {current} : launchLedger'[i] = launchLedger[i]
  BY <1>1 DEF Settle, Shape
<1>6. launchLedger' = [i \in Ids |-> launchLedger'[i]]
  BY DEF Settle, Shape
<1>7. \A i \in Ids : launchLedger'[i] \in Entry \cup {Nothing}
  BY <1>4, <1>5 DEF Shape
<1>8. QED
  BY <1>4, <1>5, <1>6, <1>7, SessionLaunchAssumption

LEMMA SettleQueue ==
  ASSUME Shape, Queued, launchQueue # <<>>, NEW outcome \in {"ok", "failed"}, Settle(outcome)
  PROVE  /\ launchQueue' \in Seq(Ids) /\ Queued'
         /\ \A i \in Ids : Unpressed(i)' => Unpressed(i) /\ i # current
         /\ \A i \in Ids : Pressed(i)' => Has(i, "ok") \/ (i = current /\ outcome = "ok")
<1>1. launchQueue' = Tail(launchQueue) /\ launchQueue' \in Seq(Ids) /\ stage' = "idle"
  BY DEF Settle, Shape
<1>2. /\ Len(launchQueue') = Len(launchQueue) - 1
      /\ \A n \in DOMAIN launchQueue' : launchQueue'[n] = launchQueue[n + 1]
      /\ \A n \in DOMAIN launchQueue' : n + 1 \in DOMAIN launchQueue
      /\ 1 \in DOMAIN launchQueue
      /\ \A n \in DOMAIN launchQueue : n # 1 => n - 1 \in DOMAIN launchQueue' /\ n \in Nat
      /\ \A n \in DOMAIN launchQueue' : n \in Nat \ {0}
  BY <1>1 DEF Shape
<1>3. current = launchQueue[1] /\ current \in Ids /\ Has(current, "pending")
  BY HeadIsPending
<1>4. \A m, n \in DOMAIN launchQueue' : launchQueue'[m] = launchQueue'[n] => m = n
  BY <1>2 DEF Queued
<1>5. \A i \in Ids \ {current} : \A o \in Outcomes : Has(i, o)' <=> Has(i, o)
  BY SettleLedger DEF Has
<1>6. \A i \in Ids : i = current => ~Has(i, "pending")' /\ (Has(i, "ok")' => outcome = "ok")
  BY SettleLedger DEF Has
<1>7. \A i \in Ids : Has(i, "pending")' <=> \E n \in DOMAIN launchQueue' : launchQueue'[n] = i
  <2>1. ~\E n \in DOMAIN launchQueue' : launchQueue'[n] = current
    <3> SUFFICES ASSUME NEW n \in DOMAIN launchQueue', launchQueue'[n] = current PROVE FALSE
      OBVIOUS
    <3>1. launchQueue[n + 1] = launchQueue[1] /\ n + 1 \in DOMAIN launchQueue
      BY <1>2, <1>3
    <3>2. n + 1 = 1
      BY <3>1, <1>2 DEF Queued
    <3>3. QED
      BY <3>2, <1>2
  <2>2. ASSUME NEW i \in Ids \ {current}
        PROVE  Has(i, "pending")' <=> \E n \in DOMAIN launchQueue' : launchQueue'[n] = i
    <3>1. Has(i, "pending")' <=> \E n \in DOMAIN launchQueue : launchQueue[n] = i
      BY <1>5 DEF Queued, Outcomes
    <3>2. ASSUME NEW n \in DOMAIN launchQueue, launchQueue[n] = i
          PROVE  \E m \in DOMAIN launchQueue' : launchQueue'[m] = i
      <4>1. n # 1
        BY <3>2, <1>3
      <4>2. n - 1 \in DOMAIN launchQueue' /\ launchQueue'[n - 1] = launchQueue[n]
        BY <4>1, <1>2
      <4>3. QED
        BY <4>2, <3>2
    <3>3. QED
      BY <3>1, <3>2, <1>2
  <2>3. QED
    BY <2>1, <2>2, <1>3, <1>6
<1>8. Queued'
  BY <1>1, <1>4, <1>7 DEF Queued
<1>9. \A i \in Ids \ {current} : ~UnderWay(i, Submitted)
  BY DEF UnderWay
<1>10. \A i \in Ids \ {current} : launchLedger'[i] = Nothing => launchLedger[i] = Nothing
  BY SettleLedger
<1>11. launchLedger'[current] # Nothing
  BY SettleLedger
<1>12. \A i \in Ids : Unpressed(i)' => Unpressed(i) /\ i # current
  BY <1>5, <1>6, <1>9, <1>10, <1>11 DEF Unpressed, Outcomes
<1>13. \A i \in Ids : Pressed(i)' => Has(i, "ok") \/ (i = current /\ outcome = "ok")
  BY <1>1, <1>5, <1>6 DEF Pressed, UnderWay, Submitted, Outcomes
<1>14. QED
  BY <1>1, <1>8, <1>12, <1>13

\* A new entry joins the queue: it was unknown, and its turn has not come.
LEMMA AskLedger ==
  ASSUME Shape, Queued, NEW c \in Callers, NEW j \in Ids, NEW x \in Inputs,
         ExecuteLaunch(c, j, x)
  PROVE  /\ launchLedger' \in [Ids -> Entry \cup {Nothing}]
         /\ launchQueue' \in Seq(Ids) /\ Queued'
         /\ launchLedger[j] = Nothing /\ launchLedger'[j] = [input |-> x, outcome |-> "pending"]
         /\ launchLedger'[j] # Nothing
         /\ \A i \in Ids \ {j} : launchLedger'[i] = launchLedger[i]
         /\ \A i \in Ids : Unpressed(i)' => Unpressed(i)
         /\ \A i \in Ids : Pressed(i)' => Pressed(i)
         /\ \A i \in Ids : UnderWay(i, {"echo"})' <=> UnderWay(i, {"echo"})
<1>1. /\ launchLedger' = [launchLedger EXCEPT ![j] = [input |-> x, outcome |-> "pending"]]
      /\ launchQueue' = Append(launchQueue, j) /\ stage' = stage
      /\ launchLedger[j] = Nothing
  BY DEF ExecuteLaunch, Ask, known, Entries
<1>2. [input |-> x, outcome |-> "pending"] \in Entry
  BY DEF Entry, Outcomes
<1>3. /\ launchLedger' \in [Ids -> Entry \cup {Nothing}]
      /\ launchLedger'[j] = [input |-> x, outcome |-> "pending"]
      /\ launchLedger'[j] # Nothing
      /\ \A i \in Ids \ {j} : launchLedger'[i] = launchLedger[i]
  BY <1>1, <1>2, SessionLaunchAssumption DEF Shape
<1>4. /\ launchQueue' \in Seq(Ids) /\ Len(launchQueue') = Len(launchQueue) + 1
      /\ Len(launchQueue) \in Nat
      /\ DOMAIN launchQueue = 1 .. Len(launchQueue)
      /\ DOMAIN launchQueue' = 1 .. Len(launchQueue) + 1
      /\ \A n \in DOMAIN launchQueue : launchQueue'[n] = launchQueue[n]
      /\ launchQueue'[Len(launchQueue) + 1] = j
  BY <1>1 DEF Shape
<1>5. \A n \in DOMAIN launchQueue : launchQueue[n] # j
  BY <1>1 DEF Queued, Has
<1>6. \A i \in Ids : Has(i, "pending")' <=> (i = j \/ Has(i, "pending"))
  BY <1>3 DEF Has
<1>7. \A i \in Ids : (\E n \in DOMAIN launchQueue' : launchQueue'[n] = i)
                       <=> (i = j \/ \E n \in DOMAIN launchQueue : launchQueue[n] = i)
  BY <1>4
<1>8. \A m, n \in DOMAIN launchQueue' : launchQueue'[m] = launchQueue'[n] => m = n
  BY <1>4, <1>5 DEF Queued
<1>9. Queued'
  BY <1>1, <1>4, <1>6, <1>7, <1>8 DEF Queued
<1>10. stage # "idle" => current' = current
  <2> SUFFICES ASSUME stage # "idle" PROVE current' = current
    OBVIOUS
  <2>1. launchQueue # <<>> /\ launchQueue' # <<>>
    BY <1>4 DEF Queued
  <2>2. 1 \in DOMAIN launchQueue
    BY <2>1 DEF Shape
  <2>3. QED
    BY <2>1, <2>2, <1>4 DEF current, Shape
<1>11. \A i \in Ids : /\ UnderWay(i, Submitted)' <=> UnderWay(i, Submitted)
                      /\ UnderWay(i, {"echo"})' <=> UnderWay(i, {"echo"})
  BY <1>1, <1>10 DEF UnderWay, Submitted
<1>12. \A i \in Ids : Has(i, "ok")' <=> Has(i, "ok")
  BY <1>1, <1>3 DEF Has
<1>13. \A i \in Ids : Unpressed(i)' => Unpressed(i)
  BY <1>1, <1>3, <1>6, <1>11 DEF Unpressed
<1>14. \A i \in Ids : Pressed(i)' => Pressed(i)
  BY <1>11, <1>12 DEF Pressed
<1>15. QED
  BY <1>1, <1>3, <1>4, <1>9, <1>11, <1>13, <1>14

-----------------------------------------------------------------------------
(* Steps that leave the terminal alone.                                      *)

LEMMA TypedShape ==
  ASSUME Shape
  PROVE  /\ Len(typed) \in Nat /\ DOMAIN typed = 1 .. Len(typed)
         /\ \A n \in DOMAIN typed : typed[n].id \in Ids
         /\ \A n \in DOMAIN typed : typed[n].kind = "command" \/ typed[n].kind \in Clears
         /\ \A n \in DOMAIN typed :
              typed[n] = [kind |-> typed[n].kind, id |-> typed[n].id]
<1>1. typed \in Seq(Texts)
  BY DEF Shape
<1>2. /\ Len(typed) \in Nat /\ DOMAIN typed = 1 .. Len(typed)
      /\ \A n \in DOMAIN typed : typed[n] \in Texts
  BY <1>1
<1>3. \A t \in Texts : /\ t.id \in Ids /\ (t.kind = "command" \/ t.kind \in Clears)
                       /\ t = [kind |-> t.kind, id |-> t.id]
  BY DEF Texts
<1>4. QED
  BY <1>2, <1>3

LEMMA PressesKept ==
  ASSUME Presses, UNCHANGED <<typed, ran>>,
         \A i \in Ids : Unpressed(i)' => Unpressed(i),
         \A i \in Ids : Pressed(i)' => Pressed(i)
  PROVE  Presses'
BY DEF Presses, TypedEnter, RanEnter

LEMMA LinesKept ==
  ASSUME Shape, Lines, UNCHANGED <<typed, prompt, agent, ran>>,
         ~exited' => ~exited /\ \A i \in Ids : UnderWay(i, {"echo"}) => UnderWay(i, {"echo"})'
  PROVE  Lines'
<1>1. prompt \subseteq Ids /\ \A m \in DOMAIN typed : typed[m].id \in Ids
  BY TypedShape DEF Shape
<1>2. \A first, last : NoClear(first, last)' <=> NoClear(first, last)
  BY DEF NoClear
<1>3. RunsItsOwnLine'
  BY DEF Lines, RunsItsOwnLine
<1>4. QED
  BY <1>1, <1>2, <1>3 DEF Lines

-----------------------------------------------------------------------------
(* Steps that type.                                                          *)

New == DOMAIN typed' \ DOMAIN typed

TypesMore ==
  /\ typed' \in Seq(Texts) /\ Len(typed') >= Len(typed)
  /\ \A n \in DOMAIN typed : typed'[n] = typed[n]

LEMMA TypesMoreShape ==
  ASSUME Shape, TypesMore
  PROVE  /\ Len(typed) \in Nat /\ Len(typed') \in Nat /\ Len(typed') >= Len(typed)
         /\ DOMAIN typed = 1 .. Len(typed) /\ DOMAIN typed' = 1 .. Len(typed')
         /\ New = (Len(typed) + 1) .. Len(typed')
         /\ \A n \in DOMAIN typed' : typed'[n].id \in Ids
<1>1. \A t \in Texts : t.id \in Ids
  BY DEF Texts
<1>2. typed' \in Seq(Texts)
  BY DEF TypesMore
<1>3. /\ Len(typed') \in Nat /\ DOMAIN typed' = 1 .. Len(typed')
      /\ \A n \in DOMAIN typed' : typed'[n] \in Texts
  BY <1>2
<1>4. QED
  BY <1>1, <1>3, TypedShape DEF TypesMore, New

LEMMA AppendTypes ==
  ASSUME Shape, NEW t \in Texts, typed' = Append(typed, t)
  PROVE  TypesMore /\ New = {Len(typed')} /\ typed'[Len(typed')] = t
<1>1. typed \in Seq(Texts)
  BY DEF Shape
<1>2. QED
  BY <1>1 DEF TypesMore, New

LEMMA TwoTypes ==
  ASSUME Shape, NEW t \in Texts, NEW u \in Texts, typed' = typed \o <<t, u>>
  PROVE  /\ TypesMore /\ New = {Len(typed') - 1, Len(typed')}
         /\ typed'[Len(typed') - 1] = t /\ typed'[Len(typed')] = u
<1>1. typed \in Seq(Texts) /\ <<t, u>> \in Seq(Texts) /\ Len(<<t, u>>) = 2
  BY DEF Shape
<1>2. QED
  BY <1>1 DEF TypesMore, New

LEMMA PressesTyped ==
  ASSUME Shape, Presses, TypesMore, UNCHANGED ran,
         \A n \in New : typed'[n].kind # "enter",
         \A i \in Ids : Unpressed(i)' => Unpressed(i),
         \A i \in Ids : Pressed(i)' => Pressed(i)
  PROVE  Presses'
<1>1. \A i \in Ids : TypedEnter(i)' = TypedEnter(i)
  BY TypesMoreShape DEF TypesMore, New, TypedEnter
<1>2. \A i \in Ids : RanEnter(i)' = RanEnter(i)
  BY DEF RanEnter
<1>3. QED
  BY <1>1, <1>2 DEF Presses

LEMMA LinesTyped ==
  ASSUME Shape, Lines, TypesMore, UNCHANGED <<prompt, agent, ran, exited>>,
         \A n \in New : typed'[n].kind \notin Entering,
         \A n \in New : typed'[n].kind = "command" => UnderWay(typed[n].id, {"echo"})',
         \/ Len(typed') \in New /\ typed'[Len(typed')].kind # "command"
         \/ \A i \in Ids : UnderWay(i, {"echo"}) => UnderWay(i, {"echo"})'
  PROVE  Lines'
<1>1. /\ DOMAIN typed \subseteq DOMAIN typed'
      /\ \A n \in DOMAIN typed' \ New : n \in DOMAIN typed /\ typed'[n] = typed[n]
      /\ \A n \in DOMAIN typed' : typed'[n].id \in Ids
      /\ DOMAIN typed = 1 .. Len(typed) /\ DOMAIN typed' = 1 .. Len(typed')
      /\ Len(typed) \in Nat /\ Len(typed') \in Nat /\ Len(typed') >= Len(typed)
      /\ \A n \in DOMAIN typed : typed'[n] = typed[n]
  BY TypesMoreShape DEF New, TypesMore
<1>2. \A n \in DOMAIN typed' : typed'[n].kind \in Entering =>
        n \in DOMAIN typed /\ typed[n].kind \in Entering /\ typed'[n] = typed[n]
  BY <1>1
<1>3. \A first \in Nat, n \in DOMAIN typed : NoClear(first, n)' => NoClear(first, n)
  BY <1>1 DEF NoClear
<1>4. \A n \in DOMAIN typed' : n < Len(typed') + 1
  BY <1>1
<1>5. \A first \in Nat :
        NoClear(first, Len(typed) + 1)' => NoClear(first, Len(typed) + 1)
  BY <1>1 DEF NoClear
<1>6. ASSUME NEW n \in DOMAIN typed', typed'[n].kind \in Entering
      PROVE  /\ \A m \in DOMAIN typed' : m < n /\ NoClear(m, n)' => typed'[m].id = typed'[n].id
             /\ NoClear(1, n)' => prompt' \subseteq {typed'[n].id}
  <2>1. n \in DOMAIN typed /\ typed[n].kind \in Entering /\ typed'[n] = typed[n]
    BY <1>2, <1>6
  <2>2. \A m \in DOMAIN typed' : m < n => m \in DOMAIN typed /\ m \in Nat /\ typed'[m] = typed[m]
    BY <1>1, <2>1
  <2>3. QED
    BY <2>1, <2>2, <1>3 DEF Lines
<1>7. ASSUME ~exited'
      PROVE  /\ \A m \in DOMAIN typed' : NoClear(m, Len(typed) + 1)' => UnderWay(typed[m].id, {"echo"})'
             /\ NoClear(1, Len(typed) + 1)' => \A i \in prompt' : UnderWay(i, {"echo"})'
  <2>1. CASE Len(typed') \in New /\ typed'[Len(typed')].kind # "command"
    <3>1. \A m \in DOMAIN typed' : ~NoClear(m, Len(typed) + 1)'
      BY <2>1, <1>1 DEF NoClear, New
    <3>2. ~NoClear(1, Len(typed) + 1)'
      BY <2>1, <1>1 DEF NoClear, New
    <3>3. QED
      BY <3>1, <3>2
  <2>2. CASE \A i \in Ids : UnderWay(i, {"echo"}) => UnderWay(i, {"echo"})'
    <3>1. ASSUME NEW m \in DOMAIN typed', NoClear(m, Len(typed) + 1)'
          PROVE  UnderWay(typed[m].id, {"echo"})'
      <4>1. CASE m \in New
        <5>1. typed'[m].kind = "command"
          BY <3>1, <1>1 DEF NoClear
        <5>2. QED
          BY <5>1, <4>1
      <4>2. CASE m \notin New
        <5>1. m \in DOMAIN typed /\ m \in Nat /\ typed'[m] = typed[m] /\ typed[m].id \in Ids
          BY <4>2, <1>1
        <5>2. UnderWay(typed[m].id, {"echo"})
          BY <5>1, <3>1, <1>5, <1>7 DEF Lines
        <5>3. QED
          BY <5>1, <5>2, <2>2
      <4>3. QED
        BY <4>1, <4>2
    <3>2. NoClear(1, Len(typed) + 1)' => \A i \in prompt' : UnderWay(i, {"echo"})'
      <4>1. prompt \subseteq Ids
        BY DEF Shape
      <4>2. QED
        BY <4>1, <2>2, <1>5, <1>7 DEF Lines
    <3>3. QED
      BY <3>1, <3>2
  <2>3. QED
    BY <2>1, <2>2
<1>8. RunsItsOwnLine'
  BY DEF Lines, RunsItsOwnLine
<1>9. QED
  BY <1>6, <1>7, <1>8 DEF Lines

-----------------------------------------------------------------------------
(* The shell reads.                                                          *)

LEMMA TailShape ==
  ASSUME Shape, typed # <<>>, typed' = Tail(typed)
  PROVE  /\ typed' \in Seq(Texts) /\ 1 \in DOMAIN typed /\ Head(typed) = typed[1]
         /\ Len(typed) \in Nat /\ Len(typed') = Len(typed) - 1
         /\ DOMAIN typed = 1 .. Len(typed) /\ DOMAIN typed' = 1 .. Len(typed) - 1
         /\ \A n \in DOMAIN typed' : n + 1 \in DOMAIN typed /\ typed'[n] = typed[n + 1]
         /\ \A n \in DOMAIN typed : n # 1 => n - 1 \in DOMAIN typed' /\ typed'[n - 1] = typed[n]
<1>1. typed \in Seq(Texts)
  BY DEF Shape
<1>2. QED
  BY <1>1

\* What is entered ends the line that stands on the prompt.
LEMMA ReadCases ==
  ASSUME Shape, Lines, ReadTyped
  PROVE  /\ typed # <<>> /\ typed' = Tail(typed) /\ ~exited
         /\ agent' \in BOOLEAN /\ (agent' => prompt' = {})
         /\ \/ prompt' = {}
            \/ typed[1].kind = "command" /\ prompt' = prompt \cup {typed[1].id}
         /\ \/ typed[1].kind # "enter" /\ ran' = ran
            \/ /\ typed[1].kind \in Entering
               /\ ran' = Append(ran, [by |-> typed[1].id, what |-> typed[1].kind, line |-> prompt])
<1>1. typed # <<>> /\ typed' = Tail(typed) /\ ~exited
  BY DEF ReadTyped
<1>2. Head(typed) = typed[1] /\ 1 \in DOMAIN typed
  BY <1>1, TailShape
<1>3. ShellReads(typed[1]) \/ AgentReads(typed[1])
  BY <1>2 DEF ReadTyped
<1>4. CASE ShellReads(typed[1])
  <2>1. CASE typed[1].kind = "command"
    <3>1. agent' = agent /\ ~agent /\ ran' = ran /\ prompt' = prompt \cup {typed[1].id}
      BY <1>4, <2>1 DEF ShellReads
    <3>2. agent' \in BOOLEAN /\ ~agent'
      BY <3>1 DEF Shape
    <3>3. QED
      BY <1>1, <2>1, <3>1, <3>2
  <2>2. CASE typed[1].kind = "kill-line"
    <3>1. agent' = agent /\ ran' = ran /\ prompt' = {}
      BY <1>4, <2>2 DEF ShellReads
    <3>2. agent' \in BOOLEAN
      BY <3>1 DEF Shape
    <3>3. QED
      BY <1>1, <2>2, <3>1, <3>2
  <2>3. CASE typed[1].kind \in Entering
    BY <1>1, <1>4, <2>3 DEF ShellReads, Entering, entered
  <2>4. QED
    BY <1>2, <2>1, <2>2, <2>3, TypedShape DEF Clears
<1>5. CASE AgentReads(typed[1])
  <2>1. agent' = agent /\ agent /\ prompt' = prompt /\ prompt = {}
    BY <1>5 DEF AgentReads, Lines
  <2>2. CASE typed[1].kind = "enter"
    BY <1>1, <1>5, <2>1, <2>2 DEF AgentReads, Entering, entered
  <2>3. CASE typed[1].kind # "enter"
    BY <1>1, <1>5, <2>1, <2>3 DEF AgentReads
  <2>4. QED
    BY <2>2, <2>3
<1>6. QED
  BY <1>3, <1>4, <1>5

LEMMA HostKept ==
  ASSUME UNCHANGED host
  PROVE  /\ UNCHANGED <<launchLedger, launchQueue, stage, attempt>>
         /\ Entries' = Entries /\ (Queued => Queued')
         /\ \A i : Unpressed(i)' <=> Unpressed(i)
         /\ \A i : Pressed(i)' <=> Pressed(i)
         /\ \A i : UnderWay(i, {"echo"})' <=> UnderWay(i, {"echo"})
<1>1. UNCHANGED <<launchLedger, launchQueue, stage, attempt>>
  BY DEF host
<1>2. \A i, o : Has(i, o)' <=> Has(i, o)
  BY <1>1 DEF Has
<1>3. \A i, stages : UnderWay(i, stages)' <=> UnderWay(i, stages)
  BY <1>1 DEF UnderWay, current
<1>4. Entries' = Entries /\ (Queued => Queued')
  BY <1>1, <1>2 DEF Entries, Queued
<1>5. QED
  BY <1>1, <1>2, <1>3, <1>4 DEF Unpressed, Pressed

LEMMA ReadShape ==
  ASSUME Shape, Lines, ReadTyped
  PROVE  Shape'
<1>1. typed' \in Seq(Texts) /\ typed[1].id \in Ids
  BY ReadCases, TailShape, TypedShape
<1>2. prompt' \subseteq Ids /\ agent' \in BOOLEAN
  BY <1>1, ReadCases DEF Shape
<1>3. ran' \in Seq(Line)
  <2>1. \A kind \in Entering : [by |-> typed[1].id, what |-> kind, line |-> prompt] \in Line
    BY <1>1 DEF Line, Shape
  <2>2. ran \in Seq(Line)
    BY DEF Shape
  <2>3. \A l \in Line : Append(ran, l) \in Seq(Line)
    BY <2>2
  <2>4. QED
    BY <2>1, <2>2, <2>3, ReadCases
<1>4. UNCHANGED <<launchLedger, launchQueue, stage, request, told, exited>>
  BY DEF ReadTyped, host, callers
<1>5. QED
  BY <1>1, <1>2, <1>3, <1>4 DEF Shape

\* The enters on the way, when the first text has been read.
LEMMA ReadTypedEnter ==
  ASSUME Shape, Lines, ReadTyped, NEW i \in Ids
  PROVE  /\ \A n \in TypedEnter(i)' : n \in Nat \ {0} /\ n + 1 \in TypedEnter(i)
         /\ \A n \in TypedEnter(i) : n \in Nat /\ (n # 1 => n - 1 \in TypedEnter(i)')
<1>1. /\ DOMAIN typed = 1 .. Len(typed) /\ Len(typed) \in Nat
      /\ DOMAIN typed' = 1 .. Len(typed) - 1
      /\ \A n \in DOMAIN typed' : n + 1 \in DOMAIN typed /\ typed'[n] = typed[n + 1]
      /\ \A n \in DOMAIN typed : n # 1 => n - 1 \in DOMAIN typed' /\ typed'[n - 1] = typed[n]
  BY ReadCases, TailShape
<1>2. QED
  BY <1>1 DEF TypedEnter

LEMMA ReadPresses ==
  ASSUME Shape, Presses, Lines, ReadTyped
  PROVE  Presses'
<1>1. \A i \in Ids : (Unpressed(i)' <=> Unpressed(i)) /\ (Pressed(i)' <=> Pressed(i))
  BY HostKept DEF ReadTyped
<1>2. \A i \in Ids : \A m, n \in TypedEnter(i)' : m = n
  <2> SUFFICES ASSUME NEW i \in Ids, NEW m \in TypedEnter(i)', NEW n \in TypedEnter(i)'
               PROVE  m = n
    OBVIOUS
  <2>1. m + 1 \in TypedEnter(i) /\ n + 1 \in TypedEnter(i) /\ m \in Nat /\ n \in Nat
    BY ReadTypedEnter
  <2>2. m + 1 = n + 1
    BY <2>1 DEF Presses
  <2>3. QED
    BY <2>1, <2>2
<1>3. \A i \in Ids : TypedEnter(i) = {} => TypedEnter(i)' = {}
  BY ReadTypedEnter
<1>4. \A i \in Ids : 1 \notin TypedEnter(i) => (TypedEnter(i)' = {} <=> TypedEnter(i) = {})
  BY ReadTypedEnter
<1>5. 1 \in DOMAIN typed /\ typed[1].id \in Ids
      /\ typed[1] = [kind |-> typed[1].kind, id |-> typed[1].id]
  BY ReadCases, TailShape, TypedShape
<1>6. CASE typed[1].kind # "enter"
  <2>1. \A i \in Ids : 1 \notin TypedEnter(i)
    BY <1>6 DEF TypedEnter
  <2>2. \A i \in Ids : RanEnter(i)' = RanEnter(i)
    <3>1. ran \in Seq(Line) /\ Len(ran) \in Nat
      BY DEF Shape
    <3>2. \/ ran' = ran
          \/ ran' = Append(ran, [by |-> typed[1].id, what |-> typed[1].kind, line |-> prompt])
      BY ReadCases
    <3>3. CASE ran' = ran
      BY <3>3 DEF RanEnter
    <3>4. CASE ran' = Append(ran, [by |-> typed[1].id, what |-> typed[1].kind, line |-> prompt])
      <4>1. /\ DOMAIN ran' = DOMAIN ran \cup {Len(ran) + 1}
            /\ \A n \in DOMAIN ran : ran'[n] = ran[n]
            /\ ran'[Len(ran) + 1].what = typed[1].kind
        BY <3>1, <3>4
      <4>2. QED
        BY <4>1, <1>6 DEF RanEnter
    <3>5. QED
      BY <3>2, <3>3, <3>4
  <2>3. QED
    BY <1>1, <1>2, <1>4, <2>1, <2>2 DEF Presses
<1>7. CASE typed[1].kind = "enter"
  <2>1. \A i \in Ids : i = typed[1].id <=> 1 \in TypedEnter(i)
    BY <1>5, <1>7 DEF TypedEnter
  <2>2. PICK j \in Ids : j = typed[1].id
    BY <1>5
  <2>3. RanEnter(j) = {} /\ ~Unpressed(j)
    BY <2>1, <2>2 DEF Presses
  <2>4. TypedEnter(j)' = {}
    <3> SUFFICES ASSUME NEW n \in TypedEnter(j)' PROVE FALSE
      OBVIOUS
    <3>1. n \in Nat \ {0} /\ n + 1 \in TypedEnter(j) /\ 1 \in TypedEnter(j)
      BY <2>1, <2>2, ReadTypedEnter
    <3>2. n + 1 = 1
      BY <3>1 DEF Presses
    <3>3. QED
      BY <3>1, <3>2
  <2>5. /\ \A i \in Ids : i # j => RanEnter(i)' = RanEnter(i)
        /\ \A i \in Ids : i = j => RanEnter(i)' = {Len(ran) + 1}
    <3>1. ran \in Seq(Line) /\ Len(ran) \in Nat
      BY DEF Shape
    <3>2. ran' = Append(ran, [by |-> j, what |-> "enter", line |-> prompt])
      BY <1>7, <2>2, ReadCases
    <3>3. /\ DOMAIN ran' = DOMAIN ran \cup {Len(ran) + 1}
          /\ \A n \in DOMAIN ran : ran'[n] = ran[n]
          /\ ran'[Len(ran) + 1].by = j /\ ran'[Len(ran) + 1].what = "enter"
      BY <3>1, <3>2
    <3>4. QED
      BY <2>3, <3>3 DEF RanEnter
  <2>6. ASSUME NEW i \in Ids
        PROVE  /\ Unpressed(i)' => TypedEnter(i)' = {} /\ RanEnter(i)' = {}
               /\ Pressed(i)' => TypedEnter(i)' # {} \/ RanEnter(i)' # {}
               /\ TypedEnter(i)' = {} \/ RanEnter(i)' = {}
               /\ \A m, n \in RanEnter(i)' : m = n
    <3>1. CASE i = j
      BY <3>1, <1>1, <2>3, <2>4, <2>5
    <3>2. CASE i # j
      BY <3>2, <1>1, <1>4, <2>1, <2>2, <2>5 DEF Presses
    <3>3. QED
      BY <3>1, <3>2
  <2>7. QED
    BY <1>2, <2>6 DEF Presses
<1>8. QED
  BY <1>6, <1>7

LEMMA ReadLines ==
  ASSUME Shape, Lines, ReadTyped
  PROVE  Lines'
<1>1. /\ 1 \in DOMAIN typed /\ DOMAIN typed = 1 .. Len(typed) /\ Len(typed) \in Nat
      /\ Len(typed') = Len(typed) - 1 /\ DOMAIN typed' = 1 .. Len(typed')
      /\ \A n \in DOMAIN typed' : n + 1 \in DOMAIN typed /\ typed'[n] = typed[n + 1] /\ n \in Nat \ {0}
      /\ \A n \in DOMAIN typed : n # 1 => n - 1 \in DOMAIN typed' /\ typed'[n - 1] = typed[n]
  BY ReadCases, TailShape
<1>2. prompt \subseteq Ids /\ \A n \in DOMAIN typed : typed[n].id \in Ids
  BY TypedShape DEF Shape
<1>3. \A i \in Ids : UnderWay(i, {"echo"})' <=> UnderWay(i, {"echo"})
  BY HostKept DEF ReadTyped
\* What is before a text now was before it then, behind the text just read.
<1>4. \A m, n \in Nat \ {0} : NoClear(m, n)' => NoClear(m + 1, n + 1)
  BY <1>1 DEF NoClear
<1>5. \A n \in Nat \ {0} : NoClear(1, n)' /\ typed[1].kind = "command" => NoClear(1, n + 1)
  <2> SUFFICES ASSUME NEW n \in Nat \ {0}, NoClear(1, n)', typed[1].kind = "command",
                      NEW m \in DOMAIN typed, 1 <= m, m < n + 1
               PROVE  typed[m].kind = "command"
    BY DEF NoClear
  <2>1. CASE m # 1
    <3>1. m - 1 \in DOMAIN typed' /\ 1 <= m - 1 /\ m - 1 < n /\ typed'[m - 1] = typed[m]
      BY <2>1, <1>1
    <3>2. QED
      BY <3>1 DEF NoClear
  <2>2. QED
    BY <2>1
<1>6. agent' => prompt' = {}
  BY ReadCases DEF Lines
<1>7. \/ prompt' = {}
      \/ typed[1].kind = "command" /\ prompt' = prompt \cup {typed[1].id}
  BY ReadCases DEF Lines
<1>8. ASSUME NEW n \in DOMAIN typed', typed'[n].kind \in Entering
      PROVE  /\ \A m \in DOMAIN typed' : m < n /\ NoClear(m, n)' => typed'[m].id = typed'[n].id
             /\ NoClear(1, n)' => prompt' \subseteq {typed'[n].id}
  <2>1. n + 1 \in DOMAIN typed /\ typed'[n] = typed[n + 1] /\ n \in Nat \ {0} /\ 1 < n + 1
    BY <1>1
  <2>2. \A m \in DOMAIN typed : m < n + 1 /\ NoClear(m, n + 1) => typed[m].id = typed[n + 1].id
    BY <2>1, <1>8 DEF Lines
  <2>3. NoClear(1, n + 1) => prompt \subseteq {typed[n + 1].id} /\ typed[1].id = typed[n + 1].id
    BY <2>1, <2>2, <1>1, <1>8 DEF Lines
  <2>4. \A m \in DOMAIN typed' : m < n /\ NoClear(m, n)' => typed'[m].id = typed'[n].id
    BY <2>1, <2>2, <1>1, <1>4
  <2>5. NoClear(1, n)' => prompt' \subseteq {typed'[n].id}
    BY <2>1, <2>3, <1>5, <1>7
  <2>6. QED
    BY <2>4, <2>5
<1>9. /\ \A m \in DOMAIN typed' : NoClear(m, Len(typed) + 1)' => UnderWay(typed[m].id, {"echo"})'
      /\ NoClear(1, Len(typed) + 1)' => \A i \in prompt' : UnderWay(i, {"echo"})'
  <2>1. ~exited
    BY ReadCases
  <2>2. /\ \A m \in DOMAIN typed : NoClear(m, Len(typed) + 1) => UnderWay(typed[m].id, {"echo"})
        /\ NoClear(1, Len(typed) + 1) => \A i \in prompt : UnderWay(i, {"echo"})
    BY <2>1 DEF Lines
  <2>3. Len(typed') + 1 = Len(typed) /\ Len(typed) \in Nat \ {0}
    BY <1>1
  <2>4. \A m \in Nat \ {0} : NoClear(m, Len(typed) + 1)' => NoClear(m + 1, Len(typed) + 1)
    BY <1>1, <2>3 DEF NoClear
  <2>5. NoClear(1, Len(typed) + 1)' /\ typed[1].kind = "command" => NoClear(1, Len(typed) + 1)
    BY <1>1, <2>3 DEF NoClear
  <2>6. ASSUME NEW m \in DOMAIN typed', NoClear(m, Len(typed) + 1)'
        PROVE  UnderWay(typed[m].id, {"echo"})'
    <3>1. m + 1 \in DOMAIN typed /\ typed'[m] = typed[m + 1] /\ m \in Nat \ {0}
      BY <1>1
    <3>2. UnderWay(typed[m + 1].id, {"echo"}) /\ typed[m + 1].id \in Ids
      BY <3>1, <2>2, <2>4, <2>6, <1>2
    <3>3. QED
      BY <3>1, <3>2, <1>3
  <2>7. ASSUME NoClear(1, Len(typed) + 1)', NEW i \in prompt'
        PROVE  UnderWay(i, {"echo"})'
    <3>1. typed[1].kind = "command" /\ i \in prompt \cup {typed[1].id}
      BY <1>7, <2>7
    <3>2. UnderWay(i, {"echo"}) /\ i \in Ids
      BY <3>1, <2>2, <2>5, <2>7, <1>1, <1>2
    <3>3. QED
      BY <3>2, <1>3
  <2>8. QED
    BY <2>6, <2>7
<1>10. RunsItsOwnLine'
  <2>1. CASE ran' = ran
    BY <2>1 DEF Lines, RunsItsOwnLine
  <2>2. CASE /\ typed[1].kind \in Entering
             /\ ran' = Append(ran, [by |-> typed[1].id, what |-> typed[1].kind, line |-> prompt])
    <3>1. NoClear(1, 1)
      BY <1>1 DEF NoClear
    <3>2. prompt \subseteq {typed[1].id}
      BY <3>1, <2>2, <1>1 DEF Lines
    <3>3. ran \in Seq(Line)
      BY DEF Shape
    <3>4. /\ \A n \in DOMAIN ran : ran'[n] = ran[n]
          /\ \A n \in DOMAIN ran' : n \in DOMAIN ran \/ n = Len(ran) + 1
          /\ ran'[Len(ran) + 1].by = typed[1].id /\ ran'[Len(ran) + 1].line = prompt
      BY <3>3, <2>2
    <3>5. QED
      BY <3>2, <3>4 DEF Lines, RunsItsOwnLine
  <2>3. QED
    BY <2>1, <2>2, ReadCases
<1>11. QED
  BY <1>6, <1>8, <1>9, <1>10 DEF Lines

-----------------------------------------------------------------------------
(* Texts that enter the line.                                                *)

LEMMA AppendText ==
  ASSUME Shape, Queued, launchQueue # <<>>, NEW kind \in Entering,
         typed' = Append(typed, text(kind))
  PROVE  /\ current \in Ids /\ text(kind) = [kind |-> kind, id |-> current]
         /\ typed' \in Seq(Texts) /\ typed'[Len(typed')] = text(kind)
         /\ Len(typed') = Len(typed) + 1 /\ Len(typed) \in Nat
         /\ DOMAIN typed' = 1 .. Len(typed') /\ DOMAIN typed = 1 .. Len(typed)
         /\ \A n \in DOMAIN typed : typed'[n] = typed[n]
<1>1. current \in Ids /\ text(kind) = [kind |-> kind, id |-> current]
  BY HeadIsPending DEF text
<1>2. text(kind) \in Texts
  BY <1>1 DEF Texts, Clears
<1>3. TypesMore /\ New = {Len(typed')} /\ typed'[Len(typed')] = text(kind)
  BY <1>2, AppendTypes
<1>4. typed \in Seq(Texts)
  BY DEF Shape
<1>5. QED
  BY <1>1, <1>2, <1>3, <1>4 DEF TypesMore

\* What such a text will enter was typed by the launch under way.
LEMMA LinesEntering ==
  ASSUME Shape, Queued, Lines, launchQueue # <<>>, ~exited, NEW kind \in Entering,
         typed' = Append(typed, text(kind)), UNCHANGED <<exited, prompt, agent, ran>>
  PROVE  Lines'
<1>1. /\ text(kind) = [kind |-> kind, id |-> current]
      /\ typed'[Len(typed')] = text(kind)
      /\ Len(typed') = Len(typed) + 1 /\ Len(typed) \in Nat
      /\ DOMAIN typed' = 1 .. Len(typed') /\ DOMAIN typed = 1 .. Len(typed)
      /\ \A n \in DOMAIN typed : typed'[n] = typed[n]
  BY AppendText
<1>2. typed'[Len(typed')].id = current /\ typed'[Len(typed')].kind # "command"
  BY <1>1 DEF Entering
<1>3. /\ \A m \in DOMAIN typed : NoClear(m, Len(typed) + 1) => typed[m].id = current
      /\ NoClear(1, Len(typed) + 1) => prompt \subseteq {current}
  BY DEF Lines, UnderWay
<1>4. \A first \in Nat, n \in 1 .. Len(typed) + 1 : NoClear(first, n)' => NoClear(first, n)
  BY <1>1 DEF NoClear
<1>5. \A m \in DOMAIN typed' : ~NoClear(m, Len(typed) + 1)'
  BY <1>1, <1>2 DEF NoClear
<1>6. ~NoClear(1, Len(typed) + 1)'
  BY <1>1, <1>2 DEF NoClear
<1>7. ASSUME NEW n \in DOMAIN typed', typed'[n].kind \in Entering
      PROVE  /\ \A m \in DOMAIN typed' : m < n /\ NoClear(m, n)' => typed'[m].id = typed'[n].id
             /\ NoClear(1, n)' => prompt' \subseteq {typed'[n].id}
  <2>1. n \in 1 .. Len(typed) + 1 /\ \A m \in DOMAIN typed' : m < n =>
          m \in Nat /\ m \in DOMAIN typed /\ typed'[m] = typed[m]
    BY <1>1
  <2>2. \A m \in Nat : NoClear(m, n)' => NoClear(m, n)
    BY <2>1, <1>4
  <2>3. CASE n \in DOMAIN typed
    BY <2>1, <2>2, <2>3, <1>1, <1>7 DEF Lines
  <2>4. CASE n = Len(typed) + 1
    <3>1. typed'[n].id = current
      BY <2>4, <1>1, <1>2
    <3>2. QED
      BY <2>1, <2>2, <2>4, <3>1, <1>3
  <2>5. QED
    BY <2>1, <2>3, <2>4, <1>1
<1>8. (agent' => prompt' = {}) /\ RunsItsOwnLine'
  BY DEF Lines, RunsItsOwnLine
<1>9. QED
  BY <1>5, <1>6, <1>7, <1>8 DEF Lines

LEMMA PressEnter ==
  ASSUME Shape, Queued, Presses, Lines, stage = "echo", ~exited,
         typed' = Append(typed, text("enter")), UNCHANGED <<exited, prompt, agent, ran>>,
         \A i \in Ids : Unpressed(i)' => Unpressed(i) /\ i # current,
         \A i \in Ids : Pressed(i)' => Pressed(i) \/ i = current
  PROVE  typed' \in Seq(Texts) /\ Presses' /\ Lines'
<1>1. launchQueue # <<>> /\ "enter" \in Entering
  BY DEF Queued, Entering
<1>2. /\ current \in Ids /\ text("enter") = [kind |-> "enter", id |-> current]
      /\ typed' \in Seq(Texts) /\ typed'[Len(typed')] = text("enter")
      /\ Len(typed') = Len(typed) + 1 /\ Len(typed) \in Nat
      /\ DOMAIN typed' = 1 .. Len(typed') /\ DOMAIN typed = 1 .. Len(typed)
      /\ \A n \in DOMAIN typed : typed'[n] = typed[n]
  BY <1>1, AppendText
<1>3. PICK j \in Ids : j = current
  BY <1>2
<1>4. typed'[Len(typed) + 1] = [kind |-> "enter", id |-> j]
  BY <1>2, <1>3
<1>5. \A i \in Ids : i # j => TypedEnter(i)' = TypedEnter(i)
  BY <1>2, <1>4 DEF TypedEnter
<1>6. Unpressed(j)
  BY <1>1, <1>3, HeadIsPending DEF Unpressed, UnderWay, Submitted
<1>7. TypedEnter(j) = {} /\ RanEnter(j) = {}
  BY <1>6 DEF Presses
<1>8. TypedEnter(j)' = {Len(typed) + 1}
  BY <1>2, <1>4, <1>7 DEF TypedEnter
<1>9. \A i \in Ids : RanEnter(i)' = RanEnter(i)
  BY DEF RanEnter
<1>10. ASSUME NEW i \in Ids
       PROVE  /\ Unpressed(i)' => TypedEnter(i)' = {} /\ RanEnter(i)' = {}
              /\ Pressed(i)' => TypedEnter(i)' # {} \/ RanEnter(i)' # {}
              /\ TypedEnter(i)' = {} \/ RanEnter(i)' = {}
              /\ \A m, n \in TypedEnter(i)' : m = n
              /\ \A m, n \in RanEnter(i)' : m = n
  <2>1. CASE i = j
    BY <2>1, <1>3, <1>7, <1>8, <1>9
  <2>2. CASE i # j
    BY <2>2, <1>3, <1>5, <1>9 DEF Presses
  <2>3. QED
    BY <2>1, <2>2
<1>11. Presses'
  BY <1>10 DEF Presses
<1>12. QED
  BY <1>1, <1>2, <1>11, LinesEntering

-----------------------------------------------------------------------------
(* Answers.                                                                  *)

LEMMA ToldKept ==
  ASSUME Told, UNCHANGED <<launchLedger, request, told>>
  PROVE  Told'
BY DEF Told, Has

LEMMA ToldSettle ==
  ASSUME Shape, Queued, Told, launchQueue # <<>>, NEW outcome \in {"ok", "failed"},
         Settle(outcome), UNCHANGED <<request, told>>
  PROVE  Told'
<1>1. \A i \in Ids : launchLedger[i] # Nothing =>
        launchLedger'[i] # Nothing /\ launchLedger'[i].input = launchLedger[i].input
  BY SettleLedger
<1>2. \A i \in Ids : i # current => launchLedger'[i] = launchLedger[i]
  BY SettleLedger
<1>3. ~Has(current, "ok") /\ ~Has(current, "failed")
  BY HeadIsPending DEF Has
<1>4. \A i \in Ids : \A o \in {"ok", "failed"} : Has(i, o) => Has(i, o)'
  BY <1>2, <1>3 DEF Has
<1>5. /\ \A c \in Callers : request[c] # Nothing => request[c].id \in Ids
      /\ \A a \in told : a.id \in Ids
  BY DEF Shape, Request, Answers
<1>6. \A c \in Callers : request'[c] # Nothing =>
        /\ launchLedger'[request'[c].id] # Nothing
        /\ launchLedger'[request'[c].id].input = request'[c].input
  BY <1>1, <1>5 DEF Told
<1>7. ASSUME NEW a \in told'
      PROVE  /\ a.verdict = "executed" => Has(a.id, "ok")' /\ launchLedger'[a.id].input = a.input
             /\ a.verdict = "failed" => Has(a.id, "failed")'
  <2>1. a \in told /\ a.id \in Ids
    BY <1>5
  <2>2. /\ a.verdict = "executed" => Has(a.id, "ok") /\ launchLedger[a.id].input = a.input
        /\ a.verdict = "failed" => Has(a.id, "failed")
    BY <2>1 DEF Told
  <2>3. QED
    BY <2>1, <2>2, <1>1, <1>4 DEF Has
<1>8. QED
  BY <1>6, <1>7 DEF Told

-----------------------------------------------------------------------------
(* Init and the actions.                                                     *)

LEMMA InitInv == Init => Inv
<1> SUFFICES ASSUME Init PROVE Inv
  OBVIOUS
<1>1. /\ launchLedger = [i \in Ids |-> Nothing] /\ launchQueue = <<>> /\ stage = "idle"
      /\ attempt = 0 /\ request = [c \in Callers |-> Nothing] /\ told = {}
      /\ typed = <<>> /\ ran = <<>> /\ prompt = {} /\ agent = FALSE
      /\ asked = [c \in Callers |-> 0] /\ exited = FALSE
  BY DEF Init
<1>2. Shape
  <2>1. launchQueue \in Seq(Ids) /\ typed \in Seq(Texts) /\ ran \in Seq(Line)
    BY <1>1
  <2>2. request \in [Callers -> Request \cup {Nothing}] /\ told \subseteq Answers
    BY <1>1
  <2>3. launchLedger \in [Ids -> Entry \cup {Nothing}] /\ stage \in Stages
    BY <1>1 DEF Stages
  <2>4. exited \in BOOLEAN /\ agent \in BOOLEAN /\ prompt \subseteq Ids
    BY <1>1
  <2>5. QED
    BY <2>1, <2>2, <2>3, <2>4 DEF Shape
<1>3. Counts
  <2>1. Entries = {}
    BY <1>1 DEF Entries
  <2>2. IsFiniteSet(Entries) /\ Cardinality(Entries) = 0
    BY <2>1, FS_EmptySet
  <2>3. QED
    BY <1>1, <2>2, SessionLaunchAssumption DEF Counts
<1>4. Queued
  BY <1>1 DEF Queued, Has
<1>5. Presses
  BY <1>1 DEF Presses, TypedEnter, RanEnter, Pressed, Has, UnderWay, Submitted
<1>6. Lines
  BY <1>1 DEF Lines, RunsItsOwnLine
<1>7. Told
  BY <1>1 DEF Told
<1>8. QED
  BY <1>2, <1>3, <1>4, <1>5, <1>6, <1>7 DEF Inv

\* A request that starts nothing.
LEMMA AskedInv ==
  ASSUME Inv, NEW c \in Callers, NEW j \in Ids, NEW x \in Inputs,
         RefuseLaunch(c, j, x) \/ JoinLaunch(c, j, x)
  PROVE  Inv'
<1>1. /\ UNCHANGED <<host, typed, exited, prompt, echoes, agent, ran>>
      /\ asked' = [asked EXCEPT ![c] = @ + 1]
  BY DEF RefuseLaunch, JoinLaunch, Ask, host, shell
<1>2. \/ request' = request /\ told' = told \cup {Answer(j, x, "refused")}
      \/ /\ request' = [request EXCEPT ![c] = [id |-> j, input |-> x]] /\ told' = told
         /\ launchLedger[j] # Nothing /\ launchLedger[j].input = x
  BY DEF RefuseLaunch, JoinLaunch, known, Entries
<1>3. Answer(j, x, "refused") \in Answers /\ [id |-> j, input |-> x] \in Request
  BY DEF Answer, Answers, Request
<1>4. request' \in [Callers -> Request \cup {Nothing}] /\ told' \subseteq Answers
  BY <1>2, <1>3 DEF Inv, Shape
<1>5. Shape'
  BY <1>1, <1>4, HostKept DEF Inv, Shape
<1>6. Counts'
  BY <1>1, HostKept DEF Inv, Counts
<1>7. Told'
  <2>1. UNCHANGED launchLedger
    BY <1>1, HostKept
  <2>2. Answer(j, x, "refused").verdict = "refused"
    BY DEF Answer
  <2>3. CASE request' = request /\ told' = told \cup {Answer(j, x, "refused")}
    BY <2>1, <2>2, <2>3 DEF Inv, Told, Has
  <2>4. CASE /\ request' = [request EXCEPT ![c] = [id |-> j, input |-> x]] /\ told' = told
             /\ launchLedger[j] # Nothing /\ launchLedger[j].input = x
    BY <2>1, <2>4 DEF Inv, Shape, Told, Has
  <2>5. QED
    BY <1>2, <2>3, <2>4
<1>8. QED
  BY <1>1, <1>5, <1>6, <1>7, HostKept, PressesKept, LinesKept DEF Inv

LEMMA ExecuteInv ==
  ASSUME Inv, NEW c \in Callers, NEW j \in Ids, NEW x \in Inputs, ExecuteLaunch(c, j, x)
  PROVE  Inv'
<1>1. /\ UNCHANGED <<stage, attempt, told, typed, exited, prompt, echoes, agent, ran>>
      /\ asked' = [asked EXCEPT ![c] = @ + 1]
      /\ request' = [request EXCEPT ![c] = [id |-> j, input |-> x]]
      /\ Cardinality(Entries) < MaxLedger
  BY DEF ExecuteLaunch, Ask, shell
<1>2. /\ launchLedger' \in [Ids -> Entry \cup {Nothing}]
      /\ launchQueue' \in Seq(Ids) /\ Queued'
      /\ launchLedger[j] = Nothing /\ launchLedger'[j] = [input |-> x, outcome |-> "pending"]
      /\ launchLedger'[j] # Nothing
      /\ \A i \in Ids \ {j} : launchLedger'[i] = launchLedger[i]
  BY AskLedger DEF Inv
<1>3. [id |-> j, input |-> x] \in Request
  BY DEF Request
<1>4. Shape'
  BY <1>1, <1>2, <1>3 DEF Inv, Shape
<1>5. Counts'
  <2>1. Entries' = Entries \cup {j} /\ j \notin Entries
    BY <1>2 DEF Entries
  <2>2. IsFiniteSet(Entries) /\ Cardinality(Entries) \in Nat
    BY FS_CardinalityType DEF Inv, Counts
  <2>3. IsFiniteSet(Entries') /\ Cardinality(Entries') = Cardinality(Entries) + 1
    BY <2>1, <2>2, FS_AddElement
  <2>4. QED
    BY <1>1, <2>2, <2>3, SessionLaunchAssumption DEF Inv, Counts
<1>6. Presses'
  BY <1>1, AskLedger, PressesKept DEF Inv
<1>7. Lines'
  BY <1>1, AskLedger, LinesKept DEF Inv
<1>8. Told'
  <2>1. /\ \A d \in Callers : request[d] # Nothing => request[d].id \in Ids
        /\ \A a \in told : a.id \in Ids
    BY DEF Inv, Shape, Request, Answers
  <2>2. ASSUME NEW d \in Callers, request'[d] # Nothing
        PROVE  /\ launchLedger'[request'[d].id] # Nothing
               /\ launchLedger'[request'[d].id].input = request'[d].input
    <3>1. CASE d = c
      BY <1>1, <1>2, <3>1 DEF Inv, Shape
    <3>2. CASE d # c
      <4>1. request'[d] = request[d] /\ request[d].id \in Ids
        BY <1>1, <2>1, <2>2, <3>2 DEF Inv, Shape
      <4>2. launchLedger[request[d].id] # Nothing /\ launchLedger[request[d].id].input = request[d].input
        BY <4>1, <2>2 DEF Inv, Told
      <4>3. QED
        BY <4>1, <4>2, <1>2
    <3>3. QED
      BY <3>1, <3>2
  <2>3. \A i \in Ids, o \in {"ok", "failed"} :
          Has(i, o) => Has(i, o)' /\ launchLedger'[i].input = launchLedger[i].input
    BY <1>2 DEF Has
  <2>4. ASSUME NEW a \in told'
        PROVE  /\ a.verdict = "executed" => Has(a.id, "ok")' /\ launchLedger'[a.id].input = a.input
               /\ a.verdict = "failed" => Has(a.id, "failed")'
    <3>1. a \in told /\ a.id \in Ids
      BY <1>1, <2>1
    <3>2. QED
      BY <3>1, <2>3 DEF Inv, Told
  <2>5. QED
    BY <2>2, <2>4 DEF Told
<1>9. QED
  BY <1>2, <1>4, <1>5, <1>6, <1>7, <1>8 DEF Inv

LEMMA AnswerInv ==
  ASSUME Inv, NEW c \in Callers, AnswerLaunch(c)
  PROVE  Inv'
<1>1. /\ UNCHANGED <<host, asked, typed, exited, prompt, echoes, agent, ran>>
      /\ request' = [request EXCEPT ![c] = Nothing] /\ request[c] # Nothing
  BY DEF AnswerLaunch, shell
<1>2. request[c].id \in Ids /\ request[c].input \in Inputs
  BY <1>1 DEF Inv, Shape, Request
<1>3. PICK i \in Ids, x \in Inputs : i = request[c].id /\ x = request[c].input
  BY <1>2
<1>4. launchLedger[i] # Nothing /\ launchLedger[i].input = x /\ launchLedger[i] \in Entry
  BY <1>1, <1>3 DEF Inv, Told, Shape
<1>5. PICK a \in Answers :
        /\ told' = told \cup {a} /\ a.id = i /\ a.input = x
        /\ \/ a.verdict = "executed" /\ Has(i, "ok")
           \/ a.verdict = "failed" /\ Has(i, "failed")
  <2>1. /\ launchLedger[i].outcome # "pending"
        /\ told' = told \cup {Answer(i, x, IF launchLedger[i].outcome = "failed" THEN "failed" ELSE "executed")}
    BY <1>3 DEF AnswerLaunch, settled
  <2>2. launchLedger[i].outcome \in {"ok", "failed"}
    BY <1>4, <2>1 DEF Entry, Outcomes
  <2>3. Answer(i, x, "failed") \in Answers /\ Answer(i, x, "executed") \in Answers
    BY DEF Answer, Answers
  <2>4. CASE launchLedger[i].outcome = "failed"
    BY <1>4, <2>1, <2>3, <2>4 DEF Answer, Has
  <2>5. CASE launchLedger[i].outcome = "ok"
    BY <1>4, <2>1, <2>3, <2>5 DEF Answer, Has
  <2>6. QED
    BY <2>2, <2>4, <2>5
<1>6. Shape'
  <2>1. request' \in [Callers -> Request \cup {Nothing}] /\ told' \subseteq Answers
    BY <1>1, <1>5 DEF Inv, Shape
  <2>2. QED
    BY <1>1, <2>1, HostKept DEF Inv, Shape
<1>7. Counts'
  BY <1>1, HostKept DEF Inv, Counts
<1>8. Told'
  <2>1. UNCHANGED launchLedger
    BY <1>1, HostKept
  <2>2. \A d \in Callers : request'[d] # Nothing => request'[d] = request[d]
    BY <1>1 DEF Inv, Shape
  <2>3. QED
    BY <1>4, <1>5, <2>1, <2>2 DEF Inv, Told, Has
<1>9. QED
  BY <1>1, <1>6, <1>7, <1>8, HostKept, PressesKept, LinesKept DEF Inv

\* The delivery under way settles and types nothing.
LEMMA SettledInv ==
  ASSUME Inv, launchQueue # <<>>, NEW outcome \in {"ok", "failed"}, Settle(outcome),
         UNCHANGED <<callers, exited, typed, shell>>,
         exited \/ stage # "echo", outcome = "ok" => stage \in Submitted
  PROVE  Inv'
<1>1. /\ UNCHANGED <<request, asked, told, exited, typed, prompt, echoes, agent, ran>>
      /\ stage' = "idle" /\ attempt' = 0
  BY DEF callers, shell, Settle
<1>2. /\ launchQueue' \in Seq(Ids) /\ Queued'
      /\ \A i \in Ids : Unpressed(i)' => Unpressed(i)
      /\ \A i \in Ids : Pressed(i)' => Has(i, "ok") \/ (i = current /\ outcome = "ok")
  BY SettleQueue DEF Inv
<1>3. \A i \in Ids : Pressed(i)' => Pressed(i)
  BY <1>2 DEF Pressed, UnderWay
<1>4. Shape'
  BY <1>1, <1>2, SettleLedger DEF Inv, Shape, Stages
<1>5. Counts'
  <2>1. Entries' = Entries
    BY SettleLedger, HeadIsPending DEF Inv, Entries, Has
  <2>2. QED
    BY <1>1, <2>1, SessionLaunchAssumption DEF Inv, Counts
<1>6. Presses'
  BY <1>1, <1>2, <1>3, PressesKept DEF Inv
<1>7. Lines'
  <2>1. ~exited' => ~exited /\ \A i \in Ids : UnderWay(i, {"echo"}) => UnderWay(i, {"echo"})'
    BY <1>1 DEF UnderWay
  <2>2. QED
    BY <1>1, <2>1, LinesKept DEF Inv
<1>8. Told'
  BY <1>1, ToldSettle DEF Inv
<1>9. QED
  BY <1>2, <1>4, <1>5, <1>6, <1>7, <1>8 DEF Inv

\* A delivery that goes on, from a stage to a later one, and types nothing.
LEMMA StagedInv ==
  ASSUME Inv, launchQueue # <<>>, stage' \in Stages,
         UNCHANGED <<launchLedger, launchQueue, attempt, callers, exited, typed, shell>>,
         \/ stage = "idle" /\ stage' = "quiet"
         \/ stage = "submitted" /\ stage' = "started"
  PROVE  Inv'
<1>1. UNCHANGED <<request, asked, told, typed, prompt, echoes, agent, ran, exited>>
  BY DEF callers, shell
<1>2. \A i, o : Has(i, o)' <=> Has(i, o)
  BY DEF Has
<1>3. current' = current
  BY DEF current
<1>4. /\ \A i \in Ids : UnderWay(i, {"echo"})' <=> UnderWay(i, {"echo"})
      /\ \A i \in Ids : UnderWay(i, Submitted)' <=> UnderWay(i, Submitted)
  BY <1>3 DEF UnderWay, Submitted
<1>5. /\ \A i \in Ids : Unpressed(i)' => Unpressed(i)
      /\ \A i \in Ids : Pressed(i)' => Pressed(i)
  BY <1>2, <1>4 DEF Unpressed, Pressed
<1>6. Shape' /\ Told'
  BY <1>1, ToldKept DEF Inv, Shape
<1>7. Counts'
  <2>1. Entries' = Entries
    BY DEF Entries
  <2>2. QED
    BY <1>1, <2>1 DEF Inv, Counts
<1>8. Queued'
  BY <1>2 DEF Inv, Queued
<1>9. QED
  BY <1>1, <1>4, <1>5, <1>6, <1>7, <1>8, PressesKept, LinesKept DEF Inv

LEMMA BeginInv == Inv /\ BeginDelivery => Inv'
BY StagedInv DEF BeginDelivery, Stages, Inv

LEMMA SeeReadyInv == Inv /\ SeeReady => Inv'
BY StagedInv DEF SeeReady, Stages, Inv, Queued

LEMMA ReadyTimeoutInv == Inv /\ ReadyTimeout => Inv'
BY SettledInv DEF ReadyTimeout, Inv, Queued

LEMMA FailExitedInv == Inv /\ FailExited => Inv'
BY SettledInv DEF FailExited

LEMMA ReadTypedInv == Inv /\ ReadTyped => Inv'
<1> SUFFICES ASSUME Inv, ReadTyped PROVE Inv'
  OBVIOUS
<1>1. UNCHANGED <<host, request, asked, told>>
  BY DEF ReadTyped, callers
<1>2. Shape' /\ Presses' /\ Lines'
  BY ReadShape, ReadPresses, ReadLines DEF Inv
<1>3. Counts' /\ Queued' /\ Told'
  BY <1>1, HostKept, ToldKept DEF Inv, Counts
<1>4. QED
  BY <1>2, <1>3 DEF Inv

LEMMA AgentExitsInv == Inv /\ AgentExits => Inv'
<1> SUFFICES ASSUME Inv, AgentExits PROVE Inv'
  OBVIOUS
<1>1. /\ UNCHANGED <<host, request, asked, told, exited, typed, prompt, ran>>
      /\ agent' = FALSE
  BY DEF AgentExits, callers
<1>2. \A i \in Ids : UnderWay(i, {"echo"})' <=> UnderWay(i, {"echo"})
  BY <1>1, HostKept
<1>3. Shape' /\ Counts' /\ Queued' /\ Told' /\ Presses'
  BY <1>1, HostKept, ToldKept, PressesKept DEF Inv, Shape, Counts
<1>4. Lines'
  <2>1. \A first, last : NoClear(first, last)' <=> NoClear(first, last)
    BY <1>1 DEF NoClear
  <2>2. prompt \subseteq Ids /\ \A m \in DOMAIN typed : typed[m].id \in Ids
    BY TypedShape DEF Inv, Shape
  <2>3. RunsItsOwnLine'
    BY <1>1 DEF Inv, Lines, RunsItsOwnLine
  <2>4. QED
    BY <1>1, <1>2, <2>1, <2>2, <2>3 DEF Inv, Lines
<1>5. QED
  BY <1>3, <1>4 DEF Inv

LEMMA ProcessExitsInv == Inv /\ ProcessExits => Inv'
<1> SUFFICES ASSUME Inv, ProcessExits PROVE Inv'
  OBVIOUS
<1>1. /\ UNCHANGED <<host, request, asked, told, typed, prompt, echoes, agent, ran>>
      /\ exited' = TRUE
  BY DEF ProcessExits, callers, shell
<1>2. Shape' /\ Counts' /\ Queued' /\ Told' /\ Presses'
  BY <1>1, HostKept, ToldKept, PressesKept DEF Inv, Shape, Counts
<1>3. Lines'
  BY <1>1, HostKept, LinesKept DEF Inv
<1>4. QED
  BY <1>2, <1>3 DEF Inv

\* What is typed for the launch under way.
LEMMA TextShape ==
  ASSUME Inv, launchQueue # <<>>, NEW kind \in Clears \cup {"command"}
  PROVE  text(kind) = [kind |-> kind, id |-> current] /\ text(kind) \in Texts /\ current \in Ids
BY HeadIsPending DEF Inv, text, Texts

LEMMA OutputQuietInv == Inv /\ OutputQuiet => Inv'
<1> SUFFICES ASSUME Inv, OutputQuiet PROVE Inv'
  OBVIOUS
<1>1. /\ UNCHANGED <<callers, exited, shell>> /\ ~exited
      /\ UNCHANGED <<request, asked, told, prompt, echoes, agent, ran>>
  BY DEF OutputQuiet, callers, shell
<1>2. CASE /\ stage = "quiet" /\ stage' = "echo" /\ attempt' = 1
           /\ typed' = Append(typed, text("command"))
           /\ UNCHANGED <<launchLedger, launchQueue>>
  <2>1. launchQueue # <<>> /\ current' = current
    BY <1>2 DEF Inv, Queued, current
  <2>2. /\ text("command") = [kind |-> "command", id |-> current]
        /\ text("command") \in Texts /\ current \in Ids /\ Has(current, "pending")
    BY <2>1, TextShape, HeadIsPending DEF Inv
  <2>3. TypesMore /\ New = {Len(typed')} /\ typed'[Len(typed')] = text("command")
    BY <1>2, <2>2, AppendTypes DEF Inv
  <2>4. \A i, o : Has(i, o)' <=> Has(i, o)
    BY <1>2 DEF Has
  <2>5. /\ \A i \in Ids : UnderWay(i, {"echo"})' <=> i = current
        /\ \A i \in Ids : ~UnderWay(i, {"echo"})
        /\ \A i \in Ids : ~UnderWay(i, Submitted)' /\ ~UnderWay(i, Submitted)
    BY <1>2, <2>1 DEF UnderWay, Submitted
  <2>6. /\ \A i \in Ids : Unpressed(i)' => Unpressed(i)
        /\ \A i \in Ids : Pressed(i)' => Pressed(i)
    BY <1>2, <2>2, <2>4, <2>5 DEF Unpressed, Pressed, Has
  <2>7. \A n \in New : /\ typed'[n].kind = "command" /\ typed'[n].kind \notin Entering
                       /\ typed'[n].id = current
    BY <2>2, <2>3 DEF Entering
  <2>8. Presses'
    BY <1>1, <2>3, <2>6, <2>7, PressesTyped DEF Inv
  <2>9. Lines'
    <3>1. \A n \in New : UnderWay(typed[n].id, {"echo"})'
      BY <2>2, <2>5, <2>7
    <3>2. QED
      BY <1>1, <2>3, <2>5, <2>7, <3>1, LinesTyped DEF Inv
  <2>10. Shape' /\ Queued' /\ Told'
    BY <1>1, <1>2, <2>1, <2>3, <2>4, ToldKept DEF Inv, Shape, Stages, TypesMore, Queued
  <2>11. Counts'
    BY <1>1, <1>2, SessionLaunchAssumption DEF Inv, Counts, Entries
  <2>12. QED
    BY <2>8, <2>9, <2>10, <2>11 DEF Inv
<1>3. CASE /\ stage = "started" /\ stage' = "followed"
           /\ typed' = Append(typed, text("follow-up"))
           /\ UNCHANGED <<launchLedger, launchQueue, attempt>>
  <2>1. launchQueue # <<>> /\ current' = current
    BY <1>3 DEF Inv, Queued, current
  <2>2. text("follow-up") \in Texts /\ text("follow-up").kind = "follow-up"
    BY <2>1, TextShape DEF Clears, Entering
  <2>3. TypesMore /\ New = {Len(typed')} /\ typed'[Len(typed')].kind = "follow-up"
    BY <1>3, <2>2, AppendTypes DEF Inv
  <2>4. \A i, o : Has(i, o)' <=> Has(i, o)
    BY <1>3 DEF Has
  <2>5. \A i \in Ids : UnderWay(i, Submitted)' <=> UnderWay(i, Submitted)
    BY <1>3, <2>1 DEF UnderWay, Submitted
  <2>6. /\ \A i \in Ids : Unpressed(i)' => Unpressed(i)
        /\ \A i \in Ids : Pressed(i)' => Pressed(i)
    BY <1>3, <2>4, <2>5 DEF Unpressed, Pressed
  <2>7. \A n \in New : typed'[n].kind = "follow-up"
    BY <2>3
  <2>8. Presses'
    BY <1>1, <2>3, <2>6, <2>7, PressesTyped DEF Inv
  <2>9. Lines'
    BY <1>1, <1>3, <2>1, LinesEntering DEF Inv, Entering
  <2>10. Shape' /\ Queued' /\ Told' /\ Counts'
    BY <1>1, <1>3, <2>1, <2>3, <2>4, ToldKept
    DEF Inv, Shape, Stages, TypesMore, Queued, Counts, Entries
  <2>11. QED
    BY <2>8, <2>9, <2>10 DEF Inv
<1>4. CASE stage = "followed" /\ Settle("ok") /\ UNCHANGED typed
  BY <1>1, <1>4, SettledInv DEF Inv, Queued, Submitted
<1>5. QED
  BY <1>2, <1>3, <1>4 DEF OutputQuiet

LEMMA SeeEchoInv == Inv /\ SeeEcho => Inv'
<1> SUFFICES ASSUME Inv, SeeEcho PROVE Inv'
  OBVIOUS
<1>1. UNCHANGED <<request, asked, told, exited, prompt, agent, ran>> /\ ~exited
  BY DEF SeeEcho, callers
<1>2. CASE UNCHANGED <<host, typed>>
  <2>1. Shape' /\ Counts' /\ Queued' /\ Told' /\ Presses'
    BY <1>1, <1>2, HostKept, ToldKept, PressesKept DEF Inv, Shape, Counts
  <2>2. Lines'
    BY <1>1, <1>2, HostKept, LinesKept DEF Inv
  <2>3. QED
    BY <2>1, <2>2 DEF Inv
<1>3. CASE /\ stage = "echo"
           /\ typed' = Append(typed, text("enter"))
           /\ IF launchLedger[current].input \in Followed
              THEN stage' = "submitted" /\ UNCHANGED <<launchLedger, launchQueue, attempt>>
              ELSE Settle("ok")
  <2>1. launchQueue # <<>> /\ current \in Ids /\ Has(current, "pending")
    BY <1>3, HeadIsPending DEF Inv, Queued
  <2>2. CASE stage' = "submitted" /\ UNCHANGED <<launchLedger, launchQueue, attempt>>
    <3>1. \A i, o : Has(i, o)' <=> Has(i, o)
      BY <2>2 DEF Has
    <3>2. /\ \A i \in Ids : UnderWay(i, Submitted)' <=> i = current
          /\ \A i \in Ids : ~UnderWay(i, Submitted)
      BY <1>3, <2>2 DEF UnderWay, Submitted, current
    <3>3. /\ \A i \in Ids : Unpressed(i)' => Unpressed(i) /\ i # current
          /\ \A i \in Ids : Pressed(i)' => Pressed(i) \/ i = current
      BY <2>1, <2>2, <3>1, <3>2 DEF Unpressed, Pressed, Has
    <3>4. typed' \in Seq(Texts) /\ Presses' /\ Lines'
      BY <1>1, <1>3, <2>2, <3>3, PressEnter DEF Inv
    <3>5. Shape'
      BY <1>1, <2>2, <3>4 DEF Inv, Shape, Stages
    <3>6. Queued' /\ Told' /\ Counts'
      BY <1>1, <2>1, <2>2, <3>1, <1>3, ToldKept DEF Inv, Queued, Counts, Entries
    <3>7. QED
      BY <3>4, <3>5, <3>6 DEF Inv
  <2>3. CASE Settle("ok")
    <3>1. stage' = "idle" /\ attempt' = 0
      BY <2>3 DEF Settle
    <3>2. /\ launchQueue' \in Seq(Ids) /\ Queued'
          /\ \A i \in Ids : Unpressed(i)' => Unpressed(i) /\ i # current
          /\ \A i \in Ids : Pressed(i)' => Has(i, "ok") \/ i = current
      BY <2>1, <2>3, SettleQueue DEF Inv
    <3>3. \A i \in Ids : Pressed(i)' => Pressed(i) \/ i = current
      BY <3>2 DEF Pressed
    <3>4. typed' \in Seq(Texts) /\ Presses' /\ Lines'
      BY <1>1, <1>3, <3>1, <3>2, <3>3, PressEnter DEF Inv
    <3>5. launchLedger' \in [Ids -> Entry \cup {Nothing}] /\ Entries' = Entries
      BY <2>1, <2>3, SettleLedger DEF Inv, Entries, Has
    <3>6. Shape'
      BY <1>1, <3>1, <3>2, <3>4, <3>5 DEF Inv, Shape, Stages
    <3>7. Told' /\ Counts'
      BY <1>1, <2>1, <2>3, <3>1, <3>5, ToldSettle, SessionLaunchAssumption DEF Inv, Counts
    <3>8. QED
      BY <3>2, <3>4, <3>6, <3>7 DEF Inv
  <2>4. QED
    BY <1>3, <2>2, <2>3
<1>4. QED
  BY <1>2, <1>3 DEF SeeEcho

LEMMA VerifyTimeoutInv == Inv /\ VerifyTimeout => Inv'
<1> SUFFICES ASSUME Inv, VerifyTimeout PROVE Inv'
  OBVIOUS
<1>1. /\ UNCHANGED <<request, asked, told, exited, prompt, agent, ran>>
      /\ stage = "echo" /\ ~exited
  BY DEF VerifyTimeout, callers, shell
<1>2. launchQueue # <<>> /\ current \in Ids /\ Has(current, "pending")
  BY <1>1, HeadIsPending DEF Inv, Queued
<1>3. /\ text("kill-line") \in Texts /\ text("kill-line").kind = "kill-line"
      /\ text("command") \in Texts /\ text("command") = [kind |-> "command", id |-> current]
  BY <1>2, TextShape DEF Clears
<1>4. CASE typed' = Append(typed, text("kill-line")) /\ Settle("failed")
  <2>1. TypesMore /\ New = {Len(typed')} /\ typed'[Len(typed')].kind = "kill-line"
    BY <1>3, <1>4, AppendTypes DEF Inv
  <2>2. stage' = "idle" /\ attempt' = 0
    BY <1>4 DEF Settle
  <2>3. /\ launchQueue' \in Seq(Ids) /\ Queued'
        /\ \A i \in Ids : Unpressed(i)' => Unpressed(i)
        /\ \A i \in Ids : Pressed(i)' => Has(i, "ok")
    BY <1>2, <1>4, SettleQueue DEF Inv
  <2>4. \A i \in Ids : Pressed(i)' => Pressed(i)
    BY <2>3 DEF Pressed
  <2>5. \A n \in New : typed'[n].kind = "kill-line" /\ typed'[n].kind \notin Entering
    BY <2>1 DEF Entering
  <2>6. Presses'
    BY <1>1, <2>1, <2>3, <2>4, <2>5, PressesTyped DEF Inv
  <2>7. Lines'
    BY <1>1, <2>1, <2>5, LinesTyped DEF Inv
  <2>8. launchLedger' \in [Ids -> Entry \cup {Nothing}] /\ Entries' = Entries
    BY <1>2, <1>4, SettleLedger DEF Inv, Entries, Has
  <2>9. Shape'
    BY <1>1, <2>1, <2>2, <2>3, <2>8 DEF Inv, Shape, Stages, TypesMore
  <2>10. Told' /\ Counts'
    BY <1>1, <1>2, <1>4, <2>2, <2>8, ToldSettle, SessionLaunchAssumption DEF Inv, Counts
  <2>11. QED
    BY <2>3, <2>6, <2>7, <2>9, <2>10 DEF Inv
<1>5. CASE /\ typed' = typed \o <<text("kill-line"), text("command")>>
           /\ attempt < Attempts /\ attempt' = attempt + 1
           /\ UNCHANGED <<launchLedger, launchQueue, stage>>
  <2>1. /\ TypesMore /\ New = {Len(typed') - 1, Len(typed')}
        /\ typed'[Len(typed') - 1] = text("kill-line") /\ typed'[Len(typed')] = text("command")
    BY <1>3, <1>5, TwoTypes DEF Inv
  <2>2. current' = current
    BY <1>5 DEF current
  <2>3. \A i, o : Has(i, o)' <=> Has(i, o)
    BY <1>5 DEF Has
  <2>4. \A i, stages : UnderWay(i, stages)' <=> UnderWay(i, stages)
    BY <1>5, <2>2 DEF UnderWay
  <2>5. /\ \A i \in Ids : Unpressed(i)' => Unpressed(i)
        /\ \A i \in Ids : Pressed(i)' => Pressed(i)
    BY <1>5, <2>3, <2>4 DEF Unpressed, Pressed
  <2>6. \A n \in New : /\ typed'[n].kind # "enter" /\ typed'[n].kind \notin Entering
                       /\ typed'[n].kind = "command" => typed'[n].id = current
    BY <1>3, <2>1 DEF Entering
  <2>7. UnderWay(current, {"echo"})
    BY <1>1 DEF UnderWay
  <2>8. \A i \in Ids : i = current => UnderWay(i, {"echo"})'
    BY <2>4, <2>7
  <2>9. \A n \in New : typed'[n].kind = "command" => UnderWay(typed[n].id, {"echo"})'
    BY <1>2, <2>6, <2>8
  <2>10. Presses' /\ Lines'
    BY <1>1, <2>1, <2>4, <2>5, <2>6, <2>9, PressesTyped, LinesTyped DEF Inv
  <2>11. Shape' /\ Queued' /\ Told'
    BY <1>1, <1>5, <2>1, <2>3, ToldKept DEF Inv, Shape, TypesMore, Queued
  <2>12. Counts'
    BY <1>1, <1>5, SessionLaunchAssumption DEF Inv, Counts, Entries
  <2>13. QED
    BY <2>10, <2>11, <2>12 DEF Inv
<1>6. attempt \in Nat /\ Attempts \in Nat
  BY SessionLaunchAssumption DEF Inv, Counts
<1>7. QED
  BY <1>4, <1>5, <1>6 DEF VerifyTimeout

LEMMA NextInv == Inv /\ [Next]_vars => Inv'
<1> SUFFICES ASSUME Inv, [Next]_vars PROVE Inv'
  OBVIOUS
<1>1. ASSUME NEW c \in Callers, NEW i \in Ids, NEW x \in Inputs,
             RefuseLaunch(c, i, x) \/ JoinLaunch(c, i, x) \/ ExecuteLaunch(c, i, x)
      PROVE  Inv'
  BY <1>1, AskedInv, ExecuteInv
<1>2. ASSUME NEW c \in Callers, AnswerLaunch(c) PROVE Inv'
  BY <1>2, AnswerInv
<1>3. CASE Delivery
  BY <1>3, BeginInv, OutputQuietInv, SeeEchoInv, VerifyTimeoutInv, SeeReadyInv,
     ReadyTimeoutInv, FailExitedInv DEF Delivery
<1>4. CASE ReadTyped \/ AgentExits \/ ProcessExits
  BY <1>4, ReadTypedInv, AgentExitsInv, ProcessExitsInv
<1>5. CASE UNCHANGED vars
  <2>1. UNCHANGED <<host, request, asked, told, exited, typed, prompt, echoes, agent, ran>>
    BY <1>5 DEF vars, callers, shell
  <2>2. Shape' /\ Counts' /\ Queued' /\ Told' /\ Presses'
    BY <2>1, HostKept, ToldKept, PressesKept DEF Inv, Shape, Counts
  <2>3. Lines'
    BY <2>1, HostKept, LinesKept DEF Inv
  <2>4. QED
    BY <2>2, <2>3 DEF Inv
<1>6. QED
  BY <1>1, <1>2, <1>3, <1>4, <1>5 DEF Next

LEMMA Invariance == Spec => []Inv
BY InitInv, NextInv, PTL DEF Spec

-----------------------------------------------------------------------------
(* The theorems.                                                             *)

\* The state is well typed, the ledger stays below its cap, and the pending
\* entries are the queued launches (session.ts launchLedger, launchQueue).
THEOREM TypeCorrect == Spec => []TypeOK
<1>1. Inv => TypeOK
  <2> SUFFICES ASSUME Inv PROVE TypeOK
    OBVIOUS
  <2>1. {i \in Entries : launchLedger[i].outcome = "pending"}
          = {launchQueue[n] : n \in DOMAIN launchQueue}
    <3>1. \A n \in DOMAIN launchQueue : launchQueue[n] \in Ids
      BY DEF Inv, Shape
    <3>2. \A i \in Ids : (i \in Entries /\ launchLedger[i].outcome = "pending")
                           <=> \E n \in DOMAIN launchQueue : launchQueue[n] = i
      BY DEF Inv, Queued, Has, Entries
    <3>3. Entries \subseteq Ids
      BY DEF Entries
    <3>4. QED
      BY <3>1, <3>2, <3>3
  <2>2. QED
    BY <2>1 DEF Inv, Shape, Counts, TypeOK
<1>2. QED
  BY <1>1, Invariance, PTL

\* A set with at most one element.
LEMMA AtMostOne ==
  ASSUME NEW S, \A m, n \in S : m = n
  PROVE  Cardinality(S) = IF S = {} THEN 0 ELSE 1
<1>1. CASE S = {}
  BY <1>1, FS_EmptySet
<1>2. CASE S # {}
  <2>1. PICK m : m \in S
    BY <1>2
  <2>2. S = {m}
    BY <2>1
  <2>3. QED
    BY <1>2, <2>2, FS_Singleton
<1>3. QED
  BY <1>1, <1>2

LEMMA PressedCount ==
  ASSUME Inv, NEW i \in Ids
  PROVE  pressed(i) = IF TypedEnter(i) = {} /\ RanEnter(i) = {} THEN 0 ELSE 1
<1>1. /\ Cardinality(TypedEnter(i)) = IF TypedEnter(i) = {} THEN 0 ELSE 1
      /\ Cardinality(RanEnter(i)) = IF RanEnter(i) = {} THEN 0 ELSE 1
  BY AtMostOne DEF Inv, Presses
<1>2. TypedEnter(i) = {} \/ RanEnter(i) = {}
  BY DEF Inv, Presses
<1>3. pressed(i) = Cardinality(RanEnter(i)) + Cardinality(TypedEnter(i))
  BY DEF pressed, RanEnter, TypedEnter
<1>4. QED
  BY <1>1, <1>2, <1>3

\* However often a launch is asked for and retyped, it presses enter at most once
\* (session.ts executeLaunch and deliverVerifiedCommand).
THEOREM AtMostOneEnter == Spec => []LaunchedAtMostOnce
<1>1. Inv => LaunchedAtMostOnce
  BY PressedCount DEF LaunchedAtMostOnce
<1>2. QED
  BY <1>1, Invariance, PTL

\* The line that its enter or its follow-up text ends holds nothing but its own
\* command, whoever's echo it took for its own (session.ts launchQueue and the
\* kill-line of a retry).
THEOREM OwnLine == Spec => []RunsItsOwnLine
<1>1. Inv => RunsItsOwnLine
  BY DEF Inv, Lines
<1>2. QED
  BY <1>1, Invariance, PTL

\* Whoever is told that a launch was executed asked for what was entered, and
\* nobody is told that it failed (session.ts executeLaunch and its ledger).
THEOREM AnswersAreConsistent == Spec => []AnswersAgree
<1>1. Inv => AnswersAgree
  <2> SUFFICES ASSUME Inv, NEW a \in told, a.verdict = "executed"
               PROVE  /\ pressed(a.id) = 1 /\ launchLedger[a.id].input = a.input
                      /\ Answer(a.id, a.input, "failed") \notin told
    BY DEF AnswersAgree
  <2>1. a.id \in Ids
    BY DEF Inv, Shape, Answers
  <2>2. Has(a.id, "ok") /\ launchLedger[a.id].input = a.input
    BY DEF Inv, Told
  <2>3. pressed(a.id) = 1
    BY <2>1, <2>2, PressedCount DEF Inv, Presses, Pressed
  <2>4. ASSUME Answer(a.id, a.input, "failed") \in told PROVE FALSE
    <3>1. Answer(a.id, a.input, "failed").id = a.id /\ Answer(a.id, a.input, "failed").verdict = "failed"
      BY DEF Answer
    <3>2. Has(a.id, "failed")
      BY <2>4, <3>1 DEF Inv, Told
    <3>3. QED
      BY <2>2, <3>2 DEF Has
  <2>5. QED
    BY <2>2, <2>3, <2>4
<1>2. QED
  BY <1>1, Invariance, PTL
=============================================================================

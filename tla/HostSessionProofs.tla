-------------------------- MODULE HostSessionProofs --------------------------
(***************************************************************************)
(* Theorems about HostSession for any connections, sizes, water marks and  *)
(* bounds: who keeps the process paused still can let it go, a connection  *)
(* that closed leaves nothing behind, a viewer sees each chunk once, the   *)
(* terminal fits its viewers and nobody waits for work that is not queued. *)
(***************************************************************************)
EXTENDS HostSession, TLAPS, FiniteSetTheorems, WellFoundedInduction

-----------------------------------------------------------------------------
(* The inductive invariant.                                                  *)

\* The actuator follows the owners; the emulator owns a pause above its marks.
Flow == proc = "live" => procPaused = HasPauseOwner
Emulator == IF emulatorPauseOwner THEN QueuedOutput > Low ELSE QueuedOutput < High

\* Each waiter waits for one piece of work, of the kind its phase says.
WaitsFor(s, kind) ==
  \/ kind = "geometry" /\ phase[s] \in {"waiting", "claiming", "restoring"}
  \/ kind = "serialize" /\ phase[s] = "reading" /\ Attaching(s)

Orderly(tail) ==
  /\ \A i \in DOMAIN tail : \A s \in tail[i].waiters :
       /\ WaitsFor(s, tail[i].kind)
       /\ \A j \in DOMAIN tail : s \in tail[j].waiters => j = i
  /\ \A i \in DOMAIN tail : tail[i].kind = "serialize" => tail[i].waiters # {}

Waiting ==
  /\ \A s \in Sockets : phase[s] \in Phases \ {"idle", "waiting"} <=> Attaching(s)
  /\ Orderly(outputTail)

Clean(s) ==
  /\ s \notin subscribers \cup explicitPauseOwners \cup transportPauseOwners
  /\ geometryClaims[s] = Unclaimed

\* An attach that was cancelled has nothing left; one that was not restores what
\* the connection has a right to.
Cancelled == attach # None /\ ~ Current(attach.socket) => Clean(attach.socket)

Restores ==
  attach # None /\ Current(attach.socket) =>
    LET s == attach.socket
    IN  /\ attach.subscribed <=> s \in subscribers
        /\ attach.explicitPaused => attach.subscribed
        /\ conn[s] = "closed" /\ ~ disposed => ~ attach.subscribed /\ attach.geometry = Unclaimed
        /\ phase[s] = "restoring" =>
             /\ s \in explicitPauseOwners => attach.subscribed
             /\ conn[s] = "closed" /\ ~ disposed => geometryClaims[s] = Unclaimed
        /\ attach.paused /\ phase[s] # "restoring" /\ ~ disposed => s \in explicitPauseOwners

Attached == Cancelled /\ Restores /\ (attach # None => attach.epoch <= attachmentEpochs[attach.socket])

\* Who holds a ticket.
Held ==
  /\ \A s \in explicitPauseOwners : s \in subscribers \/ Attaching(s)
  /\ transportPauseOwners \subseteq subscribers \cap needDrain
  /\ \A s \in transportPauseOwners : conn[s] # "closed"
  /\ IF disposed THEN transportPauseOwners = {}
     ELSE subscribers \cap needDrain \subseteq transportPauseOwners

Inv ==
  /\ TypeOK /\ Flow /\ Emulator /\ Waiting /\ Attached /\ Held
  /\ NoGhostViewer /\ NoGapNoRepeat

-----------------------------------------------------------------------------
(* Sizes.                                                                    *)

LEMMA SmallestIsOne ==
  ASSUME NEW S \in SUBSET Nat, S # {}
  PROVE  \E m \in S : \A k \in S : m <= k
<1> DEFINE less == OpToRel(<, Nat)
<1>1. \A m, k \in Nat : k < m => <<k, m>> \in less
  BY DEF OpToRel
<1>2. \E m \in S : \A k \in S : ~ (<<k, m>> \in less)
  BY NatLessThanWellFounded, WFMin
<1> HIDE DEF less
<1>3. PICK m \in S : \A k \in S : ~ (<<k, m>> \in less)
  BY <1>2
<1>4. ASSUME NEW k \in S PROVE m <= k
  <2>1. m \in Nat /\ k \in Nat /\ ~ (k < m)
    BY <1>1, <1>3, <1>4
  <2>2. QED
    BY <2>1
<1>5. QED
  BY <1>3, <1>4

LEMMA MinIsOne ==
  ASSUME NEW S \in SUBSET Nat, S # {}
  PROVE  Min(S) \in S
BY SmallestIsOne DEF Min

LEMMA MaxIsOne ==
  ASSUME NEW n \in Nat, NEW S \in SUBSET (1 .. n), S # {}
  PROVE  Max(S) \in S
<1> DEFINE T == {n - x : x \in S}
<1>1. T \in SUBSET Nat /\ T # {}
  <2>1. \A x \in S : n - x \in Nat
    OBVIOUS
  <2>2. QED
    BY <2>1
<1>2. PICK m \in T : \A k \in T : m <= k
  BY <1>1, SmallestIsOne
<1>3. PICK x \in S : m = n - x
  BY <1>2
<1>4. ASSUME NEW y \in S PROVE x >= y
  <2>1. m <= n - y
    BY <1>2, <1>4
  <2>2. QED
    BY <1>3, <2>1
<1>5. QED
  BY <1>4 DEF Max

LEMMA EffectiveIsSize ==
  ASSUME NEW claims \in [Sockets -> Sizes \cup {Unclaimed}]
  PROVE  EffectiveGeometry(claims) \in Sizes \cup {Unclaimed}
<1> DEFINE held == {claims[s] : s \in Sockets} \ {Unclaimed}
           cols == {g[1] : g \in held}
           rows == {g[2] : g \in held}
<1>1. held \subseteq Sizes
  OBVIOUS
<1>2. cols \subseteq Nat \ {0} /\ rows \subseteq Nat \ {0}
  BY <1>1 DEF Sizes
<1>3. EffectiveGeometry(claims) = IF held = {} THEN Unclaimed ELSE <<Min(cols), Min(rows)>>
  BY DEF EffectiveGeometry
<1>4. ASSUME held # {} PROVE <<Min(cols), Min(rows)>> \in Sizes
  <2>1. cols # {} /\ rows # {} /\ cols \in SUBSET Nat /\ rows \in SUBSET Nat
    BY <1>2, <1>4
  <2>2. Min(cols) \in cols /\ Min(rows) \in rows
    BY <2>1, MinIsOne
  <2>3. Min(cols) \in Nat \ {0} /\ Min(rows) \in Nat \ {0}
    BY <1>2, <2>2
  <2>4. QED
    BY <2>3 DEF Sizes
<1>5. QED
  BY <1>3, <1>4

-----------------------------------------------------------------------------
(* The emulator's queue.                                                     *)

Writes(tail) == Cardinality(At(tail, "write"))

LEMMA WritesCount ==
  ASSUME NEW tail \in Seq(Work)
  PROVE  IsFiniteSet(At(tail, "write")) /\ Writes(tail) \in Nat
<1>1. At(tail, "write") \in SUBSET (1 .. Len(tail)) /\ Len(tail) \in Nat
  BY DEF At
<1>2. IsFiniteSet(1 .. Len(tail))
  BY <1>1, FS_Interval
<1>3. IsFiniteSet(At(tail, "write"))
  BY <1>1, <1>2, FS_Subset
<1>4. QED
  BY <1>3, FS_CardinalityType DEF Writes

LEMMA Appended ==
  ASSUME NEW tail \in Seq(Work), NEW w \in Work
  PROVE  /\ Append(tail, w) \in Seq(Work)
         /\ Len(tail) \in Nat /\ DOMAIN tail = 1 .. Len(tail)
         /\ DOMAIN Append(tail, w) = 1 .. Len(tail) + 1
         /\ Append(tail, w)[Len(tail) + 1] = w
         /\ \A i \in 1 .. Len(tail) : Append(tail, w)[i] = tail[i]
         /\ Writes(Append(tail, w)) = Writes(tail) + (IF w.kind = "write" THEN 1 ELSE 0)
<1>1. /\ Append(tail, w) \in Seq(Work)
      /\ Len(tail) \in Nat /\ DOMAIN tail = 1 .. Len(tail)
      /\ DOMAIN Append(tail, w) = 1 .. Len(tail) + 1
      /\ Append(tail, w)[Len(tail) + 1] = w
      /\ \A i \in 1 .. Len(tail) : Append(tail, w)[i] = tail[i]
  OBVIOUS
<1>2. At(Append(tail, w), "write") =
        At(tail, "write") \cup (IF w.kind = "write" THEN {Len(tail) + 1} ELSE {})
  BY <1>1 DEF At
<1>3. Len(tail) + 1 \notin At(tail, "write")
  BY <1>1 DEF At
<1>4. IsFiniteSet(At(tail, "write")) /\ Writes(tail) \in Nat
  BY WritesCount
<1>5. CASE w.kind = "write"
  BY <1>1, <1>2, <1>3, <1>4, <1>5, FS_AddElement DEF Writes
<1>6. CASE w.kind # "write"
  <2>1. At(Append(tail, w), "write") = At(tail, "write")
    BY <1>2, <1>6
  <2>2. QED
    BY <1>1, <1>4, <1>6, <2>1 DEF Writes
<1>7. QED
  BY <1>1, <1>5, <1>6

LEMMA Served ==
  ASSUME NEW tail \in Seq(Work), tail # <<>>
  PROVE  /\ Tail(tail) \in Seq(Work) /\ Head(tail) = tail[1] /\ Head(tail) \in Work
         /\ Len(tail) \in Nat \ {0} /\ DOMAIN tail = 1 .. Len(tail)
         /\ DOMAIN Tail(tail) = 1 .. Len(tail) - 1
         /\ \A i \in 1 .. Len(tail) - 1 : Tail(tail)[i] = tail[i + 1]
         /\ Writes(Tail(tail)) = Writes(tail) - (IF Head(tail).kind = "write" THEN 1 ELSE 0)
<1>1. /\ Tail(tail) \in Seq(Work) /\ Head(tail) = tail[1] /\ Head(tail) \in Work
      /\ Len(tail) \in Nat \ {0} /\ DOMAIN tail = 1 .. Len(tail)
      /\ DOMAIN Tail(tail) = 1 .. Len(tail) - 1
      /\ \A i \in 1 .. Len(tail) - 1 : Tail(tail)[i] = tail[i + 1]
  OBVIOUS
<1> DEFINE S == At(tail, "write") \ {1}
           T == At(Tail(tail), "write")
           f == [i \in S |-> i - 1]
<1>2. S \subseteq 2 .. Len(tail) /\ T \subseteq 1 .. Len(tail) - 1
  BY <1>1 DEF At
<1>3. \A i \in 2 .. Len(tail) : i \in S <=> i - 1 \in T
  <2> SUFFICES ASSUME NEW i \in 2 .. Len(tail) PROVE i \in S <=> i - 1 \in T
    OBVIOUS
  <2>1. i - 1 \in 1 .. Len(tail) - 1 /\ (i - 1) + 1 = i /\ i # 1 /\ i \in 1 .. Len(tail)
    BY <1>1
  <2>2. Tail(tail)[i - 1] = tail[i]
    BY <1>1, <2>1
  <2>3. QED
    BY <1>1, <2>1, <2>2 DEF At
<1> HIDE DEF S, T
<1>4. f \in Bijection(S, T)
  <2>1. f \in [S -> T]
    BY <1>2, <1>3
  <2>2. \A i, j \in S : f[i] = f[j] => i = j
    BY <1>1, <1>2
  <2>3. ASSUME NEW t \in T PROVE \E i \in S : f[i] = t
    <3>1. t + 1 \in 2 .. Len(tail) /\ (t + 1) - 1 = t
      BY <1>1, <1>2
    <3>2. t + 1 \in S
      BY <1>3, <3>1, <2>3
    <3>3. QED
      BY <3>1, <3>2
  <2>4. QED
    BY <2>1, <2>2, <2>3 DEF Bijection, Injection, Surjection, IsInjective
<1>5. IsFiniteSet(At(tail, "write")) /\ Writes(tail) \in Nat
  BY WritesCount
<1>6. /\ IsFiniteSet(S)
      /\ Cardinality(S) = IF 1 \in At(tail, "write") THEN Writes(tail) - 1 ELSE Writes(tail)
  BY <1>5, FS_RemoveElement DEF S, Writes
<1>7. Cardinality(T) = Cardinality(S)
  BY <1>4, <1>6, FS_Bijection DEF ExistsBijection
<1>8. 1 \in At(tail, "write") <=> Head(tail).kind = "write"
  BY <1>1 DEF At
<1>9. QED
  BY <1>1, <1>5, <1>6, <1>7, <1>8 DEF Writes, T

\* In next, waiters wait for the resize at p, old or new.
Joins(tail, next, waiters, p) ==
  /\ p \in DOMAIN next /\ DOMAIN next = DOMAIN tail \cup {p}
  /\ next[p].kind = "geometry" /\ waiters \subseteq next[p].waiters
  /\ \A s \in next[p].waiters \ waiters : p \in DOMAIN tail /\ s \in tail[p].waiters
  /\ p \in DOMAIN tail => tail[p].kind = "geometry" /\ tail[p].waiters \subseteq next[p].waiters
  /\ \A i \in DOMAIN tail \ {p} : next[i] = tail[i]

LEMMA Joined ==
  ASSUME NEW tail \in Seq(Work), NEW claims \in [Sockets -> Sizes \cup {Unclaimed}],
         NEW waiters \in SUBSET Sockets, NEW next,
         next = ApplyEffectiveGeometry(tail, claims, waiters)
  PROVE  /\ next \in Seq(Work) /\ Writes(next) = Writes(tail)
         /\ \E p \in DOMAIN next : Joins(tail, next, waiters, p)
<1> DEFINE key == EffectiveGeometry(claims)
           last == Max(At(tail, "geometry"))
           w == [kind |-> "geometry", key |-> key, waiters |-> waiters]
<1>1. w \in Work
  BY EffectiveIsSize DEF Work
<1>2. Len(tail) \in Nat /\ DOMAIN tail = 1 .. Len(tail) /\ \A i \in DOMAIN tail : tail[i] \in Work
  OBVIOUS
<1>3. CASE At(tail, "geometry") # {} /\ tail[last].key = key
  <2>1. last \in At(tail, "geometry")
    <3>1. At(tail, "geometry") \in SUBSET (1 .. Len(tail))
      BY <1>2 DEF At
    <3>2. QED
      BY <1>2, <1>3, <3>1, MaxIsOne
  <2>2. last \in DOMAIN tail /\ tail[last].kind = "geometry" /\ tail[last] \in Work
    BY <1>2, <2>1 DEF At
  <2>3. next = [tail EXCEPT ![last] = [tail[last] EXCEPT !.waiters = @ \cup waiters]]
    BY <1>3 DEF ApplyEffectiveGeometry
  <2> HIDE DEF last, key
  <2> DEFINE new == [tail[last] EXCEPT !.waiters = @ \cup waiters]
  <2>4. new \in Work /\ new.kind = "geometry" /\ new.waiters = tail[last].waiters \cup waiters
    BY <2>2 DEF Work
  <2> HIDE DEF new
  <2>5. /\ next \in Seq(Work) /\ DOMAIN next = DOMAIN tail /\ next[last] = new
        /\ \A i \in DOMAIN tail \ {last} : next[i] = tail[i]
    BY <2>2, <2>3, <2>4 DEF new
  <2>6. At(next, "write") = At(tail, "write")
    BY <2>2, <2>4, <2>5 DEF At
  <2>7. next \in Seq(Work) /\ Writes(next) = Writes(tail)
    BY <2>5, <2>6 DEF Writes
  <2>8. Joins(tail, next, waiters, last)
    BY <2>2, <2>4, <2>5 DEF Joins
  <2>9. QED
    BY <2>2, <2>5, <2>7, <2>8
<1>4. CASE ~ (At(tail, "geometry") # {} /\ tail[last].key = key)
  <2>1. next = Append(tail, w)
    BY <1>4 DEF ApplyEffectiveGeometry
  <2>2. w.kind = "geometry" /\ w.waiters = waiters
    OBVIOUS
  <2> HIDE DEF w, last, key
  <2>3. /\ next \in Seq(Work) /\ DOMAIN next = 1 .. Len(tail) + 1 /\ next[Len(tail) + 1] = w
        /\ \A i \in 1 .. Len(tail) : next[i] = tail[i]
        /\ Writes(next) = Writes(tail) + 0
    BY <1>1, <2>1, <2>2, Appended
  <2>4. Len(tail) + 1 \in DOMAIN next /\ Len(tail) + 1 \notin DOMAIN tail
        /\ DOMAIN next = DOMAIN tail \cup {Len(tail) + 1} /\ Writes(next) = Writes(tail)
    BY <1>2, <2>3, WritesCount
  <2>5. Joins(tail, next, waiters, Len(tail) + 1)
    BY <1>2, <2>2, <2>3, <2>4 DEF Joins
  <2>6. QED
    BY <2>3, <2>4, <2>5
<1>5. QED
  BY <1>3, <1>4

-----------------------------------------------------------------------------
(* Types.                                                                    *)

Claims == [Sockets -> Sizes \cup {Unclaimed}]

LEMMA InvInit == Init => Inv
<1> SUFFICES ASSUME Init PROVE Inv
  OBVIOUS
<1>1. PICK s \in Sockets, g \in Geometries, paused \in BOOLEAN :
        /\ subscribers = {s}
        /\ explicitPauseOwners = IF paused THEN {s} ELSE {}
        /\ transportPauseOwners = {}
        /\ emulatorPauseOwner = FALSE
        /\ procPaused = paused
        /\ geometryClaims = [t \in Sockets |-> IF t = s THEN g ELSE Unclaimed]
        /\ appliedGeometry = g
        /\ attachmentEpochs = [t \in Sockets |-> IF t = s THEN 1 ELSE 0]
        /\ outputTail = <<>>
        /\ attach = None
        /\ phase = [t \in Sockets |-> "idle"]
        /\ conn = [t \in Sockets |-> "open"]
        /\ needDrain = {}
        /\ proc = "live" /\ exited = FALSE /\ disposed = FALSE
        /\ chunks = 0
        /\ seen = [t \in Sockets |-> 0]
  BY Zenon DEF Init
<1>2. g \in Sizes
  BY HostSessionAssumption
<1>3. TypeOK
  <2>1. geometryClaims \in [Sockets -> Sizes \cup {Unclaimed}]
    BY <1>1, <1>2
  <2>2. outputTail \in Seq(Work) /\ phase \in [Sockets -> Phases]
    BY <1>1 DEF Phases
  <2>3. QED
    BY <1>1, <1>2, <2>1, <2>2 DEF TypeOK
<1>4. Flow
  BY <1>1 DEF Flow, HasPauseOwner
<1>5. Emulator
  <2>1. Queued("write") = {}
    BY <1>1 DEF Queued, At
  <2>2. QueuedOutput = 0
    BY <2>1, FS_EmptySet DEF QueuedOutput
  <2>3. 0 < High
    BY HostSessionAssumption
  <2>4. QED
    BY <1>1, <2>2, <2>3 DEF Emulator
<1>6. Waiting /\ Attached
  BY <1>1 DEF Waiting, Attaching, Orderly, Attached, Cancelled, Restores
<1>7. Held /\ NoGhostViewer /\ NoGapNoRepeat
  BY <1>1 DEF Held, NoGhostViewer, NoGapNoRepeat
<1>8. QED
  BY <1>3, <1>4, <1>5, <1>6, <1>7 DEF Inv

LEMMA Reconciled ==
  ASSUME TypeOK, Flow, ReconcileProcFlow, UNCHANGED proc
  PROVE  procPaused' \in BOOLEAN /\ Flow'
<1>1. HasPauseOwner \in BOOLEAN /\ HasPauseOwner' \in BOOLEAN /\ procPaused \in BOOLEAN
  BY DEF HasPauseOwner, TypeOK
<1>2. CASE proc = "live"
  BY <1>1, <1>2 DEF Flow, ReconcileProcFlow
<1>3. CASE proc # "live"
  BY <1>1, <1>3 DEF Flow, ReconcileProcFlow
<1>4. QED
  BY <1>2, <1>3

LEMMA Regrown ==
  ASSUME TypeOK, geometryClaims' \in Claims, NEW s, NEW waiters \in SUBSET Sockets,
         outputTail' = Regrow(s, waiters)
  PROVE  /\ outputTail' \in Seq(Work) /\ Writes(outputTail') = Writes(outputTail)
         /\ \/ outputTail' = outputTail /\ geometryClaims[s] = Unclaimed
            \/ \E p \in DOMAIN outputTail' : Joins(outputTail, outputTail', waiters, p)
<1>1. CASE geometryClaims[s] = Unclaimed
  BY <1>1 DEF Regrow, TypeOK
<1>2. CASE geometryClaims[s] # Unclaimed
  <2>1. outputTail' = ApplyEffectiveGeometry(outputTail, geometryClaims', waiters)
    BY <1>2 DEF Regrow
  <2>2. outputTail \in Seq(Work)
    BY DEF TypeOK
  <2>3. QED
    BY <2>1, <2>2, Joined DEF Claims
<1>3. QED
  BY <1>1, <1>2

LEMMA Released ==
  ASSUME TypeOK, Flow, UNCHANGED proc, NEW s \in Sockets, NEW waiters \in SUBSET Sockets,
         Release(s, waiters)
  PROVE  /\ attachmentEpochs' = [attachmentEpochs EXCEPT ![s] = @ + 1]
         /\ attachmentEpochs' \in [Sockets -> Nat]
         /\ subscribers' = subscribers \ {s}
         /\ explicitPauseOwners' = explicitPauseOwners \ {s}
         /\ transportPauseOwners' = transportPauseOwners \ {s}
         /\ UNCHANGED emulatorPauseOwner /\ procPaused' \in BOOLEAN /\ Flow'
         /\ geometryClaims' = [geometryClaims EXCEPT ![s] = Unclaimed] /\ geometryClaims' \in Claims
         /\ outputTail' \in Seq(Work) /\ Writes(outputTail') = Writes(outputTail)
         /\ \/ outputTail' = outputTail /\ geometryClaims[s] = Unclaimed
            \/ \E p \in DOMAIN outputTail' : Joins(outputTail, outputTail', waiters, p)
         /\ seen' = [seen EXCEPT ![s] = 0] /\ seen' \in [Sockets -> Nat]
<1>1. procPaused' \in BOOLEAN /\ Flow'
  BY Reconciled DEF Release
<1>2. geometryClaims' = [geometryClaims EXCEPT ![s] = Unclaimed] /\ geometryClaims' \in Claims
  BY DEF Release, TypeOK, Claims
<1>3. outputTail' = Regrow(s, waiters)
  BY DEF Release
<1>4. QED
  BY <1>1, <1>2, <1>3, Regrown DEF Release, TypeOK

\* The queue of a request for a size.
LEMMA Requested ==
  ASSUME NEW tail \in Seq(Work), geometryClaims' \in Claims, NEW s \in Sockets,
         outputTail' = ApplyEffectiveGeometry(tail, geometryClaims', {s})
  PROVE  /\ outputTail' \in Seq(Work) /\ Writes(outputTail') = Writes(tail)
         /\ \E p \in DOMAIN outputTail' : Joins(tail, outputTail', {s}, p)
BY Joined DEF Claims

\* What rolling back an attach does.
LEMMA Restored ==
  ASSUME TypeOK, Flow, UNCHANGED proc, attach # None, NEW tail \in Seq(Work),
         RestoreAttachment(attach.socket, tail)
  PROVE  LET s == attach.socket
         IN  /\ outputTail' \in Seq(Work) /\ Writes(outputTail') = Writes(tail)
             /\ procPaused' \in BOOLEAN /\ Flow' /\ geometryClaims' \in Claims
             /\ UNCHANGED <<transportPauseOwners, emulatorPauseOwner>>
             /\ \/ /\ ~ Current(s) /\ outputTail' = tail /\ attach' = None
                   /\ phase' = [phase EXCEPT ![s] = "idle"]
                   /\ UNCHANGED <<subscribers, explicitPauseOwners, geometryClaims>>
                \/ /\ Current(s) /\ attach' = attach
                   /\ phase' = [phase EXCEPT ![s] = "restoring"]
                   /\ explicitPauseOwners' = Ticket(explicitPauseOwners, s, attach.explicitPaused)
                   /\ subscribers' = (IF attach.subscribed THEN subscribers \cup {s}
                                      ELSE subscribers \ {s})
                   /\ geometryClaims' = [geometryClaims EXCEPT ![s] = attach.geometry]
                   /\ \E p \in DOMAIN outputTail' : Joins(tail, outputTail', {s}, p)
<1> DEFINE s == attach.socket
<1>1. s \in Sockets /\ attach.geometry \in Sizes \cup {Unclaimed}
  BY DEF TypeOK, Attaches
<1>2. CASE ~ Current(s)
  <2>1. UNCHANGED <<flow, geometryClaims, subscribers>> /\ outputTail' = tail /\ attach' = None
        /\ phase' = [phase EXCEPT ![s] = "idle"]
    BY <1>2 DEF RestoreAttachment
  <2>2. Flow' /\ procPaused' \in BOOLEAN
    BY <2>1 DEF flow, Flow, HasPauseOwner, TypeOK
  <2>3. QED
    BY <1>2, <2>1, <2>2 DEF flow, TypeOK, Claims
<1>3. CASE Current(s)
  <2>1. /\ explicitPauseOwners' = Ticket(explicitPauseOwners, s, attach.explicitPaused)
        /\ subscribers' = (IF attach.subscribed THEN subscribers \cup {s} ELSE subscribers \ {s})
        /\ UNCHANGED <<transportPauseOwners, emulatorPauseOwner>>
        /\ ReconcileProcFlow
        /\ geometryClaims' = [geometryClaims EXCEPT ![s] = attach.geometry]
        /\ outputTail' = ApplyEffectiveGeometry(tail, geometryClaims', {s})
        /\ phase' = [phase EXCEPT ![s] = "restoring"] /\ attach' = attach
    BY <1>3 DEF RestoreAttachment
  <2>2. geometryClaims' \in Claims
    BY <1>1, <2>1 DEF TypeOK, Claims
  <2>3. Flow' /\ procPaused' \in BOOLEAN
    BY <2>1, Reconciled
  <2>4. QED
    BY <1>1, <1>3, <2>1, <2>2, <2>3, Requested
<1>4. QED
  BY <1>2, <1>3

LEMMA RestoredTypes ==
  ASSUME TypeOK, Flow, UNCHANGED <<proc, exited, disposed>>, attach # None,
         NEW tail \in Seq(Work), RestoreAttachment(attach.socket, tail),
         UNCHANGED <<appliedGeometry, attachmentEpochs, conn, needDrain, chunks, seen>>
  PROVE  TypeOK'
<1> DEFINE s == attach.socket
<1>1. s \in Sockets /\ attach \in Attaches
  BY DEF TypeOK, Attaches
<1>2. phase' \in [Sockets -> Phases] /\ attach' \in Attaches \cup {None}
  <2>1. phase \in [Sockets -> Phases] /\ {"idle", "restoring"} \subseteq Phases
    BY DEF TypeOK, Phases
  <2>2. \/ phase' = [phase EXCEPT ![s] = "idle"] /\ attach' = None
        \/ phase' = [phase EXCEPT ![s] = "restoring"] /\ attach' = attach
    BY Restored
  <2>3. QED
    BY <1>1, <2>1, <2>2
<1>3. subscribers' \subseteq Sockets /\ explicitPauseOwners' \subseteq Sockets
  <2>1. \/ UNCHANGED <<subscribers, explicitPauseOwners>>
        \/ /\ explicitPauseOwners' = Ticket(explicitPauseOwners, s, attach.explicitPaused)
           /\ subscribers' = (IF attach.subscribed THEN subscribers \cup {s} ELSE subscribers \ {s})
    BY Restored
  <2>2. QED
    BY <1>1, <2>1 DEF TypeOK, Ticket
<1>4. /\ outputTail' \in Seq(Work) /\ procPaused' \in BOOLEAN /\ geometryClaims' \in Claims
      /\ UNCHANGED <<transportPauseOwners, emulatorPauseOwner>>
  BY Restored
<1>5. QED
  BY <1>2, <1>3, <1>4 DEF TypeOK, Claims

\* Who waits for the screen is the attach under way.
LEMMA ReaderAttaches ==
  ASSUME Inv, ScreenLands
  PROVE  /\ attach # None /\ attach.socket \in Sockets /\ attach \in Attaches
         /\ phase[attach.socket] = "reading"
         /\ attach.socket \in outputTail[1].waiters /\ 1 \in DOMAIN outputTail
<1>1. outputTail \in Seq(Work) /\ outputTail # <<>> /\ Head(outputTail).kind = "serialize"
  BY DEF ScreenLands, Inv, TypeOK
<1>2. 1 \in DOMAIN outputTail /\ Head(outputTail) = outputTail[1]
  BY <1>1
<1>3. PICK t \in outputTail[1].waiters : WaitsFor(t, outputTail[1].kind)
  BY <1>1, <1>2 DEF Inv, Waiting, Orderly
<1>4. attach # None /\ attach.socket = t /\ phase[t] = "reading"
  BY <1>1, <1>2, <1>3 DEF WaitsFor, Attaching
<1>5. QED
  BY <1>2, <1>3, <1>4 DEF Inv, TypeOK, Attaches

LEMMA Prepared ==
  ASSUME TypeOK, NEW s \in Sockets, NEW g, NEW paused \in BOOLEAN, PrepareAttachment(s, g, paused)
  PROVE  attach' \in Attaches /\ attach' # None
<1>1. (s \in explicitPauseOwners) \in BOOLEAN /\ (s \in subscribers) \in BOOLEAN
  OBVIOUS
<1>2. attachmentEpochs[s] + 1 \in Nat /\ geometryClaims[s] \in Sizes \cup {Unclaimed}
  BY DEF TypeOK
<1>3. attach' = [socket |-> s, epoch |-> attachmentEpochs[s] + 1, paused |-> paused,
                 geometry |-> geometryClaims[s],
                 explicitPaused |-> s \in explicitPauseOwners,
                 subscribed |-> s \in subscribers]
  BY DEF PrepareAttachment
<1>4. attach' \in Attaches
  BY <1>1, <1>2, <1>3 DEF Attaches
<1>5. QED
  BY <1>4, HostSessionAssumption

LEMMA TypesKept == Inv /\ [Next]_vars => TypeOK'
<1> SUFFICES ASSUME Inv, [Next]_vars PROVE TypeOK'
  OBVIOUS
<1>1. TypeOK /\ Flow
  BY DEF Inv
<1>2. ASSUME NEW s \in Sockets, NEW g \in Geometries \cup {appliedGeometry}, NEW paused \in BOOLEAN,
             PrepareAttachment(s, g, paused)
      PROVE  TypeOK'
  <2>1. g \in Sizes
    BY <1>1, HostSessionAssumption DEF TypeOK
  <2>2. geometryClaims' \in Claims /\ procPaused' \in BOOLEAN
    BY <1>1, <1>2, <2>1, Reconciled DEF PrepareAttachment, TypeOK, Claims, life
  <2>3. outputTail' \in Seq(Work)
    BY <1>1, <1>2, <2>2, Requested DEF PrepareAttachment, TypeOK
  <2>4. attach' \in Attaches /\ attachmentEpochs' \in [Sockets -> Nat] /\ phase' \in [Sockets -> Phases]
    <3>1. attach' \in Attaches
      BY <1>1, <1>2, Prepared
    <3>2. attachmentEpochs' \in [Sockets -> Nat] /\ phase' \in [Sockets -> Phases]
      BY <1>1, <1>2 DEF PrepareAttachment, TypeOK, Phases
    <3>3. QED
      BY <3>1, <3>2
  <2>5. explicitPauseOwners' \subseteq Sockets
    BY <1>1, <1>2 DEF PrepareAttachment, Ticket, TypeOK
  <2>6. UNCHANGED <<transportPauseOwners, emulatorPauseOwner, subscribers, appliedGeometry, conn,
                    needDrain, life, chunks, seen>>
    BY <1>2 DEF PrepareAttachment
  <2>7. QED
    BY <1>1, <2>2, <2>3, <2>4, <2>5, <2>6 DEF TypeOK, Claims, life
<1>3. ASSUME NEW s \in Sockets, NEW g \in Geometries, Resize(s, g) PROVE TypeOK'
  <2>1. geometryClaims' \in Claims
    BY <1>1, <1>3, HostSessionAssumption DEF Resize, TypeOK, Claims
  <2>2. outputTail' \in Seq(Work)
    BY <1>1, <1>3, <2>1, Requested DEF Resize, TypeOK
  <2>3. QED
    BY <1>1, <1>3, <2>1, <2>2 DEF Resize, TypeOK, Claims, Phases, flow, life
<1>4. ASSUME NEW s \in Sockets, NEW paused \in BOOLEAN, SetPaused(s, paused) PROVE TypeOK'
  <2>1. procPaused' \in BOOLEAN
    BY <1>1, <1>4, Reconciled DEF SetPaused, life
  <2>2. QED
    BY <1>1, <1>4, <2>1 DEF SetPaused, Ticket, TypeOK, size, life
<1>5. ASSUME NEW s \in Sockets, Detach(s) PROVE TypeOK'
  <2>1. Release(s, {s}) /\ UNCHANGED <<appliedGeometry, attach, conn, needDrain, life, chunks>>
        /\ phase' \in [Sockets -> Phases]
    BY <1>1, <1>5 DEF Detach, TypeOK, Phases
  <2>2. QED
    BY <1>1, <2>1, Released DEF TypeOK, Claims, life
<1>6. ASSUME NEW s \in Sockets, Close(s) PROVE TypeOK'
  <2>1. conn' \in [Sockets -> {"open", "destroyed", "closed"}]
        /\ UNCHANGED <<appliedGeometry, attach, phase, needDrain, life, chunks>>
    BY <1>1, <1>6 DEF Close, TypeOK
  <2>2. CASE disposed
    BY <1>1, <1>6, <2>1, <2>2 DEF Close, TypeOK, flow, life
  <2>3. CASE ~ disposed
    <3>1. Release(s, {}) /\ UNCHANGED proc
      BY <1>6, <2>3 DEF Close, life
    <3>2. QED
      BY <1>1, <2>1, <3>1, Released DEF TypeOK, Claims, life
  <2>4. QED
    BY <2>2, <2>3
<1>7. ASSUME NEW s \in Sockets, WriteSessionHostFrame(s) PROVE TypeOK'
  <2>1. procPaused' \in BOOLEAN
    BY <1>1, <1>7, Reconciled DEF WriteSessionHostFrame, life
  <2>2. QED
    BY <1>1, <1>7, <2>1 DEF WriteSessionHostFrame, TypeOK, size, life
<1>8. ASSUME NEW s \in Sockets, DrainSessionHostTransport(s) PROVE TypeOK'
  <2>1. procPaused' \in BOOLEAN
    BY <1>1, <1>8, Reconciled DEF DrainSessionHostTransport, life
  <2>2. QED
    BY <1>1, <1>8, <2>1 DEF DrainSessionHostTransport, TypeOK, size, life
<1>9. ASSUME NEW s \in Sockets, Destroy(s) PROVE TypeOK'
  BY <1>1, <1>9 DEF Destroy, TypeOK, flow, size, life
<1>10. CASE RecordOutput
  <2>1. procPaused' \in BOOLEAN
    BY <1>1, <1>10, Reconciled DEF RecordOutput, life
  <2>2. outputTail' \in Seq(Work)
    <3>1. [kind |-> "write", key |-> Unclaimed, waiters |-> {}] \in Work
      BY DEF Work
    <3>2. QED
      BY <1>1, <1>10, <3>1, Appended DEF RecordOutput, TypeOK
  <2>3. emulatorPauseOwner' \in BOOLEAN
    BY <1>1, <1>10 DEF RecordOutput, TypeOK
  <2>4. QED
    BY <1>1, <1>10, <2>1, <2>2, <2>3 DEF RecordOutput, TypeOK, size, life
<1>11. CASE Die \/ ObserveProcessExit
  <2>1. UNCHANGED <<subscribers, flow, size, attachmentEpochs, outputTail, attach, phase, conn,
                    needDrain, disposed, chunks, seen>>
    BY <1>11 DEF Die, ObserveProcessExit
  <2>2. proc' \in {"live", "dead"} /\ exited' \in BOOLEAN
        /\ (disposed => exited') /\ (exited' => proc' = "dead")
    BY <1>1, <1>11 DEF Die, ObserveProcessExit, TypeOK
  <2>3. QED
    BY <1>1, <2>1, <2>2 DEF TypeOK, flow, size
<1>12. CASE Dispose
  BY <1>1, <1>12 DEF Dispose, TypeOK
<1>13. CASE WriteLands
  <2>1. procPaused' \in BOOLEAN
    BY <1>1, <1>13, Reconciled DEF WriteLands, life
  <2>2. outputTail' \in Seq(Work)
    BY <1>1, <1>13, Served DEF WriteLands, TypeOK
  <2>3. emulatorPauseOwner' \in BOOLEAN
    BY <1>1, <1>13 DEF WriteLands, TypeOK
  <2>4. chunks' \in Nat /\ seen' \in [Sockets -> Nat]
    BY <1>1, <1>13 DEF WriteLands, TypeOK
  <2>5. QED
    BY <1>1, <1>13, <2>1, <2>2, <2>3, <2>4 DEF WriteLands, TypeOK, size, life
<1>14. CASE GeometryLands
  <2>1. outputTail' \in Seq(Work)
    BY <1>1, <1>14, Served DEF GeometryLands, TypeOK
  <2>2. EffectiveGeometry(geometryClaims) \in Sizes \cup {Unclaimed}
    BY <1>1, EffectiveIsSize DEF TypeOK
  <2>3. appliedGeometry' \in Sizes
    BY <1>1, <1>14, <2>2 DEF GeometryLands, TypeOK
  <2>4. phase' \in [Sockets -> Phases]
    BY <1>1, <1>14 DEF GeometryLands, TypeOK, Phases
  <2>5. attach' \in Attaches \cup {None}
    BY <1>1, <1>14 DEF GeometryLands, TypeOK
  <2>6. QED
    BY <1>1, <1>14, <2>1, <2>3, <2>4, <2>5 DEF GeometryLands, TypeOK, flow, life
<1>15. CASE ScreenLands
  <2> DEFINE s == attach.socket
  <2>1. attach # None /\ s \in Sockets
    BY <1>15, ReaderAttaches
  <2>2. Tail(outputTail) \in Seq(Work)
    BY <1>1, <1>15, Served DEF ScreenLands, TypeOK
  <2>3. CASE Current(s) /\ conn[s] = "open" /\ ~ exited
    <3>1. procPaused' \in BOOLEAN
      BY <1>1, <1>15, <2>3, Reconciled DEF ScreenLands, life
    <3>2. /\ subscribers' = subscribers \cup {s} /\ seen' = [seen EXCEPT ![s] = chunks]
          /\ transportPauseOwners' = transportPauseOwners \cup ({s} \cap needDrain)
          /\ UNCHANGED <<explicitPauseOwners, emulatorPauseOwner, geometryClaims>>
          /\ outputTail' = Tail(outputTail) /\ phase' = [phase EXCEPT ![s] = "idle"] /\ attach' = None
          /\ UNCHANGED <<appliedGeometry, attachmentEpochs, conn, needDrain, life, chunks>>
      BY <1>15, <2>3 DEF ScreenLands
    <3>3. phase' \in [Sockets -> Phases] /\ seen' \in [Sockets -> Nat]
      BY <1>1, <2>1, <3>2 DEF TypeOK, Phases
    <3>4. QED
      BY <1>1, <2>1, <2>2, <3>1, <3>2, <3>3 DEF TypeOK, life
  <2>4. CASE ~ (Current(s) /\ conn[s] = "open" /\ ~ exited)
    <3>1. RestoreAttachment(s, Tail(outputTail)) /\ UNCHANGED seen
          /\ UNCHANGED <<appliedGeometry, attachmentEpochs, conn, needDrain, life, chunks>>
      BY <1>15, <2>4 DEF ScreenLands
    <3>2. QED
      BY <1>1, <2>1, <2>2, <3>1, RestoredTypes DEF life
  <2>5. QED
    BY <2>3, <2>4
<1>16. ASSUME NEW s \in Sockets, AwaitScreen(s) PROVE TypeOK'
  <2>1. [kind |-> "serialize", key |-> Unclaimed, waiters |-> {s}] \in Work
    BY DEF Work
  <2>2. outputTail' \in Seq(Work)
    BY <1>1, <1>16, <2>1, Appended DEF AwaitScreen, TypeOK
  <2>3. QED
    BY <1>1, <1>16, <2>2 DEF AwaitScreen, TypeOK, Phases, flow, size, life
<1>17. ASSUME NEW s \in Sockets, ClaimRefused(s) PROVE TypeOK'
  <2>1. attach # None /\ attach.socket = s
    BY <1>17 DEF ClaimRefused, Inv, Waiting, Phases, Attaching
  <2>2. RestoreAttachment(s, outputTail)
        /\ UNCHANGED <<appliedGeometry, attachmentEpochs, conn, needDrain, life, chunks, seen>>
    BY <1>17 DEF ClaimRefused
  <2>3. outputTail \in Seq(Work)
    BY <1>1 DEF TypeOK
  <2>4. QED
    BY <1>1, <2>1, <2>2, <2>3, RestoredTypes DEF life
<1>18. CASE UNCHANGED vars
  BY <1>1, <1>18 DEF vars, TypeOK, flow, size, life
<1>19. QED
  BY <1>2, <1>3, <1>4, <1>5, <1>6, <1>7, <1>8, <1>9, <1>10, <1>11, <1>12, <1>13, <1>14, <1>15,
     <1>16, <1>17, <1>18 DEF Next, Requests, Transport, Continuations

-----------------------------------------------------------------------------
(* Pauses: the actuator follows the owners, the emulator keeps its marks.      *)

LEMMA FlowKept == Inv /\ [Next]_vars => Flow'
<1> SUFFICES ASSUME Inv, [Next]_vars PROVE Flow'
  OBVIOUS
<1>1. TypeOK /\ Flow
  BY DEF Inv
<1>2. ASSUME ReconcileProcFlow, UNCHANGED life PROVE Flow'
  BY <1>1, <1>2, Reconciled DEF life
<1>3. ASSUME UNCHANGED flow, UNCHANGED proc \/ proc' = "dead" PROVE Flow'
  BY <1>1, <1>3 DEF Flow, HasPauseOwner, flow
<1>4. ASSUME NEW s \in Sockets, Requests(s) \/ Transport(s) PROVE Flow'
  <2>1. ASSUME NEW g, NEW paused, PrepareAttachment(s, g, paused) PROVE Flow'
    BY <1>2, <2>1 DEF PrepareAttachment
  <2>2. ASSUME NEW g, Resize(s, g) PROVE Flow'
    BY <1>3, <2>2 DEF Resize, life
  <2>3. ASSUME NEW paused, SetPaused(s, paused) PROVE Flow'
    BY <1>2, <2>3 DEF SetPaused
  <2>4. CASE Detach(s)
    BY <1>2, <2>4 DEF Detach, Release
  <2>5. CASE Close(s)
    <3>1. UNCHANGED flow \/ ReconcileProcFlow
      BY <2>5 DEF Close, Release
    <3>2. UNCHANGED life
      BY <2>5 DEF Close
    <3>3. QED
      BY <1>2, <1>3, <3>1, <3>2 DEF life
  <2>6. CASE Destroy(s)
    BY <1>3, <2>6 DEF Destroy, life
  <2>7. CASE WriteSessionHostFrame(s) \/ DrainSessionHostTransport(s)
    BY <1>2, <2>7 DEF WriteSessionHostFrame, DrainSessionHostTransport
  <2>8. QED
    BY <1>4, <2>1, <2>2, <2>3, <2>4, <2>5, <2>6, <2>7 DEF Requests, Transport
<1>5. CASE RecordOutput \/ WriteLands
  BY <1>2, <1>5 DEF RecordOutput, WriteLands
<1>6. CASE Die \/ ObserveProcessExit \/ GeometryLands
  BY <1>3, <1>6 DEF Die, ObserveProcessExit, GeometryLands, life
<1>7. CASE Dispose
  <2>1. proc' = "dead"
    BY <1>1, <1>7 DEF Dispose, TypeOK
  <2>2. QED
    BY <2>1 DEF Flow
<1>8. ASSUME NEW s \in Sockets, NEW tail, RestoreAttachment(s, tail), UNCHANGED life PROVE Flow'
  <2>1. UNCHANGED flow \/ ReconcileProcFlow
    BY <1>8 DEF RestoreAttachment
  <2>2. QED
    BY <1>2, <1>3, <1>8, <2>1 DEF life
<1>9. CASE ScreenLands
  <2>1. ReconcileProcFlow \/ RestoreAttachment(attach.socket, Tail(outputTail))
    BY <1>9 DEF ScreenLands
  <2>2. UNCHANGED life
    BY <1>9 DEF ScreenLands
  <2>3. attach.socket \in Sockets
    BY <1>9, ReaderAttaches
  <2>4. QED
    BY <1>2, <1>8, <2>1, <2>2, <2>3
<1>10. ASSUME NEW s \in Sockets, Continuations(s) PROVE Flow'
  <2>1. CASE AwaitScreen(s)
    BY <1>3, <2>1 DEF AwaitScreen, life
  <2>2. CASE ClaimRefused(s)
    BY <1>8, <2>2 DEF ClaimRefused
  <2>3. QED
    BY <1>10, <2>1, <2>2 DEF Continuations
<1>11. CASE UNCHANGED vars
  BY <1>3, <1>11 DEF vars, life
<1>12. QED
  BY <1>4, <1>5, <1>6, <1>7, <1>9, <1>10, <1>11 DEF Next

\* What every step does to the queue's chunks and the emulator's pause.
LEMMA EmulatorKept == Inv /\ [Next]_vars => Emulator'
<1> SUFFICES ASSUME Inv, [Next]_vars PROVE Emulator'
  OBVIOUS
<1>1. TypeOK /\ Flow /\ outputTail \in Seq(Work) /\ High \in Nat /\ Low \in Nat /\ Low < High
  BY HostSessionAssumption DEF Inv, TypeOK
<1>2. QueuedOutput = Writes(outputTail) /\ QueuedOutput' = Writes(outputTail')
      /\ Writes(outputTail) \in Nat
  BY <1>1, WritesCount DEF QueuedOutput, Queued, Writes
<1>3. ASSUME Writes(outputTail') = Writes(outputTail), UNCHANGED emulatorPauseOwner PROVE Emulator'
  BY <1>2, <1>3 DEF Inv, Emulator
<1>4. ASSUME UNCHANGED <<outputTail, emulatorPauseOwner>> PROVE Emulator'
  BY <1>3, <1>4
<1>5. ASSUME NEW s \in Sockets, Requests(s) \/ Transport(s) PROVE Emulator'
  <2>1. ASSUME NEW g \in Geometries \cup {appliedGeometry}, NEW paused, PrepareAttachment(s, g, paused)
        PROVE  Emulator'
    <3>1. geometryClaims' \in Claims
      BY <1>1, <2>1, HostSessionAssumption DEF PrepareAttachment, TypeOK, Claims
    <3>2. QED
      BY <1>1, <1>3, <2>1, <3>1, Requested DEF PrepareAttachment
  <2>2. ASSUME NEW g \in Geometries, Resize(s, g) PROVE Emulator'
    <3>1. geometryClaims' \in Claims
      BY <1>1, <2>2, HostSessionAssumption DEF Resize, TypeOK, Claims
    <3>2. QED
      BY <1>1, <1>3, <2>2, <3>1, Requested DEF Resize, flow
  <2>3. ASSUME NEW paused, SetPaused(s, paused) PROVE Emulator'
    BY <1>4, <2>3 DEF SetPaused
  <2>4. CASE Detach(s)
    <3>1. Release(s, {s}) /\ UNCHANGED proc
      BY <2>4 DEF Detach, life
    <3>2. QED
      BY <1>1, <1>3, <3>1, Released
  <2>5. CASE Close(s)
    <3>1. (Release(s, {}) /\ UNCHANGED proc) \/ UNCHANGED <<flow, outputTail>>
      BY <2>5 DEF Close, life
    <3>2. QED
      BY <1>1, <1>3, <1>4, <3>1, Released DEF flow
  <2>6. CASE Destroy(s)
    BY <1>4, <2>6 DEF Destroy, flow
  <2>7. CASE WriteSessionHostFrame(s) \/ DrainSessionHostTransport(s)
    BY <1>4, <2>7 DEF WriteSessionHostFrame, DrainSessionHostTransport
  <2>8. QED
    BY <1>5, <2>1, <2>2, <2>3, <2>4, <2>5, <2>6, <2>7 DEF Requests, Transport
<1>6. CASE RecordOutput
  <2> DEFINE w == [kind |-> "write", key |-> Unclaimed, waiters |-> {}]
  <2>1. w \in Work /\ w.kind = "write" /\ outputTail' = Append(outputTail, w)
    BY <1>6 DEF Work, RecordOutput
  <2> HIDE DEF w
  <2>2. Writes(outputTail') = Writes(outputTail) + 1
    BY <1>1, <2>1, Appended
  <2>3. emulatorPauseOwner' = (emulatorPauseOwner \/ QueuedOutput + 1 >= High)
    BY <1>6 DEF RecordOutput
  <2>4. emulatorPauseOwner' => Writes(outputTail) + 1 > Low
    <3>1. emulatorPauseOwner' => emulatorPauseOwner \/ QueuedOutput + 1 >= High
      BY <2>3, Zenon
    <3>2. emulatorPauseOwner => QueuedOutput > Low
      BY DEF Inv, Emulator
    <3>3. QED
      BY <1>1, <1>2, <3>1, <3>2
  <2>5. ~ emulatorPauseOwner' => Writes(outputTail) + 1 < High
    <3>1. ~ emulatorPauseOwner' => ~ (QueuedOutput + 1 >= High)
      BY <2>3, Zenon
    <3>2. QED
      BY <1>1, <1>2, <3>1
  <2>6. QED
    BY <1>2, <2>2, <2>4, <2>5 DEF Emulator
<1>7. CASE WriteLands
  <2>1. Writes(outputTail') = Writes(outputTail) - 1
    BY <1>1, <1>7, Served DEF WriteLands
  <2>2. emulatorPauseOwner' = (emulatorPauseOwner /\ QueuedOutput - 1 > Low)
    BY <1>7 DEF WriteLands
  <2>3. emulatorPauseOwner' => Writes(outputTail) - 1 > Low
    <3>1. emulatorPauseOwner' => QueuedOutput - 1 > Low
      BY <2>2, Zenon
    <3>2. QED
      BY <1>2, <3>1
  <2>4. ~ emulatorPauseOwner' => Writes(outputTail) - 1 < High
    <3>1. ~ emulatorPauseOwner' => ~ emulatorPauseOwner \/ ~ (QueuedOutput - 1 > Low)
      BY <2>2, Zenon
    <3>2. ~ emulatorPauseOwner => QueuedOutput < High
      BY DEF Inv, Emulator
    <3>3. QED
      BY <1>1, <1>2, <3>1, <3>2
  <2>5. QED
    BY <1>2, <2>1, <2>3, <2>4 DEF Emulator
<1>8. CASE Die \/ ObserveProcessExit
  BY <1>4, <1>8 DEF Die, ObserveProcessExit, flow
<1>9. CASE Dispose
  <2>1. emulatorPauseOwner' = FALSE /\ outputTail' = outputTail /\ Queued("write") = {}
    BY <1>9 DEF Dispose
  <2>2. QueuedOutput' = 0
    BY <2>1, FS_EmptySet DEF QueuedOutput, Queued
  <2>3. QED
    BY <1>1, <2>1, <2>2 DEF Emulator
<1>10. CASE GeometryLands
  <2>1. Writes(outputTail') = Writes(outputTail) - 0
    BY <1>1, <1>10, Served DEF GeometryLands
  <2>2. QED
    BY <1>2, <1>3, <1>10, <2>1 DEF GeometryLands, flow
<1>11. CASE ScreenLands
  <2> DEFINE s == attach.socket
  <2>1. /\ Tail(outputTail) \in Seq(Work) /\ Writes(Tail(outputTail)) = Writes(outputTail)
        /\ UNCHANGED life
    BY <1>1, <1>2, <1>11, Served DEF ScreenLands
  <2>2. CASE Current(s) /\ conn[s] = "open" /\ ~ exited
    BY <1>3, <1>11, <2>1, <2>2 DEF ScreenLands
  <2>3. CASE ~ (Current(s) /\ conn[s] = "open" /\ ~ exited)
    <3>1. RestoreAttachment(s, Tail(outputTail))
      BY <1>11, <2>3 DEF ScreenLands
    <3>2. QED
      BY <1>1, <1>3, <1>11, <2>1, <3>1, Restored, ReaderAttaches DEF life
  <2>4. QED
    BY <2>2, <2>3
<1>12. ASSUME NEW s \in Sockets, Continuations(s) PROVE Emulator'
  <2>1. CASE AwaitScreen(s)
    <3> DEFINE w == [kind |-> "serialize", key |-> Unclaimed, waiters |-> {s}]
    <3>1. w \in Work /\ w.kind # "write" /\ outputTail' = Append(outputTail, w)
      BY <2>1 DEF Work, AwaitScreen
    <3> HIDE DEF w
    <3>2. Writes(outputTail') = Writes(outputTail) + 0
      BY <1>1, <3>1, Appended
    <3>3. QED
      BY <1>2, <1>3, <2>1, <3>2 DEF AwaitScreen, flow
  <2>2. CASE ClaimRefused(s)
    <3>1. attach # None /\ attach.socket = s
      BY <2>2 DEF ClaimRefused, Inv, Waiting, Phases, Attaching
    <3>2. RestoreAttachment(attach.socket, outputTail) /\ UNCHANGED proc
      BY <2>2, <3>1 DEF ClaimRefused, life
    <3>3. QED
      BY <1>1, <1>3, <3>1, <3>2, Restored
  <2>3. QED
    BY <1>12, <2>1, <2>2 DEF Continuations
<1>13. CASE UNCHANGED vars
  BY <1>4, <1>13 DEF vars, flow
<1>14. QED
  BY <1>5, <1>6, <1>7, <1>8, <1>9, <1>10, <1>11, <1>12, <1>13 DEF Next

-----------------------------------------------------------------------------
(* Who waits for what.                                                       *)

Queuing(s, tail) == \E i \in DOMAIN tail : s \in tail[i].waiters

\* Those who wait in tail, but for some, wait on.
WaitOn(tail, except) ==
  \A s \in Sockets \ except : Queuing(s, tail) =>
    phase'[s] = phase[s] /\ (Attaching(s) => Attaching(s)')

LEMMA IdleIsUnqueued ==
  ASSUME Inv, NEW s, phase[s] \notin {"waiting", "claiming", "reading", "restoring"}
  PROVE  ~ Queuing(s, outputTail)
BY DEF Inv, Waiting, Orderly, Queuing, WaitsFor

LEMMA WaitersAreSockets ==
  ASSUME NEW tail \in Seq(Work)
  PROVE  \A i \in DOMAIN tail : tail[i].waiters \subseteq Sockets
<1>1. \A i \in DOMAIN tail : tail[i] \in Work
  OBVIOUS
<1>2. QED
  BY <1>1 DEF Work

LEMMA OrderlyOn ==
  ASSUME NEW tail \in Seq(Work), Orderly(tail), WaitOn(tail, {}), outputTail' = tail
  PROVE  Orderly(outputTail)'
<1>1. \A i \in DOMAIN tail : \A s \in tail[i].waiters : s \in Sockets /\ Queuing(s, tail)
  BY WaitersAreSockets DEF Queuing
<1>2. \A i \in DOMAIN tail : \A s \in tail[i].waiters : WaitsFor(s, tail[i].kind)'
  BY <1>1 DEF Orderly, WaitOn, WaitsFor
<1>3. QED
  BY <1>2 DEF Orderly

LEMMA OrderlyJoined ==
  ASSUME NEW tail \in Seq(Work), Orderly(tail), NEW waiters \in SUBSET Sockets, NEW p,
         Joins(tail, outputTail', waiters, p), WaitOn(tail, waiters),
         \A s \in waiters : ~ Queuing(s, tail) /\ phase'[s] \in {"waiting", "claiming", "restoring"}
  PROVE  Orderly(outputTail)'
<1>1. \A i \in DOMAIN tail : tail[i].waiters \subseteq Sockets
  BY WaitersAreSockets
<1>2. ASSUME NEW i \in DOMAIN outputTail', NEW s \in outputTail'[i].waiters
      PROVE  /\ s \in waiters => i = p
             /\ s \notin waiters => i \in DOMAIN tail /\ s \in tail[i].waiters
                                    /\ outputTail'[i].kind = tail[i].kind
  BY <1>2 DEF Joins, Queuing
<1>3. \A i \in DOMAIN outputTail' : \A s \in outputTail'[i].waiters :
        \A j \in DOMAIN outputTail' : s \in outputTail'[j].waiters => j = i
  BY <1>2 DEF Orderly
<1>4. ASSUME NEW i \in DOMAIN outputTail', NEW s \in outputTail'[i].waiters
      PROVE  WaitsFor(s, outputTail[i].kind)'
  <2>1. CASE s \in waiters
    BY <1>2, <2>1 DEF Joins, WaitsFor
  <2>2. CASE s \notin waiters
    <3>1. i \in DOMAIN tail /\ s \in tail[i].waiters /\ outputTail'[i].kind = tail[i].kind
          /\ s \in Sockets
      BY <1>1, <1>2, <2>2
    <3>2. WaitsFor(s, tail[i].kind) /\ Queuing(s, tail)
      BY <3>1 DEF Orderly, Queuing
    <3>3. QED
      BY <2>2, <3>1, <3>2 DEF WaitsFor, WaitOn
  <2>3. QED
    BY <2>1, <2>2
<1>5. \A i \in DOMAIN outputTail' : outputTail'[i].kind = "serialize" => outputTail'[i].waiters # {}
  BY DEF Joins, Orderly
<1>6. QED
  BY <1>3, <1>4, <1>5 DEF Orderly

LEMMA OrderlyAppended ==
  ASSUME TypeOK, Orderly(outputTail), NEW w \in Work, outputTail' = Append(outputTail, w),
         w.kind = "serialize" => w.waiters # {}, WaitOn(outputTail, w.waiters),
         \A s \in w.waiters : ~ Queuing(s, outputTail) /\ WaitsFor(s, w.kind)'
  PROVE  Orderly(outputTail)'
<1>1. /\ Len(outputTail) \in Nat /\ DOMAIN outputTail = 1 .. Len(outputTail)
      /\ DOMAIN outputTail' = 1 .. Len(outputTail) + 1
      /\ outputTail'[Len(outputTail) + 1] = w
      /\ \A i \in 1 .. Len(outputTail) : outputTail'[i] = outputTail[i] /\ outputTail[i] \in Work
  BY Appended DEF TypeOK
<1>2. DOMAIN outputTail' = DOMAIN outputTail \cup {Len(outputTail) + 1}
      /\ Len(outputTail) + 1 \notin DOMAIN outputTail
  BY <1>1
<1>3. \A i \in DOMAIN outputTail' : \A s \in outputTail'[i].waiters :
        \A j \in DOMAIN outputTail' : s \in outputTail'[j].waiters => j = i
  BY <1>1, <1>2 DEF Orderly, Queuing
<1>4. ASSUME NEW i \in DOMAIN outputTail', NEW s \in outputTail'[i].waiters
      PROVE  WaitsFor(s, outputTail[i].kind)'
  <2>1. CASE i \notin DOMAIN outputTail
    BY <1>1, <1>2, <2>1
  <2>2. CASE i \in DOMAIN outputTail
    <3>1. s \in outputTail[i].waiters /\ outputTail'[i] = outputTail[i] /\ s \in Sockets
      BY <1>1, <2>2 DEF Work
    <3>2. WaitsFor(s, outputTail[i].kind) /\ Queuing(s, outputTail) /\ s \notin w.waiters
      BY <2>2, <3>1 DEF Orderly, Queuing
    <3>3. QED
      BY <3>1, <3>2 DEF WaitsFor, WaitOn
  <2>3. QED
    BY <2>1, <2>2
<1>5. \A i \in DOMAIN outputTail' : outputTail'[i].kind = "serialize" => outputTail'[i].waiters # {}
  BY <1>1, <1>2 DEF Orderly
<1>6. QED
  BY <1>3, <1>4, <1>5 DEF Orderly

LEMMA OrderlyServed ==
  ASSUME Inv, outputTail # <<>>
  PROVE  /\ Tail(outputTail) \in Seq(Work) /\ Orderly(Tail(outputTail))
         /\ Head(outputTail) = outputTail[1] /\ 1 \in DOMAIN outputTail
         /\ Head(outputTail).waiters \subseteq Sockets
         /\ \A s \in Head(outputTail).waiters : ~ Queuing(s, Tail(outputTail))
         /\ \A s : Queuing(s, Tail(outputTail)) => Queuing(s, outputTail)
<1> DEFINE rest == Tail(outputTail)
<1>1. /\ rest \in Seq(Work) /\ Head(outputTail) = outputTail[1] /\ Head(outputTail) \in Work
      /\ Len(outputTail) \in Nat \ {0} /\ DOMAIN outputTail = 1 .. Len(outputTail)
      /\ DOMAIN rest = 1 .. Len(outputTail) - 1
      /\ \A i \in 1 .. Len(outputTail) - 1 : rest[i] = outputTail[i + 1]
  BY Served DEF Inv, TypeOK
<1> HIDE DEF rest
<1>2. \A i \in DOMAIN rest : i + 1 \in DOMAIN outputTail /\ rest[i] = outputTail[i + 1] /\ i + 1 # 1
  BY <1>1
<1>3. 1 \in DOMAIN outputTail
  BY <1>1
<1>4. ASSUME NEW i \in DOMAIN rest, NEW s \in rest[i].waiters
      PROVE  /\ WaitsFor(s, rest[i].kind) /\ s \notin outputTail[1].waiters
             /\ Queuing(s, outputTail)
             /\ \A j \in DOMAIN rest : s \in rest[j].waiters => j = i
  <2>1. i + 1 \in DOMAIN outputTail /\ s \in outputTail[i + 1].waiters /\ i + 1 # 1
        /\ rest[i] = outputTail[i + 1]
    BY <1>2
  <2>2. WaitsFor(s, outputTail[i + 1].kind)
        /\ \A j \in DOMAIN outputTail : s \in outputTail[j].waiters => j = i + 1
    BY <2>1 DEF Inv, Waiting, Orderly
  <2>3. ASSUME NEW j \in DOMAIN rest, s \in rest[j].waiters PROVE j = i
    <3>1. j + 1 = i + 1
      BY <1>2, <2>2, <2>3
    <3>2. QED
      BY <1>1, <3>1
  <2>4. QED
    BY <1>3, <2>1, <2>2, <2>3 DEF Queuing
<1>5. \A i \in DOMAIN rest : rest[i].kind = "serialize" => rest[i].waiters # {}
  BY <1>2 DEF Inv, Waiting, Orderly
<1>6. Orderly(rest)
  BY <1>4, <1>5 DEF Orderly
<1>7. QED
  BY <1>1, <1>3, <1>4, <1>6 DEF rest, Queuing, Work

\* The phases agree with the attach under way.
InPhase == \A s \in Sockets : phase[s] \in Phases \ {"idle", "waiting"} <=> Attaching(s)

LEMMA RestoreWaits ==
  ASSUME Inv, attach # None, UNCHANGED proc, NEW tail \in Seq(Work), Orderly(tail),
         ~ Queuing(attach.socket, tail), \A s : Queuing(s, tail) => Queuing(s, outputTail),
         RestoreAttachment(attach.socket, tail)
  PROVE  Waiting'
<1> DEFINE s == attach.socket
<1>1. /\ TypeOK /\ Flow /\ s \in Sockets /\ attach \in Attaches /\ phase \in [Sockets -> Phases]
      /\ InPhase /\ Attaching(s)
  BY DEF Inv, TypeOK, Attaches, Waiting, InPhase, Attaching
<1>2. CASE ~ Current(s)
  <2>1. outputTail' = tail /\ attach' = None /\ phase' = [phase EXCEPT ![s] = "idle"]
    BY <1>1, <1>2, Restored
  <2>2. InPhase'
    BY <1>1, <2>1 DEF InPhase, Attaching
  <2>3. WaitOn(tail, {})
    BY <1>1, <2>1 DEF WaitOn, Attaching
  <2>4. QED
    BY <2>1, <2>2, <2>3, OrderlyOn DEF Waiting, InPhase
<1>3. CASE Current(s)
  <2>1. /\ attach' = attach /\ phase' = [phase EXCEPT ![s] = "restoring"]
        /\ \E p \in DOMAIN outputTail' : Joins(tail, outputTail', {s}, p)
    BY <1>1, <1>3, Restored
  <2>2. InPhase'
    BY <1>1, <2>1 DEF InPhase, Attaching, Phases
  <2>3. WaitOn(tail, {s}) /\ phase'[s] = "restoring"
    BY <1>1, <2>1 DEF WaitOn, Attaching
  <2>4. Orderly(outputTail)'
    BY <1>1, <2>1, <2>3, OrderlyJoined
  <2>5. QED
    BY <2>2, <2>4 DEF Waiting, InPhase
<1>4. QED
  BY <1>2, <1>3

LEMMA ReleaseWaits ==
  ASSUME Inv, UNCHANGED <<proc, attach>>, NEW s \in Sockets, NEW waiters \in SUBSET {s},
         Release(s, waiters),
         \/ waiters = {} /\ UNCHANGED phase
         \/ waiters = {s} /\ phase[s] = "idle"
              /\ phase' = [phase EXCEPT ![s] = IF geometryClaims[s] = Unclaimed THEN "idle"
                                               ELSE "waiting"]
  PROVE  Waiting'
<1>1. TypeOK /\ Flow /\ InPhase /\ Orderly(outputTail) /\ phase \in [Sockets -> Phases]
      /\ outputTail \in Seq(Work)
  BY DEF Inv, Waiting, InPhase, TypeOK
<1>2. InPhase'
  BY <1>1 DEF InPhase, Attaching, Phases
<1>3. WaitOn(outputTail, waiters)
  BY <1>1, IdleIsUnqueued DEF WaitOn, Attaching
<1>4. \/ outputTail' = outputTail /\ geometryClaims[s] = Unclaimed
      \/ \E p \in DOMAIN outputTail' : Joins(outputTail, outputTail', waiters, p)
  BY <1>1, Released
<1>5. CASE outputTail' = outputTail /\ geometryClaims[s] = Unclaimed
  <2>1. WaitOn(outputTail, {})
    BY <1>1, <1>5 DEF WaitOn, Attaching
  <2>2. QED
    BY <1>1, <1>2, <1>5, <2>1, OrderlyOn DEF Waiting, InPhase
<1>6. CASE ~ (outputTail' = outputTail /\ geometryClaims[s] = Unclaimed)
  <2>1. PICK p \in DOMAIN outputTail' : Joins(outputTail, outputTail', waiters, p)
    BY <1>4, <1>6
  <2>2. \A t \in waiters : ~ Queuing(t, outputTail)
    BY IdleIsUnqueued
  <2>3. \A t \in waiters : phase'[t] = "waiting" \/ outputTail' = outputTail
    <3>1. CASE geometryClaims[s] = Unclaimed
      BY <3>1 DEF Release, Regrow
    <3>2. CASE geometryClaims[s] # Unclaimed
      BY <1>1, <3>2
    <3>3. QED
      BY <3>1, <3>2
  <2>4. CASE outputTail' = outputTail /\ geometryClaims[s] # Unclaimed
    BY <1>1, <1>2, <1>3, <2>1, <2>2, <2>4, OrderlyJoined DEF Waiting, InPhase
  <2>5. CASE outputTail' # outputTail
    BY <1>1, <1>2, <1>3, <2>1, <2>2, <2>3, <2>5, OrderlyJoined DEF Waiting, InPhase
  <2>6. QED
    BY <1>6, <2>4, <2>5
<1>7. QED
  BY <1>5, <1>6

LEMMA WaitingKept == Inv /\ [Next]_vars => Waiting'
<1> SUFFICES ASSUME Inv, [Next]_vars PROVE Waiting'
  OBVIOUS
<1>1. /\ TypeOK /\ Flow /\ InPhase /\ Orderly(outputTail)
      /\ phase \in [Sockets -> Phases] /\ outputTail \in Seq(Work)
  BY DEF Inv, Waiting, InPhase, TypeOK
<1>2. ASSUME UNCHANGED <<outputTail, attach, phase>> PROVE Waiting'
  <2>1. WaitOn(outputTail, {})
    BY <1>2 DEF WaitOn, Attaching
  <2>2. InPhase'
    BY <1>1, <1>2 DEF InPhase, Attaching
  <2>3. QED
    BY <1>1, <1>2, <2>1, <2>2, OrderlyOn DEF Waiting, InPhase
<1>3. ASSUME NEW s \in Sockets, NEW g \in Geometries \cup {appliedGeometry}, NEW paused \in BOOLEAN,
             PrepareAttachment(s, g, paused)
      PROVE  Waiting'
  <2>1. /\ attach = None /\ phase[s] = "idle" /\ phase' = [phase EXCEPT ![s] = "claiming"]
        /\ attach'.socket = s
        /\ outputTail' = ApplyEffectiveGeometry(outputTail, geometryClaims', {s})
    BY <1>3 DEF PrepareAttachment
  <2>2. attach' # None
    BY <1>1, <1>3, Prepared DEF Inv
  <2>3. geometryClaims' \in Claims
    BY <1>1, <1>3, HostSessionAssumption DEF PrepareAttachment, TypeOK, Claims
  <2>4. PICK p \in DOMAIN outputTail' : Joins(outputTail, outputTail', {s}, p)
    BY <1>1, <2>1, <2>3, Requested
  <2>5. ~ Queuing(s, outputTail)
    BY <2>1, IdleIsUnqueued
  <2>6. InPhase'
    BY <1>1, <2>1, <2>2 DEF InPhase, Attaching, Phases
  <2>7. WaitOn(outputTail, {s}) /\ phase'[s] = "claiming"
    BY <1>1, <2>1 DEF WaitOn, Attaching
  <2>8. Orderly(outputTail)'
    BY <1>1, <2>4, <2>5, <2>7, OrderlyJoined
  <2>9. QED
    BY <2>6, <2>8 DEF Waiting, InPhase
<1>4. ASSUME NEW s \in Sockets, NEW g \in Geometries, Resize(s, g) PROVE Waiting'
  <2>1. /\ attach' = attach /\ phase[s] = "idle" /\ phase' = [phase EXCEPT ![s] = "waiting"]
        /\ outputTail' = ApplyEffectiveGeometry(outputTail, geometryClaims', {s})
    BY <1>4 DEF Resize
  <2>2. geometryClaims' \in Claims
    BY <1>1, <1>4, HostSessionAssumption DEF Resize, TypeOK, Claims
  <2>3. PICK p \in DOMAIN outputTail' : Joins(outputTail, outputTail', {s}, p)
    BY <1>1, <2>1, <2>2, Requested
  <2>4. ~ Queuing(s, outputTail)
    BY <2>1, IdleIsUnqueued
  <2>5. InPhase'
    BY <1>1, <2>1 DEF InPhase, Attaching, Phases
  <2>6. WaitOn(outputTail, {s}) /\ phase'[s] = "waiting"
    BY <1>1, <2>1 DEF WaitOn, Attaching
  <2>7. Orderly(outputTail)'
    BY <1>1, <2>3, <2>4, <2>6, OrderlyJoined
  <2>8. QED
    BY <2>5, <2>7 DEF Waiting, InPhase
<1>5. ASSUME NEW s \in Sockets, Detach(s) PROVE Waiting'
  <2>1. /\ Release(s, {s}) /\ UNCHANGED <<proc, attach>> /\ phase[s] = "idle"
        /\ phase' = [phase EXCEPT ![s] = IF geometryClaims[s] = Unclaimed THEN "idle" ELSE "waiting"]
    BY <1>5 DEF Detach, life
  <2>2. QED
    BY <2>1, ReleaseWaits
<1>6. ASSUME NEW s \in Sockets, Close(s) PROVE Waiting'
  <2>1. CASE disposed
    BY <1>2, <1>6, <2>1 DEF Close
  <2>2. CASE ~ disposed
    <3>1. Release(s, {}) /\ UNCHANGED <<proc, attach, phase>>
      BY <1>6, <2>2 DEF Close, life
    <3>2. QED
      BY <3>1, ReleaseWaits
  <2>3. QED
    BY <2>1, <2>2
<1>7. ASSUME NEW s \in Sockets, (\E paused \in BOOLEAN : SetPaused(s, paused)) \/ Destroy(s)
                                \/ WriteSessionHostFrame(s) \/ DrainSessionHostTransport(s)
      PROVE  Waiting'
  BY <1>2, <1>7 DEF SetPaused, Destroy, WriteSessionHostFrame, DrainSessionHostTransport
<1>8. CASE Die \/ ObserveProcessExit \/ Dispose \/ UNCHANGED vars
  BY <1>2, <1>8 DEF Die, ObserveProcessExit, Dispose, vars
<1>9. CASE RecordOutput
  <2> DEFINE w == [kind |-> "write", key |-> Unclaimed, waiters |-> {}]
  <2>1. w \in Work /\ w.kind = "write" /\ w.waiters = {} /\ outputTail' = Append(outputTail, w)
        /\ UNCHANGED <<attach, phase>>
    BY <1>9 DEF Work, RecordOutput
  <2> HIDE DEF w
  <2>2. WaitOn(outputTail, {}) /\ InPhase'
    BY <1>1, <2>1 DEF WaitOn, Attaching, InPhase
  <2>3. Orderly(outputTail)'
    BY <1>1, <2>1, <2>2, OrderlyAppended
  <2>4. QED
    BY <2>2, <2>3 DEF Waiting, InPhase
<1>10. CASE WriteLands
  <2>1. outputTail # <<>> /\ outputTail' = Tail(outputTail) /\ UNCHANGED <<attach, phase>>
    BY <1>10 DEF WriteLands
  <2>2. WaitOn(Tail(outputTail), {}) /\ InPhase'
    BY <1>1, <2>1 DEF WaitOn, Attaching, InPhase
  <2>3. QED
    BY <2>1, <2>2, OrderlyServed, OrderlyOn DEF Waiting, InPhase
<1>11. CASE GeometryLands
  <2> DEFINE woken == Head(outputTail).waiters
  <2>1. /\ outputTail # <<>> /\ outputTail' = Tail(outputTail) /\ Head(outputTail).kind = "geometry"
        /\ \A s \in Sockets : IF s \notin woken THEN phase'[s] = phase[s]
                              ELSE IF phase[s] # "claiming" THEN phase'[s] = "idle"
                              ELSE phase'[s] \in {"refused", "claimed"}
        /\ attach' = IF attach # None /\ phase[attach.socket] = "restoring" /\ attach.socket \in woken
                     THEN None ELSE attach
    BY <1>11 DEF GeometryLands
  <2>2. \A s \in woken : s \in Sockets /\ phase[s] \in {"waiting", "claiming", "restoring"}
                         /\ ~ Queuing(s, Tail(outputTail))
    BY <1>1, <2>1, OrderlyServed DEF Orderly, WaitsFor
  <2> HIDE DEF woken
  <2>3. InPhase'
    <3> SUFFICES ASSUME NEW s \in Sockets
                 PROVE  phase'[s] \in Phases \ {"idle", "waiting"} <=> Attaching(s)'
      BY DEF InPhase
    <3>1. phase[s] \in Phases \ {"idle", "waiting"} <=> Attaching(s)
      BY <1>1 DEF InPhase
    <3>2. CASE s \in woken
      BY <2>1, <2>2, <3>1, <3>2 DEF Attaching, Phases
    <3>3. CASE s \notin woken
      BY <2>1, <3>1, <3>3 DEF Attaching
    <3>4. QED
      BY <3>2, <3>3
  <2>4. WaitOn(Tail(outputTail), {})
    BY <2>1, <2>2 DEF WaitOn, Attaching
  <2>5. QED
    BY <2>1, <2>3, <2>4, OrderlyServed, OrderlyOn DEF Waiting, InPhase
<1>12. CASE ScreenLands
  <2> DEFINE s == attach.socket
  <2>1. /\ outputTail # <<>> /\ attach # None /\ s \in Sockets /\ UNCHANGED proc
        /\ s \in Head(outputTail).waiters
    BY <1>12, ReaderAttaches, OrderlyServed DEF ScreenLands, life
  <2>2. /\ Tail(outputTail) \in Seq(Work) /\ Orderly(Tail(outputTail)) /\ ~ Queuing(s, Tail(outputTail))
        /\ \A t : Queuing(t, Tail(outputTail)) => Queuing(t, outputTail)
    BY <2>1, OrderlyServed
  <2>3. CASE Current(s) /\ conn[s] = "open" /\ ~ exited
    <3>1. outputTail' = Tail(outputTail) /\ phase' = [phase EXCEPT ![s] = "idle"] /\ attach' = None
      BY <1>12, <2>3 DEF ScreenLands
    <3>2. InPhase'
      BY <1>1, <2>1, <3>1 DEF InPhase, Attaching
    <3>3. WaitOn(Tail(outputTail), {})
      <4>1. ASSUME NEW t \in Sockets, Queuing(t, Tail(outputTail))
            PROVE  phase'[t] = phase[t] /\ ~ Attaching(t)
        BY <1>1, <2>1, <2>2, <3>1, <4>1 DEF Attaching
      <4>2. QED
        BY <4>1 DEF WaitOn
    <3>4. QED
      BY <2>2, <3>1, <3>2, <3>3, OrderlyOn DEF Waiting, InPhase
  <2>4. CASE ~ (Current(s) /\ conn[s] = "open" /\ ~ exited)
    <3>1. RestoreAttachment(s, Tail(outputTail))
      BY <1>12, <2>4 DEF ScreenLands
    <3>2. QED
      BY <2>1, <2>2, <3>1, RestoreWaits
  <2>5. QED
    BY <2>3, <2>4
<1>13. ASSUME NEW s \in Sockets, AwaitScreen(s) PROVE Waiting'
  <2> DEFINE w == [kind |-> "serialize", key |-> Unclaimed, waiters |-> {s}]
  <2>1. /\ w \in Work /\ w.kind = "serialize" /\ w.waiters = {s}
        /\ outputTail' = Append(outputTail, w) /\ UNCHANGED attach
        /\ phase[s] = "claimed" /\ phase' = [phase EXCEPT ![s] = "reading"]
    BY <1>13 DEF Work, AwaitScreen
  <2> HIDE DEF w
  <2>2. ~ Queuing(s, outputTail) /\ Attaching(s) /\ phase'[s] = "reading"
    BY <1>1, <2>1, IdleIsUnqueued DEF InPhase, Phases
  <2>3. WaitOn(outputTail, {s}) /\ InPhase'
    BY <1>1, <2>1, <2>2 DEF WaitOn, Attaching, InPhase, Phases
  <2>4. WaitsFor(s, w.kind)'
    BY <2>1, <2>2 DEF WaitsFor, Attaching
  <2>5. Orderly(outputTail)'
    BY <1>1, <2>1, <2>2, <2>3, <2>4, OrderlyAppended
  <2>6. QED
    BY <2>3, <2>5 DEF Waiting, InPhase
<1>14. ASSUME NEW s \in Sockets, ClaimRefused(s) PROVE Waiting'
  <2>1. attach # None /\ attach.socket = s /\ phase[s] = "refused" /\ UNCHANGED proc
        /\ RestoreAttachment(attach.socket, outputTail)
    BY <1>1, <1>14 DEF ClaimRefused, InPhase, Phases, Attaching, life
  <2>2. ~ Queuing(s, outputTail)
    BY <2>1, IdleIsUnqueued
  <2>3. QED
    BY <1>1, <2>1, <2>2, RestoreWaits
<1>15. QED
  BY <1>3, <1>4, <1>5, <1>6, <1>7, <1>8, <1>9, <1>10, <1>11, <1>12, <1>13, <1>14
     DEF Next, Requests, Transport, Continuations
-----------------------------------------------------------------------------
(* Viewers: what attaches, detaches and rollbacks leave behind.               *)

Viewers == Attached /\ Held /\ NoGhostViewer /\ NoGapNoRepeat

LEMMA QuietKept ==
  ASSUME Inv,
         UNCHANGED <<subscribers, explicitPauseOwners, transportPauseOwners, geometryClaims,
                     attachmentEpochs, attach, needDrain, disposed>>,
         \A t \in Sockets : conn'[t] = "closed" <=> conn[t] = "closed",
         \A t \in Sockets : phase'[t] = "restoring" <=> phase[t] = "restoring",
         \A t \in subscribers : seen[t] = chunks => seen'[t] = chunks'
  PROVE  Viewers'
<1>1. attach # None => attach.socket \in Sockets
  BY DEF Inv, TypeOK, Attaches
<1>2. subscribers \subseteq Sockets /\ transportPauseOwners \subseteq Sockets
  BY DEF Inv, TypeOK
<1>3. Attached'
  <2>1. Cancelled'
    BY DEF Inv, Attached, Cancelled, Clean, Current
  <2>2. Restores'
    BY <1>1 DEF Inv, Attached, Restores, Current
  <2>3. QED
    BY <2>1, <2>2 DEF Inv, Attached
<1>4. Held'
  BY <1>2 DEF Inv, Held, Attaching
<1>5. NoGhostViewer'
  BY DEF Inv, NoGhostViewer, Attaching
<1>6. NoGapNoRepeat'
  BY DEF Inv, NoGapNoRepeat
<1>7. QED
  BY <1>3, <1>4, <1>5, <1>6 DEF Viewers

LEMMA PrepareKept ==
  ASSUME Inv, NEW s \in Sockets, NEW g, NEW paused \in BOOLEAN, PrepareAttachment(s, g, paused)
  PROVE  Viewers'
<1>1. TypeOK /\ attach = None /\ attach' # None /\ ~ Attaching(s)
  BY Prepared DEF Inv, PrepareAttachment, Attaching
<1>2. /\ attach'.socket = s /\ attach'.epoch = attachmentEpochs[s] + 1 /\ attach'.paused = paused
      /\ attach'.geometry = geometryClaims[s]
      /\ attach'.explicitPaused <=> s \in explicitPauseOwners
      /\ attach'.subscribed <=> s \in subscribers
  BY DEF PrepareAttachment
<1>3. /\ attachmentEpochs' = [attachmentEpochs EXCEPT ![s] = @ + 1]
      /\ explicitPauseOwners' = Ticket(explicitPauseOwners, s, paused)
      /\ geometryClaims' = [geometryClaims EXCEPT ![s] = g]
      /\ phase' = [phase EXCEPT ![s] = "claiming"]
      /\ UNCHANGED <<subscribers, transportPauseOwners, conn, needDrain, disposed, chunks, seen>>
  BY DEF PrepareAttachment, life
<1>4. Current(s)' /\ attachmentEpochs'[s] = attach'.epoch /\ attachmentEpochs'[s] \in Nat
  BY <1>1, <1>2, <1>3 DEF Current, TypeOK
<1>5. phase'[s] = "claiming" /\ (paused => s \in explicitPauseOwners')
      /\ explicitPauseOwners' \subseteq explicitPauseOwners \cup {s}
  BY <1>1, <1>3 DEF Ticket, TypeOK
<1>6. Attached'
  <2>1. Cancelled'
    BY <1>2, <1>4 DEF Cancelled
  <2>2. s \in explicitPauseOwners => s \in subscribers
    BY <1>1 DEF Inv, Held
  <2>3. conn[s] = "closed" /\ ~ disposed => s \notin subscribers /\ geometryClaims[s] = Unclaimed
    BY <1>1 DEF Inv, NoGhostViewer
  <2>4. Restores'
    BY <1>2, <1>3, <1>5, <2>2, <2>3 DEF Restores
  <2>5. QED
    BY <1>2, <1>4, <2>1, <2>4 DEF Attached
<1>7. Held'
  BY <1>1, <1>2, <1>3, <1>5 DEF Inv, Held, Attaching
<1>8. NoGhostViewer'
  BY <1>1, <1>2, <1>3, <1>5 DEF Inv, NoGhostViewer, Attaching, TypeOK
<1>9. NoGapNoRepeat'
  BY <1>3 DEF Inv, NoGapNoRepeat
<1>10. QED
  BY <1>6, <1>7, <1>8, <1>9 DEF Viewers

\* A connection that is attached and not attaching changes its size or its ticket.
LEMMA AskKept ==
  ASSUME Inv, NEW s \in Sockets, s \in subscribers, ~ Attaching(s), ~ disposed,
         NEW g, geometryClaims' = [geometryClaims EXCEPT ![s] = g],
         explicitPauseOwners' \in {explicitPauseOwners, explicitPauseOwners \cup {s},
                                   explicitPauseOwners \ {s}},
         \A t \in Sockets \ {s} : phase'[t] = phase[t],
         UNCHANGED <<subscribers, transportPauseOwners, attachmentEpochs, attach, conn,
                     needDrain, disposed, chunks, seen>>
  PROVE  Viewers'
<1>1. attach # None => attach.socket \in Sockets \ {s}
  BY DEF Inv, TypeOK, Attaches, Attaching
<1>2. \A t \in Sockets \ {s} : geometryClaims'[t] = geometryClaims[t]
                               /\ (t \in explicitPauseOwners' <=> t \in explicitPauseOwners)
  BY DEF Inv, TypeOK
<1>3. conn[s] # "closed"
  BY DEF Inv, NoGhostViewer
<1>4. Attached'
  <2>1. Cancelled'
    BY <1>1, <1>2 DEF Inv, Attached, Cancelled, Clean, Current
  <2>2. Restores'
    BY <1>1, <1>2 DEF Inv, Attached, Restores, Current
  <2>3. QED
    BY <2>1, <2>2 DEF Inv, Attached
<1>5. Held'
  BY DEF Inv, Held, Attaching
<1>6. NoGhostViewer'
  BY <1>2, <1>3 DEF Inv, NoGhostViewer, Attaching
<1>7. NoGapNoRepeat'
  BY DEF Inv, NoGapNoRepeat
<1>8. QED
  BY <1>4, <1>5, <1>6, <1>7 DEF Viewers
LEMMA ReleaseKept ==
  ASSUME Inv, ~ disposed, NEW s \in Sockets, NEW waiters \in SUBSET Sockets, Release(s, waiters),
         \A t \in Sockets \ {s} : phase'[t] = phase[t] /\ conn'[t] = conn[t],
         UNCHANGED <<proc, attach, needDrain, disposed, chunks>>
  PROVE  Viewers'
<1>1. TypeOK /\ Flow
  BY DEF Inv
<1>2. /\ attachmentEpochs' = [attachmentEpochs EXCEPT ![s] = @ + 1]
      /\ subscribers' = subscribers \ {s}
      /\ explicitPauseOwners' = explicitPauseOwners \ {s}
      /\ transportPauseOwners' = transportPauseOwners \ {s}
      /\ geometryClaims' = [geometryClaims EXCEPT ![s] = Unclaimed]
      /\ seen' = [seen EXCEPT ![s] = 0]
  BY DEF Release
<1>3. Clean(s)' /\ geometryClaims'[s] = Unclaimed
  BY <1>1, <1>2 DEF Clean, TypeOK
<1>4. \A t \in Sockets \ {s} : attachmentEpochs'[t] = attachmentEpochs[t]
                               /\ geometryClaims'[t] = geometryClaims[t]
  BY <1>1, <1>2 DEF TypeOK
<1>5. Attached'
  <2>1. CASE attach = None
    BY <2>1 DEF Attached, Cancelled, Restores
  <2>2. CASE attach # None /\ attach.socket = s
    <3>1. attach.epoch \in Nat /\ attachmentEpochs[s] \in Nat /\ attach.epoch <= attachmentEpochs[s]
      BY <1>1, <2>2 DEF Inv, Attached, TypeOK, Attaches
    <3>2. attachmentEpochs'[s] = attachmentEpochs[s] + 1
      BY <1>1, <1>2 DEF TypeOK
    <3>3. ~ Current(s)' /\ attach'.epoch <= attachmentEpochs'[s] /\ attach'.socket = s
      BY <2>2, <3>1, <3>2 DEF Current
    <3>4. QED
      BY <1>3, <2>2, <3>3 DEF Attached, Cancelled, Restores
  <2>3. CASE attach # None /\ attach.socket # s
    <3>1. attach.socket \in Sockets \ {s}
      BY <1>1, <2>3 DEF TypeOK, Attaches
    <3>2. Cancelled'
      BY <1>2, <1>4, <3>1 DEF Inv, Attached, Cancelled, Clean, Current
    <3>3. Restores'
      BY <1>2, <1>4, <3>1 DEF Inv, Attached, Restores, Current
    <3>4. QED
      BY <1>4, <3>1, <3>2, <3>3 DEF Inv, Attached
  <2>4. QED
    BY <2>1, <2>2, <2>3
<1>6. Held'
  BY <1>1, <1>2 DEF Inv, Held, Attaching, TypeOK
<1>7. NoGhostViewer'
  <2>1. \A t \in Sockets \ {s} : conn'[t] = "closed" /\ ~ Attaching(t)' =>
          /\ t \notin subscribers' \cup explicitPauseOwners' \cup transportPauseOwners'
          /\ geometryClaims'[t] = Unclaimed
    BY <1>2, <1>4 DEF Inv, NoGhostViewer, Attaching
  <2>2. QED
    BY <1>3, <2>1 DEF NoGhostViewer, Clean
<1>8. NoGapNoRepeat'
  BY <1>1, <1>2 DEF Inv, NoGapNoRepeat, TypeOK
<1>9. QED
  BY <1>5, <1>6, <1>7, <1>8 DEF Viewers

LEMMA CloseKept ==
  ASSUME Inv, NEW s \in Sockets, Close(s)
  PROVE  Viewers'
<1>1. /\ conn \in [Sockets -> {"open", "destroyed", "closed"}]
      /\ conn' = [conn EXCEPT ![s] = "closed"]
      /\ UNCHANGED <<attach, phase, needDrain, proc, disposed, chunks>>
  BY DEF Inv, TypeOK, Close, life
<1>2. \A t \in Sockets \ {s} : conn'[t] = conn[t]
  BY <1>1
<1>3. CASE ~ disposed
  BY <1>1, <1>2, <1>3, ReleaseKept DEF Close
<1>4. CASE disposed
  <2>1. UNCHANGED <<subscribers, explicitPauseOwners, transportPauseOwners, geometryClaims,
                    attachmentEpochs, seen>>
    BY <1>4 DEF Close, flow
  <2>2. Cancelled'
    BY <1>1, <2>1 DEF Inv, Attached, Cancelled, Clean, Current
  <2>3. Restores'
    BY <1>1, <1>4, <2>1 DEF Inv, Attached, Restores, Current
  <2>4. Attached'
    BY <1>1, <2>1, <2>2, <2>3 DEF Inv, Attached
  <2>5. Held' /\ NoGhostViewer' /\ NoGapNoRepeat'
    BY <1>1, <1>4, <2>1 DEF Inv, Held, NoGhostViewer, NoGapNoRepeat, Attaching
  <2>6. QED
    BY <2>4, <2>5 DEF Viewers
<1>5. QED
  BY <1>3, <1>4

LEMMA BufferKept ==
  ASSUME Inv, NEW s \in Sockets, WriteSessionHostFrame(s) \/ DrainSessionHostTransport(s)
  PROVE  Viewers'
<1>1. UNCHANGED <<subscribers, explicitPauseOwners, geometryClaims, attachmentEpochs, attach,
                  phase, conn, disposed, chunks, seen>>
  BY DEF WriteSessionHostFrame, DrainSessionHostTransport, size, life
<1>2. \A t \in transportPauseOwners' : t \in transportPauseOwners
                                       \/ (t = s /\ s \in subscribers /\ ~ disposed)
  BY DEF WriteSessionHostFrame, DrainSessionHostTransport
<1>3. conn[s] = "open"
  BY DEF WriteSessionHostFrame, DrainSessionHostTransport
<1>4. Attached'
  <2>1. Cancelled'
    BY <1>1, <1>2 DEF Inv, Attached, Cancelled, Clean, Current
  <2>2. Restores'
    BY <1>1 DEF Inv, Attached, Restores, Current
  <2>3. QED
    BY <1>1, <2>1, <2>2 DEF Inv, Attached
<1>5. Held'
  <2>1. transportPauseOwners \subseteq subscribers \cap needDrain
        /\ (disposed => transportPauseOwners = {})
        /\ (~ disposed => subscribers \cap needDrain \subseteq transportPauseOwners)
    BY DEF Inv, Held
  <2>2. CASE WriteSessionHostFrame(s)
    <3>1. needDrain' = needDrain \cup {s}
          /\ transportPauseOwners' = transportPauseOwners \cup {t \in subscribers : t = s /\ ~disposed}
      BY <2>2 DEF WriteSessionHostFrame
    <3>2. QED
      BY <1>1, <1>2, <1>3, <2>1, <3>1 DEF Inv, Held, Attaching
  <2>3. CASE DrainSessionHostTransport(s)
    <3>1. needDrain' = needDrain \ {s}
          /\ transportPauseOwners' = transportPauseOwners \ {t \in subscribers : t = s /\ ~disposed}
      BY <2>3 DEF DrainSessionHostTransport
    <3>2. QED
      BY <1>1, <1>2, <1>3, <2>1, <3>1 DEF Inv, Held, Attaching
  <2>4. QED
    BY <2>2, <2>3
<1>6. NoGhostViewer'
  BY <1>1, <1>2, <1>3 DEF Inv, NoGhostViewer, Attaching
<1>7. NoGapNoRepeat'
  BY <1>1 DEF Inv, NoGapNoRepeat
<1>8. QED
  BY <1>4, <1>5, <1>6, <1>7 DEF Viewers

LEMMA DisposeKept ==
  ASSUME Inv, Dispose
  PROVE  Viewers'
<1>1. /\ disposed' /\ explicitPauseOwners' = {} /\ transportPauseOwners' = {}
      /\ geometryClaims' = [s \in Sockets |-> Unclaimed]
      /\ UNCHANGED <<subscribers, attachmentEpochs, attach, phase, conn, needDrain, chunks, seen>>
  BY DEF Dispose
<1>2. attach # None => attach.socket \in Sockets
  BY DEF Inv, TypeOK, Attaches
<1>3. Cancelled'
  BY <1>1, <1>2 DEF Inv, Attached, Cancelled, Clean, Current
<1>4. Restores'
  BY <1>1, <1>2 DEF Inv, Attached, Restores, Current
<1>5. Attached'
  BY <1>1, <1>3, <1>4 DEF Inv, Attached
<1>6. Held' /\ NoGhostViewer' /\ NoGapNoRepeat'
  BY <1>1 DEF Inv, Held, NoGhostViewer, NoGapNoRepeat
<1>7. QED
  BY <1>5, <1>6 DEF Viewers

LEMMA WriteLandsKept ==
  ASSUME Inv, WriteLands
  PROVE  Viewers'
<1>1. /\ chunks' = chunks + 1
      /\ seen' = [s \in Sockets |-> IF s \in subscribers THEN seen[s] + 1 ELSE seen[s]]
      /\ UNCHANGED <<subscribers, explicitPauseOwners, transportPauseOwners, geometryClaims,
                     attachmentEpochs, attach, needDrain, disposed, conn, phase>>
  BY DEF WriteLands, size, life
<1>2. \A t \in subscribers : seen[t] = chunks => seen'[t] = chunks'
  BY <1>1 DEF Inv, TypeOK
<1>3. QED
  BY <1>1, <1>2, QuietKept
LEMMA GeometryLandsKept ==
  ASSUME Inv, GeometryLands
  PROVE  Viewers'
<1> DEFINE woken == Head(outputTail).waiters
<1>1. /\ \A s \in Sockets : IF s \notin woken THEN phase'[s] = phase[s]
                            ELSE IF phase[s] # "claiming" THEN phase'[s] = "idle"
                            ELSE phase'[s] \in {"refused", "claimed"}
      /\ attach' = IF attach # None /\ phase[attach.socket] = "restoring" /\ attach.socket \in woken
                   THEN None ELSE attach
      /\ UNCHANGED <<subscribers, explicitPauseOwners, transportPauseOwners, geometryClaims,
                     attachmentEpochs, needDrain, disposed, conn, chunks, seen>>
  BY DEF GeometryLands, flow, life
<1> HIDE DEF woken
<1>2. attach # None => attach.socket \in Sockets
  BY DEF Inv, TypeOK, Attaches
<1>3. CASE attach' = attach
  <2>1. attach # None => (phase'[attach.socket] = "restoring" <=> phase[attach.socket] = "restoring")
    <3> SUFFICES ASSUME attach # None
                 PROVE  phase'[attach.socket] = "restoring" <=> phase[attach.socket] = "restoring"
      OBVIOUS
    <3>1. CASE attach.socket \in woken
      <4>1. phase[attach.socket] # "restoring"
        BY <1>1, <1>3, <3>1
      <4>2. QED
        BY <1>1, <1>2, <3>1, <4>1
    <3>2. CASE attach.socket \notin woken
      BY <1>1, <1>2, <3>2
    <3>3. QED
      BY <3>1, <3>2
  <2>2. Cancelled'
    BY <1>1, <1>2, <1>3 DEF Inv, Attached, Cancelled, Clean, Current
  <2>3. Restores'
    BY <1>1, <1>2, <1>3, <2>1 DEF Inv, Attached, Restores, Current
  <2>4. Attached'
    BY <1>1, <1>3, <2>2, <2>3 DEF Inv, Attached
  <2>5. Held' /\ NoGhostViewer' /\ NoGapNoRepeat'
    BY <1>1, <1>3 DEF Inv, Held, NoGhostViewer, NoGapNoRepeat, Attaching
  <2>6. QED
    BY <2>4, <2>5 DEF Viewers
<1>4. CASE attach' # attach
  <2> DEFINE s == attach.socket
  <2>1. attach # None /\ attach' = None /\ phase[s] = "restoring" /\ s \in Sockets
    BY <1>1, <1>2, <1>4
  <2>2. s \in explicitPauseOwners => s \in subscribers
    BY <2>1 DEF Inv, Attached, Cancelled, Restores, Clean
  <2>3. transportPauseOwners \subseteq subscribers
    BY DEF Inv, Held
  <2>4. conn[s] = "closed" /\ ~ disposed => Clean(s)
    BY <2>1, <2>2, <2>3 DEF Inv, Attached, Cancelled, Restores, Clean
  <2>5. Attached'
    BY <2>1 DEF Attached, Cancelled, Restores
  <2>6. Held'
    BY <1>1, <2>1, <2>2 DEF Inv, Held, Attaching
  <2>7. NoGhostViewer'
    BY <1>1, <2>1, <2>4 DEF Inv, NoGhostViewer, Attaching, Clean
  <2>8. NoGapNoRepeat'
    BY <1>1 DEF Inv, NoGapNoRepeat
  <2>9. QED
    BY <2>5, <2>6, <2>7, <2>8 DEF Viewers
<1>5. QED
  BY <1>3, <1>4

LEMMA RestoreKept ==
  ASSUME Inv, attach # None, UNCHANGED proc, NEW tail \in Seq(Work),
         RestoreAttachment(attach.socket, tail),
         UNCHANGED <<attachmentEpochs, conn, needDrain, disposed, chunks, seen>>
  PROVE  Viewers' /\ subscribers' = subscribers
<1> DEFINE s == attach.socket
<1>1. TypeOK /\ Flow /\ s \in Sockets /\ transportPauseOwners' = transportPauseOwners
  BY Restored DEF Inv, TypeOK, Attaches
<1>2. transportPauseOwners \subseteq subscribers
  BY DEF Inv, Held
<1>3. CASE ~ Current(s)
  <2>1. attach' = None /\ UNCHANGED <<subscribers, explicitPauseOwners, geometryClaims>>
    BY <1>1, <1>3, Restored
  <2>2. Clean(s)
    BY <1>3 DEF Inv, Attached, Cancelled
  <2>3. Attached'
    BY <2>1 DEF Attached, Cancelled, Restores
  <2>4. Held'
    BY <1>1, <2>1, <2>2 DEF Inv, Held, Attaching, Clean
  <2>5. NoGhostViewer'
    BY <1>1, <2>1, <2>2 DEF Inv, NoGhostViewer, Attaching, Clean
  <2>6. NoGapNoRepeat'
    BY <2>1 DEF Inv, NoGapNoRepeat
  <2>7. QED
    BY <2>1, <2>3, <2>4, <2>5, <2>6 DEF Viewers
<1>4. CASE Current(s)
  <2>1. /\ attach' = attach /\ phase' = [phase EXCEPT ![s] = "restoring"]
        /\ explicitPauseOwners' = Ticket(explicitPauseOwners, s, attach.explicitPaused)
        /\ subscribers' = (IF attach.subscribed THEN subscribers \cup {s} ELSE subscribers \ {s})
        /\ geometryClaims' = [geometryClaims EXCEPT ![s] = attach.geometry]
    BY <1>1, <1>4, Restored
  <2>2. /\ attach.subscribed <=> s \in subscribers
        /\ attach.explicitPaused => attach.subscribed
        /\ conn[s] = "closed" /\ ~ disposed => ~ attach.subscribed /\ attach.geometry = Unclaimed
    BY <1>4 DEF Inv, Attached, Restores
  <2>3. subscribers' = subscribers
    BY <2>1, <2>2
  <2>4. /\ geometryClaims'[s] = attach.geometry /\ phase'[s] = "restoring"
        /\ \A t \in Sockets \ {s} : geometryClaims'[t] = geometryClaims[t]
    BY <1>1, <2>1 DEF TypeOK
  <2>5. /\ s \in explicitPauseOwners' => attach.explicitPaused
        /\ \A t : t # s => (t \in explicitPauseOwners' <=> t \in explicitPauseOwners)
    BY <2>1 DEF Ticket
  <2>6. Current(s)'
    BY <1>4, <2>1 DEF Current
  <2>7. Attached'
    <3>1. Cancelled'
      BY <2>1, <2>6 DEF Cancelled
    <3>2. Restores'
      BY <2>1, <2>2, <2>3, <2>4, <2>5 DEF Restores
    <3>3. QED
      BY <2>1, <3>1, <3>2 DEF Inv, Attached
  <2>8. Held'
    BY <1>1, <2>1, <2>3, <2>5 DEF Inv, Held, Attaching
  <2>9. NoGhostViewer'
    BY <1>1, <2>1, <2>3, <2>4, <2>5 DEF Inv, NoGhostViewer, Attaching
  <2>10. NoGapNoRepeat'
    BY <2>3 DEF Inv, NoGapNoRepeat
  <2>11. QED
    BY <2>3, <2>7, <2>8, <2>9, <2>10 DEF Viewers
<1>5. QED
  BY <1>3, <1>4

\* The commit of an attach.
LEMMA Committed ==
  ASSUME Inv, ScreenLands, Current(attach.socket), conn[attach.socket] = "open", ~ exited
  PROVE  /\ subscribers' = subscribers \cup {attach.socket} /\ ~ disposed
         /\ seen' = [seen EXCEPT ![attach.socket] = chunks]
         /\ transportPauseOwners' = transportPauseOwners \cup ({attach.socket} \cap needDrain)
         /\ attach' = None
         /\ UNCHANGED <<explicitPauseOwners, geometryClaims, attachmentEpochs, conn, needDrain,
                        life, chunks>>
BY DEF ScreenLands, Inv, TypeOK

LEMMA ScreenLandsKept ==
  ASSUME Inv, ScreenLands
  PROVE  Viewers'
<1> DEFINE s == attach.socket
<1>1. TypeOK /\ attach # None /\ s \in Sockets /\ phase[s] = "reading"
  BY ReaderAttaches DEF Inv
<1>2. CASE Current(s) /\ conn[s] = "open" /\ ~ exited
  <2>1. /\ subscribers' = subscribers \cup {s} /\ ~ disposed
        /\ seen' = [seen EXCEPT ![s] = chunks]
        /\ transportPauseOwners' = transportPauseOwners \cup ({s} \cap needDrain)
        /\ attach' = None
        /\ UNCHANGED <<explicitPauseOwners, geometryClaims, attachmentEpochs, conn, needDrain,
                       disposed, chunks>>
    BY <1>2, Committed DEF life
  <2>2. Attached'
    BY <2>1 DEF Attached, Cancelled, Restores
  <2>3. Held'
    BY <1>2, <2>1 DEF Inv, Held, Attaching
  <2>4. NoGhostViewer'
    BY <1>2, <2>1 DEF Inv, NoGhostViewer, Attaching
  <2>5. NoGapNoRepeat'
    BY <1>1, <2>1 DEF Inv, NoGapNoRepeat, TypeOK
  <2>6. QED
    BY <2>2, <2>3, <2>4, <2>5 DEF Viewers
<1>3. CASE ~ (Current(s) /\ conn[s] = "open" /\ ~ exited)
  <2>1. RestoreAttachment(s, Tail(outputTail))
        /\ UNCHANGED <<proc, attachmentEpochs, conn, needDrain, disposed, chunks, seen>>
    BY <1>3 DEF ScreenLands, life
  <2>2. Tail(outputTail) \in Seq(Work)
    BY <1>1, Served DEF ScreenLands, TypeOK
  <2>3. QED
    BY <1>1, <2>1, <2>2, RestoreKept
<1>4. QED
  BY <1>2, <1>3

LEMMA ViewersKept == Inv /\ [Next]_vars => Viewers'
<1> SUFFICES ASSUME Inv, [Next]_vars PROVE Viewers'
  OBVIOUS
<1>1. /\ TypeOK /\ InPhase /\ phase \in [Sockets -> Phases]
      /\ geometryClaims \in [Sockets -> Sizes \cup {Unclaimed}]
  BY DEF Inv, Waiting, InPhase, TypeOK
<1>2. ASSUME NEW s \in Sockets, Requests(s) PROVE Viewers'
  <2>1. ASSUME NEW g, NEW paused \in BOOLEAN, PrepareAttachment(s, g, paused) PROVE Viewers'
    BY <2>1, PrepareKept
  <2>2. phase[s] = "idle" => ~ Attaching(s)
    BY <1>1 DEF InPhase
  <2>3. ~ exited => ~ disposed
    BY <1>1 DEF TypeOK
  <2>4. ASSUME NEW g, Resize(s, g) PROVE Viewers'
    <3>1. /\ phase[s] = "idle" /\ s \in subscribers /\ ~ exited
          /\ geometryClaims' = [geometryClaims EXCEPT ![s] = g]
          /\ phase' = [phase EXCEPT ![s] = "waiting"]
          /\ UNCHANGED <<subscribers, explicitPauseOwners, transportPauseOwners, attachmentEpochs,
                         attach, conn, needDrain, disposed, chunks, seen>>
      BY <2>4 DEF Resize, flow, life
    <3>2. \A t \in Sockets \ {s} : phase'[t] = phase[t]
      BY <1>1, <3>1
    <3>3. QED
      BY <2>2, <2>3, <3>1, <3>2, AskKept
  <2>5. ASSUME NEW paused \in BOOLEAN, SetPaused(s, paused) PROVE Viewers'
    <3>1. /\ phase[s] = "idle" /\ s \in subscribers /\ ~ exited
          /\ explicitPauseOwners' \in {explicitPauseOwners, explicitPauseOwners \cup {s},
                                       explicitPauseOwners \ {s}}
          /\ UNCHANGED <<subscribers, geometryClaims, transportPauseOwners, attachmentEpochs,
                         attach, phase, conn, needDrain, disposed, chunks, seen>>
      BY <2>5 DEF SetPaused, Ticket, size, life
    <3>2. geometryClaims' = [geometryClaims EXCEPT ![s] = geometryClaims[s]]
      BY <1>1, <3>1
    <3>3. QED
      BY <2>2, <2>3, <3>1, <3>2, AskKept
  <2>6. CASE Detach(s)
    <3>1. /\ ~ disposed /\ Release(s, {s})
          /\ phase' = [phase EXCEPT ![s] = IF geometryClaims[s] = Unclaimed THEN "idle"
                                           ELSE "waiting"]
          /\ UNCHANGED <<proc, attach, conn, needDrain, disposed, chunks>>
      BY <2>6 DEF Detach, life
    <3>2. \A t \in Sockets \ {s} : phase'[t] = phase[t]
      BY <1>1, <3>1
    <3>3. QED
      BY <3>1, <3>2, ReleaseKept
  <2>7. QED
    BY <1>2, <2>1, <2>4, <2>5, <2>6 DEF Requests
<1>3. ASSUME NEW s \in Sockets, Destroy(s) PROVE Viewers'
  <2>1. /\ conn[s] = "open" /\ conn' = [conn EXCEPT ![s] = "destroyed"]
        /\ UNCHANGED <<subscribers, explicitPauseOwners, transportPauseOwners, geometryClaims,
                       attachmentEpochs, attach, phase, needDrain, disposed, chunks, seen>>
    BY <1>3 DEF Destroy, flow, size, life
  <2>2. \A t \in Sockets : conn'[t] = "closed" <=> conn[t] = "closed"
    BY <1>1, <2>1 DEF TypeOK
  <2>3. QED
    BY <2>1, <2>2, QuietKept
<1>4. ASSUME NEW s \in Sockets, Transport(s) PROVE Viewers'
  BY <1>3, <1>4, CloseKept, BufferKept DEF Transport
<1>5. CASE RecordOutput \/ Die \/ ObserveProcessExit \/ UNCHANGED vars
  <2>1. UNCHANGED <<subscribers, explicitPauseOwners, transportPauseOwners, geometryClaims,
                    attachmentEpochs, attach, phase, conn, needDrain, disposed, chunks, seen>>
    BY <1>5 DEF RecordOutput, Die, ObserveProcessExit, vars, flow, size, life
  <2>2. QED
    BY <2>1, QuietKept
<1>6. ASSUME NEW s \in Sockets, Continuations(s) PROVE Viewers'
  <2>1. CASE AwaitScreen(s)
    <3>1. /\ phase[s] = "claimed" /\ phase' = [phase EXCEPT ![s] = "reading"]
          /\ UNCHANGED <<subscribers, explicitPauseOwners, transportPauseOwners, geometryClaims,
                         attachmentEpochs, attach, conn, needDrain, disposed, chunks, seen>>
      BY <2>1 DEF AwaitScreen, flow, size, life
    <3>2. \A t \in Sockets : phase'[t] = "restoring" <=> phase[t] = "restoring"
      BY <1>1, <3>1
    <3>3. QED
      BY <3>1, <3>2, QuietKept
  <2>2. CASE ClaimRefused(s)
    <3>1. attach # None /\ attach.socket = s /\ outputTail \in Seq(Work)
      BY <1>1, <2>2 DEF ClaimRefused, InPhase, Phases, Attaching, TypeOK
    <3>2. RestoreAttachment(attach.socket, outputTail)
          /\ UNCHANGED <<proc, attachmentEpochs, conn, needDrain, disposed, chunks, seen>>
      BY <2>2, <3>1 DEF ClaimRefused, life
    <3>3. QED
      BY <3>1, <3>2, RestoreKept
  <2>3. QED
    BY <1>6, <2>1, <2>2 DEF Continuations
<1>7. QED
  BY <1>2, <1>4, <1>5, <1>6, DisposeKept, WriteLandsKept, GeometryLandsKept, ScreenLandsKept
     DEF Next
-----------------------------------------------------------------------------
(* Waiters are on the queue; sizes fit the viewers.                           *)

Awaiting == {"waiting", "claiming", "reading", "restoring"}
OnQueue == \A s \in Sockets : phase[s] \in Awaiting => Queuing(s, outputTail)

\* With no resize on its way, a running terminal has the effective size.
Fits ==
  proc = "live" /\ Queued("geometry") = {} /\ EffectiveGeometry(geometryClaims) # Unclaimed
    => appliedGeometry = EffectiveGeometry(geometryClaims)

\* Who views has a size, and so has who is about to, or will again.
Sized ==
  ~ disposed =>
    /\ \A s \in subscribers : geometryClaims[s] # Unclaimed
    /\ attach # None /\ Current(attach.socket) =>
         /\ phase[attach.socket] # "restoring" => geometryClaims[attach.socket] # Unclaimed
         /\ attach.subscribed => attach.geometry # Unclaimed

LEMMA JoinedQueue ==
  ASSUME NEW tail, NEW next, NEW waiters, NEW p, Joins(tail, next, waiters, p)
  PROVE  /\ \A s : Queuing(s, tail) \/ s \in waiters => Queuing(s, next)
         /\ At(next, "geometry") # {}
<1>1. p \in DOMAIN next /\ next[p].kind = "geometry" /\ waiters \subseteq next[p].waiters
  BY DEF Joins
<1>2. \A i \in DOMAIN tail : i \in DOMAIN next /\ tail[i].waiters \subseteq next[i].waiters
  BY DEF Joins
<1>3. QED
  BY <1>1, <1>2 DEF Queuing, At

LEMMA AppendedQueue ==
  ASSUME NEW tail \in Seq(Work), NEW w \in Work
  PROVE  /\ \A s : Queuing(s, tail) \/ s \in w.waiters => Queuing(s, Append(tail, w))
         /\ At(Append(tail, w), "geometry") = {} => At(tail, "geometry") = {}
<1>1. /\ DOMAIN tail = 1 .. Len(tail) /\ Len(tail) \in Nat
      /\ DOMAIN Append(tail, w) = 1 .. Len(tail) + 1
      /\ Append(tail, w)[Len(tail) + 1] = w
      /\ \A i \in 1 .. Len(tail) : Append(tail, w)[i] = tail[i]
  BY Appended
<1>2. \A i \in DOMAIN tail : i \in DOMAIN Append(tail, w) /\ Append(tail, w)[i] = tail[i]
  BY <1>1
<1>3. Len(tail) + 1 \in DOMAIN Append(tail, w)
  BY <1>1
<1>4. QED
  BY <1>1, <1>2, <1>3 DEF Queuing, At

LEMMA ServedQueue ==
  ASSUME NEW tail \in Seq(Work), tail # <<>>
  PROVE  /\ \A s : Queuing(s, tail) /\ s \notin Head(tail).waiters => Queuing(s, Tail(tail))
         /\ Head(tail).kind # "geometry" /\ At(Tail(tail), "geometry") = {} =>
              At(tail, "geometry") = {}
<1>1. /\ Head(tail) = tail[1] /\ Len(tail) \in Nat \ {0} /\ DOMAIN tail = 1 .. Len(tail)
      /\ DOMAIN Tail(tail) = 1 .. Len(tail) - 1
      /\ \A i \in 1 .. Len(tail) - 1 : Tail(tail)[i] = tail[i + 1]
  BY Served
<1>2. ASSUME NEW i \in DOMAIN tail, i # 1
      PROVE  i - 1 \in DOMAIN Tail(tail) /\ Tail(tail)[i - 1] = tail[i]
  <2>1. i - 1 \in 1 .. Len(tail) - 1 /\ (i - 1) + 1 = i
    BY <1>1, <1>2
  <2>2. QED
    BY <1>1, <2>1
<1>3. ASSUME NEW s, Queuing(s, tail), s \notin Head(tail).waiters
      PROVE  Queuing(s, Tail(tail))
  <2>1. PICK i \in DOMAIN tail : s \in tail[i].waiters
    BY <1>3 DEF Queuing
  <2>2. i # 1
    BY <1>1, <1>3, <2>1
  <2>3. QED
    BY <1>2, <2>1, <2>2 DEF Queuing
<1>4. ASSUME Head(tail).kind # "geometry", NEW i \in At(tail, "geometry")
      PROVE  i - 1 \in At(Tail(tail), "geometry")
  <2>1. i \in DOMAIN tail /\ tail[i].kind = "geometry"
    BY <1>4 DEF At
  <2>2. i # 1
    BY <1>1, <1>4, <2>1
  <2>3. QED
    BY <1>2, <2>1, <2>2 DEF At
<1>5. QED
  BY <1>3, <1>4

LEMMA OnQueueKept == Inv /\ OnQueue /\ [Next]_vars => OnQueue'
<1> SUFFICES ASSUME Inv, OnQueue, [Next]_vars PROVE OnQueue'
  OBVIOUS
<1>1. TypeOK /\ Flow /\ InPhase /\ phase \in [Sockets -> Phases] /\ outputTail \in Seq(Work)
  BY DEF Inv, Waiting, InPhase, TypeOK
<1>2. ASSUME UNCHANGED <<outputTail, phase>> PROVE OnQueue'
  BY <1>2 DEF OnQueue, Queuing
<1>3. ASSUME NEW s \in Sockets, \A t \in Sockets \ {s} : phase'[t] = phase[t],
             \A t \in Sockets \ {s} : Queuing(t, outputTail) => Queuing(t, outputTail'),
             phase'[s] \in Awaiting => Queuing(s, outputTail')
      PROVE  OnQueue'
  BY <1>3 DEF OnQueue, Queuing
<1>4. ASSUME NEW s \in Sockets, geometryClaims' \in Claims,
             outputTail' = ApplyEffectiveGeometry(outputTail, geometryClaims', {s}),
             \A t \in Sockets \ {s} : phase'[t] = phase[t]
      PROVE  OnQueue'
  <2>1. PICK p \in DOMAIN outputTail' : Joins(outputTail, outputTail', {s}, p)
    BY <1>1, <1>4, Requested
  <2>2. \A t : Queuing(t, outputTail) \/ t \in {s} => Queuing(t, outputTail')
    BY <2>1, JoinedQueue
  <2>3. QED
    BY <1>3, <1>4, <2>2
<1>5. ASSUME NEW s \in Sockets, NEW g \in Geometries \cup {appliedGeometry}, NEW paused \in BOOLEAN,
             PrepareAttachment(s, g, paused)
      PROVE  OnQueue'
  <2>1. geometryClaims' \in Claims
    BY <1>1, <1>5, HostSessionAssumption DEF PrepareAttachment, TypeOK, Claims
  <2>2. outputTail' = ApplyEffectiveGeometry(outputTail, geometryClaims', {s})
        /\ phase' = [phase EXCEPT ![s] = "claiming"]
    BY <1>5 DEF PrepareAttachment
  <2>3. QED
    BY <1>1, <1>4, <2>1, <2>2
<1>6. ASSUME NEW s \in Sockets, NEW g \in Geometries, Resize(s, g) PROVE OnQueue'
  <2>1. geometryClaims' \in Claims
    BY <1>1, <1>6, HostSessionAssumption DEF Resize, TypeOK, Claims
  <2>2. outputTail' = ApplyEffectiveGeometry(outputTail, geometryClaims', {s})
        /\ phase' = [phase EXCEPT ![s] = "waiting"]
    BY <1>6 DEF Resize
  <2>3. QED
    BY <1>1, <1>4, <2>1, <2>2
<1>7. ASSUME NEW s \in Sockets, NEW waiters \in SUBSET {s}, Release(s, waiters), UNCHANGED proc,
             \/ UNCHANGED phase
             \/ waiters = {s} /\ phase' = [phase EXCEPT ![s] = IF geometryClaims[s] = Unclaimed
                                                               THEN "idle" ELSE "waiting"]
      PROVE  OnQueue'
  <2>1. \/ outputTail' = outputTail /\ geometryClaims[s] = Unclaimed
        \/ \E p \in DOMAIN outputTail' : Joins(outputTail, outputTail', waiters, p)
    BY <1>1, <1>7, Released
  <2>2. CASE outputTail' = outputTail /\ geometryClaims[s] = Unclaimed
    BY <1>1, <1>2, <1>3, <1>7, <2>2 DEF Awaiting, OnQueue
  <2>3. CASE \E p \in DOMAIN outputTail' : Joins(outputTail, outputTail', waiters, p)
    <3>1. \A t : Queuing(t, outputTail) \/ t \in waiters => Queuing(t, outputTail')
      BY <2>3, JoinedQueue
    <3>2. CASE UNCHANGED phase
      BY <1>3, <3>1, <3>2 DEF OnQueue
    <3>3. CASE ~ UNCHANGED phase
      BY <1>1, <1>3, <1>7, <3>1, <3>3
    <3>4. QED
      BY <3>2, <3>3
  <2>4. QED
    BY <2>1, <2>2, <2>3
<1>8. ASSUME NEW s \in Sockets, Detach(s) PROVE OnQueue'
  <2>1. Release(s, {s}) /\ UNCHANGED proc
        /\ phase' = [phase EXCEPT ![s] = IF geometryClaims[s] = Unclaimed THEN "idle" ELSE "waiting"]
    BY <1>8 DEF Detach, life
  <2>2. QED
    BY <1>7, <2>1
<1>9. ASSUME NEW s \in Sockets, Close(s) PROVE OnQueue'
  <2>1. UNCHANGED <<outputTail, phase>> \/ (Release(s, {}) /\ UNCHANGED <<proc, phase>>)
    BY <1>9 DEF Close, life
  <2>2. QED
    BY <1>2, <1>7, <2>1
<1>10. ASSUME NEW s \in Sockets, (\E paused \in BOOLEAN : SetPaused(s, paused)) \/ Destroy(s)
                                 \/ WriteSessionHostFrame(s) \/ DrainSessionHostTransport(s)
       PROVE  OnQueue'
  BY <1>2, <1>10 DEF SetPaused, Destroy, WriteSessionHostFrame, DrainSessionHostTransport
<1>11. CASE Die \/ ObserveProcessExit \/ Dispose \/ UNCHANGED vars
  BY <1>2, <1>11 DEF Die, ObserveProcessExit, Dispose, vars
<1>12. CASE RecordOutput
  <2> DEFINE w == [kind |-> "write", key |-> Unclaimed, waiters |-> {}]
  <2>1. w \in Work /\ outputTail' = Append(outputTail, w) /\ UNCHANGED phase
    BY <1>12 DEF Work, RecordOutput
  <2> HIDE DEF w
  <2>2. \A t : Queuing(t, outputTail) => Queuing(t, outputTail')
    BY <1>1, <2>1, AppendedQueue
  <2>3. QED
    BY <2>1, <2>2 DEF OnQueue, Queuing
<1>13. CASE WriteLands
  <2>1. outputTail # <<>> /\ Head(outputTail).kind = "write" /\ outputTail' = Tail(outputTail)
        /\ UNCHANGED phase
    BY <1>13 DEF WriteLands
  <2>2. \A t : t \notin Head(outputTail).waiters
    BY <2>1, OrderlyServed DEF Inv, Waiting, Orderly, WaitsFor
  <2>3. \A t : Queuing(t, outputTail) => Queuing(t, outputTail')
    BY <1>1, <2>1, <2>2, ServedQueue
  <2>4. QED
    BY <2>1, <2>3 DEF OnQueue, Queuing
<1>14. CASE GeometryLands
  <2> DEFINE woken == Head(outputTail).waiters
  <2>1. /\ outputTail # <<>> /\ outputTail' = Tail(outputTail)
        /\ \A s \in Sockets : IF s \notin woken THEN phase'[s] = phase[s]
                              ELSE phase'[s] \in {"idle", "refused", "claimed"}
    BY <1>14 DEF GeometryLands
  <2>2. \A s : Queuing(s, outputTail) /\ s \notin woken => Queuing(s, outputTail')
    BY <1>1, <2>1, ServedQueue
  <2> HIDE DEF woken
  <2>3. QED
    BY <2>1, <2>2 DEF OnQueue, Queuing, Awaiting
<1>15. ASSUME attach # None, UNCHANGED proc, NEW tail \in Seq(Work),
              RestoreAttachment(attach.socket, tail),
              \A t \in Sockets \ {attach.socket} : Queuing(t, outputTail) => Queuing(t, tail)
       PROVE  OnQueue'
  <2> DEFINE s == attach.socket
  <2>1. s \in Sockets
    BY <1>1, <1>15 DEF TypeOK, Attaches
  <2>2. CASE ~ Current(s)
    <3>1. outputTail' = tail /\ phase' = [phase EXCEPT ![s] = "idle"]
      BY <1>1, <1>15, <2>2, Restored
    <3>2. QED
      BY <1>1, <1>3, <1>15, <2>1, <3>1 DEF Awaiting
  <2>3. CASE Current(s)
    <3>1. phase' = [phase EXCEPT ![s] = "restoring"]
          /\ \E p \in DOMAIN outputTail' : Joins(tail, outputTail', {s}, p)
      BY <1>1, <1>15, <2>3, Restored
    <3>2. \A t : Queuing(t, tail) \/ t \in {s} => Queuing(t, outputTail')
      BY <3>1, JoinedQueue
    <3>3. QED
      BY <1>1, <1>3, <1>15, <2>1, <3>1, <3>2
  <2>4. QED
    BY <2>2, <2>3
<1>16. CASE ScreenLands
  <2> DEFINE s == attach.socket
  <2>1. /\ outputTail # <<>> /\ attach # None /\ s \in Sockets /\ UNCHANGED proc
        /\ Head(outputTail).kind = "serialize"
    BY <1>16, ReaderAttaches DEF ScreenLands, life
  <2>2. Tail(outputTail) \in Seq(Work) /\ \A t \in Head(outputTail).waiters : t = s
    <3>1. Tail(outputTail) \in Seq(Work) /\ Head(outputTail) = outputTail[1] /\ 1 \in DOMAIN outputTail
      BY <2>1, OrderlyServed
    <3>2. QED
      BY <2>1, <3>1 DEF Inv, Waiting, Orderly, WaitsFor, Attaching
  <2>3. \A t \in Sockets \ {s} : Queuing(t, outputTail) => Queuing(t, Tail(outputTail))
    BY <1>1, <2>1, <2>2, ServedQueue
  <2>4. CASE Current(s) /\ conn[s] = "open" /\ ~ exited
    <3>1. outputTail' = Tail(outputTail) /\ phase' = [phase EXCEPT ![s] = "idle"]
      BY <1>16, <2>4 DEF ScreenLands
    <3>2. QED
      BY <1>1, <1>3, <2>1, <2>3, <3>1 DEF Awaiting
  <2>5. CASE ~ (Current(s) /\ conn[s] = "open" /\ ~ exited)
    <3>1. RestoreAttachment(s, Tail(outputTail))
      BY <1>16, <2>5 DEF ScreenLands
    <3>2. QED
      BY <1>15, <2>1, <2>2, <2>3, <3>1
  <2>6. QED
    BY <2>4, <2>5
<1>17. ASSUME NEW s \in Sockets, AwaitScreen(s) PROVE OnQueue'
  <2> DEFINE w == [kind |-> "serialize", key |-> Unclaimed, waiters |-> {s}]
  <2>1. /\ w \in Work /\ w.waiters = {s} /\ outputTail' = Append(outputTail, w)
        /\ phase' = [phase EXCEPT ![s] = "reading"]
    BY <1>17 DEF Work, AwaitScreen
  <2> HIDE DEF w
  <2>2. \A t : Queuing(t, outputTail) \/ t \in {s} => Queuing(t, outputTail')
    BY <1>1, <2>1, AppendedQueue
  <2>3. QED
    BY <1>1, <1>3, <2>1, <2>2
<1>18. ASSUME NEW s \in Sockets, ClaimRefused(s) PROVE OnQueue'
  <2>1. attach # None /\ attach.socket = s /\ UNCHANGED proc
        /\ RestoreAttachment(attach.socket, outputTail)
    BY <1>1, <1>18 DEF ClaimRefused, InPhase, Phases, Attaching, life
  <2>2. QED
    BY <1>1, <1>15, <2>1
<1>19. QED
  BY <1>5, <1>6, <1>8, <1>9, <1>10, <1>11, <1>12, <1>13, <1>14, <1>16, <1>17, <1>18
     DEF Next, Requests, Transport, Continuations
LEMMA SizedKept == Inv /\ Sized /\ [Next]_vars => Sized'
<1> SUFFICES ASSUME Inv, Sized, [Next]_vars PROVE Sized'
  OBVIOUS
<1>1. /\ TypeOK /\ InPhase /\ phase \in [Sockets -> Phases]
      /\ geometryClaims \in [Sockets -> Sizes \cup {Unclaimed}]
      /\ attachmentEpochs \in [Sockets -> Nat]
      /\ attach # None => attach.socket \in Sockets
  BY DEF Inv, Waiting, InPhase, TypeOK, Attaches
<1>2. \A g \in Sizes : g # Unclaimed
  BY DEF Sizes, Unclaimed
<1>3. ASSUME UNCHANGED <<subscribers, geometryClaims, attachmentEpochs, attach, disposed>>,
             \A t \in Sockets : phase'[t] = "restoring" <=> phase[t] = "restoring"
      PROVE  Sized'
  BY <1>1, <1>3 DEF Sized, Current
<1>4. ASSUME NEW s \in Sockets, NEW g \in Geometries \cup {appliedGeometry}, NEW paused \in BOOLEAN,
             PrepareAttachment(s, g, paused)
      PROVE  Sized'
  <2>1. /\ g \in Sizes /\ geometryClaims' = [geometryClaims EXCEPT ![s] = g]
        /\ UNCHANGED <<subscribers, disposed>>
    BY <1>1, <1>4, HostSessionAssumption DEF PrepareAttachment, TypeOK, life
  <2>2. /\ attach'.socket = s /\ attach'.geometry = geometryClaims[s]
        /\ attach'.subscribed <=> s \in subscribers
    BY <1>4 DEF PrepareAttachment
  <2>3. geometryClaims'[s] # Unclaimed
        /\ \A t \in Sockets \ {s} : geometryClaims'[t] = geometryClaims[t]
    BY <1>1, <1>2, <2>1
  <2>4. QED
    BY <1>1, <2>1, <2>2, <2>3 DEF Sized, TypeOK
<1>5. ASSUME NEW s \in Sockets, NEW g \in Geometries, Resize(s, g) PROVE Sized'
  <2>1. /\ g \in Sizes /\ geometryClaims' = [geometryClaims EXCEPT ![s] = g] /\ phase[s] = "idle"
        /\ phase' = [phase EXCEPT ![s] = "waiting"]
        /\ UNCHANGED <<subscribers, attachmentEpochs, attach, disposed>>
    BY <1>5, HostSessionAssumption DEF Resize, life
  <2>2. attach # None => attach.socket # s
    BY <1>1, <2>1 DEF InPhase, Attaching
  <2>3. geometryClaims'[s] # Unclaimed
        /\ \A t \in Sockets \ {s} : geometryClaims'[t] = geometryClaims[t] /\ phase'[t] = phase[t]
    BY <1>1, <1>2, <2>1
  <2>4. QED
    BY <1>1, <2>1, <2>2, <2>3 DEF Sized, Current, TypeOK
<1>6. ASSUME NEW s \in Sockets, NEW waiters, Release(s, waiters), UNCHANGED <<attach, disposed>>,
             \A t \in Sockets \ {s} : phase'[t] = phase[t]
      PROVE  Sized'
  <2>1. /\ attachmentEpochs' = [attachmentEpochs EXCEPT ![s] = @ + 1]
        /\ subscribers' = subscribers \ {s}
        /\ geometryClaims' = [geometryClaims EXCEPT ![s] = Unclaimed]
    BY <1>6 DEF Release
  <2>2. /\ attachmentEpochs'[s] = attachmentEpochs[s] + 1
        /\ \A t \in Sockets \ {s} : /\ attachmentEpochs'[t] = attachmentEpochs[t]
                                    /\ geometryClaims'[t] = geometryClaims[t]
    BY <1>1, <2>1
  <2>3. attach # None /\ attach.socket = s => ~ Current(s)'
    <3> SUFFICES ASSUME attach # None, attach.socket = s PROVE ~ Current(s)'
      OBVIOUS
    <3>1. attach.epoch \in Nat /\ attach.epoch <= attachmentEpochs[s] /\ attachmentEpochs[s] \in Nat
      BY <1>1 DEF Inv, Attached, TypeOK, Attaches
    <3>2. QED
      BY <1>6, <2>2, <3>1 DEF Current
  <2>4. QED
    BY <1>1, <1>6, <2>1, <2>2, <2>3 DEF Sized, Current, TypeOK
<1>7. ASSUME NEW s \in Sockets, Detach(s) PROVE Sized'
  <2>1. /\ Release(s, {s}) /\ UNCHANGED <<attach, disposed>>
        /\ phase' = [phase EXCEPT ![s] = IF geometryClaims[s] = Unclaimed THEN "idle" ELSE "waiting"]
    BY <1>7 DEF Detach, life
  <2>2. QED
    BY <1>1, <1>6, <2>1
<1>8. ASSUME NEW s \in Sockets, Close(s) PROVE Sized'
  <2>1. UNCHANGED <<phase, attach, disposed>> /\ (~ disposed => Release(s, {}))
    BY <1>8 DEF Close, life
  <2>2. CASE disposed
    BY <2>1, <2>2 DEF Sized
  <2>3. CASE ~ disposed
    BY <1>6, <2>1, <2>3
  <2>4. QED
    BY <2>2, <2>3
<1>9. ASSUME NEW s \in Sockets, (\E paused \in BOOLEAN : SetPaused(s, paused)) \/ Destroy(s)
                                \/ WriteSessionHostFrame(s) \/ DrainSessionHostTransport(s)
      PROVE  Sized'
  BY <1>3, <1>9 DEF SetPaused, Destroy, WriteSessionHostFrame, DrainSessionHostTransport, size, life
<1>10. CASE RecordOutput \/ Die \/ ObserveProcessExit \/ WriteLands \/ UNCHANGED vars
  BY <1>3, <1>10 DEF RecordOutput, Die, ObserveProcessExit, WriteLands, vars, size, life
<1>11. CASE Dispose
  BY <1>11 DEF Dispose, Sized
<1>12. CASE GeometryLands
  <2>1. /\ attach' = IF attach # None /\ phase[attach.socket] = "restoring"
                        /\ attach.socket \in Head(outputTail).waiters THEN None ELSE attach
        /\ \A t \in Sockets : t \notin Head(outputTail).waiters => phase'[t] = phase[t]
        /\ UNCHANGED <<subscribers, geometryClaims, attachmentEpochs, disposed>>
    BY <1>12 DEF GeometryLands, life
  <2>2. CASE attach' = None
    BY <2>1, <2>2 DEF Sized
  <2>3. CASE attach' # None
    <3>1. attach' = attach /\ attach # None /\ attach.socket \in Sockets
      BY <1>1, <2>1, <2>3
    <3>2. phase[attach.socket] = "restoring" => phase'[attach.socket] = "restoring"
      BY <2>1, <3>1
    <3>3. QED
      BY <2>1, <3>1, <3>2 DEF Sized, Current
  <2>4. QED
    BY <2>2, <2>3
<1>13. ASSUME attach # None, UNCHANGED <<proc, attachmentEpochs, conn, needDrain, disposed>>,
              UNCHANGED <<chunks, seen>>,
              NEW tail \in Seq(Work), RestoreAttachment(attach.socket, tail)
       PROVE  Sized'
  <2> DEFINE s == attach.socket
  <2>1. TypeOK /\ Flow /\ s \in Sockets /\ subscribers' = subscribers
    BY <1>1, <1>13, RestoreKept DEF Inv
  <2>2. CASE ~ Current(s)
    <3>1. attach' = None /\ UNCHANGED <<subscribers, geometryClaims>>
      BY <1>13, <2>1, <2>2, Restored
    <3>2. QED
      BY <1>13, <3>1 DEF Sized
  <2>3. CASE Current(s)
    <3>1. /\ attach' = attach /\ phase' = [phase EXCEPT ![s] = "restoring"]
          /\ geometryClaims' = [geometryClaims EXCEPT ![s] = attach.geometry]
      BY <1>13, <2>1, <2>3, Restored
    <3>2. /\ geometryClaims'[s] = attach.geometry /\ phase'[s] = "restoring"
          /\ \A t \in Sockets \ {s} : geometryClaims'[t] = geometryClaims[t]
      BY <1>1, <2>1, <3>1
    <3>3. s \in subscribers => attach.subscribed
      BY <1>13, <2>3 DEF Inv, Attached, Restores
    <3>4. QED
      BY <1>13, <2>1, <2>3, <3>1, <3>2, <3>3 DEF Sized, Current, TypeOK
  <2>4. QED
    BY <2>2, <2>3
<1>14. CASE ScreenLands
  <2> DEFINE s == attach.socket
  <2>1. attach # None /\ s \in Sockets /\ phase[s] = "reading"
    BY <1>14, ReaderAttaches
  <2>2. CASE Current(s) /\ conn[s] = "open" /\ ~ exited
    <3>1. subscribers' = subscribers \cup {s} /\ attach' = None /\ UNCHANGED <<geometryClaims, disposed>>
      BY <1>14, <2>2, Committed DEF life
    <3>2. QED
      BY <2>1, <2>2, <3>1 DEF Sized
  <2>3. CASE ~ (Current(s) /\ conn[s] = "open" /\ ~ exited)
    <3>1. RestoreAttachment(s, Tail(outputTail))
          /\ UNCHANGED <<proc, attachmentEpochs, conn, needDrain, disposed, chunks, seen>>
      BY <1>14, <2>3 DEF ScreenLands, life
    <3>2. Tail(outputTail) \in Seq(Work)
      BY <1>1, <1>14, Served DEF ScreenLands, TypeOK
    <3>3. QED
      BY <1>13, <2>1, <3>1, <3>2
  <2>4. QED
    BY <2>2, <2>3
<1>15. ASSUME NEW s \in Sockets, AwaitScreen(s) PROVE Sized'
  <2>1. phase[s] = "claimed" /\ phase' = [phase EXCEPT ![s] = "reading"]
        /\ UNCHANGED <<subscribers, geometryClaims, attachmentEpochs, attach, disposed>>
    BY <1>15 DEF AwaitScreen, size, life
  <2>2. \A t \in Sockets : phase'[t] = "restoring" <=> phase[t] = "restoring"
    BY <1>1, <2>1
  <2>3. QED
    BY <1>3, <2>1, <2>2
<1>16. ASSUME NEW s \in Sockets, ClaimRefused(s) PROVE Sized'
  <2>1. attach # None /\ attach.socket = s /\ outputTail \in Seq(Work)
    BY <1>1, <1>16 DEF ClaimRefused, InPhase, Phases, Attaching, TypeOK
  <2>2. RestoreAttachment(attach.socket, outputTail)
        /\ UNCHANGED <<proc, attachmentEpochs, conn, needDrain, disposed, chunks, seen>>
    BY <1>16, <2>1 DEF ClaimRefused, life
  <2>3. QED
    BY <1>13, <2>1, <2>2
<1>17. QED
  BY <1>4, <1>5, <1>7, <1>8, <1>9, <1>10, <1>11, <1>12, <1>14, <1>15, <1>16
     DEF Next, Requests, Transport, Continuations
LEMMA FitsKept == Inv /\ Fits /\ [Next]_vars => Fits'
<1> SUFFICES ASSUME Inv, Fits, [Next]_vars PROVE Fits'
  OBVIOUS
<1>1. TypeOK /\ Flow /\ InPhase /\ outputTail \in Seq(Work)
  BY DEF Inv, Waiting, InPhase, TypeOK
<1>2. ASSUME At(outputTail', "geometry") # {} PROVE Fits'
  BY <1>2 DEF Fits, Queued
<1>3. ASSUME UNCHANGED <<geometryClaims, appliedGeometry>>, proc' = proc \/ proc' = "dead",
             At(outputTail', "geometry") = {} => At(outputTail, "geometry") = {}
      PROVE  Fits'
  BY <1>3 DEF Fits, Queued
<1>4. ASSUME NEW s \in Sockets, NEW tail \in Seq(Work), geometryClaims' \in Claims,
             outputTail' = ApplyEffectiveGeometry(tail, geometryClaims', {s})
      PROVE  Fits'
  <2>1. \E p \in DOMAIN outputTail' : Joins(tail, outputTail', {s}, p)
    BY <1>4, Requested
  <2>2. QED
    BY <1>2, <2>1, JoinedQueue
<1>5. ASSUME NEW s \in Sockets, NEW g \in Geometries \cup {appliedGeometry}, NEW paused \in BOOLEAN,
             PrepareAttachment(s, g, paused)
      PROVE  Fits'
  <2>1. geometryClaims' \in Claims
    BY <1>1, <1>5, HostSessionAssumption DEF PrepareAttachment, TypeOK, Claims
  <2>2. outputTail' = ApplyEffectiveGeometry(outputTail, geometryClaims', {s})
    BY <1>5 DEF PrepareAttachment
  <2>3. QED
    BY <1>1, <1>4, <2>1, <2>2
<1>6. ASSUME NEW s \in Sockets, NEW g \in Geometries, Resize(s, g) PROVE Fits'
  <2>1. geometryClaims' \in Claims
    BY <1>1, <1>6, HostSessionAssumption DEF Resize, TypeOK, Claims
  <2>2. outputTail' = ApplyEffectiveGeometry(outputTail, geometryClaims', {s})
    BY <1>6 DEF Resize
  <2>3. QED
    BY <1>1, <1>4, <2>1, <2>2
<1>7. ASSUME NEW s \in Sockets, NEW waiters \in SUBSET Sockets, Release(s, waiters),
             UNCHANGED <<proc, appliedGeometry>>
      PROVE  Fits'
  <2>1. \/ outputTail' = outputTail /\ geometryClaims[s] = Unclaimed
        \/ \E p \in DOMAIN outputTail' : Joins(outputTail, outputTail', waiters, p)
    BY <1>1, <1>7, Released
  <2>2. CASE outputTail' = outputTail /\ geometryClaims[s] = Unclaimed
    <3>1. geometryClaims' = geometryClaims
      <4>1. geometryClaims' = [geometryClaims EXCEPT ![s] = Unclaimed]
        BY <1>7 DEF Release
      <4>2. QED
        BY <1>1, <2>2, <4>1 DEF TypeOK
    <3>2. QED
      BY <1>3, <1>7, <2>2, <3>1
  <2>3. CASE \E p \in DOMAIN outputTail' : Joins(outputTail, outputTail', waiters, p)
    BY <1>2, <2>3, JoinedQueue
  <2>4. QED
    BY <2>1, <2>2, <2>3
<1>8. ASSUME NEW s \in Sockets, Detach(s) \/ Close(s) PROVE Fits'
  <2>1. /\ UNCHANGED <<proc, appliedGeometry>>
        /\ (\E waiters \in SUBSET Sockets : Release(s, waiters))
             \/ UNCHANGED <<outputTail, geometryClaims>>
    <3>1. {s} \in SUBSET Sockets /\ {} \in SUBSET Sockets
      OBVIOUS
    <3>2. QED
      BY <1>8, <3>1 DEF Detach, Close, life
  <2>2. QED
    BY <1>3, <1>7, <2>1
<1>9. ASSUME NEW s \in Sockets, (\E paused \in BOOLEAN : SetPaused(s, paused)) \/ Destroy(s)
                                \/ WriteSessionHostFrame(s) \/ DrainSessionHostTransport(s)
      PROVE  Fits'
  BY <1>3, <1>9 DEF SetPaused, Destroy, WriteSessionHostFrame, DrainSessionHostTransport, size, life
<1>10. CASE Die \/ ObserveProcessExit \/ UNCHANGED vars
  BY <1>3, <1>10 DEF Die, ObserveProcessExit, vars, size, life
<1>11. CASE Dispose
  <2>1. proc' = "dead"
    BY <1>1, <1>11 DEF Dispose, TypeOK
  <2>2. QED
    BY <2>1 DEF Fits
<1>12. ASSUME NEW w \in Work, outputTail' = Append(outputTail, w),
              UNCHANGED <<geometryClaims, appliedGeometry, proc>>
       PROVE  Fits'
  BY <1>1, <1>3, <1>12, AppendedQueue
<1>13. CASE RecordOutput
  <2>1. [kind |-> "write", key |-> Unclaimed, waiters |-> {}] \in Work
    BY DEF Work
  <2>2. QED
    BY <1>12, <1>13, <2>1 DEF RecordOutput, size, life
<1>14. ASSUME NEW s \in Sockets, AwaitScreen(s) PROVE Fits'
  <2>1. [kind |-> "serialize", key |-> Unclaimed, waiters |-> {s}] \in Work
    BY DEF Work
  <2>2. QED
    BY <1>12, <1>14, <2>1 DEF AwaitScreen, size, life
<1>15. ASSUME outputTail # <<>>, Head(outputTail).kind # "geometry", outputTail' = Tail(outputTail),
              UNCHANGED <<geometryClaims, appliedGeometry, proc>>
       PROVE  Fits'
  BY <1>1, <1>3, <1>15, ServedQueue
<1>16. CASE WriteLands
  BY <1>15, <1>16 DEF WriteLands, size, life
<1>17. CASE GeometryLands
  <2> DEFINE target == EffectiveGeometry(geometryClaims)
  <2>1. proc = "live" /\ target # Unclaimed => appliedGeometry' = target
    BY <1>17 DEF GeometryLands
  <2>2. UNCHANGED <<geometryClaims, proc>>
    BY <1>17 DEF GeometryLands, life
  <2>3. EffectiveGeometry(geometryClaims)' = target
    BY <2>2
  <2>4. QED
    BY <2>1, <2>2, <2>3 DEF Fits
<1>18. ASSUME attach # None, UNCHANGED <<proc, appliedGeometry>>, NEW tail \in Seq(Work),
              RestoreAttachment(attach.socket, tail),
              At(tail, "geometry") = {} => At(outputTail, "geometry") = {}
       PROVE  Fits'
  <2> DEFINE s == attach.socket
  <2>1. s \in Sockets
    BY <1>1, <1>18 DEF TypeOK, Attaches
  <2>2. CASE ~ Current(s)
    BY <1>3, <1>18, <2>2 DEF RestoreAttachment
  <2>3. CASE Current(s)
    <3>1. outputTail' = ApplyEffectiveGeometry(tail, geometryClaims', {s})
      BY <1>18, <2>3 DEF RestoreAttachment
    <3>2. geometryClaims' \in Claims
      BY <1>1, <1>18, Restored
    <3>3. QED
      BY <1>4, <1>18, <2>1, <3>1, <3>2
  <2>4. QED
    BY <2>2, <2>3
<1>19. CASE ScreenLands
  <2> DEFINE s == attach.socket
  <2>1. /\ outputTail # <<>> /\ Head(outputTail).kind = "serialize" /\ attach # None
        /\ UNCHANGED <<proc, appliedGeometry>>
    BY <1>19, ReaderAttaches DEF ScreenLands, life
  <2>2. CASE Current(s) /\ conn[s] = "open" /\ ~ exited
    BY <1>15, <1>19, <2>1, <2>2 DEF ScreenLands
  <2>3. CASE ~ (Current(s) /\ conn[s] = "open" /\ ~ exited)
    <3>1. RestoreAttachment(s, Tail(outputTail))
      BY <1>19, <2>3 DEF ScreenLands
    <3>2. Tail(outputTail) \in Seq(Work)
          /\ (At(Tail(outputTail), "geometry") = {} => At(outputTail, "geometry") = {})
      BY <1>1, <2>1, Served, ServedQueue
    <3>3. QED
      BY <1>18, <2>1, <3>1, <3>2
  <2>4. QED
    BY <2>2, <2>3
<1>20. ASSUME NEW s \in Sockets, ClaimRefused(s) PROVE Fits'
  <2>1. attach # None /\ attach.socket = s /\ UNCHANGED <<proc, appliedGeometry>>
        /\ RestoreAttachment(attach.socket, outputTail)
    BY <1>1, <1>20 DEF ClaimRefused, InPhase, Phases, Attaching, life
  <2>2. QED
    BY <1>1, <1>18, <2>1
<1>21. QED
  BY <1>5, <1>6, <1>8, <1>9, <1>10, <1>11, <1>13, <1>14, <1>16, <1>17, <1>19, <1>20
     DEF Next, Requests, Transport, Continuations
-----------------------------------------------------------------------------
(* The theorems.                                                             *)

LEMMA InvKept == Inv /\ [Next]_vars => Inv'
<1>1. Viewers' => Attached' /\ Held' /\ NoGhostViewer' /\ NoGapNoRepeat'
  BY DEF Viewers
<1>2. QED
  BY <1>1, TypesKept, FlowKept, EmulatorKept, WaitingKept, ViewersKept DEF Inv

Rest == OnQueue /\ Sized /\ Fits

LEMMA RestInit == Init => Rest
<1> SUFFICES ASSUME Init PROVE Rest
  OBVIOUS
<1>1. PICK s \in Sockets, g \in Geometries :
        /\ geometryClaims = [t \in Sockets |-> IF t = s THEN g ELSE Unclaimed]
        /\ appliedGeometry = g /\ subscribers = {s} /\ attach = None
        /\ phase = [t \in Sockets |-> "idle"]
  BY Zenon DEF Init
<1>2. g \in Sizes /\ g # Unclaimed /\ g = <<g[1], g[2]>> /\ g[1] \in Nat /\ g[2] \in Nat
  BY HostSessionAssumption DEF Sizes, Unclaimed
<1>3. OnQueue
  BY <1>1 DEF OnQueue, Awaiting
<1>4. Sized
  BY <1>1, <1>2 DEF Sized
<1>5. Fits
  <2> DEFINE held == {geometryClaims[t] : t \in Sockets} \ {Unclaimed}
  <2>1. held = {g}
    BY <1>1, <1>2
  <2>2. {m[1] : m \in held} = {g[1]} /\ {m[2] : m \in held} = {g[2]}
    BY <2>1
  <2>3. Min({g[1]}) = g[1] /\ Min({g[2]}) = g[2]
    <3>1. Min({g[1]}) \in {g[1]}
      BY <1>2, MinIsOne
    <3>2. Min({g[2]}) \in {g[2]}
      BY <1>2, MinIsOne
    <3>3. QED
      BY <3>1, <3>2
  <2>4. EffectiveGeometry(geometryClaims) =
          IF held = {} THEN Unclaimed
          ELSE <<Min({m[1] : m \in held}), Min({m[2] : m \in held})>>
    BY DEF EffectiveGeometry
  <2> HIDE DEF held
  <2>5. EffectiveGeometry(geometryClaims) = g
    BY <1>2, <2>1, <2>2, <2>3, <2>4
  <2>6. QED
    BY <1>1, <2>5 DEF Fits
<1>6. QED
  BY <1>3, <1>4, <1>5 DEF Rest

LEMMA RestKept == Inv /\ Rest /\ [Next]_vars => Rest'
BY OnQueueKept, SizedKept, FitsKept DEF Rest

LEMMA Invariance == Spec => [](Inv /\ Rest)
<1>1. Init => Inv /\ Rest
  BY InvInit, RestInit
<1>2. Inv /\ Rest /\ [Next]_vars => (Inv /\ Rest)'
  BY InvKept, RestKept
<1>3. QED
  BY <1>1, <1>2, PTL DEF Spec

\* The fields of a session keep their types under every request, socket event
\* and landing of the emulator's queue (session.ts).
THEOREM TypeCorrect == Spec => []TypeOK
<1>1. Inv => TypeOK
  BY DEF Inv
<1>2. QED
  BY <1>1, Invariance, PTL

\* For any connections and water marks: a running process is paused only while
\* somebody who can still let it go holds it (session.ts pauseFor, drain, detach
\* and the emulator's marks behind reconcileProcFlow).
THEOREM PausesAreOwed == Spec => []PauseIsOwed
<1>1. ASSUME Inv PROVE PauseIsOwed
  <2> SUFFICES ASSUME proc = "live"
               PROVE  IF procPaused
                      THEN \/ QueuedOutput > Low
                           \/ \E s \in explicitPauseOwners : Viewing(s)
                           \/ \E s \in transportPauseOwners : s \in needDrain /\ conn[s] # "closed"
                      ELSE QueuedOutput < High /\ subscribers \cap needDrain = {}
    BY DEF PauseIsOwed
  <2>1. ~ disposed /\ procPaused = HasPauseOwner /\ explicitPauseOwners \subseteq Sockets
    BY <1>1 DEF Inv, TypeOK, Flow
  <2>2. emulatorPauseOwner => QueuedOutput > Low
    BY <1>1 DEF Inv, Emulator
  <2>3. ASSUME NEW s \in explicitPauseOwners PROVE Viewing(s)
    BY <1>1, <2>1 DEF Inv, Held, NoGhostViewer, Viewing
  <2>4. \A s \in transportPauseOwners : s \in needDrain /\ conn[s] # "closed"
    BY <1>1 DEF Inv, Held
  <2>5. CASE HasPauseOwner
    BY <2>1, <2>2, <2>3, <2>4, <2>5 DEF HasPauseOwner
  <2>6. CASE ~ HasPauseOwner
    <3>1. ~ emulatorPauseOwner /\ transportPauseOwners = {}
      BY <2>6 DEF HasPauseOwner
    <3>2. QueuedOutput < High
      BY <1>1, <3>1 DEF Inv, Emulator
    <3>3. subscribers \cap needDrain = {}
      BY <1>1, <2>1, <3>1 DEF Inv, Held
    <3>4. QED
      BY <2>1, <2>6, <3>2, <3>3
  <2>7. QED
    BY <2>5, <2>6
<1>2. QED
  BY <1>1, Invariance, PTL

\* For any connections: one that closed has no subscription, ticket or size left
\* once its attach is over, whichever step of the attach the close met
\* (session.ts detach and restoreAttachment, guarded by attachmentEpochs).
THEOREM NoGhosts == Spec => []NoGhostViewer
<1>1. Inv => NoGhostViewer
  BY DEF Inv
<1>2. QED
  BY <1>1, Invariance, PTL

\* A viewer has seen each chunk once, on its screen or as a frame, for any number
\* of chunks (host.ts handleAttach: the snapshot, then the commit).
THEOREM EachChunkOnce == Spec => []NoGapNoRepeat
<1>1. Inv => NoGapNoRepeat
  BY DEF Inv
<1>2. QED
  BY <1>1, Invariance, PTL

\* For any sizes: once no resize is on its way, a running terminal has the largest
\* size that fits every viewer (session.ts applyEffectiveGeometry).
THEOREM FitsViewers == Spec => []ViewersFit
<1>1. Inv /\ Rest => ViewersFit
  BY DEF Rest, Fits, Sized, ViewersFit
<1>2. QED
  BY <1>1, Invariance, PTL

\* Whoever waits for the emulator is named by queued work, so no request waits for
\* work that joining or cancelling another has lost (session.ts pendingGeometry).
THEOREM NobodyWaitsForNothing == Spec => []WaitsForQueuedWork
<1>1. Inv /\ Rest => WaitsForQueuedWork
  <2>1. Rest => \A s \in Sockets : phase[s] \in Awaiting =>
                  \E i \in DOMAIN outputTail : s \in outputTail[i].waiters
    BY DEF Rest, OnQueue, Queuing
  <2>2. Inv => \A s \in Sockets : phase[s] \in Phases \ {"idle", "waiting"} <=> Attaching(s)
    BY DEF Inv, Waiting
  <2>3. QED
    BY <2>1, <2>2 DEF WaitsForQueuedWork, Awaiting
<1>2. QED
  BY <1>1, Invariance, PTL

\* Only the commit of an attach makes a viewer, and one that attached paused holds
\* its ticket by then and the process has been told (host.ts handleAttach).
THEOREM PausedFirst == Spec => NoOutputBeforePause
<1> DEFINE Paused == \A s \in subscribers' \ subscribers :
                       attach.paused => s \in explicitPauseOwners' /\ (proc = "live" => procPaused')
<1>1. ASSUME Inv, [Next]_vars PROVE Paused
  <2>1. CASE \E s \in Sockets : Requests(s) \/ Transport(s)
    <3>1. subscribers' \subseteq subscribers
      BY <2>1 DEF Requests, Transport, PrepareAttachment, Resize, SetPaused, Detach, Destroy, Close,
                  Release, WriteSessionHostFrame, DrainSessionHostTransport
    <3>2. QED
      BY <3>1
  <2>2. CASE \/ RecordOutput \/ Die \/ ObserveProcessExit \/ Dispose \/ WriteLands \/ GeometryLands
             \/ UNCHANGED vars
    <3>1. subscribers' = subscribers
      BY <2>2 DEF RecordOutput, Die, ObserveProcessExit, Dispose, WriteLands, GeometryLands, vars
    <3>2. QED
      BY <3>1
  <2>3. ASSUME NEW s \in Sockets, Continuations(s) PROVE Paused
    <3>1. subscribers' = subscribers
      <4>1. CASE AwaitScreen(s)
        BY <4>1 DEF AwaitScreen
      <4>2. CASE ClaimRefused(s)
        <5>1. attach # None /\ attach.socket = s /\ outputTail \in Seq(Work)
          BY <1>1, <4>2 DEF ClaimRefused, Inv, Waiting, Phases, Attaching, TypeOK
        <5>2. RestoreAttachment(attach.socket, outputTail)
              /\ UNCHANGED <<proc, attachmentEpochs, conn, needDrain, disposed, chunks, seen>>
          BY <4>2, <5>1 DEF ClaimRefused, life
        <5>3. QED
          BY <1>1, <5>1, <5>2, RestoreKept
      <4>3. QED
        BY <2>3, <4>1, <4>2 DEF Continuations
    <3>2. QED
      BY <3>1
  <2>4. CASE ScreenLands
    <3> DEFINE t == attach.socket
    <3>1. attach # None /\ phase[t] = "reading"
      BY <1>1, <2>4, ReaderAttaches
    <3>2. CASE Current(t) /\ conn[t] = "open" /\ ~ exited
      <4>1. subscribers' = subscribers \cup {t} /\ ~ disposed /\ explicitPauseOwners' = explicitPauseOwners
            /\ proc' = proc
        BY <1>1, <2>4, <3>2, Committed DEF life
      <4>2. attach.paused => t \in explicitPauseOwners
        BY <1>1, <3>1, <3>2, <4>1 DEF Inv, Attached, Restores
      <4>3. Flow'
        BY <1>1, FlowKept
      <4>4. t \in explicitPauseOwners /\ proc = "live" => procPaused'
        BY <4>1, <4>3 DEF Flow, HasPauseOwner
      <4>5. QED
        BY <4>1, <4>2, <4>4
    <3>3. CASE ~ (Current(t) /\ conn[t] = "open" /\ ~ exited)
      <4>1. RestoreAttachment(t, Tail(outputTail))
            /\ UNCHANGED <<proc, attachmentEpochs, conn, needDrain, disposed, chunks, seen>>
        BY <2>4, <3>3 DEF ScreenLands, life
      <4>2. Tail(outputTail) \in Seq(Work)
        BY <1>1, <2>4, Served DEF Inv, ScreenLands, TypeOK
      <4>3. subscribers' = subscribers
        BY <1>1, <3>1, <4>1, <4>2, RestoreKept
      <4>4. QED
        BY <4>3
    <3>4. QED
      BY <3>2, <3>3
  <2>5. QED
    BY <1>1, <2>1, <2>2, <2>3, <2>4 DEF Next
<1>2. Inv /\ [Next]_vars => [Paused]_vars
  BY <1>1
<1>3. QED
  BY <1>2, Invariance, PTL DEF Spec, NoOutputBeforePause
=============================================================================

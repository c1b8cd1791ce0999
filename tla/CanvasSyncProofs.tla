-------------------------- MODULE CanvasSyncProofs --------------------------
(***************************************************************************)
(* Proofs about CanvasSync, for any clients, keys, contents and bounds.    *)
(***************************************************************************)
EXTENDS CanvasSync, FiniteSetTheorems, WellFoundedInduction, TLAPS

(***************************************************************************)
(* Type correctness.                                                       *)
(***************************************************************************)

LEMMA NoteRemovedType ==
  ASSUME NEW entries \in [Keys -> Nat], NEW k \in Keys, NEW seq \in Nat
  PROVE  noteRemoved(entries, k, seq) \in [Keys -> Nat]
BY DEF noteRemoved

\* The reflector's stamp leaves a mutation a mutation.
LEMMA StampMutationType ==
  ASSUME NEW m \in Mutation, NEW seq \in Nat \ {0}
  PROVE  /\ stampMutation(m, seq) \in Mutation
         /\ stampMutation(m, seq).key = m.key
         /\ stampMutation(m, seq).val = m.val
BY DEF stampMutation, Mutation

\* The history sequences are one longer than the log, and no client is past its end.
Positions ==
  /\ Len(truth) = Len(log) + 1
  /\ Len(tombs) = Len(log) + 1
  /\ \A c \in Clients : pos[c] <= Len(log)
  /\ \A c \in Clients : read[c] <= Len(sent[c])

TypeInv == TypeOK /\ Positions

LEMMA InitTypeInv == Init => TypeInv
BY DEF Init, TypeInv, TypeOK, Positions, Contents

LEMMA AdvanceType ==
  ASSUME TypeInv, NEW c \in Clients, pos[c] < Len(log),
         advance(c, log[pos[c] + 1], pos[c] + 1)
  PROVE  /\ log[pos[c] + 1] \in Mutation
         /\ log[pos[c] + 1].key \in Keys
         /\ log[pos[c] + 1].val \in Contents
         /\ pos' \in [Clients -> Nat]
         /\ \A d \in Clients : pos'[d] <= Len(log)
         /\ seen' \in [Clients -> [Keys -> Nat]]
         /\ lastSeq' \in [Clients -> Nat]
         /\ removed' \in [Clients -> [Keys -> Nat]]
<1> DEFINE seq == pos[c] + 1
           m == log[seq]
<1>1. seq \in 1..Len(log) /\ seq \in Nat
  BY DEF TypeInv, TypeOK
<1>2. m \in Mutation
  BY <1>1 DEF TypeInv, TypeOK
<1>3. m.key \in Keys /\ m.val \in Contents
  BY <1>2 DEF Mutation
<1>4. pos' \in [Clients -> Nat] /\ \A d \in Clients : pos'[d] <= Len(log)
  BY <1>1 DEF TypeInv, TypeOK, Positions, advance
<1>5. seen' \in [Clients -> [Keys -> Nat]] /\ lastSeq' \in [Clients -> Nat]
  BY <1>1, <1>3 DEF TypeInv, TypeOK, advance
<1>6. noteRemoved(removed[c], m.key, seq) \in [Keys -> Nat]
  BY <1>1, <1>3, NoteRemovedType DEF TypeInv, TypeOK
<1>7. removed' \in [Clients -> [Keys -> Nat]]
  BY <1>1, <1>3, <1>6 DEF TypeInv, TypeOK, advance
<1> QED
  BY <1>2, <1>3, <1>4, <1>5, <1>7

LEMMA NextTypeInv == TypeInv /\ [Next]_vars => TypeInv'
<1> SUFFICES ASSUME TypeInv, [Next]_vars
             PROVE  TypeInv'
  OBVIOUS
<1>1. ASSUME NEW c \in Clients, NEW k \in Keys, NEW v \in Contents, Edit(c, k, v)
      PROVE  TypeInv'
  <2>1. stamp(c, k, v) \in Mutation
    BY DEF stamp, Mutation, TypeInv, TypeOK
  <2>2. sent' \in [Clients -> Seq(Mutation)] /\ \A d \in Clients : Len(sent[d]) <= Len(sent'[d])
    BY <1>1, <2>1 DEF Edit, TypeInv, TypeOK
  <2>3. /\ canvas' \in [Clients -> [Keys -> Contents]]
        /\ pending' \in [Clients -> [Keys -> Nat]]
        /\ lapsed' \in [Clients -> SUBSET Keys]
        /\ superseded' \in [Clients -> SUBSET Keys]
    BY <1>1 DEF Edit, onLocal, TypeInv, TypeOK
  <2>4. \A d \in Clients : read[d] <= Len(sent'[d])
    BY <2>2 DEF TypeInv, TypeOK, Positions
  <2> QED
    BY <1>1, <2>2, <2>3, <2>4 DEF Edit, onLocal, history, TypeInv, TypeOK, Positions
<1>2. ASSUME NEW c \in Clients, Reflect(c)
      PROVE  TypeInv'
  <2> DEFINE seq == Len(log) + 1
             m == stampMutation(sent[c][read[c] + 1], seq)
  <2>1. seq \in Nat \ {0}
    BY DEF TypeInv, TypeOK
  <2>2. sent[c][read[c] + 1] \in Mutation
    BY <1>2 DEF Reflect, TypeInv, TypeOK
  <2>3. m \in Mutation /\ m.key \in Keys /\ m.val \in Contents
    BY <2>1, <2>2, StampMutationType DEF Mutation
  <2>4. log' \in Seq(Mutation) /\ Len(log') = Len(log) + 1
    BY <1>2, <2>3 DEF Reflect, TypeInv, TypeOK
  <2>5. truth[seq] \in [Keys -> Contents] /\ tombs[seq] \in [Keys -> Nat]
    BY <2>1 DEF TypeInv, TypeOK, Positions
  <2>6. noteRemoved(tombs[seq], m.key, seq) \in [Keys -> Nat]
    BY <2>1, <2>3, <2>5, NoteRemovedType
  <2>7. settle(m, seq)
    BY <1>2 DEF Reflect
  <2>8. truth' \in Seq([Keys -> Contents]) /\ Len(truth') = Len(truth) + 1
    BY <2>3, <2>5, <2>7 DEF settle, TypeInv, TypeOK
  <2>9. tombs' \in Seq([Keys -> Nat]) /\ Len(tombs') = Len(tombs) + 1
    <3>1. tombs \in Seq([Keys -> Nat])
      BY DEF TypeInv, TypeOK
    <3>2. PICK entries : /\ entries \in {noteRemoved(tombs[seq], m.key, seq), tombs[seq],
                                        [tombs[seq] EXCEPT ![m.key] = 0]}
                        /\ tombs' = Append(tombs, entries)
      BY <2>7 DEF settle
    <3>3. [tombs[seq] EXCEPT ![m.key] = 0] \in [Keys -> Nat]
      BY <2>5
    <3>4. entries \in [Keys -> Nat]
      BY <2>5, <2>6, <3>2, <3>3
    <3>5. QED
      BY <3>1, <3>2, <3>4
  <2>10. read' \in [Clients -> Nat] /\ \A d \in Clients : read'[d] <= Len(sent[d])
    BY <1>2 DEF Reflect, TypeInv, TypeOK, Positions
  <2>11. \A d \in Clients : pos[d] <= Len(log')
    BY <2>4 DEF TypeInv, TypeOK, Positions
  <2> QED
    BY <1>2, <2>4, <2>8, <2>9, <2>10, <2>11 DEF Reflect, order, TypeInv, TypeOK, Positions
<1>3. ASSUME NEW c \in Clients, AckEcho(c)
      PROVE  TypeInv'
  <2> DEFINE seq == pos[c] + 1
             m == log[seq]
  <2>1. pos[c] < Len(log) /\ advance(c, m, seq)
    BY <1>3 DEF AckEcho
  <2>2. /\ m.key \in Keys /\ m.val \in Contents
        /\ pos' \in [Clients -> Nat] /\ \A d \in Clients : pos'[d] <= Len(log)
        /\ seen' \in [Clients -> [Keys -> Nat]]
        /\ lastSeq' \in [Clients -> Nat]
        /\ removed' \in [Clients -> [Keys -> Nat]]
    BY <2>1, AdvanceType
  <2>3. applied(c, m) \in Contents
    BY <2>2 DEF applied, TypeInv, TypeOK
  <2>4. /\ pending' \in [Clients -> [Keys -> Nat]]
        /\ superseded' \in [Clients -> SUBSET Keys]
        /\ lapsed' \in [Clients -> SUBSET Keys]
    <3>1. /\ pending' = [pending EXCEPT ![c][m.key] = IF @ > 0 THEN @ - 1 ELSE @]
          /\ superseded' = [superseded EXCEPT ![c] =
                              IF pending[c][m.key] = 1 THEN @ \ {m.key} ELSE @]
          /\ lapsed' = [lapsed EXCEPT ![c] =
                          IF pending[c][m.key] = 1 THEN @ \ {m.key} ELSE @]
      BY <1>3 DEF AckEcho
    <3>2. pending[c][m.key] \in Nat
      BY <2>2 DEF TypeInv, TypeOK
    <3> DEFINE n == IF pending[c][m.key] > 0 THEN pending[c][m.key] - 1 ELSE pending[c][m.key]
    <3>3. pending' \in [Clients -> [Keys -> Nat]]
      <4>1. n \in Nat
        BY <3>2
      <4>2. pending' = [pending EXCEPT ![c][m.key] = n]
        BY <3>1
      <4> HIDE DEF n
      <4> QED
        BY <2>2, <4>1, <4>2 DEF TypeInv, TypeOK
    <3>4. superseded' \in [Clients -> SUBSET Keys] /\ lapsed' \in [Clients -> SUBSET Keys]
      BY <3>1 DEF TypeInv, TypeOK
    <3> QED
      BY <3>3, <3>4
  <2>5. canvas' \in [Clients -> [Keys -> Contents]]
    BY <1>3, <2>2, <2>3 DEF AckEcho, TypeInv, TypeOK
  <2> QED
    BY <1>3, <2>2, <2>4, <2>5 DEF AckEcho, history, TypeInv, TypeOK, Positions
<1>4. ASSUME NEW c \in Clients, PeerMutation(c)
      PROVE  TypeInv'
  <2> DEFINE seq == pos[c] + 1
             m == log[seq]
  <2>1. pos[c] < Len(log) /\ advance(c, m, seq)
    BY <1>4 DEF PeerMutation
  <2>2. /\ m.key \in Keys /\ m.val \in Contents
        /\ pos' \in [Clients -> Nat] /\ \A d \in Clients : pos'[d] <= Len(log)
        /\ seen' \in [Clients -> [Keys -> Nat]]
        /\ lastSeq' \in [Clients -> Nat]
        /\ removed' \in [Clients -> [Keys -> Nat]]
    BY <2>1, AdvanceType
  <2>3. applied(c, m) \in Contents
    BY <2>2 DEF applied, TypeInv, TypeOK
  <2>4. superseded' \in [Clients -> SUBSET Keys]
    BY <1>4, <2>2 DEF PeerMutation, TypeInv, TypeOK
  <2>5. canvas' \in [Clients -> [Keys -> Contents]]
    BY <1>4, <2>2, <2>3 DEF PeerMutation, TypeInv, TypeOK
  <2> QED
    BY <1>4, <2>2, <2>4, <2>5 DEF PeerMutation, history, TypeInv, TypeOK, Positions
<1>5. ASSUME NEW c \in Clients, NEW k \in Keys, TtlLapse(c, k)
      PROVE  TypeInv'
  BY <1>5 DEF TtlLapse, history, TypeInv, TypeOK, Positions
<1>6. CASE UNCHANGED vars
  BY <1>6 DEF vars, order, history, TypeInv, TypeOK, Positions
<1> QED
  BY <1>1, <1>2, <1>3, <1>4, <1>5, <1>6 DEF Next

LEMMA TypeInvariant == Spec => []TypeInv
BY InitTypeInv, NextTypeInv, PTL DEF Spec

\* Every reachable state is well typed: links carry mutations, counts are
\* naturals, and what a client shows of a key is a content or its absence.
THEOREM TypeCorrect == Spec => []TypeOK
BY TypeInvariant, PTL DEF TypeInv

(***************************************************************************)
(* Agreement on removes.  VerdictAgreement alone is not inductive: a       *)
(* client ignores a frame that is not newer than what it has seen for the  *)
(* key, and only because `seen' never runs ahead of `pos' is every frame   *)
(* that is next in the order newer.  TombStep says the history is itself   *)
(* the step function the clients compute, one log entry at a time.         *)
(***************************************************************************)

\* The upsert m was cast in ignorance of the remove in force.
Ignorant(tomb, m) == isUpsert(m) /\ tomb[m.key] # 0 /\ m.seen < tomb[m.key]

\* The removes in force after m, ordered at seq, given those before it.
TombsAfter(tomb, m, seq) ==
  IF isRemove(m) THEN noteRemoved(tomb, m.key, seq)
  ELSE IF Ignorant(tomb, m) THEN tomb
  ELSE [tomb EXCEPT ![m.key] = 0]

TombStep ==
  \A i \in Nat : (1 <= i /\ i <= Len(log)) => tombs[i + 1] = TombsAfter(tombs[i], log[i], i)

SeenBehindPos == \A c \in Clients : \A k \in Keys : seen[c][k] <= pos[c]

VerdictInv == TombStep /\ SeenBehindPos /\ VerdictAgreement

LEMMA InitVerdictInv == Init => VerdictInv
BY DEF Init, VerdictInv, TombStep, SeenBehindPos, VerdictAgreement

\* One step of a client along the log: its removes move as the history does.
LEMMA AdvanceVerdict ==
  ASSUME TypeInv, VerdictInv, NEW c \in Clients, pos[c] < Len(log),
         advance(c, log[pos[c] + 1], pos[c] + 1), UNCHANGED <<log, tombs>>
  PROVE  VerdictInv'
<1> DEFINE seq == pos[c] + 1
           m == log[seq]
           k == m.key
<1>1. /\ seq \in Nat /\ 1 <= seq /\ seq <= Len(log)
      /\ m \in Mutation /\ k \in Keys
  BY AdvanceType DEF TypeInv, TypeOK
<1>2. seen[c][k] \in Nat /\ seen[c][k] <= pos[c] /\ seq > seen[c][k]
  BY <1>1 DEF TypeInv, TypeOK, VerdictInv, SeenBehindPos
<1>3. pos' = [pos EXCEPT ![c] = seq] /\ seen' = [seen EXCEPT ![c][k] = seq]
  BY <1>2 DEF advance
<1>4. removed[c] = tombs[seq] /\ removed[c] \in [Keys -> Nat]
  BY DEF VerdictInv, VerdictAgreement, TypeInv, TypeOK
<1>5. removed' = [removed EXCEPT ![c] = TombsAfter(removed[c], m, seq)]
  <2>1. removed' = IF isRemove(m) THEN [removed EXCEPT ![c] = noteRemoved(@, k, seq)]
                   ELSE IF supersededByRemove(c, m) THEN removed
                   ELSE [removed EXCEPT ![c][k] = 0]
    BY <1>2 DEF advance
  <2>2. CASE isRemove(m)
    BY <2>1, <2>2 DEF TombsAfter, Ignorant, TypeInv, TypeOK
  <2>3. CASE ~isRemove(m) /\ supersededByRemove(c, m)
    BY <2>1, <2>3 DEF TombsAfter, Ignorant, supersededByRemove, TypeInv, TypeOK
  <2>4. CASE ~isRemove(m) /\ ~supersededByRemove(c, m)
    BY <2>1, <2>4 DEF TombsAfter, Ignorant, supersededByRemove, TypeInv, TypeOK
  <2> QED
    BY <2>2, <2>3, <2>4
<1>6. removed'[c] = tombs[seq + 1]
  <2>1. removed'[c] = TombsAfter(tombs[seq], m, seq)
    BY <1>4, <1>5 DEF TypeInv, TypeOK
  <2>2. tombs[seq + 1] = TombsAfter(tombs[seq], m, seq)
    BY <1>1 DEF VerdictInv, TombStep
  <2> QED
    BY <2>1, <2>2
<1>7. VerdictAgreement'
  <2> SUFFICES ASSUME NEW d \in Clients
               PROVE  removed'[d] = tombs[pos'[d] + 1]
    BY DEF VerdictAgreement
  <2>1. CASE d = c
    BY <1>3, <1>6, <2>1 DEF TypeInv, TypeOK
  <2>2. CASE d # c
    BY <1>3, <1>5, <2>2 DEF TypeInv, TypeOK, VerdictInv, VerdictAgreement
  <2> QED
    BY <2>1, <2>2
<1>8. SeenBehindPos'
  <2> SUFFICES ASSUME NEW d \in Clients, NEW j \in Keys
               PROVE  seen'[d][j] <= pos'[d]
    BY DEF SeenBehindPos
  <2>1. /\ seen[d][j] \in Nat /\ pos[d] \in Nat
        /\ seen[d][j] <= pos[d]
    BY DEF TypeInv, TypeOK, VerdictInv, SeenBehindPos
  <2>2. CASE d = c
    BY <1>1, <1>3, <2>1, <2>2 DEF TypeInv, TypeOK
  <2>3. CASE d # c
    BY <1>3, <2>1, <2>3 DEF TypeInv, TypeOK
  <2> QED
    BY <2>2, <2>3
<1> QED
  BY <1>7, <1>8 DEF VerdictInv, TombStep

LEMMA NextVerdictInv == TypeInv /\ TypeInv' /\ VerdictInv /\ [Next]_vars => VerdictInv'
<1> SUFFICES ASSUME TypeInv, TypeInv', VerdictInv, [Next]_vars
             PROVE  VerdictInv'
  OBVIOUS
<1>1. ASSUME NEW c \in Clients, NEW k \in Keys, NEW v \in Contents, Edit(c, k, v)
      PROVE  VerdictInv'
  BY <1>1 DEF Edit, onLocal, history, VerdictInv, TombStep, SeenBehindPos, VerdictAgreement
<1>2. ASSUME NEW c \in Clients, Reflect(c)
      PROVE  VerdictInv'
  <2> DEFINE seq == Len(log) + 1
             m == stampMutation(sent[c][read[c] + 1], seq)
  <2>1. log' = Append(log, m) /\ settle(m, seq)
    BY <1>2 DEF Reflect
  <2>2. tombs' = Append(tombs, TombsAfter(tombs[seq], m, seq))
    BY <2>1 DEF settle, TombsAfter, Ignorant
  <2>3. /\ Len(tombs) = seq /\ seq \in Nat
        /\ \A i \in 1..seq : tombs'[i] = tombs[i]
        /\ tombs'[seq + 1] = TombsAfter(tombs[seq], m, seq)
    BY <2>2 DEF TypeInv, TypeOK, Positions
  <2>4. /\ Len(log') = seq
        /\ \A i \in 1..Len(log) : log'[i] = log[i]
        /\ log'[seq] = m
    BY <2>1 DEF TypeInv, TypeOK
  <2>5. ASSUME NEW i \in Nat, 1 <= i, i <= Len(log')
        PROVE  tombs'[i + 1] = TombsAfter(tombs'[i], log'[i], i)
    <3>1. CASE i = seq
      <4>1. seq \in 1..seq /\ tombs'[seq] = tombs[seq]
        BY <2>3
      <4>2. log'[seq] = m
        BY <2>4
      <4> HIDE DEF m, seq
      <4> QED
        BY <2>3, <3>1, <4>1, <4>2
    <3>2. CASE i # seq
      <4>1. Len(log) \in Nat /\ i <= Len(log) /\ i \in 1..Len(log)
        BY <2>4, <2>5, <3>2 DEF TypeInv, TypeOK
      <4>2. tombs'[i + 1] = tombs[i + 1] /\ tombs'[i] = tombs[i] /\ log'[i] = log[i]
        BY <2>3, <2>4, <4>1
      <4> QED
        BY <2>5, <4>1, <4>2 DEF VerdictInv, TombStep
    <3> QED
      BY <3>1, <3>2
  <2>6. TombStep'
    BY <2>5 DEF TombStep
  <2>7. SeenBehindPos'
    BY <1>2 DEF Reflect, order, VerdictInv, SeenBehindPos
  <2>8. ASSUME NEW d \in Clients
        PROVE  removed'[d] = tombs'[pos'[d] + 1]
    <3>1. pos[d] + 1 \in 1..seq
      <4>1. pos[d] \in Nat /\ Len(log) \in Nat
        BY DEF TypeInv, TypeOK
      <4>2. pos[d] <= Len(log)
        BY DEF TypeInv, Positions
      <4> QED
        BY <4>1, <4>2
    <3>2. removed'[d] = removed[d] /\ pos'[d] = pos[d]
      BY <1>2 DEF Reflect, order
    <3> QED
      BY <2>3, <3>1, <3>2 DEF VerdictInv, VerdictAgreement
  <2> QED
    BY <2>6, <2>7, <2>8 DEF VerdictInv, VerdictAgreement
<1>3. ASSUME NEW c \in Clients, AckEcho(c)
      PROVE  VerdictInv'
  BY <1>3, AdvanceVerdict DEF AckEcho, history
<1>4. ASSUME NEW c \in Clients, PeerMutation(c)
      PROVE  VerdictInv'
  BY <1>4, AdvanceVerdict DEF PeerMutation, history
<1>5. ASSUME NEW c \in Clients, NEW k \in Keys, TtlLapse(c, k)
      PROVE  VerdictInv'
  BY <1>5 DEF TtlLapse, history, VerdictInv, TombStep, SeenBehindPos, VerdictAgreement
<1>6. CASE UNCHANGED vars
  BY <1>6 DEF vars, order, history, VerdictInv, TombStep, SeenBehindPos, VerdictAgreement
<1> QED
  BY <1>1, <1>2, <1>3, <1>4, <1>5, <1>6 DEF Next

\* Every client judges every mutation by the same record of removes, a
\* function of the total order alone: what a client had pending, let lapse or
\* saw overwritten when it processed a frame never enters rule 4's verdict.
THEOREM VerdictsAgree == Spec => []VerdictAgreement
<1>1. TypeInv /\ VerdictInv /\ [Next]_vars => (TypeInv /\ VerdictInv)'
  BY NextTypeInv, NextVerdictInv
<1>2. TypeInv /\ VerdictInv => VerdictAgreement
  BY DEF VerdictInv
<1> QED
  BY <1>1, <1>2, InitTypeInv, InitVerdictInv, PTL DEF Spec

(***************************************************************************)
(* The links and the order.  Both directions of a connection are FIFO and  *)
(* lossless, so every log entry is the cast its sender and number name,    *)
(* each sender's casts are logged in the order it cast them, and none the  *)
(* reflector has read is missing.  A client never claims to have seen what *)
(* it has not, so the reflector's clamp never bites.                       *)
(***************************************************************************)

SentInv ==
  \A c \in Clients : \A i \in 1..Len(sent[c]) :
    /\ sent[c][i].src = c
    /\ sent[c][i].nth = i
    /\ sent[c][i].seen <= pos[c]

LoggedInv ==
  \A j \in 1..Len(log) :
    /\ log[j].nth \in 1..read[log[j].src]
    /\ log[j] = sent[log[j].src][log[j].nth]
    /\ log[j].seen < j

FifoInv ==
  \A i, j \in 1..Len(log) :
    i < j /\ log[i].src = log[j].src => log[i].nth < log[j].nth

ReadInv ==
  \A c \in Clients : \A i \in 1..read[c] :
    \E j \in 1..Len(log) : log[j].src = c /\ log[j].nth = i

AtPos == \A c \in Clients : lastSeq[c] = pos[c]

OrderInv == SentInv /\ LoggedInv /\ FifoInv /\ ReadInv /\ AtPos

LEMMA InitOrderInv == Init => OrderInv
BY DEF Init, OrderInv, SentInv, LoggedInv, FifoInv, ReadInv, AtPos

\* A log entry and a cast, typed.
LEMMA Entries ==
  ASSUME TypeInv
  PROVE  /\ Len(log) \in Nat
         /\ \A j \in 1..Len(log) : /\ log[j] \in Mutation
                                   /\ log[j].src \in Clients
                                   /\ log[j].key \in Keys
                                   /\ log[j].nth \in Nat
                                   /\ log[j].seen \in Nat
         /\ \A c \in Clients :
              /\ Len(sent[c]) \in Nat /\ read[c] \in Nat /\ pos[c] \in Nat
              /\ read[c] <= Len(sent[c]) /\ pos[c] <= Len(log)
              /\ \A i \in 1..Len(sent[c]) : /\ sent[c][i] \in Mutation
                                            /\ sent[c][i].key \in Keys
                                            /\ sent[c][i].seen \in Nat
<1>1. \A j \in 1..Len(log) : log[j] \in Mutation
  BY DEF TypeInv, TypeOK
<1>2. \A c \in Clients : \A i \in 1..Len(sent[c]) : sent[c][i] \in Mutation
  BY DEF TypeInv, TypeOK
<1>3. \A m \in Mutation : m.src \in Clients /\ m.key \in Keys /\ m.nth \in Nat /\ m.seen \in Nat
  BY DEF Mutation
<1> QED
  BY <1>1, <1>2, <1>3 DEF TypeInv, TypeOK, Positions

\* The stamp the reflector puts on a cast is the one it came with.
LEMMA StampedAsCast ==
  ASSUME TypeInv, OrderInv, NEW c \in Clients, read[c] < Len(sent[c])
  PROVE  /\ stampMutation(sent[c][read[c] + 1], Len(log) + 1) = sent[c][read[c] + 1]
         /\ sent[c][read[c] + 1] \in Mutation
         /\ sent[c][read[c] + 1].src = c
         /\ sent[c][read[c] + 1].nth = read[c] + 1
         /\ sent[c][read[c] + 1].seen < Len(log) + 1
<1> DEFINE m == sent[c][read[c] + 1]
<1>1. read[c] + 1 \in 1..Len(sent[c])
  BY Entries
<1>2. m \in Mutation /\ m.src = c /\ m.nth = read[c] + 1 /\ m.seen <= pos[c] /\ m.seen \in Nat
  BY <1>1, Entries DEF OrderInv, SentInv
<1>3. m.seen < Len(log) + 1
  BY <1>2, Entries
<1>4. stampMutation(m, Len(log) + 1) = m
  <2>1. ~(m.seen >= Len(log) + 1)
    BY <1>2, <1>3, Entries
  <2>2. stampMutation(m, Len(log) + 1) = [m EXCEPT !.seen = m.seen]
    BY <2>1 DEF stampMutation
  <2> QED
    BY <1>2, <2>2 DEF Mutation
<1> QED
  BY <1>2, <1>3, <1>4

\* A client's step along the log moves only that client's place in it.
LEMMA AdvanceOrder ==
  ASSUME TypeInv, OrderInv, NEW c \in Clients, pos[c] < Len(log),
         advance(c, log[pos[c] + 1], pos[c] + 1), UNCHANGED <<sent, read, log>>
  PROVE  OrderInv'
<1>1. pos' = [pos EXCEPT ![c] = pos[c] + 1]
  BY DEF advance
<1>2. lastSeq' = [lastSeq EXCEPT ![c] = pos[c] + 1]
  <2>1. lastSeq[c] = pos[c] /\ pos[c] \in Nat
    BY Entries DEF OrderInv, AtPos
  <2> DEFINE n == IF pos[c] + 1 > lastSeq[c] THEN pos[c] + 1 ELSE lastSeq[c]
  <2>2. lastSeq' = [lastSeq EXCEPT ![c] = n]
    BY DEF advance
  <2>3. n = pos[c] + 1
    BY <2>1
  <2> HIDE DEF n
  <2> QED
    BY <2>2, <2>3
<1>3. AtPos'
  BY <1>1, <1>2 DEF TypeInv, TypeOK, OrderInv, AtPos
<1>4. \A d \in Clients : pos[d] <= pos'[d]
  BY <1>1, Entries DEF TypeInv, TypeOK
<1>5. SentInv'
  <2> SUFFICES ASSUME NEW d \in Clients, NEW i \in 1..Len(sent[d])
               PROVE  sent[d][i].src = d /\ sent[d][i].nth = i /\ sent[d][i].seen <= pos'[d]
    BY DEF SentInv
  <2>1. pos'[d] \in Nat
    BY <1>1, Entries DEF TypeInv, TypeOK
  <2>2. sent[d][i].src = d /\ sent[d][i].nth = i /\ sent[d][i].seen <= pos[d]
    BY DEF OrderInv, SentInv
  <2> QED
    BY <1>4, <2>1, <2>2, Entries
<1> QED
  BY <1>3, <1>5 DEF OrderInv, LoggedInv, FifoInv, ReadInv

LEMMA EditOrder ==
  ASSUME TypeInv, OrderInv, NEW c \in Clients, NEW k \in Keys, NEW v \in Contents,
         Edit(c, k, v)
  PROVE  OrderInv'
<1>1. /\ sent' = [sent EXCEPT ![c] = Append(@, stamp(c, k, v))]
      /\ UNCHANGED <<read, log, pos, lastSeq>>
  BY DEF Edit, onLocal
<1>2. stamp(c, k, v) \in Mutation
  BY DEF stamp, Mutation, TypeInv, TypeOK
<1>3. /\ Len(sent'[c]) = Len(sent[c]) + 1
      /\ sent'[c][Len(sent[c]) + 1] = stamp(c, k, v)
      /\ \A i \in 1..Len(sent[c]) : sent'[c][i] = sent[c][i]
      /\ \A d \in Clients \ {c} : sent'[d] = sent[d]
  BY <1>1, <1>2 DEF TypeInv, TypeOK
<1>4. SentInv'
  <2> SUFFICES ASSUME NEW d \in Clients, NEW i \in 1..Len(sent'[d])
               PROVE  sent'[d][i].src = d /\ sent'[d][i].nth = i /\ sent'[d][i].seen <= pos[d]
    BY <1>1 DEF SentInv
  <2>1. CASE d = c /\ i = Len(sent[c]) + 1
    BY <1>3, <2>1, Entries DEF stamp, OrderInv, AtPos
  <2>2. CASE ~(d = c /\ i = Len(sent[c]) + 1)
    <3>1. i \in 1..Len(sent[d]) /\ sent'[d][i] = sent[d][i]
      BY <1>3, <2>2, Entries
    <3> QED
      BY <3>1 DEF OrderInv, SentInv
  <2> QED
    BY <2>1, <2>2
<1>5. LoggedInv'
  <2> SUFFICES ASSUME NEW j \in 1..Len(log)
               PROVE  log[j] = sent'[log[j].src][log[j].nth]
    BY <1>1 DEF OrderInv, LoggedInv
  <2>1. log[j].src \in Clients /\ log[j].nth \in 1..Len(sent[log[j].src])
    BY Entries DEF OrderInv, LoggedInv
  <2>2. log[j] = sent[log[j].src][log[j].nth]
    BY DEF OrderInv, LoggedInv
  <2> QED
    BY <1>3, <2>1, <2>2
<1> QED
  BY <1>1, <1>4, <1>5 DEF OrderInv, FifoInv, ReadInv, AtPos

LEMMA ReflectOrder ==
  ASSUME TypeInv, OrderInv, NEW c \in Clients, Reflect(c)
  PROVE  OrderInv'
<1> DEFINE seq == Len(log) + 1
           nth == read[c] + 1
           m == sent[c][nth]
<1>1. read[c] < Len(sent[c])
  BY DEF Reflect
<1>2. /\ log' = Append(log, m)
      /\ read' = [read EXCEPT ![c] = nth]
      /\ UNCHANGED <<sent, pos, lastSeq>>
  BY <1>1, StampedAsCast DEF Reflect, order
<1>3. m \in Mutation /\ m.src = c /\ m.nth = nth /\ m.seen < seq
  BY <1>1, StampedAsCast
<1>4. /\ Len(log') = seq /\ log'[seq] = m
      /\ \A j \in 1..Len(log) : log'[j] = log[j]
  BY <1>2, <1>3 DEF TypeInv, TypeOK
<1>5. /\ read'[c] = nth
      /\ \A d \in Clients : read'[d] >= read[d] /\ read'[d] \in Nat
      /\ \A d \in Clients \ {c} : read'[d] = read[d]
  BY <1>2, Entries DEF TypeInv, TypeOK
<1>0. Len(log) \in Nat
  BY Entries
<1> HIDE DEF m
<1>6. LoggedInv'
  <2> SUFFICES ASSUME NEW j \in 1..seq
               PROVE  /\ log'[j].nth \in 1..read'[log'[j].src]
                      /\ log'[j] = sent[log'[j].src][log'[j].nth]
                      /\ log'[j].seen < j
    BY <1>2, <1>4 DEF LoggedInv
  <2>1. CASE j = seq
    BY <1>3, <1>4, <1>5, <2>1, Entries DEF m
  <2>2. CASE j # seq
    <3>1. j \in 1..Len(log) /\ log'[j] = log[j]
      BY <1>0, <1>4, <2>2
    <3> QED
      BY <1>5, <3>1, Entries DEF OrderInv, LoggedInv
  <2> QED
    BY <2>1, <2>2
<1>7. FifoInv'
  <2> SUFFICES ASSUME NEW i \in 1..seq, NEW j \in 1..seq, i < j, log'[i].src = log'[j].src
               PROVE  log'[i].nth < log'[j].nth
    BY <1>4 DEF FifoInv
  <2>1. i \in 1..Len(log) /\ log'[i] = log[i]
    BY <1>0, <1>4
  <2>2. CASE j = seq
    <3>1. log[i].src = c
      BY <1>3, <1>4, <2>1, <2>2
    <3>2. log[i].nth \in 1..read[c]
      BY <2>1, <3>1 DEF OrderInv, LoggedInv
    <3> QED
      BY <1>3, <1>4, <2>1, <2>2, <3>2, Entries
  <2>3. CASE j # seq
    <3>1. j \in 1..Len(log) /\ log'[j] = log[j]
      BY <1>0, <1>4, <2>3
    <3> QED
      BY <2>1, <3>1 DEF OrderInv, FifoInv
  <2> QED
    BY <2>2, <2>3
<1>8. ReadInv'
  <2> SUFFICES ASSUME NEW d \in Clients, NEW i \in 1..read'[d]
               PROVE  \E j \in 1..seq : log'[j].src = d /\ log'[j].nth = i
    BY <1>4 DEF ReadInv
  <2>1. CASE d = c /\ i = nth
    <3>1. seq \in 1..seq
      BY Entries
    <3> QED
      BY <1>3, <1>4, <2>1, <3>1
  <2>2. CASE ~(d = c /\ i = nth)
    <3>1. i \in 1..read[d]
      BY <1>5, <2>2, Entries
    <3>2. PICK j \in 1..Len(log) : log[j].src = d /\ log[j].nth = i
      BY <3>1 DEF OrderInv, ReadInv
    <3>3. j \in 1..seq /\ log'[j] = log[j]
      BY <1>0, <1>4
    <3> QED
      BY <3>2, <3>3
  <2> QED
    BY <2>1, <2>2
<1> QED
  BY <1>2, <1>6, <1>7, <1>8 DEF OrderInv, SentInv, AtPos

LEMMA NextOrderInv == TypeInv /\ OrderInv /\ [Next]_vars => OrderInv'
<1> SUFFICES ASSUME TypeInv, OrderInv, [Next]_vars
             PROVE  OrderInv'
  OBVIOUS
<1> USE DEF OrderInv
<1>1. ASSUME NEW c \in Clients, AckEcho(c)
      PROVE  OrderInv'
  BY <1>1, AdvanceOrder DEF AckEcho
<1>2. ASSUME NEW c \in Clients, PeerMutation(c)
      PROVE  OrderInv'
  BY <1>2, AdvanceOrder DEF PeerMutation
<1>3. ASSUME NEW c \in Clients, NEW k \in Keys, TtlLapse(c, k)
      PROVE  OrderInv'
  BY <1>3 DEF TtlLapse, SentInv, LoggedInv, FifoInv, ReadInv, AtPos
<1>4. CASE UNCHANGED vars
  BY <1>4 DEF vars, order, SentInv, LoggedInv, FifoInv, ReadInv, AtPos
<1> QED
  BY <1>1, <1>2, <1>3, <1>4, EditOrder, ReflectOrder DEF Next

(***************************************************************************)
(* The unacknowledged casts, step by step: an edit adds the cast it makes, *)
(* the echo of a client's own cast takes that cast away, which is the      *)
(* oldest of its key for the links are FIFO, and nothing else moves them.  *)
(***************************************************************************)

\* A cast is unacknowledged until the client is past its place in the log.
LEMMA UnackedRange ==
  ASSUME TypeInv, NEW c \in Clients, NEW k \in Keys
  PROVE  /\ Unacked(c, k) \subseteq 1..Len(sent[c])
         /\ Unacked(c, k) \subseteq Nat
         /\ IsFiniteSet(Unacked(c, k))
<1>1. Len(sent[c]) \in Nat
  BY Entries
<1>2. Unacked(c, k) \subseteq 1..Len(sent[c])
  BY DEF Unacked
<1>3. IsFiniteSet(1..Len(sent[c]))
  BY <1>1, FS_Interval
<1> QED
  BY <1>1, <1>2, <1>3, FS_Subset

LEMMA EditUnacked ==
  ASSUME TypeInv, OrderInv, NEW c \in Clients, NEW k \in Keys, NEW v \in Contents,
         Edit(c, k, v)
  PROVE  /\ \A d \in Clients : \A j \in Keys :
              Unacked(d, j)' = IF d = c /\ j = k THEN Unacked(c, k) \cup {Len(sent[c]) + 1}
                               ELSE Unacked(d, j)
         /\ \A d \in Clients : \A i \in 1..Len(sent[d]) : sent'[d][i] = sent[d][i]
         /\ sent'[c][Len(sent[c]) + 1] = stamp(c, k, v)
<1> DEFINE new == Len(sent[c]) + 1
<1>1. /\ sent' = [sent EXCEPT ![c] = Append(@, stamp(c, k, v))]
      /\ UNCHANGED <<log, pos>>
  BY DEF Edit
<1>2. stamp(c, k, v) \in Mutation /\ stamp(c, k, v).key = k
  BY DEF stamp, Mutation, TypeInv, TypeOK
<1>3. /\ Len(sent'[c]) = new
      /\ sent'[c][new] = stamp(c, k, v)
      /\ \A i \in 1..Len(sent[c]) : sent'[c][i] = sent[c][i]
      /\ \A d \in Clients \ {c} : sent'[d] = sent[d]
  BY <1>1, <1>2 DEF TypeInv, TypeOK
<1>4. Len(sent[c]) \in Nat /\ pos[c] \in Nat /\ Len(log) \in Nat /\ pos[c] <= Len(log)
  BY Entries
<1>5. \A j \in 1..pos[c] : ~(log[j].src = c /\ log[j].nth = new)
  <2> SUFFICES ASSUME NEW j \in 1..pos[c], log[j].src = c, log[j].nth = new
               PROVE  FALSE
    OBVIOUS
  <2>1. log[j].nth \in 1..read[c]
    BY <1>4 DEF OrderInv, LoggedInv
  <2> QED
    BY <1>4, <2>1, Entries
<1>6. \A j \in Keys : Unacked(c, j)' = IF j = k THEN Unacked(c, k) \cup {new} ELSE Unacked(c, j)
  <2> SUFFICES ASSUME NEW j \in Keys, NEW i
               PROVE  i \in Unacked(c, j)' <=> i \in Unacked(c, j) \/ (j = k /\ i = new)
    OBVIOUS
  <2>1. i \in 1..new <=> i \in 1..Len(sent[c]) \/ i = new
    BY <1>4
  <2>2. i \in Unacked(c, j)' <=> /\ i \in 1..new
                                 /\ sent'[c][i].key = j
                                 /\ \A l \in 1..pos[c] : ~(log[l].src = c /\ log[l].nth = i)
    BY <1>1, <1>3 DEF Unacked
  <2>3. i \in Unacked(c, j) <=> /\ i \in 1..Len(sent[c])
                                /\ sent[c][i].key = j
                                /\ \A l \in 1..pos[c] : ~(log[l].src = c /\ log[l].nth = i)
    BY DEF Unacked
  <2>4. new \notin 1..Len(sent[c])
    BY <1>4
  <2> HIDE DEF new
  <2> QED
    BY <1>2, <1>3, <1>5, <2>1, <2>2, <2>3, <2>4
<1>7. \A d \in Clients \ {c} : \A j \in Keys : Unacked(d, j)' = Unacked(d, j)
  BY <1>1, <1>3 DEF Unacked
<1> QED
  BY <1>3, <1>6, <1>7

\* The frame a client processes next, and what processing it acknowledges.
LEMMA AckedNext ==
  ASSUME TypeInv, OrderInv, NEW c \in Clients, pos[c] < Len(log),
         pos' = [pos EXCEPT ![c] = pos[c] + 1], UNCHANGED <<sent, log>>
  PROVE  LET m == log[pos[c] + 1]
         IN  /\ m.src # c => \A d \in Clients : \A j \in Keys : Unacked(d, j)' = Unacked(d, j)
             /\ m.src = c =>
                  /\ m = sent[c][m.nth]
                  /\ m.nth \in Unacked(c, m.key)
                  /\ \A i \in Unacked(c, m.key) : m.nth <= i
                  /\ \A d \in Clients : \A j \in Keys :
                       Unacked(d, j)' = IF d = c /\ j = m.key THEN Unacked(c, j) \ {m.nth}
                                        ELSE Unacked(d, j)
<1> DEFINE seq == pos[c] + 1
           m == log[seq]
<1>1. /\ pos[c] \in Nat /\ Len(log) \in Nat
      /\ seq \in 1..Len(log) /\ m \in Mutation /\ m.key \in Keys
  BY Entries
<1>2. pos'[c] = seq /\ \A d \in Clients \ {c} : pos'[d] = pos[d]
  BY DEF TypeInv, TypeOK
<1>3. \A d \in Clients \ {c} : \A j \in Keys : Unacked(d, j)' = Unacked(d, j)
  BY <1>2 DEF Unacked
<1>4. \A l : l \in 1..seq <=> l \in 1..pos[c] \/ l = seq
  BY <1>1
<1>5. ASSUME NEW j \in Keys, NEW i
      PROVE  i \in Unacked(c, j)' <=> i \in Unacked(c, j) /\ ~(m.src = c /\ m.nth = i)
  <2>1. i \in Unacked(c, j)' <=> /\ i \in 1..Len(sent[c])
                                 /\ sent[c][i].key = j
                                 /\ \A l \in 1..seq : ~(log[l].src = c /\ log[l].nth = i)
    BY <1>2 DEF Unacked
  <2>2. i \in Unacked(c, j) <=> /\ i \in 1..Len(sent[c])
                                /\ sent[c][i].key = j
                                /\ \A l \in 1..pos[c] : ~(log[l].src = c /\ log[l].nth = i)
    BY DEF Unacked
  <2> HIDE DEF seq
  <2> QED
    BY <1>4, <2>1, <2>2
<1>6. CASE m.src # c
  <2>1. \A j \in Keys : Unacked(c, j)' = Unacked(c, j)
    BY <1>5, <1>6
  <2> QED
    BY <1>3, <1>6, <2>1
<1>7. CASE m.src = c
  <2>1. m.nth \in 1..read[c] /\ m = sent[c][m.nth]
    BY <1>1, <1>7 DEF OrderInv, LoggedInv
  <2>2. m.nth \in 1..Len(sent[c])
    BY <2>1, Entries
  <2>3. \A l \in 1..pos[c] : ~(log[l].src = c /\ log[l].nth = m.nth)
    <3> SUFFICES ASSUME NEW l \in 1..pos[c], log[l].src = c, log[l].nth = m.nth
                 PROVE  FALSE
      OBVIOUS
    <3>1. l \in 1..Len(log) /\ l < seq
      BY <1>1
    <3>2. log[l].nth < m.nth
      BY <1>1, <1>7, <3>1 DEF OrderInv, FifoInv
    <3> QED
      BY <2>2, <3>2
  <2>4. m.nth \in Unacked(c, m.key)
    BY <2>1, <2>2, <2>3 DEF Unacked
  <2>5. ASSUME NEW i \in Unacked(c, m.key)
        PROVE  m.nth <= i
    <3> SUFFICES ASSUME ~(m.nth <= i)
                 PROVE  FALSE
      OBVIOUS
    <3>1. i \in Nat /\ i \in 1..Len(sent[c])
      BY <1>1, UnackedRange
    <3>2. i \in 1..read[c]
      BY <2>1, <3>1, Entries
    <3>3. PICK l \in 1..Len(log) : log[l].src = c /\ log[l].nth = i
      BY <3>2 DEF OrderInv, ReadInv
    <3>4. l \notin 1..pos[c]
      BY <3>3 DEF Unacked
    <3>5. l # seq
      BY <2>1, <3>1, <3>3
    <3>6. seq < l
      BY <1>1, <3>4, <3>5
    <3>7. m.nth < log[l].nth
      BY <1>1, <1>7, <3>3, <3>6 DEF OrderInv, FifoInv
    <3> QED
      BY <2>2, <3>1, <3>3, <3>7
  <2>6. \A j \in Keys :
          Unacked(c, j)' = IF j = m.key THEN Unacked(c, j) \ {m.nth} ELSE Unacked(c, j)
    <3> SUFFICES ASSUME NEW j \in Keys, NEW i
                 PROVE  i \in Unacked(c, j)' <=>
                          i \in Unacked(c, j) /\ ~(j = m.key /\ i = m.nth)
      OBVIOUS
    <3>1. i = m.nth /\ i \in Unacked(c, j) => j = m.key
      BY <2>1 DEF Unacked
    <3> QED
      BY <1>5, <1>7, <3>1
  <2> QED
    BY <1>3, <1>7, <2>1, <2>4, <2>5, <2>6
<1> QED
  BY <1>6, <1>7

LEMMA ReflectUnacked ==
  ASSUME TypeInv, NEW c \in Clients, Reflect(c)
  PROVE  /\ \A d \in Clients : \A k \in Keys : Unacked(d, k)' = Unacked(d, k)
         /\ \A j \in 1..Len(log) : log'[j] = log[j]
<1> DEFINE m == stampMutation(sent[c][read[c] + 1], Len(log) + 1)
<1>1. log' = Append(log, m) /\ UNCHANGED <<sent, pos>>
  BY DEF Reflect
<1>2. \A j \in 1..Len(log) : log'[j] = log[j]
  BY <1>1 DEF TypeInv, TypeOK
<1>3. \A d \in Clients : \A j \in 1..pos[d] : log'[j] = log[j]
  BY <1>2, Entries
<1>4. ASSUME NEW d \in Clients, NEW k \in Keys
      PROVE  Unacked(d, k)' = Unacked(d, k)
  BY <1>1, <1>3 DEF Unacked
<1> QED
  BY <1>2, <1>4

\* A client's two kinds of step along the log.
Processes(c) == AckEcho(c) \/ PeerMutation(c)

LEMMA ProcessesNext ==
  ASSUME TypeInv, OrderInv, VerdictInv, NEW c \in Clients, Processes(c)
  PROVE  /\ pos[c] < Len(log)
         /\ pos' = [pos EXCEPT ![c] = pos[c] + 1]
         /\ advance(c, log[pos[c] + 1], pos[c] + 1)
         /\ log[pos[c] + 1] \in Mutation
         /\ log[pos[c] + 1].key \in Keys
         /\ pos[c] + 1 > seen[c][log[pos[c] + 1].key]
         /\ UNCHANGED <<sent, read, log, history>>
<1>1. /\ pos[c] < Len(log)
      /\ advance(c, log[pos[c] + 1], pos[c] + 1)
      /\ UNCHANGED <<sent, read, log, history>>
  BY DEF Processes, AckEcho, PeerMutation
<1>2. pos' = [pos EXCEPT ![c] = pos[c] + 1]
  BY <1>1 DEF advance
<1>3. log[pos[c] + 1] \in Mutation /\ log[pos[c] + 1].key \in Keys
  BY <1>1, Entries
<1>4. pos[c] + 1 > seen[c][log[pos[c] + 1].key]
  BY <1>3 DEF TypeInv, TypeOK, VerdictInv, SeenBehindPos
<1> QED
  BY <1>1, <1>2, <1>3, <1>4

LEMMA IdleUnacked ==
  ASSUME UNCHANGED <<sent, log, pos>>
  PROVE  \A d \in Clients : \A k \in Keys : Unacked(d, k)' = Unacked(d, k)
BY DEF Unacked

LEMMA NextPendingIsUnacked ==
  TypeInv /\ OrderInv /\ VerdictInv /\ PendingIsUnacked /\ [Next]_vars => PendingIsUnacked'
<1> SUFFICES ASSUME TypeInv, OrderInv, VerdictInv, PendingIsUnacked, [Next]_vars,
                    NEW d \in Clients, NEW j \in Keys
             PROVE  pending'[d][j] = Cardinality(Unacked(d, j)')
  BY DEF PendingIsUnacked
<1>1. /\ pending[d][j] = Cardinality(Unacked(d, j))
      /\ IsFiniteSet(Unacked(d, j))
      /\ Unacked(d, j) \subseteq 1..Len(sent[d])
  BY UnackedRange DEF PendingIsUnacked
<1>2. ASSUME NEW c \in Clients, NEW k \in Keys, NEW v \in Contents, Edit(c, k, v)
      PROVE  pending'[d][j] = Cardinality(Unacked(d, j)')
  <2>1. pending' = [pending EXCEPT ![c][k] = @ + 1]
    BY <1>2 DEF Edit, onLocal
  <2>2. CASE d = c /\ j = k
    <3>1. Unacked(d, j)' = Unacked(d, j) \cup {Len(sent[d]) + 1}
      BY <1>2, <2>2, EditUnacked
    <3>2. Len(sent[d]) + 1 \notin Unacked(d, j)
      BY <1>1, Entries
    <3>3. Cardinality(Unacked(d, j) \cup {Len(sent[d]) + 1}) = Cardinality(Unacked(d, j)) + 1
      BY <1>1, <3>2, FS_AddElement
    <3> QED
      BY <1>1, <2>1, <2>2, <3>1, <3>3 DEF TypeInv, TypeOK
  <2>3. CASE ~(d = c /\ j = k)
    <3>1. Unacked(d, j)' = Unacked(d, j)
      BY <1>2, <2>3, EditUnacked
    <3> QED
      BY <1>1, <2>1, <2>3, <3>1 DEF TypeInv, TypeOK
  <2> QED
    BY <2>2, <2>3
<1>3. ASSUME NEW c \in Clients, Reflect(c)
      PROVE  pending'[d][j] = Cardinality(Unacked(d, j)')
  <2>1. Unacked(d, j)' = Unacked(d, j)
    BY <1>3, ReflectUnacked
  <2> QED
    BY <1>1, <1>3, <2>1 DEF Reflect, order
<1>4. ASSUME NEW c \in Clients, AckEcho(c)
      PROVE  pending'[d][j] = Cardinality(Unacked(d, j)')
  <2> DEFINE m == log[pos[c] + 1]
             n == IF pending[c][m.key] > 0 THEN pending[c][m.key] - 1 ELSE pending[c][m.key]
  <2>1. /\ pos[c] < Len(log) /\ pos' = [pos EXCEPT ![c] = pos[c] + 1]
        /\ UNCHANGED <<sent, log>> /\ m.key \in Keys
    BY <1>4, ProcessesNext DEF Processes
  <2>2. m.src = c /\ pending' = [pending EXCEPT ![c][m.key] = n]
    BY <1>4 DEF AckEcho
  <2>3. /\ m.nth \in Unacked(c, m.key)
        /\ Unacked(d, j)' = IF d = c /\ j = m.key THEN Unacked(c, j) \ {m.nth}
                            ELSE Unacked(d, j)
    <3>1. /\ m.nth \in Unacked(c, m.key)
          /\ \A e \in Clients : \A l \in Keys :
               Unacked(e, l)' = IF e = c /\ l = m.key THEN Unacked(c, l) \ {m.nth}
                                ELSE Unacked(e, l)
      BY <2>1, <2>2, AckedNext
    <3> QED
      BY <3>1
  <2>4. CASE d = c /\ j = m.key
    <3>1. Cardinality(Unacked(d, j) \ {m.nth}) = Cardinality(Unacked(d, j)) - 1
      BY <1>1, <2>3, <2>4, FS_RemoveElement
    <3>2. Unacked(d, j) # {} /\ Cardinality(Unacked(d, j)) \in Nat
      BY <1>1, <2>3, <2>4, FS_CardinalityType
    <3>3. Cardinality(Unacked(d, j)) # 0
      BY <1>1, <3>2, FS_EmptySet
    <3>4. n = Cardinality(Unacked(d, j)) - 1
      BY <1>1, <2>4, <3>2, <3>3
    <3>5. pending'[d][j] = n
      BY <2>1, <2>2, <2>4 DEF TypeInv, TypeOK
    <3> QED
      BY <2>3, <2>4, <3>1, <3>4, <3>5
  <2>5. CASE ~(d = c /\ j = m.key)
    <3>1. pending'[d][j] = pending[d][j]
      BY <2>1, <2>2, <2>5 DEF TypeInv, TypeOK
    <3> QED
      BY <1>1, <2>3, <2>5, <3>1
  <2> QED
    BY <2>4, <2>5
<1>5. ASSUME NEW c \in Clients, PeerMutation(c)
      PROVE  pending'[d][j] = Cardinality(Unacked(d, j)')
  <2>1. /\ pos[c] < Len(log) /\ pos' = [pos EXCEPT ![c] = pos[c] + 1]
        /\ UNCHANGED <<sent, log>>
    BY <1>5, ProcessesNext DEF Processes
  <2>2. log[pos[c] + 1].src # c /\ UNCHANGED pending
    BY <1>5 DEF PeerMutation
  <2>3. Unacked(d, j)' = Unacked(d, j)
    BY <2>1, <2>2, AckedNext
  <2> QED
    BY <1>1, <2>2, <2>3
<1>6. ASSUME NEW c \in Clients, NEW k \in Keys, TtlLapse(c, k)
      PROVE  pending'[d][j] = Cardinality(Unacked(d, j)')
  BY <1>1, <1>6, IdleUnacked DEF TtlLapse
<1>7. CASE UNCHANGED vars
  BY <1>1, <1>7, IdleUnacked DEF vars, order
<1> QED
  BY <1>2, <1>3, <1>4, <1>5, <1>6, <1>7 DEF Next

LEMMA InitPendingIsUnacked == Init => PendingIsUnacked
<1> SUFFICES ASSUME Init, NEW c \in Clients, NEW k \in Keys
             PROVE  pending[c][k] = Cardinality(Unacked(c, k))
  BY DEF PendingIsUnacked
<1>1. Unacked(c, k) = {}
  BY DEF Init, Unacked
<1> QED
  BY <1>1, FS_EmptySet DEF Init

CoreInv == TypeInv /\ VerdictInv /\ OrderInv /\ PendingIsUnacked

LEMMA InitCoreInv == Init => CoreInv
BY InitTypeInv, InitVerdictInv, InitOrderInv, InitPendingIsUnacked DEF CoreInv

LEMMA NextCoreInv == CoreInv /\ [Next]_vars => CoreInv'
BY NextTypeInv, NextVerdictInv, NextOrderInv, NextPendingIsUnacked DEF CoreInv

\* A client's pending count of a key is exactly how many of its casts for the
\* key are not acknowledged: rule 2 holds peers off while and only while one
\* is, and no ack is ever lost or counted twice.
THEOREM PendingCountsUnacked == Spec => []PendingIsUnacked
<1>1. CoreInv => PendingIsUnacked
  BY DEF CoreInv
<1> QED
  BY <1>1, InitCoreInv, NextCoreInv, PTL DEF Spec

(***************************************************************************)
(* The history.  Each mutation settles on the one before it, and a tomb is *)
(* the place of a logged remove of its key.                                *)
(***************************************************************************)

\* The canvas after m, given the canvas and the removes in force before it.
TruthAfter(now, tomb, m) ==
  IF Ignorant(tomb, m) THEN now ELSE [now EXCEPT ![m.key] = m.val]

TruthStep ==
  \A i \in 1..Len(log) : truth[i + 1] = TruthAfter(truth[i], tombs[i], log[i])

TombsPast ==
  \A i \in 0..Len(log) : \A k \in Keys :
    tombs[i + 1][k] # 0 =>
      /\ tombs[i + 1][k] \in 1..i
      /\ log[tombs[i + 1][k]].key = k
      /\ isRemove(log[tombs[i + 1][k]])

HistoryInv == TruthStep /\ TombsPast

LEMMA InitHistoryInv == Init => HistoryInv
BY DEF Init, HistoryInv, TruthStep, TombsPast

\* What a mutation does to the removes in force.
LEMMA TombsAfterAt ==
  ASSUME NEW tomb \in [Keys -> Nat], NEW m \in Mutation, NEW seq \in Nat, NEW j \in Keys
  PROVE  /\ TombsAfter(tomb, m, seq) \in [Keys -> Nat]
         /\ j # m.key => TombsAfter(tomb, m, seq)[j] \in {0, tomb[j]}
         /\ isRemove(m) => TombsAfter(tomb, m, seq)[m.key] \in {0, seq}
         /\ Ignorant(tomb, m) => TombsAfter(tomb, m, seq)[m.key] = tomb[m.key]
         /\ isUpsert(m) /\ ~Ignorant(tomb, m) => TombsAfter(tomb, m, seq)[m.key] = 0
         /\ isUpsert(m) /\ j # m.key => TombsAfter(tomb, m, seq)[j] = tomb[j]
<1>1. m.key \in Keys
  BY DEF Mutation
<1>2. noteRemoved(tomb, m.key, seq) \in [Keys -> Nat]
  BY <1>1, NoteRemovedType
<1>3. /\ j # m.key => noteRemoved(tomb, m.key, seq)[j] \in {0, tomb[j]}
      /\ noteRemoved(tomb, m.key, seq)[m.key] \in {0, seq}
  <2> DEFINE marked == [tomb EXCEPT ![m.key] = seq]
             held == {l \in Keys : marked[l] # 0}
             oldest == CHOOSE l \in held : \A i \in held : marked[l] <= marked[i]
  <2>1. \/ noteRemoved(tomb, m.key, seq) = marked
        \/ noteRemoved(tomb, m.key, seq) = [marked EXCEPT ![oldest] = 0]
    BY DEF noteRemoved
  <2>2. marked[m.key] = seq /\ (j # m.key => marked[j] = tomb[j]) /\ marked \in [Keys -> Nat]
    BY <1>1
  <2> HIDE DEF marked, oldest
  <2> QED
    BY <1>1, <2>1, <2>2
<1>4. CASE isRemove(m)
  BY <1>1, <1>2, <1>3, <1>4 DEF TombsAfter, Ignorant, isRemove, isUpsert
<1>5. CASE Ignorant(tomb, m)
  BY <1>1, <1>5 DEF TombsAfter, Ignorant, isRemove, isUpsert
<1>6. CASE isUpsert(m) /\ ~Ignorant(tomb, m)
  BY <1>1, <1>6 DEF TombsAfter, isRemove, isUpsert
<1> QED
  BY <1>4, <1>5, <1>6 DEF isRemove, isUpsert

LEMMA ReflectHistory ==
  ASSUME TypeInv, OrderInv, NEW c \in Clients, Reflect(c)
  PROVE  LET seq == Len(log) + 1
             m == sent[c][read[c] + 1]
         IN  /\ seq \in Nat /\ m \in Mutation /\ m.key \in Keys
             /\ Len(log') = seq
             /\ log'[seq] = m
             /\ \A j \in 1..Len(log) : log'[j] = log[j]
             /\ \A i \in 1..seq : truth'[i] = truth[i] /\ tombs'[i] = tombs[i]
             /\ truth'[seq + 1] = TruthAfter(truth[seq], tombs[seq], m)
             /\ tombs'[seq + 1] = TombsAfter(tombs[seq], m, seq)
             /\ tombs[seq] \in [Keys -> Nat]
<1> DEFINE seq == Len(log) + 1
           m == sent[c][read[c] + 1]
<1>1. log' = Append(log, m) /\ settle(m, seq)
  BY StampedAsCast DEF Reflect
<1>2. m \in Mutation /\ m.key \in Keys
  BY StampedAsCast DEF Reflect, Mutation
<1>3. seq \in Nat /\ Len(truth) = seq /\ Len(tombs) = seq
  BY Entries DEF TypeInv, Positions
<1>4. Len(log') = seq /\ log'[seq] = m /\ \A j \in 1..Len(log) : log'[j] = log[j]
  BY <1>1, <1>2 DEF TypeInv, TypeOK
<1>5. /\ truth' = Append(truth, TruthAfter(truth[seq], tombs[seq], m))
      /\ tombs' = Append(tombs, TombsAfter(tombs[seq], m, seq))
  BY <1>1 DEF settle, TruthAfter, TombsAfter, Ignorant
<1>6. /\ \A i \in 1..seq : truth'[i] = truth[i] /\ tombs'[i] = tombs[i]
      /\ truth'[seq + 1] = TruthAfter(truth[seq], tombs[seq], m)
      /\ tombs'[seq + 1] = TombsAfter(tombs[seq], m, seq)
  <2> HIDE DEF m
  <2> QED
    BY <1>3, <1>5 DEF TypeInv, TypeOK
<1>7. tombs[seq] \in [Keys -> Nat]
  BY <1>3 DEF TypeInv, TypeOK
<1> QED
  BY <1>2, <1>3, <1>4, <1>6, <1>7

LEMMA NextHistoryInv == TypeInv /\ OrderInv /\ HistoryInv /\ [Next]_vars => HistoryInv'
<1> SUFFICES ASSUME TypeInv, OrderInv, HistoryInv, [Next]_vars
             PROVE  HistoryInv'
  OBVIOUS
<1>1. ASSUME NEW c \in Clients, Reflect(c)
      PROVE  HistoryInv'
  <2> DEFINE seq == Len(log) + 1
             m == sent[c][read[c] + 1]
  <2>1. /\ seq \in Nat /\ m \in Mutation /\ m.key \in Keys
        /\ Len(log') = seq
        /\ log'[seq] = m
        /\ \A j \in 1..Len(log) : log'[j] = log[j]
        /\ \A i \in 1..seq : truth'[i] = truth[i] /\ tombs'[i] = tombs[i]
        /\ truth'[seq + 1] = TruthAfter(truth[seq], tombs[seq], m)
        /\ tombs'[seq + 1] = TombsAfter(tombs[seq], m, seq)
        /\ tombs[seq] \in [Keys -> Nat]
    BY <1>1, ReflectHistory
  <2>2. Len(log) \in Nat
    BY Entries
  <2> HIDE DEF m
  <2>3. TruthStep'
    <3> SUFFICES ASSUME NEW i \in 1..seq
                 PROVE  truth'[i + 1] = TruthAfter(truth'[i], tombs'[i], log'[i])
      BY <2>1 DEF TruthStep
    <3>1. CASE i = seq
      <4>1. seq \in 1..seq
        BY <2>1, <2>2
      <4>2. truth'[seq] = truth[seq] /\ tombs'[seq] = tombs[seq]
        BY <2>1, <4>1
      <4> HIDE DEF seq
      <4> QED
        BY <2>1, <3>1, <4>2
    <3>2. CASE i # seq
      <4>1. i \in 1..Len(log) /\ i \in 1..seq /\ i + 1 \in 1..seq
        BY <2>2, <3>2
      <4>2. /\ truth'[i + 1] = truth[i + 1] /\ truth'[i] = truth[i] /\ tombs'[i] = tombs[i]
            /\ log'[i] = log[i]
        BY <2>1, <4>1
      <4> QED
        BY <4>1, <4>2 DEF HistoryInv, TruthStep
    <3> QED
      BY <3>1, <3>2
  <2>4. TombsPast'
    <3> SUFFICES ASSUME NEW i \in 0..seq, NEW k \in Keys, tombs'[i + 1][k] # 0
                 PROVE  /\ tombs'[i + 1][k] \in 1..i
                        /\ log'[tombs'[i + 1][k]].key = k
                        /\ isRemove(log'[tombs'[i + 1][k]])
      BY <2>1 DEF TombsPast
    <3>1. CASE i # seq
      <4>1. i \in 0..Len(log) /\ i + 1 \in 1..seq
        BY <2>2, <3>1
      <4>2. tombs'[i + 1] = tombs[i + 1]
        BY <2>1, <4>1
      <4>3. /\ tombs[i + 1][k] \in 1..i
            /\ log[tombs[i + 1][k]].key = k
            /\ isRemove(log[tombs[i + 1][k]])
        BY <4>1, <4>2 DEF HistoryInv, TombsPast
      <4>4. tombs[i + 1][k] \in 1..Len(log)
        BY <2>2, <4>1, <4>3
      <4> QED
        BY <2>1, <4>2, <4>3, <4>4
    <3>2. CASE i = seq
      <4>1. tombs'[i + 1][k] = TombsAfter(tombs[seq], m, seq)[k]
        BY <2>1, <3>2
      <4>2. CASE tombs'[i + 1][k] = tombs[seq][k]
        <5>1. Len(log) \in 0..Len(log)
          BY <2>2
        <5>2. /\ tombs[seq][k] \in 1..Len(log)
              /\ log[tombs[seq][k]].key = k
              /\ isRemove(log[tombs[seq][k]])
          BY <4>2, <5>1 DEF HistoryInv, TombsPast
        <5>3. tombs[seq][k] \in 1..i
          BY <2>2, <3>2, <5>2
        <5> QED
          BY <2>1, <4>2, <5>2, <5>3
      <4>3. CASE tombs'[i + 1][k] # tombs[seq][k]
        <5>1. k = m.key /\ isRemove(m) /\ tombs'[i + 1][k] = seq
          <6>1. /\ k # m.key => TombsAfter(tombs[seq], m, seq)[k] \in {0, tombs[seq][k]}
                /\ isRemove(m) => TombsAfter(tombs[seq], m, seq)[m.key] \in {0, seq}
                /\ isUpsert(m) =>
                     TombsAfter(tombs[seq], m, seq)[m.key] \in {0, tombs[seq][m.key]}
            BY <2>1, TombsAfterAt DEF isRemove, isUpsert
          <6> HIDE DEF seq
          <6> QED
            BY <4>1, <4>3, <6>1 DEF isRemove, isUpsert
        <5>2. seq \in 1..i
          BY <2>2, <3>2
        <5> QED
          BY <2>1, <5>1, <5>2
      <4> QED
        BY <4>2, <4>3
    <3> QED
      BY <3>1, <3>2
  <2> QED
    BY <2>3, <2>4 DEF HistoryInv
<1>2. CASE UNCHANGED <<log, history>>
  BY <1>2 DEF history, HistoryInv, TruthStep, TombsPast
<1>3. (\E c \in Clients : Reflect(c)) \/ UNCHANGED <<log, history>>
  BY DEF Next, Edit, AckEcho, PeerMutation, TtlLapse, vars
<1> QED
  BY <1>1, <1>2, <1>3

\* What a client's own step along the log leaves of each key, in the history
\* and on its canvas.  `shown' says that the mutation was put on the canvas.
LEMMA ProcessesView ==
  ASSUME TypeInv, OrderInv, VerdictInv, HistoryInv, NEW c \in Clients, Processes(c)
  PROVE  LET m == log[pos[c] + 1]
             k == m.key
             now == truth[pos[c] + 1]
             tomb == tombs[pos[c] + 1]
             shown == IF m.src = c THEN repairs(c, m, pos[c] + 1) ELSE acceptsPeer(c, m, pos[c] + 1)
         IN  /\ truth[pos'[c] + 1] = TruthAfter(now, tomb, m)
             /\ tombs[pos'[c] + 1] = TombsAfter(tomb, m, pos[c] + 1)
             /\ now \in [Keys -> Contents]
             /\ tomb \in [Keys -> Nat]
             /\ supersededByRemove(c, m) <=> Ignorant(tomb, m)
             /\ canvas' = [canvas EXCEPT ![c][k] = IF shown THEN applied(c, m) ELSE @]
<1> DEFINE seq == pos[c] + 1
           m == log[seq]
<1>1. /\ pos[c] < Len(log)
      /\ pos' = [pos EXCEPT ![c] = seq]
      /\ m \in Mutation /\ m.key \in Keys
  BY ProcessesNext
<1>2. pos'[c] = seq
  BY <1>1 DEF TypeInv, TypeOK
<1>3. seq \in 1..Len(log) /\ seq \in Nat /\ seq <= Len(truth) /\ seq <= Len(tombs)
  BY <1>1, Entries DEF TypeInv, Positions
<1>4. truth[seq + 1] = TruthAfter(truth[seq], tombs[seq], m)
  BY <1>3 DEF HistoryInv, TruthStep
<1>5. tombs[seq + 1] = TombsAfter(tombs[seq], m, seq)
  BY <1>3 DEF VerdictInv, TombStep
<1>6. truth[seq] \in [Keys -> Contents] /\ tombs[seq] \in [Keys -> Nat]
  BY <1>3 DEF TypeInv, TypeOK
<1>7. supersededByRemove(c, m) <=> Ignorant(tombs[seq], m)
  BY DEF supersededByRemove, Ignorant, VerdictInv, VerdictAgreement
<1>8. CASE AckEcho(c)
  BY <1>2, <1>4, <1>5, <1>6, <1>7, <1>8 DEF AckEcho
<1>9. CASE PeerMutation(c)
  BY <1>2, <1>4, <1>5, <1>6, <1>7, <1>9 DEF PeerMutation
<1> QED
  BY <1>8, <1>9 DEF Processes

BaseInv == CoreInv /\ HistoryInv

LEMMA InitBaseInv == Init => BaseInv
BY InitCoreInv, InitHistoryInv DEF BaseInv

LEMMA NextBaseInv == BaseInv /\ [Next]_vars => BaseInv'
BY NextCoreInv, NextHistoryInv DEF BaseInv, CoreInv

\* A client's own echo acknowledges its oldest cast of the key, and with the
\* last one the key stops counting as superseded.
LEMMA AckStep ==
  ASSUME BaseInv, BaseInv', NEW c \in Clients, AckEcho(c), NEW k, k = log[pos[c] + 1].key
  PROVE  LET m == log[pos[c] + 1]
         IN  /\ m \in Mutation /\ k \in Keys /\ m.src = c
             /\ m = sent[c][m.nth]
             /\ m.nth \in Unacked(c, k)
             /\ \A i \in Unacked(c, k) : m.nth <= i
             /\ \A d \in Clients : \A j \in Keys :
                  Unacked(d, j)' = IF d = c /\ j = k THEN Unacked(c, j) \ {m.nth}
                                   ELSE Unacked(d, j)
             /\ Unacked(c, k)' = {} => superseded' = [superseded EXCEPT ![c] = @ \ {k}]
             /\ Unacked(c, k)' # {} => superseded' = superseded
<1> DEFINE m == log[pos[c] + 1]
<1> USE DEF BaseInv, CoreInv
<1>1. /\ pos[c] < Len(log) /\ pos' = [pos EXCEPT ![c] = pos[c] + 1]
      /\ UNCHANGED <<sent, log>> /\ m \in Mutation /\ k \in Keys
  BY ProcessesNext DEF Processes
<1>2. m.src = c
  BY DEF AckEcho
<1>3. /\ m = sent[c][m.nth]
      /\ m.nth \in Unacked(c, k)
      /\ \A i \in Unacked(c, k) : m.nth <= i
      /\ \A d \in Clients : \A j \in Keys :
           Unacked(d, j)' = IF d = c /\ j = k THEN Unacked(c, j) \ {m.nth}
                            ELSE Unacked(d, j)
  <2>1. /\ m = sent[c][m.nth]
        /\ m.nth \in Unacked(c, m.key)
        /\ \A i \in Unacked(c, m.key) : m.nth <= i
        /\ \A d \in Clients : \A j \in Keys :
             Unacked(d, j)' = IF d = c /\ j = m.key THEN Unacked(c, j) \ {m.nth}
                              ELSE Unacked(d, j)
    BY <1>1, <1>2, AckedNext
  <2> QED
    BY <2>1
<1>4. Unacked(c, k)' = {} <=> pending[c][k] = 1
  <2>1. Unacked(c, k)' = Unacked(c, k) \ {m.nth}
    BY <1>1, <1>3
  <2>2. IsFiniteSet(Unacked(c, k)) /\ pending[c][k] = Cardinality(Unacked(c, k))
    BY <1>1, UnackedRange DEF PendingIsUnacked
  <2>3. /\ IsFiniteSet(Unacked(c, k) \ {m.nth})
        /\ Cardinality(Unacked(c, k) \ {m.nth}) = Cardinality(Unacked(c, k)) - 1
    BY <1>3, <2>2, FS_RemoveElement
  <2>4. Cardinality(Unacked(c, k)) \in Nat
    BY <2>2, FS_CardinalityType
  <2>5. Unacked(c, k) \ {m.nth} = {} <=> Cardinality(Unacked(c, k) \ {m.nth}) = 0
    BY <2>3, FS_EmptySet
  <2> HIDE DEF m
  <2> QED
    BY <2>1, <2>2, <2>3, <2>4, <2>5
<1>5. superseded' = [superseded EXCEPT ![c] = IF pending[c][k] = 1 THEN @ \ {k} ELSE @]
  BY DEF AckEcho
<1>6. pending[c][k] # 1 => superseded' = superseded
  BY <1>5 DEF TypeInv, TypeOK
<1> QED
  BY <1>1, <1>2, <1>3, <1>4, <1>5, <1>6

\* A peer's mutation leaves the unacknowledged casts alone; an accepted one
\* over an unacknowledged edit marks the key superseded.
LEMMA PeerStep ==
  ASSUME BaseInv, NEW c \in Clients, PeerMutation(c)
  PROVE  LET m == log[pos[c] + 1]
             k == m.key
             accepted == acceptsPeer(c, m, pos[c] + 1)
         IN  /\ m \in Mutation /\ k \in Keys /\ m.src # c
             /\ \A d \in Clients : \A j \in Keys : Unacked(d, j)' = Unacked(d, j)
             /\ accepted /\ Unacked(c, k) # {} =>
                  superseded' = [superseded EXCEPT ![c] = @ \cup {k}]
             /\ ~(accepted /\ Unacked(c, k) # {}) => superseded' = superseded
             /\ isRemove(m) \/ Unacked(c, k) = {} => (accepted <=> ~supersededByRemove(c, m))
             /\ accepted => ~supersededByRemove(c, m)
<1> DEFINE m == log[pos[c] + 1]
           k == m.key
           accepted == acceptsPeer(c, m, pos[c] + 1)
<1> USE DEF BaseInv, CoreInv
<1>1. /\ pos[c] < Len(log) /\ pos' = [pos EXCEPT ![c] = pos[c] + 1]
      /\ UNCHANGED <<sent, log>> /\ m \in Mutation /\ k \in Keys
      /\ pos[c] + 1 > seen[c][k]
  BY ProcessesNext DEF Processes
<1>2. m.src # c
  BY DEF PeerMutation
<1>3. \A d \in Clients : \A j \in Keys : Unacked(d, j)' = Unacked(d, j)
  BY <1>1, <1>2, AckedNext
<1>4. Unacked(c, k) # {} <=> pending[c][k] > 0
  <2>1. IsFiniteSet(Unacked(c, k)) /\ pending[c][k] = Cardinality(Unacked(c, k))
    BY <1>1, UnackedRange DEF PendingIsUnacked
  <2>2. Cardinality(Unacked(c, k)) \in Nat /\ (Cardinality(Unacked(c, k)) = 0 <=> Unacked(c, k) = {})
    BY <2>1, FS_CardinalityType, FS_EmptySet
  <2> HIDE DEF m, k
  <2> QED
    BY <2>1, <2>2
<1>5. superseded' = [superseded EXCEPT ![c] =
                       IF accepted /\ pending[c][k] > 0 THEN @ \cup {k} ELSE @]
  BY DEF PeerMutation
<1>6. ~(accepted /\ pending[c][k] > 0) => superseded' = superseded
  BY <1>5 DEF TypeInv, TypeOK
<1>7. accepted <=> /\ ~supersededByRemove(c, m)
                   /\ isRemove(m) \/ ~suppressing(c, k)
  BY <1>1 DEF acceptsPeer
<1>8. suppressing(c, k) => Unacked(c, k) # {}
  BY <1>4 DEF suppressing
<1> HIDE DEF m, k, accepted
<1>9. /\ accepted /\ Unacked(c, k) # {} => superseded' = [superseded EXCEPT ![c] = @ \cup {k}]
      /\ ~(accepted /\ Unacked(c, k) # {}) => superseded' = superseded
  BY <1>4, <1>5, <1>6
<1>10. /\ isRemove(m) \/ Unacked(c, k) = {} => (accepted <=> ~supersededByRemove(c, m))
       /\ accepted => ~supersededByRemove(c, m)
  BY <1>7, <1>8
<1> QED
  BY <1>1, <1>2, <1>3, <1>9, <1>10 DEF m, k, accepted

(***************************************************************************)
(* The optimistic value.                                                   *)
(***************************************************************************)

\* i is c's latest unacknowledged cast for k.
Latest(c, k, i) == i \in Unacked(c, k) /\ \A j \in Unacked(c, k) : j <= i

ShowsLatest(c, k) ==
  k \notin superseded[c] =>
    \A i \in Unacked(c, k) : Latest(c, k, i) => canvas[c][k] = sent[c][i].val

LEMMA ShowsLatestIsOptimistic ==
  OptimisticValueShown <=> \A c \in Clients : \A k \in Keys : ShowsLatest(c, k)
BY DEF OptimisticValueShown, ShowsLatest, Latest

\* After an edit the latest cast of the key is the one it made.
LEMMA EditLatest ==
  ASSUME TypeInv, OrderInv, NEW c \in Clients, NEW k \in Keys, NEW v \in Contents,
         Edit(c, k, v), NEW i, Latest(c, k, i)'
  PROVE  i = Len(sent[c]) + 1
<1>1. Unacked(c, k)' = Unacked(c, k) \cup {Len(sent[c]) + 1}
  BY EditUnacked
<1>2. Len(sent[c]) \in Nat /\ Unacked(c, k) \subseteq 1..Len(sent[c])
  BY Entries, UnackedRange
<1>3. i \in Unacked(c, k) \cup {Len(sent[c]) + 1} /\ Len(sent[c]) + 1 <= i
  BY <1>1 DEF Latest
<1> QED
  BY <1>2, <1>3

\* Acknowledging the oldest of several casts leaves the latest one as it was.
LEMMA AckLatest ==
  ASSUME BaseInv, BaseInv', NEW c \in Clients, AckEcho(c), NEW k, k = log[pos[c] + 1].key,
         NEW i, Latest(c, k, i)'
  PROVE  Latest(c, k, i) /\ log[pos[c] + 1].nth < i
<1> DEFINE m == log[pos[c] + 1]
<1>1. /\ k \in Keys
      /\ m.nth \in Unacked(c, k)
      /\ \A j \in Unacked(c, k) : m.nth <= j
      /\ Unacked(c, k)' = Unacked(c, k) \ {m.nth}
  <2>1. /\ k \in Keys
        /\ m.nth \in Unacked(c, k)
        /\ \A j \in Unacked(c, k) : m.nth <= j
        /\ \A d \in Clients : \A j \in Keys :
             Unacked(d, j)' = IF d = c /\ j = k THEN Unacked(c, j) \ {m.nth}
                              ELSE Unacked(d, j)
    BY AckStep
  <2> QED
    BY <2>1
<1>3. i \in Unacked(c, k) \ {m.nth} /\ \A j \in Unacked(c, k) \ {m.nth} : j <= i
  BY <1>1 DEF Latest
<1>4. Unacked(c, k) \subseteq Nat
  BY <1>1, UnackedRange DEF BaseInv, CoreInv
<1> HIDE DEF m
<1>5. m.nth < i
  BY <1>1, <1>3, <1>4
<1>6. Latest(c, k, i)
  BY <1>1, <1>3, <1>4, <1>5 DEF Latest
<1> QED
  BY <1>5, <1>6 DEF m

LEMMA NextShowsLatest ==
  ASSUME BaseInv, BaseInv', [Next]_vars,
         \A c \in Clients : \A k \in Keys : ShowsLatest(c, k),
         NEW d \in Clients, NEW j \in Keys
  PROVE  ShowsLatest(d, j)'
<1>0. ShowsLatest(d, j) /\ TypeInv /\ OrderInv /\ VerdictInv /\ HistoryInv
  BY DEF BaseInv, CoreInv
<1>1. ASSUME NEW c \in Clients, NEW k \in Keys, NEW v \in Contents, Edit(c, k, v)
      PROVE  ShowsLatest(d, j)'
  <2>1. /\ canvas' = [canvas EXCEPT ![c][k] = v]
        /\ superseded' = [superseded EXCEPT ![c] = @ \ {k}]
    BY <1>1 DEF Edit, onLocal
  <2>2. CASE d = c /\ j = k
    <3> SUFFICES ASSUME NEW i, Latest(c, k, i)'
                 PROVE  canvas'[c][k] = sent'[c][i].val
      BY <2>2 DEF ShowsLatest
    <3>1. i = Len(sent[c]) + 1
      BY <1>0, <1>1, EditLatest
    <3>2. sent'[c][i].val = v
      <4>1. sent'[c][Len(sent[c]) + 1] = stamp(c, k, v)
        BY <1>0, <1>1, EditUnacked
      <4> QED
        BY <3>1, <4>1 DEF stamp
    <3> QED
      BY <1>0, <2>1, <3>2 DEF TypeInv, TypeOK
  <2>3. CASE ~(d = c /\ j = k)
    <3>1. Unacked(d, j)' = Unacked(d, j) /\ \A i \in 1..Len(sent[d]) : sent'[d][i] = sent[d][i]
      <4>1. /\ \A e \in Clients : \A l \in Keys :
                 Unacked(e, l)' = IF e = c /\ l = k THEN Unacked(c, k) \cup {Len(sent[c]) + 1}
                                  ELSE Unacked(e, l)
            /\ \A e \in Clients : \A i \in 1..Len(sent[e]) : sent'[e][i] = sent[e][i]
        BY <1>0, <1>1, EditUnacked
      <4> QED
        BY <2>3, <4>1
    <3>2. Unacked(d, j) \subseteq 1..Len(sent[d])
      BY <1>0, UnackedRange
    <3>3. canvas'[d][j] = canvas[d][j] /\ (j \in superseded'[d] <=> j \in superseded[d])
      BY <1>0, <2>1, <2>3 DEF TypeInv, TypeOK
    <3> QED
      BY <1>0, <3>1, <3>2, <3>3 DEF ShowsLatest, Latest
  <2> QED
    BY <2>2, <2>3
<1>2. ASSUME NEW c \in Clients, Reflect(c)
      PROVE  ShowsLatest(d, j)'
  <2>1. Unacked(d, j)' = Unacked(d, j)
    BY <1>0, <1>2, ReflectUnacked
  <2>2. UNCHANGED <<canvas, sent, superseded>>
    BY <1>2 DEF Reflect, order
  <2> QED
    BY <1>0, <2>1, <2>2 DEF ShowsLatest, Latest
<1>3. ASSUME NEW c \in Clients, AckEcho(c)
      PROVE  ShowsLatest(d, j)'
  <2>1. PICK k : k = log[pos[c] + 1].key
    OBVIOUS
  <2> DEFINE m == log[pos[c] + 1]
             shown == repairs(c, m, pos[c] + 1)
  <2>2. /\ k \in Keys
        /\ \A e \in Clients : \A l \in Keys :
             Unacked(e, l)' = IF e = c /\ l = k THEN Unacked(c, l) \ {m.nth} ELSE Unacked(e, l)
        /\ Unacked(c, k)' = {} => superseded' = [superseded EXCEPT ![c] = @ \ {k}]
        /\ Unacked(c, k)' # {} => superseded' = superseded
    BY <1>3, <2>1, AckStep
  <2>3. /\ canvas' = [canvas EXCEPT ![c][k] = IF shown THEN applied(c, m) ELSE @]
        /\ UNCHANGED sent
    BY <1>3, <2>1 DEF AckEcho
  <2>4. shown => k \in superseded[c]
    BY <2>1 DEF repairs
  <2> HIDE DEF m, shown
  <2>5. CASE d = c /\ j = k
    <3> SUFFICES ASSUME NEW i, Latest(c, k, i)', k \notin superseded'[c]
                 PROVE  canvas'[c][k] = sent[c][i].val
      BY <2>3, <2>5 DEF ShowsLatest
    <3>1. Latest(c, k, i)
      BY <1>3, <2>1, AckLatest
    <3>2. superseded' = superseded
      BY <2>2 DEF Latest
    <3>3. canvas[c][k] = sent[c][i].val
      BY <1>0, <2>5, <3>1, <3>2 DEF ShowsLatest, Latest
    <3>4. ~shown
      BY <2>4, <3>2
    <3> QED
      BY <1>0, <2>2, <2>3, <3>3, <3>4 DEF TypeInv, TypeOK
  <2>6. CASE ~(d = c /\ j = k)
    <3>1. Unacked(d, j)' = Unacked(d, j)
      BY <2>2, <2>6
    <3>2. canvas'[d][j] = canvas[d][j]
      BY <1>0, <2>2, <2>3, <2>6 DEF TypeInv, TypeOK
    <3>3. j \in superseded'[d] <=> j \in superseded[d]
      BY <1>0, <2>2, <2>6 DEF TypeInv, TypeOK
    <3> QED
      BY <1>0, <2>3, <3>1, <3>2, <3>3 DEF ShowsLatest, Latest
  <2> QED
    BY <2>5, <2>6
<1>4. ASSUME NEW c \in Clients, PeerMutation(c)
      PROVE  ShowsLatest(d, j)'
  <2>0. PICK k : k = log[pos[c] + 1].key
    OBVIOUS
  <2> DEFINE m == log[pos[c] + 1]
             accepted == acceptsPeer(c, m, pos[c] + 1)
  <2>1. /\ m \in Mutation /\ k \in Keys
        /\ Unacked(d, j)' = Unacked(d, j)
        /\ accepted /\ Unacked(c, k) # {} => superseded' = [superseded EXCEPT ![c] = @ \cup {k}]
        /\ ~(accepted /\ Unacked(c, k) # {}) => superseded' = superseded
    BY <1>4, <2>0, PeerStep
  <2>2. /\ canvas' = [canvas EXCEPT ![c][k] = IF accepted THEN applied(c, m) ELSE @]
        /\ UNCHANGED sent
    BY <1>4, <2>0 DEF PeerMutation
  <2> HIDE DEF m, accepted
  <2>3. CASE d = c /\ j = k /\ accepted
    <3>1. Unacked(c, k) # {} => k \in superseded'[c]
      BY <1>0, <2>1, <2>3 DEF TypeInv, TypeOK
    <3> QED
      BY <2>1, <2>3, <3>1 DEF ShowsLatest
  <2>4. CASE ~(d = c /\ j = k /\ accepted)
    <3>1. canvas'[d][j] = canvas[d][j]
      BY <1>0, <2>1, <2>2, <2>4 DEF TypeInv, TypeOK
    <3>2. j \in superseded'[d] <=> j \in superseded[d]
      <4>1. CASE accepted /\ Unacked(c, k) # {}
        <5>1. superseded' = [superseded EXCEPT ![c] = @ \cup {k}]
          BY <2>1, <4>1
        <5>2. ~(d = c /\ j = k)
          BY <2>4, <4>1
        <5> QED
          BY <1>0, <5>1, <5>2 DEF TypeInv, TypeOK
      <4>2. CASE ~(accepted /\ Unacked(c, k) # {})
        BY <2>1, <4>2
      <4> QED
        BY <4>1, <4>2
    <3> QED
      BY <1>0, <2>1, <2>2, <3>1, <3>2 DEF ShowsLatest, Latest
  <2> QED
    BY <2>3, <2>4
<1>5. CASE UNCHANGED <<canvas, sent, log, pos, superseded>>
  BY <1>0, <1>5, IdleUnacked DEF ShowsLatest, Latest
<1> QED
  BY <1>1, <1>2, <1>3, <1>4, <1>5 DEF Next, TtlLapse, vars, order

\* Echoes, acks of older frames and suppressed peer frames never move the
\* canvas back from a client's own latest edit: unless a peer's mutation was
\* applied over it, the client shows that edit until it is acknowledged.
THEOREM OptimisticIsShown == Spec => []OptimisticValueShown
<1>1. Init => OptimisticValueShown
  BY DEF Init, OptimisticValueShown, Unacked
<1>2. BaseInv /\ BaseInv' /\ OptimisticValueShown /\ [Next]_vars => OptimisticValueShown'
  <2> SUFFICES ASSUME BaseInv, BaseInv', OptimisticValueShown, [Next]_vars
               PROVE  OptimisticValueShown'
    OBVIOUS
  <2>1. \A c \in Clients : \A k \in Keys : ShowsLatest(c, k)
    BY ShowsLatestIsOptimistic
  <2>2. \A c \in Clients : \A k \in Keys : ShowsLatest(c, k)'
    BY <2>1, NextShowsLatest
  <2> QED
    BY <2>2 DEF OptimisticValueShown, ShowsLatest, Latest
<1> QED
  BY <1>1, <1>2, InitBaseInv, NextBaseInv, PTL DEF Spec

(***************************************************************************)
(* Convergence.  For a key with nothing unacknowledged the canvas is the   *)
(* one the order settles on (Settled).  That is kept by four facts about   *)
(* the keys in between:                                                    *)
(*   - an unsuperseded key shows its latest cast (ShowsLatest above), and  *)
(*     no remove that cast is ignorant of comes before it (KnowsTomb), so  *)
(*     its echo settles on what is shown already;                          *)
(*   - that holds because an upsert never follows an unacknowledged remove *)
(*     of its own client (RemovesLast), which ~UndoBeforeAck says;         *)
(*   - a superseded key shows what the order settles on, unless a peer's   *)
(*     upsert was suppressed, and then no remove is in force that the      *)
(*     repairing echo could be ignorant of (Overwritten).                  *)
(***************************************************************************)

\* Where c is in the history.
Now(c, k) == truth[pos[c] + 1][k]
Tomb(c, k) == tombs[pos[c] + 1][k]

RemovesLast(c, k) ==
  \A i, l \in Unacked(c, k) : i < l /\ isRemove(sent[c][i]) => isRemove(sent[c][l])

KnowsTomb(c, k) ==
  k \notin superseded[c] =>
    \A i \in Unacked(c, k) :
      Latest(c, k, i) /\ isUpsert(sent[c][i]) => Tomb(c, k) <= sent[c][i].seen

Settled(c, k) == Unacked(c, k) = {} => canvas[c][k] = Now(c, k)

Overwritten(c, k) ==
  k \in superseded[c] => canvas[c][k] = Now(c, k) \/ Tomb(c, k) = 0

\* The clients whose canvas takes every accepted mutation as it is.
Applying == {c \in Clients : c \notin Background \/ EventKeys = {}}

KeyInv(c, k) ==
  /\ RemovesLast(c, k)
  /\ KnowsTomb(c, k)
  /\ c \in Applying => Settled(c, k) /\ Overwritten(c, k)

LEMMA PlaceType ==
  ASSUME TypeInv, NEW c \in Clients, NEW k \in Keys
  PROVE  /\ Now(c, k) \in Contents /\ Tomb(c, k) \in Nat
         /\ pos[c] + 1 \in 1..(Len(log) + 1)
<1>0. pos[c] \in Nat /\ Len(log) \in Nat /\ pos[c] <= Len(log)
  BY Entries
<1>1. pos[c] + 1 \in 1..Len(truth) /\ pos[c] + 1 \in 1..Len(tombs)
  BY <1>0 DEF TypeInv, Positions
<1>2. truth[pos[c] + 1] \in [Keys -> Contents] /\ tombs[pos[c] + 1] \in [Keys -> Nat]
  <2>1. truth \in Seq([Keys -> Contents]) /\ tombs \in Seq([Keys -> Nat])
    BY DEF TypeInv, TypeOK
  <2>2. \A i \in 1..Len(truth) : truth[i] \in [Keys -> Contents]
    BY <2>1
  <2>3. \A i \in 1..Len(tombs) : tombs[i] \in [Keys -> Nat]
    BY <2>1
  <2> QED
    BY <1>1, <2>2, <2>3
<1> QED
  <2>1. Now(c, k) \in Contents /\ Tomb(c, k) \in Nat
    BY <1>2 DEF Now, Tomb
  <2>2. pos[c] + 1 \in 1..(Len(log) + 1)
    BY <1>0
  <2> QED
    BY <2>1, <2>2

\* A step that leaves a key of a client alone, but may evict its tomb.
LEMMA KeyLeftAlone ==
  ASSUME TypeInv, NEW d \in Clients, NEW j \in Keys, KeyInv(d, j),
         Unacked(d, j)' = Unacked(d, j),
         \A i \in 1..Len(sent[d]) : sent'[d][i] = sent[d][i],
         canvas'[d][j] = canvas[d][j],
         j \in superseded'[d] <=> j \in superseded[d],
         Now(d, j)' = Now(d, j),
         Tomb(d, j)' \in {0, Tomb(d, j)}
  PROVE  KeyInv(d, j)'
<1>1. \A i \in Unacked(d, j) : sent'[d][i] = sent[d][i] /\ sent[d][i].seen \in Nat
  BY UnackedRange, Entries
<1>2. Tomb(d, j) \in Nat
  BY PlaceType
<1>3. RemovesLast(d, j)'
  BY <1>1 DEF KeyInv, RemovesLast
<1>4. KnowsTomb(d, j)'
  BY <1>1, <1>2 DEF KeyInv, KnowsTomb, Latest
<1>5. d \in Applying => Settled(d, j)' /\ Overwritten(d, j)'
  BY DEF KeyInv, Settled, Overwritten
<1> QED
  BY <1>3, <1>4, <1>5 DEF KeyInv, Applying

\* A step along the log, key by key.
LEMMA ViewStep ==
  ASSUME BaseInv, NEW c \in Clients, Processes(c), NEW m, m = log[pos[c] + 1],
         NEW k, k = m.key
  PROVE  /\ m \in Mutation /\ k \in Keys /\ pos'[c] = pos[c] + 1
         /\ \A j \in Keys \ {k} : /\ Now(c, j)' = Now(c, j)
                                  /\ Tomb(c, j)' \in {0, Tomb(c, j)}
                                  /\ canvas'[c][j] = canvas[c][j]
         /\ \A d \in Clients \ {c} : \A j \in Keys : /\ Now(d, j)' = Now(d, j)
                                                     /\ Tomb(d, j)' = Tomb(d, j)
                                                     /\ canvas'[d][j] = canvas[d][j]
         /\ supersededByRemove(c, m) => /\ isUpsert(m)
                                        /\ Now(c, k)' = Now(c, k)
                                        /\ Tomb(c, k)' = Tomb(c, k)
                                        /\ Tomb(c, k) # 0
                                        /\ m.seen < Tomb(c, k)
         /\ ~supersededByRemove(c, m) => /\ Now(c, k)' = m.val
                                         /\ isUpsert(m) => Tomb(c, k)' = 0
                                         /\ isUpsert(m) /\ Tomb(c, k) # 0 => Tomb(c, k) <= m.seen
         /\ c \in Applying => applied(c, m) = m.val
<1> USE DEF BaseInv, CoreInv
<1>1. m \in Mutation /\ k \in Keys /\ pos' = [pos EXCEPT ![c] = pos[c] + 1] /\ UNCHANGED history
  BY ProcessesNext
<1>2. pos'[c] = pos[c] + 1 /\ \A d \in Clients \ {c} : pos'[d] = pos[d]
  BY <1>1 DEF TypeInv, TypeOK
<1> DEFINE now == truth[pos[c] + 1]
           tomb == tombs[pos[c] + 1]
           shown == IF m.src = c THEN repairs(c, m, pos[c] + 1) ELSE acceptsPeer(c, m, pos[c] + 1)
<1>3. /\ truth[pos'[c] + 1] = TruthAfter(now, tomb, m)
      /\ tombs[pos'[c] + 1] = TombsAfter(tomb, m, pos[c] + 1)
      /\ now \in [Keys -> Contents]
      /\ tomb \in [Keys -> Nat]
      /\ supersededByRemove(c, m) <=> Ignorant(tomb, m)
      /\ canvas' = [canvas EXCEPT ![c][k] = IF shown THEN applied(c, m) ELSE @]
  BY ProcessesView
<1>4. \A j \in Keys : Now(c, j) = now[j] /\ Tomb(c, j) = tomb[j]
  BY DEF Now, Tomb
<1>5. \A j \in Keys : /\ Now(c, j)' = TruthAfter(now, tomb, m)[j]
                      /\ Tomb(c, j)' = TombsAfter(tomb, m, pos[c] + 1)[j]
  BY <1>1, <1>3 DEF Now, Tomb, history
<1>6. /\ pos[c] + 1 \in Nat
      /\ \A j \in Keys \ {k} : TombsAfter(tomb, m, pos[c] + 1)[j] \in {0, tomb[j]}
      /\ Ignorant(tomb, m) => TombsAfter(tomb, m, pos[c] + 1)[k] = tomb[k]
      /\ isUpsert(m) /\ ~Ignorant(tomb, m) => TombsAfter(tomb, m, pos[c] + 1)[k] = 0
  <2>1. pos[c] + 1 \in Nat
    BY Entries
  <2> HIDE DEF tomb
  <2> QED
    BY <1>1, <1>3, <2>1, TombsAfterAt
<1>7. /\ \A j \in Keys \ {k} : TruthAfter(now, tomb, m)[j] = now[j]
      /\ Ignorant(tomb, m) => TruthAfter(now, tomb, m) = now
      /\ ~Ignorant(tomb, m) => TruthAfter(now, tomb, m)[k] = m.val
  <2> HIDE DEF now, tomb
  <2> QED
    BY <1>1, <1>3 DEF TruthAfter
<1>8. \A j \in Keys \ {k} : canvas'[c][j] = canvas[c][j]
  <2> HIDE DEF shown
  <2> QED
    BY <1>1, <1>3 DEF TypeInv, TypeOK
<1>9. ASSUME NEW d \in Clients \ {c}, NEW j \in Keys
      PROVE  Now(d, j)' = Now(d, j) /\ Tomb(d, j)' = Tomb(d, j) /\ canvas'[d][j] = canvas[d][j]
  <2>1. canvas'[d] = canvas[d]
    <3> HIDE DEF shown
    <3> QED
      BY <1>1, <1>3 DEF TypeInv, TypeOK
  <2> QED
    BY <1>1, <1>2, <2>1 DEF Now, Tomb, history
<1>10. Ignorant(tomb, m) => isUpsert(m) /\ tomb[k] # 0 /\ m.seen < tomb[k]
  BY DEF Ignorant
<1>11. ~Ignorant(tomb, m) /\ isUpsert(m) /\ tomb[k] # 0 => tomb[k] <= m.seen
  <2>1. tomb[k] \in Nat /\ m.seen \in Nat
    BY <1>1, <1>3 DEF Mutation
  <2> QED
    BY <2>1 DEF Ignorant
<1>12. c \in Applying => applied(c, m) = m.val
  BY DEF Applying, applied
<1> HIDE DEF now, tomb, shown
<1> QED
  BY <1>1, <1>2, <1>3, <1>4, <1>5, <1>6, <1>7, <1>8, <1>9, <1>10, <1>11, <1>12

\* An unacknowledged remove is in flight.
LEMMA UnackedRemove ==
  ASSUME TypeInv, OrderInv, NEW c \in Clients, NEW k \in Keys, NEW i \in Unacked(c, k),
         isRemove(sent[c][i])
  PROVE  RemoveInFlight(c, k)
<1>1. i \in 1..Len(sent[c]) /\ sent[c][i].key = k
  BY DEF Unacked
<1>2. CASE i > read[c]
  <2>1. i \in (read[c] + 1)..Len(sent[c])
    BY <1>1, <1>2, Entries
  <2> QED
    BY <1>1, <2>1 DEF RemoveInFlight
<1>3. CASE ~(i > read[c])
  <2>1. i \in 1..read[c]
    BY <1>1, <1>3, Entries
  <2>2. PICK l \in 1..Len(log) : log[l].src = c /\ log[l].nth = i
    BY <2>1 DEF OrderInv, ReadInv
  <2>3. log[l] = sent[c][i]
    BY <2>2 DEF OrderInv, LoggedInv
  <2>4. l \notin 1..pos[c]
    BY <2>2 DEF Unacked
  <2>5. l \in (pos[c] + 1)..Len(log)
    BY <2>4, Entries
  <2> QED
    BY <1>1, <2>2, <2>3, <2>5 DEF RemoveInFlight
<1> QED
  BY <1>2, <1>3

LEMMA EditKeyInv ==
  ASSUME ~UndoBeforeAck, BaseInv, NEW c \in Clients, NEW k \in Keys, NEW v \in Contents,
         Edit(c, k, v), KeyInv(c, k)
  PROVE  KeyInv(c, k)'
<1> USE DEF BaseInv, CoreInv
<1> DEFINE new == Len(sent[c]) + 1
<1>1. /\ v = Absent \/ ~RemoveInFlight(c, k)
      /\ superseded' = [superseded EXCEPT ![c] = @ \ {k}]
      /\ UNCHANGED <<log, pos, history>>
  BY DEF Edit, onLocal
<1>2. /\ Unacked(c, k)' = Unacked(c, k) \cup {new}
      /\ \A i \in 1..Len(sent[c]) : sent'[c][i] = sent[c][i]
      /\ sent'[c][new] = stamp(c, k, v)
  <2>1. /\ \A d \in Clients : \A j \in Keys :
             Unacked(d, j)' = IF d = c /\ j = k THEN Unacked(c, k) \cup {new} ELSE Unacked(d, j)
        /\ \A d \in Clients : \A i \in 1..Len(sent[d]) : sent'[d][i] = sent[d][i]
        /\ sent'[c][new] = stamp(c, k, v)
    BY EditUnacked
  <2> QED
    BY <2>1
<1>3. k \notin superseded'[c]
  BY <1>1 DEF TypeInv, TypeOK
<1>4. Len(sent[c]) \in Nat /\ Unacked(c, k) \subseteq 1..Len(sent[c])
  BY Entries, UnackedRange
<1>5. \A i \in Unacked(c, k) : isRemove(sent[c][i]) => RemoveInFlight(c, k)
  BY UnackedRemove
<1>6. RemovesLast(c, k)'
  <2> SUFFICES ASSUME NEW i \in Unacked(c, k) \cup {new}, NEW l \in Unacked(c, k) \cup {new},
                      i < l, isRemove(sent'[c][i])
               PROVE  isRemove(sent'[c][l])
    BY <1>2 DEF RemovesLast
  <2>1. i \in Unacked(c, k) /\ sent'[c][i] = sent[c][i]
    BY <1>2, <1>4
  <2>2. CASE l = new
    <3>1. v = Absent
      BY <1>1, <1>5, <2>1
    <3> QED
      BY <1>2, <2>2, <3>1 DEF stamp, isRemove
  <2>3. CASE l # new
    BY <1>2, <1>4, <2>1, <2>3 DEF KeyInv, RemovesLast
  <2> QED
    BY <2>2, <2>3
<1>7. KnowsTomb(c, k)'
  <2> SUFFICES ASSUME NEW i \in Unacked(c, k)', Latest(c, k, i)'
               PROVE  Tomb(c, k)' <= sent'[c][i].seen
    BY DEF KnowsTomb
  <2>1. i = new
    BY EditLatest
  <2>2. sent'[c][i].seen = pos[c]
    BY <1>2, <2>1 DEF stamp, OrderInv, AtPos
  <2>3. pos[c] \in 0..Len(log) /\ pos[c] \in Nat
    BY Entries
  <2>4. Tomb(c, k) = 0 \/ Tomb(c, k) \in 1..pos[c]
    BY <2>3 DEF HistoryInv, TombsPast, Tomb
  <2>5. Tomb(c, k)' = Tomb(c, k)
    BY <1>1 DEF Tomb, history
  <2> QED
    BY <2>2, <2>3, <2>4, <2>5
<1>8. Settled(c, k)' /\ Overwritten(c, k)'
  BY <1>2, <1>3 DEF Settled, Overwritten
<1> QED
  BY <1>6, <1>7, <1>8 DEF KeyInv

\* Acknowledging a cast leaves the client's other casts for the key in order,
\* and its latest one informed.
LEMMA AckCasts ==
  ASSUME BaseInv, BaseInv', NEW c \in Clients, AckEcho(c), NEW k, k = log[pos[c] + 1].key,
         RemovesLast(c, k), KnowsTomb(c, k)
  PROVE  RemovesLast(c, k)' /\ KnowsTomb(c, k)'
<1> USE DEF BaseInv, CoreInv
<1>1. PICK m : m = log[pos[c] + 1]
  OBVIOUS
<1>2. /\ m \in Mutation /\ k \in Keys /\ m.src = c
      /\ m = sent[c][m.nth]
      /\ m.nth \in Unacked(c, k)
      /\ \A i \in Unacked(c, k) : m.nth <= i
      /\ Unacked(c, k)' = Unacked(c, k) \ {m.nth}
      /\ Unacked(c, k)' = {} => superseded' = [superseded EXCEPT ![c] = @ \ {k}]
      /\ Unacked(c, k)' # {} => superseded' = superseded
  BY <1>1, AckStep
<1>3. /\ supersededByRemove(c, m) => /\ isUpsert(m)
                                     /\ Now(c, k)' = Now(c, k)
                                     /\ Tomb(c, k)' = Tomb(c, k)
                                     /\ Tomb(c, k) # 0
                                     /\ m.seen < Tomb(c, k)
      /\ ~supersededByRemove(c, m) => /\ Now(c, k)' = m.val
                                      /\ isUpsert(m) => Tomb(c, k)' = 0
      /\ c \in Applying => applied(c, m) = m.val
  BY <1>1, ViewStep DEF Processes
<1>4. UNCHANGED sent
  BY DEF AckEcho
<1>7. RemovesLast(c, k)'
  BY <1>2, <1>4 DEF RemovesLast
<1>8. KnowsTomb(c, k)'
  <2> SUFFICES ASSUME k \notin superseded'[c], NEW i \in Unacked(c, k)', Latest(c, k, i)',
                      isUpsert(sent[c][i])
               PROVE  Tomb(c, k)' <= sent[c][i].seen
    BY <1>4 DEF KnowsTomb
  <2>1. Latest(c, k, i) /\ m.nth < i
    BY <1>1, AckLatest
  <2>2. k \notin superseded[c]
    BY <1>2
  <2>3. Tomb(c, k) <= sent[c][i].seen
    BY <2>1, <2>2 DEF KnowsTomb, Latest
  <2>4. isUpsert(m)
    BY <1>2, <2>1 DEF RemovesLast, Latest, isRemove, isUpsert
  <2>5. Tomb(c, k)' \in {0, Tomb(c, k)}
    BY <1>3, <2>4
  <2>6. i \in 1..Len(sent[c])
    BY <1>2, <2>1, UnackedRange DEF Latest
  <2>7. sent[c][i].seen \in Nat
    BY <2>6, Entries
  <2> QED
    BY <2>3, <2>5, <2>7
<1> QED
  BY <1>7, <1>8

LEMMA AckKeyInv ==
  ASSUME BaseInv, BaseInv', NEW c \in Clients, AckEcho(c), NEW k, k = log[pos[c] + 1].key,
         KeyInv(c, k), ShowsLatest(c, k)
  PROVE  KeyInv(c, k)'
<1> USE DEF BaseInv, CoreInv
<1>1. PICK m : m = log[pos[c] + 1]
  OBVIOUS
<1>2. /\ m \in Mutation /\ k \in Keys /\ m.src = c
      /\ m = sent[c][m.nth]
      /\ m.nth \in Unacked(c, k)
      /\ \A i \in Unacked(c, k) : m.nth <= i
      /\ Unacked(c, k)' = Unacked(c, k) \ {m.nth}
      /\ Unacked(c, k)' = {} => superseded' = [superseded EXCEPT ![c] = @ \ {k}]
      /\ Unacked(c, k)' # {} => superseded' = superseded
  BY <1>1, AckStep
<1>3. /\ supersededByRemove(c, m) => /\ isUpsert(m)
                                     /\ Now(c, k)' = Now(c, k)
                                     /\ Tomb(c, k)' = Tomb(c, k)
                                     /\ Tomb(c, k) # 0
                                     /\ m.seen < Tomb(c, k)
      /\ ~supersededByRemove(c, m) => /\ Now(c, k)' = m.val
                                      /\ isUpsert(m) => Tomb(c, k)' = 0
      /\ c \in Applying => applied(c, m) = m.val
  BY <1>1, ViewStep DEF Processes
<1>4. UNCHANGED sent
  BY DEF AckEcho
<1>5. canvas'[c][k] = IF k \in superseded[c] /\ ~supersededByRemove(c, m) THEN applied(c, m)
                      ELSE canvas[c][k]
  <2>0. PICK shown \in BOOLEAN : shown = repairs(c, m, pos[c] + 1)
    BY DEF repairs
  <2>1. canvas' = [canvas EXCEPT ![c][k] = IF shown THEN applied(c, m) ELSE @]
    BY <1>1, <2>0 DEF AckEcho
  <2>2. pos[c] + 1 > seen[c][k]
    BY <1>1, ProcessesNext DEF Processes
  <2>3. shown <=> k \in superseded[c] /\ ~supersededByRemove(c, m)
    BY <1>1, <1>2, <2>0, <2>2 DEF repairs
  <2>4. canvas'[c][k] = IF shown THEN applied(c, m) ELSE canvas[c][k]
    <3>1. k \in Keys
      BY <1>2
    <3> QED
      BY <2>1, <3>1 DEF TypeInv, TypeOK
  <2> QED
    BY <2>3, <2>4
<1>6. Unacked(c, k) \subseteq Nat
  BY <1>2, UnackedRange
<1>7. RemovesLast(c, k)' /\ KnowsTomb(c, k)'
  BY AckCasts DEF KeyInv
<1>9. ASSUME c \in Applying, Unacked(c, k)' = {}
      PROVE  canvas'[c][k] = Now(c, k)'
  <2>1. CASE k \in superseded[c]
    <3>1. CASE supersededByRemove(c, m)
      BY <1>3, <1>5, <1>9, <3>1, <2>1 DEF KeyInv, Overwritten
    <3>2. CASE ~supersededByRemove(c, m)
      BY <1>3, <1>5, <1>9, <3>2, <2>1
    <3> QED
      BY <3>1, <3>2
  <2>2. CASE k \notin superseded[c]
    <3>1. Unacked(c, k) = {m.nth}
      BY <1>2, <1>9
    <3>2. Latest(c, k, m.nth)
      BY <1>2, <1>6, <3>1 DEF Latest
    <3>3. canvas[c][k] = m.val
      BY <1>2, <2>2, <3>2 DEF ShowsLatest
    <3>4. ~supersededByRemove(c, m)
      <4>1. isUpsert(m) => Tomb(c, k) <= m.seen
        BY <1>2, <2>2, <3>2 DEF KeyInv, KnowsTomb
      <4>2. Tomb(c, k) \in Nat /\ m.seen \in Nat
        BY <1>2, PlaceType DEF Mutation
      <4> QED
        BY <1>3, <4>1, <4>2
    <3> QED
      BY <1>3, <1>5, <2>2, <3>3, <3>4
  <2> QED
    BY <2>1, <2>2
<1>10. ASSUME c \in Applying, k \in superseded'[c]
       PROVE  canvas'[c][k] = Now(c, k)' \/ Tomb(c, k)' = 0
  <2>1. k \in superseded[c]
    <3>1. superseded' = superseded \/ superseded' = [superseded EXCEPT ![c] = @ \ {k}]
      BY <1>2
    <3> QED
      BY <1>10, <3>1 DEF TypeInv, TypeOK
  <2>2. CASE supersededByRemove(c, m)
    BY <1>3, <1>5, <1>10, <2>1, <2>2 DEF KeyInv, Overwritten
  <2>3. CASE ~supersededByRemove(c, m)
    BY <1>3, <1>5, <1>10, <2>1, <2>3
  <2> QED
    BY <2>2, <2>3
<1> QED
  BY <1>7, <1>9, <1>10 DEF KeyInv, Settled, Overwritten, Applying

\* A peer's mutation leaves a client's casts for the key in order, and the
\* latest of a key it did not overwrite informed.
LEMMA PeerCasts ==
  ASSUME BaseInv, NEW c \in Clients, PeerMutation(c), NEW k, k = log[pos[c] + 1].key,
         RemovesLast(c, k), KnowsTomb(c, k)
  PROVE  RemovesLast(c, k)' /\ KnowsTomb(c, k)'
<1> USE DEF BaseInv, CoreInv
<1>1. PICK m : m = log[pos[c] + 1]
  OBVIOUS
<1>2. PICK accepted \in BOOLEAN : accepted = acceptsPeer(c, m, pos[c] + 1)
  BY DEF acceptsPeer
<1>3. /\ m \in Mutation /\ k \in Keys /\ m.src # c
      /\ Unacked(c, k)' = Unacked(c, k)
      /\ accepted /\ Unacked(c, k) # {} => superseded' = [superseded EXCEPT ![c] = @ \cup {k}]
      /\ ~(accepted /\ Unacked(c, k) # {}) => superseded' = superseded
      /\ isRemove(m) \/ Unacked(c, k) = {} => (accepted <=> ~supersededByRemove(c, m))
      /\ accepted => ~supersededByRemove(c, m)
  <2>1. /\ m \in Mutation /\ k \in Keys /\ m.src # c
        /\ \A d \in Clients : \A j \in Keys : Unacked(d, j)' = Unacked(d, j)
        /\ accepted /\ Unacked(c, k) # {} => superseded' = [superseded EXCEPT ![c] = @ \cup {k}]
        /\ ~(accepted /\ Unacked(c, k) # {}) => superseded' = superseded
        /\ isRemove(m) \/ Unacked(c, k) = {} => (accepted <=> ~supersededByRemove(c, m))
        /\ accepted => ~supersededByRemove(c, m)
    BY <1>1, <1>2, PeerStep
  <2> QED
    BY <2>1
<1>4. /\ supersededByRemove(c, m) => /\ isUpsert(m)
                                     /\ Now(c, k)' = Now(c, k)
                                     /\ Tomb(c, k)' = Tomb(c, k)
      /\ ~supersededByRemove(c, m) => /\ Now(c, k)' = m.val
                                      /\ isUpsert(m) => Tomb(c, k)' = 0
      /\ c \in Applying => applied(c, m) = m.val
  BY <1>1, ViewStep DEF Processes
<1>5. UNCHANGED sent
  BY DEF PeerMutation
<1>7. k \in superseded'[c] <=> k \in superseded[c] \/ (accepted /\ Unacked(c, k) # {})
  BY <1>3 DEF TypeInv, TypeOK
<1>8. RemovesLast(c, k)'
  BY <1>3, <1>5 DEF RemovesLast
<1>9. KnowsTomb(c, k)'
  <2> SUFFICES ASSUME k \notin superseded'[c], NEW i \in Unacked(c, k), Latest(c, k, i),
                      isUpsert(sent[c][i])
               PROVE  Tomb(c, k)' <= sent[c][i].seen
    BY <1>3, <1>5 DEF KnowsTomb, Latest
  <2>1. k \notin superseded[c] /\ ~accepted
    BY <1>7
  <2>2. isUpsert(m)
    BY <1>3, <1>4, <2>1 DEF isRemove, isUpsert
  <2>3. Tomb(c, k)' \in {0, Tomb(c, k)}
    BY <1>4, <2>2
  <2>4. Tomb(c, k) <= sent[c][i].seen
    BY <2>1 DEF KnowsTomb
  <2>5. sent[c][i].seen \in Nat
    BY <1>3, UnackedRange, Entries
  <2> QED
    BY <2>3, <2>4, <2>5
<1> QED
  BY <1>8, <1>9

LEMMA PeerKeyInv ==
  ASSUME BaseInv, NEW c \in Clients, PeerMutation(c), NEW k, k = log[pos[c] + 1].key,
         KeyInv(c, k)
  PROVE  KeyInv(c, k)'
<1> USE DEF BaseInv, CoreInv
<1>1. PICK m : m = log[pos[c] + 1]
  OBVIOUS
<1>2. PICK accepted \in BOOLEAN : accepted = acceptsPeer(c, m, pos[c] + 1)
  BY DEF acceptsPeer
<1>3. /\ m \in Mutation /\ k \in Keys /\ m.src # c
      /\ Unacked(c, k)' = Unacked(c, k)
      /\ accepted /\ Unacked(c, k) # {} => superseded' = [superseded EXCEPT ![c] = @ \cup {k}]
      /\ ~(accepted /\ Unacked(c, k) # {}) => superseded' = superseded
      /\ isRemove(m) \/ Unacked(c, k) = {} => (accepted <=> ~supersededByRemove(c, m))
      /\ accepted => ~supersededByRemove(c, m)
  <2>1. /\ m \in Mutation /\ k \in Keys /\ m.src # c
        /\ \A d \in Clients : \A j \in Keys : Unacked(d, j)' = Unacked(d, j)
        /\ accepted /\ Unacked(c, k) # {} => superseded' = [superseded EXCEPT ![c] = @ \cup {k}]
        /\ ~(accepted /\ Unacked(c, k) # {}) => superseded' = superseded
        /\ isRemove(m) \/ Unacked(c, k) = {} => (accepted <=> ~supersededByRemove(c, m))
        /\ accepted => ~supersededByRemove(c, m)
    BY <1>1, <1>2, PeerStep
  <2> QED
    BY <2>1
<1>4. /\ supersededByRemove(c, m) => /\ isUpsert(m)
                                     /\ Now(c, k)' = Now(c, k)
                                     /\ Tomb(c, k)' = Tomb(c, k)
      /\ ~supersededByRemove(c, m) => /\ Now(c, k)' = m.val
                                      /\ isUpsert(m) => Tomb(c, k)' = 0
      /\ c \in Applying => applied(c, m) = m.val
  BY <1>1, ViewStep DEF Processes
<1>5. UNCHANGED sent
  BY DEF PeerMutation
<1>6. canvas'[c][k] = IF accepted THEN applied(c, m) ELSE canvas[c][k]
  <2>1. canvas' = [canvas EXCEPT ![c][k] = IF accepted THEN applied(c, m) ELSE @]
    BY <1>1, <1>2 DEF PeerMutation
  <2> QED
    BY <1>3, <2>1 DEF TypeInv, TypeOK
<1>7. k \in superseded'[c] <=> k \in superseded[c] \/ (accepted /\ Unacked(c, k) # {})
  BY <1>3 DEF TypeInv, TypeOK
<1>8. RemovesLast(c, k)' /\ KnowsTomb(c, k)'
  BY PeerCasts DEF KeyInv
<1>10. ASSUME c \in Applying, Unacked(c, k) = {}
       PROVE  canvas'[c][k] = Now(c, k)'
  BY <1>3, <1>4, <1>6, <1>10 DEF KeyInv, Settled
<1>11. ASSUME c \in Applying, k \in superseded'[c]
       PROVE  canvas'[c][k] = Now(c, k)' \/ Tomb(c, k)' = 0
  <2>1. CASE accepted
    BY <1>3, <1>4, <1>6, <1>11, <2>1
  <2>2. CASE ~accepted /\ supersededByRemove(c, m)
    BY <1>4, <1>6, <1>7, <1>11, <2>2 DEF KeyInv, Overwritten
  <2>3. CASE ~accepted /\ ~supersededByRemove(c, m)
    BY <1>3, <1>4, <2>3 DEF isRemove, isUpsert
  <2> QED
    BY <2>1, <2>2, <2>3
<1> QED
  BY <1>3, <1>8, <1>10, <1>11 DEF KeyInv, Settled, Overwritten, Applying

\* A step along the log leaves the casts of every other key, and whether it is
\* superseded, alone.
LEMMA ProcessesElsewhere ==
  ASSUME BaseInv, BaseInv', NEW c \in Clients, Processes(c), NEW m, m = log[pos[c] + 1],
         NEW k, k = m.key, NEW d \in Clients, NEW j \in Keys, ~(d = c /\ j = k)
  PROVE  /\ Unacked(d, j)' = Unacked(d, j)
         /\ j \in superseded'[d] <=> j \in superseded[d]
<1>1. Unacked(d, j)' = Unacked(d, j)
  <2>1. CASE AckEcho(c)
    <3>1. \A e \in Clients : \A l \in Keys :
            Unacked(e, l)' = IF e = c /\ l = k THEN Unacked(c, l) \ {m.nth}
                             ELSE Unacked(e, l)
      BY <2>1, AckStep
    <3> QED
      BY <3>1
  <2>2. CASE PeerMutation(c)
    BY <2>2, PeerStep
  <2> QED
    BY <2>1, <2>2 DEF Processes
<1>2. \/ superseded' = superseded
      \/ superseded' = [superseded EXCEPT ![c] = @ \ {k}]
      \/ superseded' = [superseded EXCEPT ![c] = @ \cup {k}]
  <2>1. CASE AckEcho(c)
    BY <2>1, AckStep
  <2>2. CASE PeerMutation(c)
    BY <2>2, PeerStep
  <2> QED
    BY <2>1, <2>2 DEF Processes
<1>3. j \in superseded'[d] <=> j \in superseded[d]
  <2>1. superseded \in [Clients -> SUBSET Keys]
    BY DEF BaseInv, CoreInv, TypeInv, TypeOK
  <2> QED
    BY <1>2, <2>1
<1> QED
  BY <1>1, <1>3

LEMMA NextKeyInv ==
  ASSUME ~UndoBeforeAck, BaseInv, BaseInv', [Next]_vars,
         \A c \in Clients : \A k \in Keys : KeyInv(c, k) /\ ShowsLatest(c, k),
         NEW d \in Clients, NEW j \in Keys
  PROVE  KeyInv(d, j)'
<1>0. /\ KeyInv(d, j) /\ TypeInv /\ OrderInv /\ VerdictInv /\ HistoryInv
      /\ Tomb(d, j) \in Nat
  BY PlaceType DEF BaseInv, CoreInv
<1>1. ASSUME NEW c \in Clients, NEW k \in Keys, NEW v \in Contents, Edit(c, k, v)
      PROVE  KeyInv(d, j)'
  <2>1. CASE d = c /\ j = k
    BY <1>0, <1>1, <2>1, EditKeyInv
  <2>2. CASE ~(d = c /\ j = k)
    <3>1. /\ canvas' = [canvas EXCEPT ![c][k] = v]
          /\ superseded' = [superseded EXCEPT ![c] = @ \ {k}]
          /\ UNCHANGED <<pos, history>>
      BY <1>1 DEF Edit, onLocal
    <3>2. Unacked(d, j)' = Unacked(d, j) /\ \A i \in 1..Len(sent[d]) : sent'[d][i] = sent[d][i]
      <4>1. /\ \A e \in Clients : \A l \in Keys :
                 Unacked(e, l)' = IF e = c /\ l = k THEN Unacked(c, k) \cup {Len(sent[c]) + 1}
                                  ELSE Unacked(e, l)
            /\ \A e \in Clients : \A i \in 1..Len(sent[e]) : sent'[e][i] = sent[e][i]
        BY <1>0, <1>1, EditUnacked
      <4> QED
        BY <2>2, <4>1
    <3>3. canvas'[d][j] = canvas[d][j] /\ (j \in superseded'[d] <=> j \in superseded[d])
      BY <1>0, <2>2, <3>1 DEF TypeInv, TypeOK
    <3>4. Now(d, j)' = Now(d, j) /\ Tomb(d, j)' = Tomb(d, j)
      BY <3>1 DEF Now, Tomb, history
    <3> QED
      BY <1>0, <3>2, <3>3, <3>4, KeyLeftAlone
  <2> QED
    BY <2>1, <2>2
<1>2. ASSUME NEW c \in Clients, Reflect(c)
      PROVE  KeyInv(d, j)'
  <2>1. Unacked(d, j)' = Unacked(d, j)
    BY <1>0, <1>2, ReflectUnacked
  <2>2. UNCHANGED <<canvas, sent, superseded, pos>>
    BY <1>2 DEF Reflect, order
  <2>3. \A i \in 1..(Len(log) + 1) : truth'[i] = truth[i] /\ tombs'[i] = tombs[i]
    BY <1>0, <1>2, ReflectHistory
  <2>4. Now(d, j)' = Now(d, j) /\ Tomb(d, j)' = Tomb(d, j)
    BY <1>0, <2>2, <2>3, PlaceType DEF Now, Tomb
  <2> QED
    BY <1>0, <2>1, <2>2, <2>4, KeyLeftAlone
<1>3. ASSUME NEW c \in Clients, Processes(c)
      PROVE  KeyInv(d, j)'
  <2>1. PICK m : m = log[pos[c] + 1]
    OBVIOUS
  <2>2. PICK k : k = m.key
    OBVIOUS
  <2>3. CASE d = c /\ j = k
    BY <1>0, <1>3, <2>1, <2>2, <2>3, AckKeyInv, PeerKeyInv DEF Processes
  <2>4. CASE ~(d = c /\ j = k)
    <3>1. /\ k \in Keys
          /\ Now(d, j)' = Now(d, j)
          /\ Tomb(d, j)' \in {0, Tomb(d, j)}
          /\ canvas'[d][j] = canvas[d][j]
      BY <1>3, <2>1, <2>2, <2>4, ViewStep
    <3>2. UNCHANGED sent
      BY <1>3 DEF Processes, AckEcho, PeerMutation
    <3>3. Unacked(d, j)' = Unacked(d, j) /\ (j \in superseded'[d] <=> j \in superseded[d])
      BY <1>3, <2>1, <2>2, <2>4, ProcessesElsewhere
    <3> QED
      BY <1>0, <3>1, <3>2, <3>3, KeyLeftAlone
  <2> QED
    BY <2>3, <2>4
<1>4. CASE UNCHANGED <<canvas, sent, log, pos, superseded, history>>
  <2>1. Unacked(d, j)' = Unacked(d, j)
    BY <1>4, IdleUnacked
  <2>2. Now(d, j)' = Now(d, j) /\ Tomb(d, j)' = Tomb(d, j)
    BY <1>4 DEF Now, Tomb, history
  <2> QED
    BY <1>0, <1>4, <2>1, <2>2, KeyLeftAlone
<1> QED
  BY <1>1, <1>2, <1>3, <1>4 DEF Next, TtlLapse, vars, order, Processes

ConvergeInv ==
  /\ BaseInv
  /\ OptimisticValueShown
  /\ \A c \in Clients : \A k \in Keys : KeyInv(c, k)

LEMMA InitConvergeInv == Init => ConvergeInv
<1> SUFFICES ASSUME Init
             PROVE  ConvergeInv
  OBVIOUS
<1>1. BaseInv
  BY InitBaseInv
<1>2. \A c \in Clients : \A k \in Keys : Unacked(c, k) = {}
  BY DEF Init, Unacked
<1>3. OptimisticValueShown
  BY <1>2 DEF OptimisticValueShown
<1>4. ASSUME NEW c \in Clients, NEW k \in Keys
      PROVE  KeyInv(c, k)
  <2>1. canvas[c][k] = Now(c, k) /\ superseded[c] = {}
    BY DEF Init, Now
  <2> QED
    BY <1>2, <2>1 DEF KeyInv, RemovesLast, KnowsTomb, Settled, Overwritten
<1> QED
  BY <1>1, <1>3, <1>4 DEF ConvergeInv

LEMMA NextConvergeInv ==
  ASSUME ~UndoBeforeAck, ConvergeInv, [Next]_vars
  PROVE  ConvergeInv'
<1>1. BaseInv /\ BaseInv'
  BY NextBaseInv DEF ConvergeInv
<1>2. \A c \in Clients : \A k \in Keys : KeyInv(c, k) /\ ShowsLatest(c, k)
  BY ShowsLatestIsOptimistic DEF ConvergeInv
<1>3. \A c \in Clients : \A k \in Keys : ShowsLatest(c, k)'
  BY <1>1, <1>2, NextShowsLatest
<1>4. OptimisticValueShown'
  BY <1>3 DEF OptimisticValueShown, ShowsLatest, Latest
<1>5. \A c \in Clients : \A k \in Keys : KeyInv(c, k)'
  BY <1>1, <1>2, NextKeyInv
<1> QED
  BY <1>1, <1>4, <1>5 DEF ConvergeInv

\* Nothing is unacknowledged once every link is drained.
LEMMA QuiescentUnacked ==
  ASSUME BaseInv, Quiescent, NEW c \in Clients, NEW k \in Keys
  PROVE  Unacked(c, k) = {}
<1> SUFFICES ASSUME NEW i \in Unacked(c, k)
             PROVE  FALSE
  OBVIOUS
<1>1. i \in 1..read[c]
  BY UnackedRange DEF Quiescent, BaseInv, CoreInv
<1>2. PICK j \in 1..Len(log) : log[j].src = c /\ log[j].nth = i
  BY <1>1 DEF BaseInv, CoreInv, OrderInv, ReadInv
<1> QED
  BY <1>2 DEF Unacked, Quiescent

\* Every client that applies what it accepts ends on the order's canvas: one
\* that shows the project always does, one in the background when no node
\* carries a creation event.
ApplyingConverge == Quiescent => \A c \in Applying : canvas[c] = truth[Len(log) + 1]

LEMMA ConvergeInvApplying == ConvergeInv => ApplyingConverge
<1> SUFFICES ASSUME ConvergeInv, Quiescent, NEW c \in Applying
             PROVE  canvas[c] = truth[Len(log) + 1]
  BY DEF ApplyingConverge
<1>1. c \in Clients /\ BaseInv /\ TypeInv
  BY DEF Applying, ConvergeInv, BaseInv, CoreInv
<1>2. pos[c] = Len(log)
  BY <1>1 DEF Quiescent
<1>3. ASSUME NEW k \in Keys
      PROVE  canvas[c][k] = truth[Len(log) + 1][k]
  <2>1. Unacked(c, k) = {}
    BY <1>1, QuiescentUnacked
  <2> QED
    BY <1>1, <1>2, <2>1 DEF ConvergeInv, KeyInv, Settled, Now
<1>4. canvas[c] \in [Keys -> Contents]
  BY <1>1 DEF TypeInv, TypeOK
<1>5. truth[Len(log) + 1] \in [Keys -> Contents]
  BY <1>1, Entries DEF TypeInv, TypeOK, Positions
<1> QED
  BY <1>3, <1>4, <1>5

\* Once every cast is reflected and every echo delivered, all clients that
\* apply what they accept show the canvas of the total order, as long as no
\* client brings a key back before its own remove of it is acknowledged.
THEOREM ApplyingClientsConverge == ~UndoBeforeAck => (Spec => []ApplyingConverge)
<1> SUFFICES ASSUME ~UndoBeforeAck
             PROVE  Spec => []ApplyingConverge
  OBVIOUS
<1>1. ConvergeInv /\ [Next]_vars => ConvergeInv'
  BY NextConvergeInv
<1> QED
  BY <1>1, InitConvergeInv, ConvergeInvApplying, PTL DEF Spec

\* Without background clients, or without creation events, that is everyone:
\* every client shows, and would save, the canvas the total order settles on,
\* whatever was suppressed, lapsed, overwritten or repaired on the way.
THEOREM ClientsConverge ==
  ~UndoBeforeAck /\ (Background = {} \/ EventKeys = {}) => (Spec => []Convergence)
<1> SUFFICES ASSUME ~UndoBeforeAck, Background = {} \/ EventKeys = {}
             PROVE  Spec => []Convergence
  OBVIOUS
<1>1. ApplyingConverge => Convergence
  BY DEF ApplyingConverge, Convergence, Applying
<1>2. Spec => []ApplyingConverge
  BY ApplyingClientsConverge
<1> QED
  BY <1>1, <1>2, PTL

(***************************************************************************)
(* No resurrection.  A remove that nothing later undid, with fewer than    *)
(* RemovedMax other keys removed since, is still in the record             *)
(* (KilledHeld): each later remove of another key can push it out only     *)
(* when the record holds RemovedMax younger ones, and those are of keys    *)
(* removed since.                                                          *)
(***************************************************************************)

\* The other keys removed after the remove at r, up to i.
RemovedSince(l, r, i) ==
  {l[j].key : j \in {x \in (r + 1)..i : isRemove(l[x])}} \ {l[r].key}

\* The remove at r still forbids, after i mutations, to bring its key back.
Killed(l, r, i) ==
  /\ isRemove(l[r])
  /\ Cardinality(RemovedSince(l, r, i)) < RemovedMax
  /\ \A j \in (r + 1)..i : l[j].key = l[r].key => isRemove(l[j]) \/ l[j].seen < r

KilledHeld ==
  \A i \in 0..Len(log) : \A r \in 1..i : Killed(log, r, i) => tombs[i + 1][log[r].key] >= r

LEMMA RemovedSinceFinite ==
  ASSUME NEW l, NEW r \in Nat, NEW i \in Nat
  PROVE  /\ IsFiniteSet(RemovedSince(l, r, i))
         /\ Cardinality(RemovedSince(l, r, i)) \in Nat
<1> DEFINE S == {x \in (r + 1)..i : isRemove(l[x])}
           T == {l[j].key : j \in S}
           f == [x \in S |-> l[x].key]
<1>1. IsFiniteSet((r + 1)..i)
  BY FS_Interval
<1>2. IsFiniteSet(S)
  BY <1>1, FS_Subset
<1>3. f \in Surjection(S, T)
  BY DEF Surjection
<1>4. IsFiniteSet(T)
  <2> HIDE DEF S, T, f
  <2> QED
    BY <1>2, <1>3, FS_Surjection
<1>5. RemovedSince(l, r, i) \subseteq T
  BY DEF RemovedSince
<1> HIDE DEF T
<1> QED
  BY <1>4, <1>5, FS_Subset, FS_CardinalityType

\* A remove that is in force after a mutation was in force before it.
LEMMA KilledShorter ==
  ASSUME NEW l, NEW r \in Nat, NEW i \in Nat, Killed(l, r, i + 1)
  PROVE  Killed(l, r, i)
<1>1. (r + 1)..i \subseteq (r + 1)..(i + 1)
  OBVIOUS
<1>2. RemovedSince(l, r, i) \subseteq RemovedSince(l, r, i + 1)
  BY <1>1 DEF RemovedSince
<1>3. /\ IsFiniteSet(RemovedSince(l, r, i + 1))
      /\ Cardinality(RemovedSince(l, r, i + 1)) \in Nat
      /\ Cardinality(RemovedSince(l, r, i)) \in Nat
  BY RemovedSinceFinite
<1>4. Cardinality(RemovedSince(l, r, i)) <= Cardinality(RemovedSince(l, r, i + 1))
  BY <1>2, <1>3, FS_Subset
<1>5. Cardinality(RemovedSince(l, r, i)) < RemovedMax
  BY <1>3, <1>4, CanvasConstants DEF Killed
<1> QED
  BY <1>1, <1>5 DEF Killed

\* Only the mutations up to i matter.
LEMMA KilledSame ==
  ASSUME NEW l, NEW h, NEW n \in Nat, \A j \in 1..n : l[j] = h[j],
         NEW i \in 0..n, NEW r \in 1..i
  PROVE  Killed(l, r, i) <=> Killed(h, r, i)
<1>1. l[r] = h[r] /\ \A j \in (r + 1)..i : l[j] = h[j]
  OBVIOUS
<1>2. RemovedSince(l, r, i) = RemovedSince(h, r, i)
  BY <1>1 DEF RemovedSince
<1> QED
  BY <1>1, <1>2 DEF Killed

\* The keys a record of removes holds.
Held(entries) == {k \in Keys : entries[k] # 0}

LEMMA SmallestOf ==
  ASSUME NEW S \in SUBSET Nat, S # {}
  PROVE  \E m \in S : \A n \in S : m <= n
<1> DEFINE less == OpToRel(<, Nat)
<1>1. \A m, n \in Nat : n < m => <<n, m>> \in less
  BY DEF OpToRel
<1>2. \E m \in S : \A n \in S : ~(<<n, m>> \in less)
  BY NatLessThanWellFounded, WFMin
<1> HIDE DEF less
<1>3. PICK m \in S : \A n \in S : ~(<<n, m>> \in less)
  BY <1>2
<1>4. ASSUME NEW n \in S
      PROVE  m <= n
  <2>1. m \in Nat /\ n \in Nat /\ ~(n < m)
    BY <1>1, <1>3
  <2> QED
    BY <2>1
<1> QED
  BY <1>3, <1>4

\* What the record lets go of is its oldest entry, and only past the cap.
LEMMA EvictsOldest ==
  ASSUME NEW entries \in [Keys -> Nat], NEW k \in Keys, NEW seq \in Nat, NEW j \in Keys,
         NEW marked, marked = [entries EXCEPT ![k] = seq],
         noteRemoved(entries, k, seq)[j] # marked[j]
  PROVE  /\ Cardinality(Held(marked)) > RemovedMax
         /\ \A i \in Keys : marked[i] # 0 => marked[j] <= marked[i]
<1> DEFINE held == {i \in Keys : marked[i] # 0}
           Oldest(i) == i \in held /\ \A x \in held : marked[i] <= marked[x]
           oldest == CHOOSE i \in held : \A x \in held : marked[i] <= marked[x]
<1>0. held = Held(marked)
  BY DEF Held
<1>1. marked \in [Keys -> Nat] /\ held \subseteq Keys
  OBVIOUS
<1>2. noteRemoved(entries, k, seq) =
        IF Cardinality(held) > RemovedMax THEN [marked EXCEPT ![oldest] = 0] ELSE marked
  BY DEF noteRemoved
<1>3. Cardinality(held) > RemovedMax /\ noteRemoved(entries, k, seq) = [marked EXCEPT ![oldest] = 0]
  <2> HIDE DEF held, oldest
  <2> QED
    BY <1>2
<1>4. j = oldest /\ marked[j] # 0
  <2> HIDE DEF held, oldest
  <2> QED
    BY <1>1, <1>3
<1>5. \E i : Oldest(i)
  <2> DEFINE S == {marked[x] : x \in held}
  <2>1. S \in SUBSET Nat /\ S # {}
    BY <1>1, <1>4
  <2>2. PICK m \in S : \A n \in S : m <= n
    <3> HIDE DEF S
    <3> QED
      BY <2>1, SmallestOf
  <2>5. PICK i \in held : marked[i] = m
    BY <2>2
  <2>6. \A x \in held : marked[x] \in S
    OBVIOUS
  <2> HIDE DEF held, S
  <2>8. \A x \in held : marked[i] <= marked[x]
    BY <2>2, <2>5, <2>6
  <2> QED
    BY <2>5, <2>8
<1>6. Oldest(oldest)
  <2>1. PICK i : i \in held /\ \A x \in held : marked[i] <= marked[x]
    BY <1>5
  <2> HIDE DEF held
  <2> QED
    BY <2>1
<1> QED
  BY <1>0, <1>3, <1>4, <1>6

LEMMA NextKilledHeld ==
  ASSUME BaseInv, BaseInv', KilledHeld, [Next]_vars
  PROVE  KilledHeld'
<1> USE DEF BaseInv, CoreInv
<1>1. ASSUME NEW c \in Clients, Reflect(c)
      PROVE  KilledHeld'
  <2>1. PICK seq : seq = Len(log) + 1
    OBVIOUS
  <2>2. PICK m : m = sent[c][read[c] + 1]
    OBVIOUS
  <2>3. /\ seq \in Nat /\ m \in Mutation /\ m.key \in Keys
        /\ Len(log') = seq
        /\ log'[seq] = m
        /\ \A j \in 1..Len(log) : log'[j] = log[j]
        /\ \A i \in 1..seq : tombs'[i] = tombs[i]
        /\ tombs'[seq + 1] = TombsAfter(tombs[seq], m, seq)
        /\ tombs[seq] \in [Keys -> Nat]
    BY <1>1, <2>1, <2>2, ReflectHistory
  <2>4. Len(log) \in Nat /\ seq \in 1..seq /\ seq >= 1
    BY <2>1, Entries
  <2> SUFFICES ASSUME NEW i \in 0..seq, NEW r \in 1..i, Killed(log', r, i)
               PROVE  tombs'[i + 1][log'[r].key] >= r
    BY <2>3 DEF KilledHeld
  <2>5. CASE i # seq
    <3>1. i \in 0..Len(log) /\ i + 1 \in 1..seq /\ r \in 1..Len(log)
      BY <2>1, <2>4, <2>5
    <3>2. Killed(log, r, i)
      BY <2>3, <2>4, <3>1, KilledSame
    <3> QED
      BY <2>3, <3>1, <3>2 DEF KilledHeld
  <2>6. CASE i = seq
    <3>1. PICK k : k = log'[r].key
      OBVIOUS
    <3>2. r \in 1..seq /\ k \in Keys
      <4>1. r \in 1..Len(log')
        BY <2>3, <2>6
      <4>2. log' \in Seq(Mutation)
        BY DEF TypeInv, TypeOK
      <4>3. log'[r] \in Mutation
        BY <4>1, <4>2
      <4> QED
        BY <2>6, <3>1, <4>3 DEF Mutation
    \* An older remove was in force, and in the record, before m.
    <3>3. r # seq => tombs[seq][k] >= r
      <4> SUFFICES ASSUME r # seq
                   PROVE  tombs[seq][k] >= r
        OBVIOUS
      <4>1. r \in 1..Len(log)
        BY <2>1, <2>4, <3>2
      <4>2. Killed(log', r, Len(log))
        BY <2>1, <2>4, <2>6, <4>1, KilledShorter
      <4>3. Len(log) \in 0..Len(log)
        BY <2>4
      <4>4. Killed(log, r, Len(log))
        BY <2>3, <2>4, <4>1, <4>2, <4>3, KilledSame
      <4>5. log[r].key = k
        BY <2>3, <3>1, <4>1
      <4> QED
        BY <2>1, <4>1, <4>3, <4>4, <4>5 DEF KilledHeld
    <3>4. CASE isUpsert(m)
      <4>1. r # seq
        BY <2>3, <2>6, <3>4 DEF Killed, isRemove, isUpsert
      <4>2. CASE k # m.key
        <5>1. TombsAfter(tombs[seq], m, seq)[k] = tombs[seq][k]
          BY <2>3, <3>2, <3>4, <4>2, TombsAfterAt
        <5> QED
          BY <2>3, <2>6, <3>1, <3>3, <4>1, <5>1
      <4>3. CASE k = m.key
        <5>1. m.seen < r
          <6>1. seq \in (r + 1)..i
            BY <2>4, <2>6, <3>2, <4>1
          <6> QED
            BY <2>3, <3>1, <3>4, <4>3, <6>1 DEF Killed, isRemove, isUpsert
        <5>2. tombs[seq][k] \in Nat /\ m.seen \in Nat /\ tombs[seq][k] >= r
          BY <2>3, <3>2, <3>3, <4>1 DEF Mutation
        <5>3. Ignorant(tombs[seq], m)
          BY <2>4, <3>2, <3>4, <4>3, <5>1, <5>2 DEF Ignorant
        <5>4. TombsAfter(tombs[seq], m, seq)[k] = tombs[seq][k]
          BY <2>3, <4>3, <5>3, TombsAfterAt
        <5> QED
          BY <2>3, <2>6, <3>1, <5>2, <5>4
      <4> QED
        BY <4>2, <4>3
    <3>5. CASE isRemove(m)
      <4>1. PICK marked : marked = [tombs[seq] EXCEPT ![m.key] = seq]
        OBVIOUS
      <4>2. tombs'[seq + 1] = noteRemoved(tombs[seq], m.key, seq)
        BY <2>3, <3>5 DEF TombsAfter
      <4>3. marked \in [Keys -> Nat] /\ marked[k] >= r
        <5>1. marked \in [Keys -> Nat]
          BY <2>3, <4>1
        <5>2. CASE k = m.key
          BY <2>3, <3>2, <4>1, <5>2
        <5>3. CASE k # m.key
          <6>1. r # seq
            BY <2>3, <3>1, <5>3
          <6> QED
            BY <2>3, <3>2, <3>3, <4>1, <5>3, <6>1
        <5> QED
          BY <5>1, <5>2, <5>3
      <4>4. noteRemoved(tombs[seq], m.key, seq)[k] = marked[k]
        <5> SUFFICES ASSUME noteRemoved(tombs[seq], m.key, seq)[k] # marked[k]
                     PROVE  FALSE
          OBVIOUS
        <5> DEFINE held == Held(marked)
        <5>1. /\ Cardinality(held) > RemovedMax
              /\ \A x \in Keys : marked[x] # 0 => marked[k] <= marked[x]
          <6>1. /\ tombs[seq] \in [Keys -> Nat] /\ m.key \in Keys /\ seq \in Nat /\ k \in Keys
                /\ noteRemoved(tombs[seq], m.key, seq)[k] # marked[k]
            BY <2>3, <3>2
          <6> QED
            BY <4>1, <6>1, EvictsOldest
        \* Every other entry is a remove of its key, ordered after r.
        <5>2. ASSUME NEW x \in held \ {k}
              PROVE  x \in RemovedSince(log', r, seq)
          <6>0. x \in Keys /\ marked[x] # 0 /\ x # k
            BY DEF Held
          <6>1. marked[x] \in 1..seq /\ log'[marked[x]].key = x /\ isRemove(log'[marked[x]])
            <7>1. CASE x = m.key
              BY <2>3, <2>4, <3>5, <4>1, <7>1
            <7>2. CASE x # m.key
              <8>1. tombs[seq][x] # 0 /\ marked[x] = tombs[seq][x]
                BY <2>3, <4>1, <6>0, <7>2
              <8>2. Len(log) \in 0..Len(log)
                BY <2>4
              <8>3. /\ tombs[seq][x] \in 1..Len(log)
                    /\ log[tombs[seq][x]].key = x
                    /\ isRemove(log[tombs[seq][x]])
                BY <2>1, <6>0, <8>1, <8>2 DEF HistoryInv, TombsPast
              <8> QED
                BY <2>1, <2>3, <2>4, <8>1, <8>3
            <7> QED
              BY <7>1, <7>2
          <6>2. marked[x] >= marked[k] /\ marked[x] # r
            BY <3>1, <5>1, <6>0, <6>1
          <6>3. marked[x] \in (r + 1)..seq
            <7>1. marked[x] \in Nat /\ marked[k] \in Nat
              BY <3>2, <4>3, <6>0
            <7>2. marked[x] <= seq /\ marked[k] >= r /\ r \in Nat /\ seq \in Nat
              BY <2>3, <3>2, <4>3, <6>1
            <7>3. marked[x] > r
              BY <6>2, <7>1, <7>2
            <7> QED
              BY <7>1, <7>2, <7>3
          <6> QED
            BY <3>1, <6>0, <6>1, <6>3 DEF RemovedSince
        <5>3. /\ IsFiniteSet(RemovedSince(log', r, seq))
              /\ Cardinality(RemovedSince(log', r, seq)) \in Nat
              /\ Cardinality(RemovedSince(log', r, seq)) < RemovedMax
          BY <2>3, <2>6, <3>2, RemovedSinceFinite DEF Killed
        <5>4. /\ IsFiniteSet(held \ {k})
              /\ Cardinality(held \ {k}) <= Cardinality(RemovedSince(log', r, seq))
          <6>1. held \ {k} \subseteq RemovedSince(log', r, seq)
            BY <5>2
          <6> HIDE DEF held
          <6> QED
            BY <5>3, <6>1, FS_Subset
        <5>5. k \in held
          <6>1. marked[k] \in Nat /\ r >= 1
            BY <3>2, <4>3
          <6> QED
            BY <3>2, <4>3, <6>1 DEF Held
        <5> HIDE DEF held
        <5>6. Cardinality(held) = Cardinality(held \ {k}) + 1
          <6>1. held = (held \ {k}) \cup {k} /\ k \notin held \ {k}
            BY <5>5
          <6> QED
            BY <5>4, <6>1, FS_AddElement
        <5>7. Cardinality(held \ {k}) \in Nat
          BY <5>4, FS_CardinalityType
        <5> QED
          BY <5>1, <5>3, <5>4, <5>6, <5>7, CanvasConstants
      <4> QED
        BY <2>6, <3>1, <4>2, <4>3, <4>4
    <3> QED
      BY <3>4, <3>5 DEF isRemove, isUpsert
  <2> QED
    BY <2>5, <2>6
<1>2. CASE UNCHANGED <<log, history>>
  BY <1>2 DEF history, KilledHeld
<1>3. (\E c \in Clients : Reflect(c)) \/ UNCHANGED <<log, history>>
  BY DEF Next, Edit, AckEcho, PeerMutation, TtlLapse, vars
<1> QED
  BY <1>1, <1>2, <1>3

\* One step of a client along the log resurrects nothing.
LEMMA StepResurrectsNothing ==
  ASSUME BaseInv, KilledHeld, NEW c \in Clients, Processes(c), NEW k \in Keys,
         canvas[c][k] = Absent, canvas'[c][k] # Absent,
         NEW r \in 1..pos[c],
         log[r].key = k, isRemove(log[r]), Judgeable(r, pos[c]),
         \A j \in (r + 1)..pos[c] : log[j].key = k => isRemove(log[j]) \/ log[j].seen < r
  PROVE  ~(log[pos'[c]].seen < r)
<1> USE DEF BaseInv, CoreInv
<1>1. PICK m : m = log[pos[c] + 1]
  OBVIOUS
<1> DEFINE shown == IF m.src = c THEN repairs(c, m, pos[c] + 1) ELSE acceptsPeer(c, m, pos[c] + 1)
<1>2. /\ m \in Mutation /\ m.key \in Keys
      /\ pos'[c] = pos[c] + 1
      /\ \A d \in Clients \ {c} : canvas'[d] = canvas[d]
      /\ canvas' = [canvas EXCEPT ![c][m.key] = IF shown THEN applied(c, m) ELSE @]
  <2>1. canvas' = [canvas EXCEPT ![c][m.key] = IF shown THEN applied(c, m) ELSE @]
    BY <1>1, ProcessesView
  <2>2. m \in Mutation /\ m.key \in Keys /\ pos'[c] = pos[c] + 1
    BY <1>1, ViewStep
  <2> HIDE DEF shown
  <2> QED
    BY <2>1, <2>2 DEF TypeInv, TypeOK
<1>3. m.key = k /\ shown /\ applied(c, m) # Absent
  <2> HIDE DEF shown
  <2> QED
    BY <1>2 DEF TypeInv, TypeOK
<1>4. ~supersededByRemove(c, m)
  BY <1>3 DEF repairs, acceptsPeer
<1>5. isUpsert(m)
  BY <1>3 DEF applied, isUpsert
<1>6. Killed(log, r, pos[c])
  BY DEF Killed, Judgeable, RemovedSince
<1>7. pos[c] \in 0..Len(log) /\ r \in Nat /\ r >= 1
  BY Entries
<1>8. tombs[pos[c] + 1][k] >= r
  BY <1>6, <1>7 DEF KilledHeld
<1>9. removed[c][k] >= r /\ removed[c][k] \in Nat
  BY <1>8 DEF VerdictInv, VerdictAgreement, TypeInv, TypeOK
<1>10. ~(m.seen < removed[c][k])
  BY <1>3, <1>4, <1>5, <1>7, <1>9 DEF supersededByRemove
<1>11. m.seen \in Nat
  BY <1>2 DEF Mutation
<1> QED
  BY <1>1, <1>2, <1>7, <1>9, <1>10, <1>11

\* No frame brings a key back onto a canvas unless its sender had processed
\* every judgeable remove of the key that nothing legitimate undid since,
\* whatever the client had pending, lapsed or superseded.
THEOREM NothingResurrected == Spec => NoResurrection
<1> DEFINE Step ==
      \A c \in Clients : \A k \in Keys :
        (canvas[c][k] = Absent /\ canvas'[c][k] # Absent /\ pos'[c] # pos[c])
          => LET m == log[pos'[c]]
             IN  ~\E r \in 1..pos[c] :
                    /\ log[r].key = k /\ isRemove(log[r]) /\ Judgeable(r, pos[c])
                    /\ m.seen < r
                    /\ \A j \in (r + 1)..pos[c] :
                         log[j].key = k => isRemove(log[j]) \/ log[j].seen < r
<1>1. Init => BaseInv /\ KilledHeld
  <2>1. Init => KilledHeld
    BY DEF Init, KilledHeld
  <2> QED
    BY <2>1, InitBaseInv
<1>2. BaseInv /\ KilledHeld /\ [Next]_vars => (BaseInv /\ KilledHeld)'
  BY NextBaseInv, NextKilledHeld
<1>3. BaseInv /\ KilledHeld /\ [Next]_vars => [Step]_vars
  <2> SUFFICES ASSUME BaseInv, KilledHeld, [Next]_vars
               PROVE  Step
    OBVIOUS
  <2> SUFFICES ASSUME NEW c \in Clients, NEW k \in Keys,
                      canvas[c][k] = Absent, canvas'[c][k] # Absent, pos'[c] # pos[c],
                      NEW r \in 1..pos[c],
                      log[r].key = k, isRemove(log[r]), Judgeable(r, pos[c]),
                      \A j \in (r + 1)..pos[c] :
                        log[j].key = k => isRemove(log[j]) \/ log[j].seen < r
               PROVE  ~(log[pos'[c]].seen < r)
    OBVIOUS
  <2>1. PICK d \in Clients : Processes(d)
    BY DEF Next, Edit, Reflect, TtlLapse, vars, Processes
  <2>2. d = c
    <3>1. pos' = [pos EXCEPT ![d] = pos[d] + 1]
      BY <2>1, ProcessesNext DEF BaseInv, CoreInv
    <3> QED
      BY <3>1 DEF BaseInv, CoreInv, TypeInv, TypeOK
  <2> QED
    BY <2>1, <2>2, StepResurrectsNothing
<1> QED
  BY <1>1, <1>2, <1>3, PTL DEF Spec, NoResurrection
=============================================================================

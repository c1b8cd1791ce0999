------------------------- MODULE CanvasPublishProofs -------------------------
(***************************************************************************)
(* Proofs about CanvasPublish, for any clients, keys, contents and bounds. *)
(***************************************************************************)
EXTENDS CanvasPublish, CanvasSyncProofs

(***************************************************************************)
(* What emit casts.  The diff lists every key it is given exactly once, so *)
(* emit adds one cast for every key of castKeys and no other.              *)
(***************************************************************************)

LEMMA SetToSeqLists ==
  ASSUME NEW S, IsFiniteSet(S)
  PROVE  /\ SetToSeq(S) \in Seq(S)
         /\ \A i, j \in 1..Len(SetToSeq(S)) : SetToSeq(S)[i] = SetToSeq(S)[j] => i = j
         /\ \A x \in S : \E i \in 1..Len(SetToSeq(S)) : SetToSeq(S)[i] = x
<1> DEFINE n == Cardinality(S)
           f == SetToSeq(S)
<1>1. n \in Nat /\ ExistsBijection(1..n, S)
  BY FS_CardinalityType
<1>2. PICK g : g \in Bijection(1..n, S)
  BY <1>1 DEF ExistsBijection
<1>3. g \in [1..n -> S] /\ IsInjective(g)
  BY <1>2 DEF Bijection, Injection
<1>4. f \in [1..n -> S] /\ IsInjective(f)
  BY <1>3 DEF SetToSeq
<1>5. f \in Seq(S) /\ Len(f) = n
  BY <1>1, <1>4
<1>6. \A i, j \in 1..n : f[i] = f[j] => i = j
  BY <1>4 DEF IsInjective
<1>7. \A x \in S : \E i \in 1..n : f[i] = x
  <2>1. IsFiniteSet(1..n) /\ Cardinality(1..n) = Cardinality(S)
    <3>1. IsFiniteSet(1..n) /\ Cardinality(1..n) = n
      BY <1>1, FS_Interval
    <3> QED
      BY <3>1
  <2>2. f \in Injection(1..n, S)
    BY <1>4 DEF Injection
  <2>3. f \in Surjection(1..n, S)
    BY <2>1, <2>2, FS_Injection
  <2> QED
    BY <2>3 DEF Surjection
<1> QED
  BY <1>5, <1>6, <1>7

LEMMA DiffListsChanged ==
  ASSUME NEW next, NEW changed \in SUBSET Keys
  PROVE  LET muts == diffToMutations(next, changed)
         IN  /\ muts \in Seq(changed)
             /\ \A i, j \in 1..Len(muts) : muts[i] = muts[j] => i = j
             /\ \A k \in changed : \E i \in 1..Len(muts) : muts[i] = k
<1> DEFINE A == {k \in changed : next[k] # Absent}
           R == changed \ A
           f == SetToSeq(A)
           g == SetToSeq(R)
           muts == f \o g
<1>1. IsFiniteSet(A) /\ IsFiniteSet(R)
  BY PublishConstants, FS_Subset
<1>2. /\ f \in Seq(A)
      /\ \A i, j \in 1..Len(f) : f[i] = f[j] => i = j
      /\ \A x \in A : \E i \in 1..Len(f) : f[i] = x
  BY <1>1, SetToSeqLists
<1>3. /\ g \in Seq(R)
      /\ \A i, j \in 1..Len(g) : g[i] = g[j] => i = j
      /\ \A x \in R : \E i \in 1..Len(g) : g[i] = x
  BY <1>1, SetToSeqLists
<1>4. diffToMutations(next, changed) = muts
  BY DEF diffToMutations
<1>5. A \subseteq changed /\ R \subseteq changed /\ A \cap R = {} /\ A \cup R = changed
  OBVIOUS
<1> HIDE DEF A, R, f, g
<1>6. /\ muts \in Seq(changed) /\ Len(muts) = Len(f) + Len(g)
      /\ Len(f) \in Nat /\ Len(g) \in Nat
      /\ \A i \in 1..Len(f) : muts[i] = f[i] /\ f[i] \in A
      /\ \A i \in 1..Len(g) : muts[Len(f) + i] = g[i] /\ g[i] \in R
  <2>1. f \in Seq(changed) /\ g \in Seq(changed)
    BY <1>2, <1>3, <1>5
  <2>2. Len(f) \in Nat /\ Len(g) \in Nat
    BY <2>1
  <2>3. muts \in Seq(changed) /\ Len(muts) = Len(f) + Len(g)
    BY <2>1
  <2>4. \A i \in 1..Len(f) : muts[i] = f[i] /\ f[i] \in A
    BY <1>2, <2>1, <2>2
  <2>5. \A i \in 1..Len(g) : muts[Len(f) + i] = g[i] /\ g[i] \in R
    BY <1>3, <2>1, <2>2
  <2> QED
    BY <2>2, <2>3, <2>4, <2>5
<1> HIDE DEF muts
<1>7. ASSUME NEW i \in 1..Len(muts)
      PROVE  \/ i \in 1..Len(f)
             \/ i - Len(f) \in 1..Len(g) /\ Len(f) + (i - Len(f)) = i
  BY <1>6
<1>8. ASSUME NEW i \in 1..Len(muts), NEW j \in 1..Len(muts), muts[i] = muts[j]
      PROVE  i = j
  <2>1. CASE i \in 1..Len(f) /\ j \in 1..Len(f)
    BY <1>2, <1>6, <1>8, <2>1
  <2>2. CASE i \in 1..Len(f) /\ j \notin 1..Len(f)
    <3>1. muts[i] \in A
      BY <1>6, <2>2
    <3>2. muts[Len(f) + (j - Len(f))] \in R
      BY <1>6, <1>7, <2>2
    <3> QED
      BY <1>5, <1>7, <1>8, <2>2, <3>1, <3>2
  <2>3. CASE i \notin 1..Len(f) /\ j \in 1..Len(f)
    <3>1. muts[j] \in A
      BY <1>6, <2>3
    <3>2. muts[Len(f) + (i - Len(f))] \in R
      BY <1>6, <1>7, <2>3
    <3> QED
      BY <1>5, <1>7, <1>8, <2>3, <3>1, <3>2
  <2>4. CASE i \notin 1..Len(f) /\ j \notin 1..Len(f)
    <3>1. i - Len(f) \in 1..Len(g) /\ j - Len(f) \in 1..Len(g)
      BY <1>7, <2>4
    <3>2. g[i - Len(f)] = g[j - Len(f)]
      BY <1>6, <1>7, <1>8, <2>4, <3>1
    <3>3. i - Len(f) = j - Len(f)
      BY <1>3, <3>1, <3>2
    <3> QED
      BY <1>6, <3>3
  <2> QED
    BY <2>1, <2>2, <2>3, <2>4
<1>9. ASSUME NEW k \in changed
      PROVE  \E i \in 1..Len(muts) : muts[i] = k
  <2>1. CASE k \in A
    <3>1. PICK i \in 1..Len(f) : f[i] = k
      BY <1>2, <2>1
    <3>2. i \in 1..Len(muts)
      BY <1>6
    <3> QED
      BY <1>6, <3>1, <3>2
  <2>2. CASE k \in R
    <3>1. PICK i \in 1..Len(g) : g[i] = k
      BY <1>3, <2>2
    <3>2. Len(f) + i \in 1..Len(muts)
      BY <1>6
    <3> QED
      BY <1>6, <3>1, <3>2
  <2> QED
    BY <1>5, <2>1, <2>2
<1> QED
  BY <1>4, <1>6, <1>8, <1>9

PubTypeInv == TypeInv /\ PublisherTypeOK

\* The casts emit adds: at[k] is the place of the one cast of key k.
EmitsAt(c, next, at) ==
  /\ at \in [castKeys(c, next) -> Nat]
  /\ \A k \in castKeys(c, next) :
       /\ at[k] \in (Len(sent[c]) + 1)..Len(sent'[c])
       /\ sent'[c][at[k]] = [src |-> c, key |-> k, val |-> next[k], seen |-> lastSeq[c],
                             nth |-> at[k]]
  /\ \A i \in (Len(sent[c]) + 1)..Len(sent'[c]) :
       \E k \in castKeys(c, next) : at[k] = i

LEMMA EmitSends ==
  ASSUME PubTypeInv, NEW c \in Clients, NEW next \in [Keys -> Contents], emit(c, next)
  PROVE  /\ sent' \in [Clients -> Seq(Mutation)]
         /\ Len(sent'[c]) \in Nat /\ Len(sent[c]) \in Nat /\ Len(sent[c]) <= Len(sent'[c])
         /\ \A i \in 1..Len(sent[c]) : sent'[c][i] = sent[c][i]
         /\ \A d \in Clients \ {c} : sent'[d] = sent[d]
         /\ \E at : EmitsAt(c, next, at)
<1> DEFINE muts == diffToMutations(next, castKeys(c, next))
           n == Len(sent[c])
           new == casts(c, next)
<1>1. /\ muts \in Seq(castKeys(c, next))
      /\ \A i, j \in 1..Len(muts) : muts[i] = muts[j] => i = j
      /\ \A k \in castKeys(c, next) : \E i \in 1..Len(muts) : muts[i] = k
  <2>1. castKeys(c, next) \in SUBSET Keys
    BY DEF castKeys
  <2> QED
    BY <2>1, DiffListsChanged
<1>2. n \in Nat /\ sent[c] \in Seq(Mutation) /\ lastSeq[c] \in Nat
  BY DEF PubTypeInv, TypeInv, TypeOK
<1>3. DOMAIN muts = 1..Len(muts) /\ Len(muts) \in Nat
  BY <1>1
<1>4. \A i \in 1..Len(muts) : muts[i] \in castKeys(c, next) /\ muts[i] \in Keys
  BY <1>1 DEF castKeys
<1> HIDE DEF muts
<1>5. ASSUME NEW i \in 1..Len(muts)
      PROVE  /\ new[i] = [src |-> c, key |-> muts[i], val |-> next[muts[i]], seen |-> lastSeq[c],
                          nth |-> n + i]
             /\ new[i] \in Mutation
  <2>1. new[i] = [src |-> c, key |-> muts[i], val |-> next[muts[i]], seen |-> lastSeq[c],
                  nth |-> n + i]
    BY <1>3 DEF casts, stamp, muts
  <2>2. n + i \in Nat /\ muts[i] \in Keys /\ next[muts[i]] \in Contents
    BY <1>2, <1>4
  <2> QED
    BY <1>2, <2>1, <2>2 DEF Mutation
<1>6. new \in Seq(Mutation) /\ Len(new) = Len(muts)
  <2>1. new = [i \in 1..Len(muts) |-> new[i]]
    BY <1>3 DEF casts, muts
  <2> HIDE DEF new
  <2>2. new \in [1..Len(muts) -> Mutation]
    BY <1>5, <2>1
  <2> QED
    BY <1>3, <2>2
<1>7. sent' = [sent EXCEPT ![c] = @ \o new]
  BY DEF emit
<1> HIDE DEF new
<1>8. sent'[c] = sent[c] \o new
  BY <1>7 DEF PubTypeInv, TypeInv, TypeOK
<1>9. /\ sent'[c] \in Seq(Mutation)
      /\ Len(sent'[c]) = n + Len(muts)
      /\ \A i \in 1..n : sent'[c][i] = sent[c][i]
      /\ \A i \in 1..Len(muts) : sent'[c][n + i] = new[i]
  <2>1. sent[c] \o new \in Seq(Mutation) /\ Len(sent[c] \o new) = n + Len(muts)
    BY <1>2, <1>3, <1>6
  <2>2. \A i \in 1..n : (sent[c] \o new)[i] = sent[c][i]
    BY <1>2, <1>3, <1>6
  <2>3. \A i \in 1..Len(muts) : (sent[c] \o new)[n + i] = new[i]
    BY <1>2, <1>3, <1>6
  <2> QED
    BY <1>8, <2>1, <2>2, <2>3
<1>10. /\ sent' \in [Clients -> Seq(Mutation)]
       /\ \A d \in Clients \ {c} : sent'[d] = sent[d]
  BY <1>7, <1>8, <1>9 DEF PubTypeInv, TypeInv, TypeOK
<1> DEFINE at == [k \in castKeys(c, next) |->
                    n + (CHOOSE i \in 1..Len(muts) : muts[i] = k)]
<1>11. \A k \in castKeys(c, next) :
         \E i \in 1..Len(muts) : muts[i] = k /\ at[k] = n + i
  BY <1>1
<1>12. \A i \in 1..Len(muts) : at[muts[i]] = n + i
  <2> SUFFICES ASSUME NEW i \in 1..Len(muts)
               PROVE  at[muts[i]] = n + i
    OBVIOUS
  <2>1. muts[i] \in castKeys(c, next)
    BY <1>4
  <2>2. PICK j \in 1..Len(muts) : muts[j] = muts[i] /\ at[muts[i]] = n + j
    BY <1>11, <2>1
  <2>3. j = i
    BY <1>1, <2>2
  <2> QED
    BY <2>2, <2>3
<1>13. at = [k \in castKeys(c, next) |-> at[k]]
  OBVIOUS
<1> HIDE DEF at
<1>14. at \in [castKeys(c, next) -> Nat]
  <2>1. \A k \in castKeys(c, next) : at[k] \in Nat
    BY <1>2, <1>3, <1>11
  <2> QED
    BY <1>13, <2>1
<1>15. ASSUME NEW k \in castKeys(c, next)
       PROVE  /\ at[k] \in (n + 1)..Len(sent'[c])
              /\ sent'[c][at[k]] = [src |-> c, key |-> k, val |-> next[k], seen |-> lastSeq[c],
                                    nth |-> at[k]]
  <2>1. PICK i \in 1..Len(muts) : muts[i] = k /\ at[k] = n + i
    BY <1>11
  <2>2. at[k] \in (n + 1)..Len(sent'[c])
    BY <1>2, <1>3, <1>9, <2>1
  <2> QED
    BY <1>5, <1>9, <2>1, <2>2
<1>16. ASSUME NEW i \in (n + 1)..Len(sent'[c])
       PROVE  \E k \in castKeys(c, next) : at[k] = i
  <2>1. i - n \in 1..Len(muts) /\ n + (i - n) = i
    BY <1>2, <1>3, <1>9
  <2> QED
    BY <1>4, <1>12, <2>1
<1>17. EmitsAt(c, next, at)
  BY <1>14, <1>15, <1>16 DEF EmitsAt
<1> QED
  BY <1>2, <1>3, <1>9, <1>10, <1>17

LEMMA EmitType ==
  ASSUME PubTypeInv, NEW c \in Clients, NEW next \in [Keys -> Contents], emit(c, next),
         canvas' \in [Clients -> [Keys -> Contents]]
  PROVE  TypeInv' /\ base' \in [Clients -> [Keys -> Contents]]
<1>1. /\ sent' \in [Clients -> Seq(Mutation)]
      /\ \A d \in Clients : Len(sent[d]) <= Len(sent'[d]) /\ Len(sent[d]) \in Nat
                            /\ Len(sent'[d]) \in Nat
  <2>1. /\ sent' \in [Clients -> Seq(Mutation)]
        /\ Len(sent'[c]) \in Nat /\ Len(sent[c]) \in Nat /\ Len(sent[c]) <= Len(sent'[c])
        /\ \A d \in Clients \ {c} : sent'[d] = sent[d]
    BY EmitSends
  <2>2. \A d \in Clients : Len(sent[d]) \in Nat
    BY Entries DEF PubTypeInv
  <2>3. \A d \in Clients : Len(sent[d]) <= Len(sent'[d]) /\ Len(sent[d]) \in Nat
                              /\ Len(sent'[d]) \in Nat
    <3> SUFFICES ASSUME NEW d \in Clients
                 PROVE  Len(sent[d]) <= Len(sent'[d]) /\ Len(sent[d]) \in Nat
                        /\ Len(sent'[d]) \in Nat
      OBVIOUS
    <3>1. CASE d = c
      BY <2>1, <3>1
    <3>2. CASE d # c
      <4>1. sent'[d] = sent[d]
        BY <2>1, <3>2
      <4> QED
        BY <2>2, <4>1
    <3> QED
      BY <3>1, <3>2
  <2> QED
    BY <2>1, <2>3
<1>2. /\ pending' \in [Clients -> [Keys -> Nat]]
      /\ lapsed' \in [Clients -> SUBSET Keys]
      /\ superseded' \in [Clients -> SUBSET Keys]
      /\ UNCHANGED <<seen, removed, lastSeq, read, log, pos, history>>
  <2>1. onLocalAll(c, castKeys(c, next))
    BY DEF emit
  <2>2. pending' \in [Clients -> [Keys -> Nat]]
    BY <2>1 DEF onLocalAll, PubTypeInv, TypeInv, TypeOK
  <2>3. lapsed' \in [Clients -> SUBSET Keys] /\ superseded' \in [Clients -> SUBSET Keys]
    BY <2>1 DEF onLocalAll, PubTypeInv, TypeInv, TypeOK
  <2> QED
    BY <2>1, <2>2, <2>3 DEF onLocalAll, emit
<1>3. base' \in [Clients -> [Keys -> Contents]]
  BY DEF emit, PubTypeInv, PublisherTypeOK
<1>4. \A d \in Clients : read'[d] <= Len(sent'[d])
  BY <1>1, <1>2 DEF PubTypeInv, TypeInv, TypeOK, Positions
<1> QED
  BY <1>1, <1>2, <1>3, <1>4 DEF history, PubTypeInv, TypeInv, TypeOK, Positions

(***************************************************************************)
(* The steps of the publisher: each is an emission, a step of CanvasSync,  *)
(* or leaves everything but the canvas and the publisher alone.            *)
(***************************************************************************)

Emits(c, next) ==
  /\ next \in [Keys -> Contents]
  /\ emit(c, next)

\* All of CanvasSync's variables but the canvas.
Links == <<sent, read, log, pos, order, history>>

LEMMA PubSteps ==
  ASSUME PubTypeInv, [PubNext]_pubVars
  PROVE  \/ \E c \in Clients : \E next : Emits(c, next)
         \/ [Next]_vars
         \/ UNCHANGED Links
<1>1. ASSUME NEW c \in Clients, NEW k \in Keys, NEW v \in Contents, PubEdit(c, k, v)
      PROVE  \E next : Emits(c, next)
  <2>1. canvas'[c] \in [Keys -> Contents] /\ emit(c, canvas'[c])
    BY <1>1 DEF PubEdit, publishNow, PubTypeInv, TypeInv, TypeOK
  <2> QED
    BY <2>1 DEF Emits
<1>2. ASSUME NEW c \in Clients, NEW k \in Keys, NEW v \in Contents, DragFrame(c, k, v)
      PROVE  (\E next : Emits(c, next)) \/ UNCHANGED Links
  <2>1. canvas'[c] \in [Keys -> Contents]
    BY <1>2 DEF DragFrame, PubTypeInv, TypeInv, TypeOK
  <2> QED
    BY <1>2, <2>1 DEF DragFrame, publishThrottled, emitNothing, Emits, Links
<1>3. ASSUME NEW c \in Clients, sendFrame(c)
      PROVE  (\E next : Emits(c, next)) \/ UNCHANGED Links
  <2>1. frame[c] # NoFrame => frame[c] \in [Keys -> Contents]
    BY DEF PubTypeInv, PublisherTypeOK
  <2> QED
    BY <1>3, <2>1 DEF sendFrame, emitNothing, Emits, Links
<1>4. ASSUME NEW c \in Clients, DragStart(c)
      PROVE  [Next]_vars
  BY <1>4 DEF DragStart
<1>5. ASSUME NEW c \in Clients, Receive(c)
      PROVE  [Next]_vars
  BY <1>5 DEF Receive, Next
<1>6. CASE UNCHANGED pubVars
  BY <1>6 DEF pubVars
<1>7. ASSUME NEW c \in Clients, Reflect(c)
      PROVE  [Next]_vars
  BY <1>7 DEF Next
<1>8. ASSUME NEW c \in Clients, NEW k \in Keys, TtlLapse(c, k)
      PROVE  [Next]_vars
  BY <1>8 DEF Next
<1>9. PubNext => \E c \in Clients :
        \/ \E k \in Keys : \E v \in Contents : PubEdit(c, k, v) \/ DragFrame(c, k, v)
        \/ DragStart(c) \/ sendFrame(c) \/ Receive(c) \/ Reflect(c)
        \/ \E k \in Keys : TtlLapse(c, k)
  BY DEF PubNext, DragStop, ThrottleTimer
<1> QED
  BY <1>1, <1>2, <1>3, <1>4, <1>5, <1>6, <1>7, <1>8, <1>9

LEMMA InitPubTypeInv == PubInit => PubTypeInv
BY InitTypeInv DEF PubInit, PubTypeInv, PublisherTypeOK, TypeInv, TypeOK

\* What a client shows after a step along the log, and what becomes of its
\* baseline, its coalesced frame and its timer.
LEMMA ReceiveStep ==
  ASSUME PubTypeInv, PubTypeInv', NEW c \in Clients, Receive(c)
  PROVE  /\ \A d \in Clients \ {c} : canvas'[d] = canvas[d] /\ base'[d] = base[d]
                                      /\ frame'[d] = frame[d] /\ (d \in timer' <=> d \in timer)
         /\ dragging' = dragging
         /\ \/ /\ canvas'[c] = canvas[c] /\ base'[c] = base[c] /\ frame'[c] = frame[c]
               /\ (c \in timer' <=> c \in timer)
            \/ /\ base'[c] = canvas'[c]
               /\ \/ frame'[c] = NoFrame
                  \/ frame'[c] = canvas'[c] /\ c \in timer' /\ c \in dragging
<1> DEFINE seq == pos[c] + 1
           m == log[seq]
           accepted == IF m.src = c THEN repairs(c, m, seq) ELSE acceptsPeer(c, m, seq)
<1>1. m.key \in Keys
  BY Entries DEF Receive, AckEcho, PeerMutation, PubTypeInv
<1>2. canvas' = [canvas EXCEPT ![c][m.key] = IF accepted THEN applied(c, m) ELSE @]
  BY DEF Receive, AckEcho, PeerMutation
<1>3. applied(c, m) = m.val
  BY PublishConstants DEF applied
<1>4. IF accepted /\ ~(isRemove(m) /\ canvas[c][m.key] = Absent)
      THEN adopt(c) ELSE UNCHANGED publisher
  BY DEF Receive
<1> HIDE DEF m, seq, accepted
<1>5. \A d \in Clients \ {c} : canvas'[d] = canvas[d]
  BY <1>2 DEF PubTypeInv, TypeInv, TypeOK
<1>6. CASE accepted /\ ~(isRemove(m) /\ canvas[c][m.key] = Absent)
  <2>1. adopt(c)
    BY <1>4, <1>6
  <2>2. /\ base' = [base EXCEPT ![c] = canvas'[c]]
        /\ \/ frame' = [frame EXCEPT ![c] = canvas'[c]] /\ UNCHANGED timer
              /\ c \in dragging /\ c \in timer
           \/ frame' = [frame EXCEPT ![c] = NoFrame] /\ timer' = timer \cup {c}
           \/ frame' = [frame EXCEPT ![c] = NoFrame] /\ timer' = timer \ {c}
        /\ UNCHANGED dragging
    BY <2>1 DEF adopt
  <2> QED
    BY <1>5, <2>2 DEF PubTypeInv, PublisherTypeOK
<1>7. CASE ~(accepted /\ ~(isRemove(m) /\ canvas[c][m.key] = Absent))
  <2>1. UNCHANGED publisher
    BY <1>4, <1>7
  <2>2. canvas'[c] = canvas[c]
    <3>1. ASSUME NEW k \in Keys
          PROVE  canvas'[c][k] = canvas[c][k]
      BY <1>1, <1>2, <1>3, <1>7 DEF isRemove, PubTypeInv, TypeInv, TypeOK
    <3>2. canvas[c] \in [Keys -> Contents] /\ canvas'[c] \in [Keys -> Contents]
      BY DEF PubTypeInv, TypeInv, TypeOK
    <3> QED
      BY <3>1, <3>2
  <2> QED
    BY <1>5, <2>1, <2>2 DEF publisher
<1> QED
  BY <1>6, <1>7

LEMMA NextPubTypeInv == PubTypeInv /\ [PubNext]_pubVars => PubTypeInv'
<1> SUFFICES ASSUME PubTypeInv, [PubNext]_pubVars
             PROVE  PubTypeInv'
  OBVIOUS
<1> USE DEF PubTypeInv
<1>1. ASSUME NEW c \in Clients, NEW k \in Keys, NEW v \in Contents, PubEdit(c, k, v)
      PROVE  PubTypeInv'
  <2>1. canvas' \in [Clients -> [Keys -> Contents]] /\ canvas'[c] \in [Keys -> Contents]
    BY <1>1 DEF PubEdit, TypeInv, TypeOK
  <2>2. TypeInv' /\ base' \in [Clients -> [Keys -> Contents]]
    BY <1>1, <2>1, EmitType DEF PubEdit, publishNow
  <2> QED
    BY <1>1, <2>2 DEF PubEdit, publishNow, PublisherTypeOK, TypeInv
<1>2. ASSUME NEW c \in Clients, NEW k \in Keys, NEW v \in Contents, DragFrame(c, k, v)
      PROVE  PubTypeInv'
  <2>1. canvas' \in [Clients -> [Keys -> Contents]] /\ canvas'[c] \in [Keys -> Contents]
    BY <1>2 DEF DragFrame, TypeInv, TypeOK
  <2>2. CASE c \in timer
    <3>1. TypeInv'
      BY <1>2, <2>1, <2>2 DEF DragFrame, publishThrottled, emitNothing, order, history, TypeInv,
                              TypeOK, Positions
    <3> QED
      BY <1>2, <2>1, <2>2, <3>1 DEF DragFrame, publishThrottled, emitNothing, PublisherTypeOK,
                                    TypeInv
  <2>3. CASE c \notin timer
    <3>1. TypeInv' /\ base' \in [Clients -> [Keys -> Contents]]
      BY <1>2, <2>1, <2>3, EmitType DEF DragFrame, publishThrottled
    <3> QED
      BY <1>2, <2>3, <3>1 DEF DragFrame, publishThrottled, PublisherTypeOK, TypeInv
  <2> QED
    BY <2>2, <2>3
<1>3. ASSUME NEW c \in Clients, sendFrame(c), UNCHANGED canvas, dragging' \subseteq dragging
      PROVE  PubTypeInv'
  <2>1. CASE frame[c] = NoFrame
    <3>1. TypeInv'
      BY <1>3, <2>1 DEF sendFrame, emitNothing, order, history, TypeInv, TypeOK, Positions
    <3> QED
      BY <1>3, <2>1, <3>1 DEF sendFrame, emitNothing, PublisherTypeOK, TypeInv
  <2>2. CASE frame[c] # NoFrame
    <3>1. frame[c] \in [Keys -> Contents] /\ canvas' \in [Clients -> [Keys -> Contents]]
      BY <1>3, <2>2 DEF PublisherTypeOK, TypeInv, TypeOK
    <3>2. TypeInv' /\ base' \in [Clients -> [Keys -> Contents]]
      BY <1>3, <2>2, <3>1, EmitType DEF sendFrame
    <3> QED
      BY <1>3, <2>2, <3>2 DEF sendFrame, PublisherTypeOK, TypeInv
  <2> QED
    BY <2>1, <2>2
<1>4. ASSUME NEW c \in Clients, DragStart(c)
      PROVE  PubTypeInv'
  BY <1>4, NextTypeInv DEF DragStart, PublisherTypeOK, TypeInv
<1>5. ASSUME NEW c \in Clients, Receive(c)
      PROVE  PubTypeInv'
  <2>1. TypeInv'
    BY <1>5, NextTypeInv DEF Receive, Next
  <2>2. canvas'[c] \in [Keys -> Contents]
    BY <2>1 DEF TypeInv, TypeOK
  <2>3. UNCHANGED publisher \/ adopt(c)
    BY <1>5 DEF Receive
  <2> QED
    BY <2>1, <2>2, <2>3 DEF adopt, publisher, PublisherTypeOK, TypeInv
<1>6. ASSUME [Next]_vars, UNCHANGED publisher
      PROVE  PubTypeInv'
  BY <1>6, NextTypeInv DEF publisher, PublisherTypeOK, TypeInv
<1>7. CASE UNCHANGED pubVars
  BY <1>6, <1>7 DEF pubVars
<1>8. ASSUME NEW c \in Clients, ThrottleTimer(c) \/ DragStop(c)
      PROVE  PubTypeInv'
  <2>1. sendFrame(c) /\ UNCHANGED canvas /\ dragging' \subseteq dragging
    BY <1>8 DEF ThrottleTimer, DragStop
  <2> QED
    BY <1>3, <2>1
<1>9. ASSUME NEW c \in Clients, Reflect(c) \/ \E k \in Keys : TtlLapse(c, k), UNCHANGED publisher
      PROVE  PubTypeInv'
  BY <1>6, <1>9 DEF Next
<1> QED
  BY <1>1, <1>2, <1>4, <1>5, <1>7, <1>8, <1>9 DEF PubNext

LEMMA PubTypeInvariant == PubSpec => []PubTypeInv
BY InitPubTypeInv, NextPubTypeInv, PTL DEF PubSpec

\* Baselines and coalesced frames are whole canvases, and only clients arm
\* timers or drag, however publishes, flushes and adoptions interleave.
THEOREM PublisherTypeCorrect == PubSpec => []PublisherTypeOK
<1>1. PubTypeInv => PublisherTypeOK
  BY DEF PubTypeInv
<1> QED
  BY <1>1, PubTypeInvariant, PTL

(***************************************************************************)
(* Nothing is lost between the canvas and the publisher.  The coalesced    *)
(* frame is the canvas while there is one, so sending it leaves nothing    *)
(* castable behind; adopting takes the canvas for the baseline.            *)
(***************************************************************************)

LEMMA EmitBase ==
  ASSUME PubTypeInv, NEW c \in Clients, NEW next \in [Keys -> Contents], emit(c, next)
  PROVE  /\ \A d \in Clients \ {c} : base'[d] = base[d]
         /\ \A k \in Keys : base'[c][k] = IF next[k] \in Oversized THEN base[c][k] ELSE next[k]
BY DEF emit, refused, PubTypeInv, PublisherTypeOK

OwedAt(c) ==
  /\ frame[c] # NoFrame => c \in timer /\ frame[c] = canvas[c]
  /\ \A k \in Keys :
       canvas[c][k] \notin Oversized /\ canvas[c][k] # base[c][k] => frame[c] # NoFrame

LEMMA OwedByEach == UnpublishedIsOwed <=> \A c \in Clients : OwedAt(c)
BY DEF UnpublishedIsOwed, OwedAt

\* A client that no step of the publisher is about keeps what it owes.
LEMMA OwedLeftAlone ==
  ASSUME NEW d \in Clients, OwedAt(d), canvas'[d] = canvas[d], base'[d] = base[d],
         frame'[d] = frame[d], d \in timer' <=> d \in timer
  PROVE  OwedAt(d)'
BY DEF OwedAt

LEMMA NextUnpublishedIsOwed ==
  PubTypeInv /\ PubTypeInv' /\ UnpublishedIsOwed /\ [PubNext]_pubVars => UnpublishedIsOwed'
<1> SUFFICES ASSUME PubTypeInv, PubTypeInv', UnpublishedIsOwed, [PubNext]_pubVars,
                    NEW d \in Clients
             PROVE  OwedAt(d)'
  BY OwedByEach DEF UnpublishedIsOwed, OwedAt
<1>0. OwedAt(d)
  BY OwedByEach
<1>1. ASSUME NEW c \in Clients, NEW k \in Keys, NEW v \in Contents, PubEdit(c, k, v)
      PROVE  OwedAt(d)'
  <2>1. /\ canvas'[c] \in [Keys -> Contents] /\ emit(c, canvas'[c])
        /\ timer' = timer \ {c} /\ frame' = [frame EXCEPT ![c] = NoFrame]
        /\ canvas' = [canvas EXCEPT ![c][k] = v]
    BY <1>1 DEF PubEdit, publishNow, PubTypeInv, TypeInv, TypeOK
  <2>2. CASE d = c
    <3>1. frame'[c] = NoFrame
      BY <2>1 DEF PubTypeInv, PublisherTypeOK
    <3>2. \A j \in Keys : base'[c][j] = IF canvas'[c][j] \in Oversized THEN base[c][j]
                                        ELSE canvas'[c][j]
      BY <2>1, EmitBase
    <3> QED
      BY <2>2, <3>1, <3>2 DEF OwedAt
  <2>3. CASE d # c
    <3>1. /\ canvas'[d] = canvas[d] /\ frame'[d] = frame[d] /\ (d \in timer' <=> d \in timer)
      BY <2>1, <2>3 DEF PubTypeInv, TypeInv, TypeOK, PublisherTypeOK
    <3>2. base'[d] = base[d]
      BY <2>1, <2>3, EmitBase
    <3> QED
      BY <1>0, <3>1, <3>2, OwedLeftAlone
  <2> QED
    BY <2>2, <2>3
<1>2. ASSUME NEW c \in Clients, NEW k \in Keys, NEW v \in Contents, DragFrame(c, k, v)
      PROVE  OwedAt(d)'
  <2>1. /\ canvas'[c] \in [Keys -> Contents]
        /\ publishThrottled(c, canvas'[c])
        /\ canvas' = [canvas EXCEPT ![c][k] = v]
    BY <1>2 DEF DragFrame, PubTypeInv, TypeInv, TypeOK
  <2>2. d # c => canvas'[d] = canvas[d]
    BY <2>1 DEF PubTypeInv, TypeInv, TypeOK
  <2>3. CASE c \in timer
    <3>1. frame' = [frame EXCEPT ![c] = canvas'[c]] /\ base' = base /\ timer' = timer
      BY <2>1, <2>3 DEF publishThrottled, emitNothing
    <3>2. canvas'[c] # NoFrame
      BY <2>1, PublishConstants
    <3>3. CASE d = c
      BY <2>3, <3>1, <3>2, <3>3 DEF OwedAt, PubTypeInv, PublisherTypeOK
    <3>4. CASE d # c
      <4>1. frame'[d] = frame[d] /\ base'[d] = base[d]
        BY <3>1, <3>4 DEF PubTypeInv, PublisherTypeOK
      <4> QED
        BY <1>0, <2>2, <3>1, <3>4, <4>1, OwedLeftAlone
    <3> QED
      BY <3>3, <3>4
  <2>4. CASE c \notin timer
    <3>1. emit(c, canvas'[c]) /\ timer' = timer \cup {c} /\ frame' = frame
      BY <2>1, <2>4 DEF publishThrottled
    <3>2. CASE d = c
      <4>1. frame[c] = NoFrame
        BY <1>0, <2>4, <3>2 DEF OwedAt
      <4>2. \A j \in Keys : base'[c][j] = IF canvas'[c][j] \in Oversized THEN base[c][j]
                                          ELSE canvas'[c][j]
        BY <2>1, <3>1, EmitBase
      <4> QED
        BY <3>1, <3>2, <4>1, <4>2 DEF OwedAt
    <3>3. CASE d # c
      <4>1. base'[d] = base[d]
        BY <2>1, <3>1, <3>3, EmitBase
      <4> QED
        BY <1>0, <2>2, <3>1, <3>3, <4>1, OwedLeftAlone
    <3> QED
      BY <3>2, <3>3
  <2> QED
    BY <2>3, <2>4
<1>3. ASSUME NEW c \in Clients, sendFrame(c), UNCHANGED canvas
      PROVE  OwedAt(d)'
  <2>1. CASE frame[c] = NoFrame
    BY <1>0, <1>3, <2>1 DEF sendFrame, emitNothing, OwedAt
  <2>2. CASE frame[c] # NoFrame
    <3>1. /\ emit(c, frame[c]) /\ frame' = [frame EXCEPT ![c] = NoFrame]
          /\ frame[c] \in [Keys -> Contents] /\ timer' = timer \ {c}
      BY <1>3, <2>2 DEF sendFrame, PubTypeInv, PublisherTypeOK
    <3>2. CASE d = c
      <4>1. frame'[c] = NoFrame
        BY <3>1 DEF PubTypeInv, PublisherTypeOK
      <4>2. frame[c] = canvas'[c]
        BY <1>0, <1>3, <2>2, <3>2 DEF OwedAt
      <4>3. \A j \in Keys : base'[c][j] = IF canvas'[c][j] \in Oversized THEN base[c][j]
                                          ELSE canvas'[c][j]
        BY <3>1, <4>2, EmitBase
      <4> QED
        BY <3>2, <4>1, <4>3 DEF OwedAt
    <3>3. CASE d # c
      <4>1. base'[d] = base[d]
        BY <3>1, <3>3, EmitBase
      <4>2. frame'[d] = frame[d] /\ (d \in timer' <=> d \in timer)
        BY <3>1, <3>3 DEF PubTypeInv, PublisherTypeOK
      <4> QED
        BY <1>0, <1>3, <3>3, <4>1, <4>2, OwedLeftAlone
    <3> QED
      BY <3>2, <3>3
  <2> QED
    BY <2>1, <2>2
<1>4. ASSUME NEW c \in Clients, Receive(c)
      PROVE  OwedAt(d)'
  <2>1. CASE d = c
    BY <1>0, <1>4, <2>1, ReceiveStep, OwedLeftAlone DEF OwedAt
  <2>2. CASE d # c
    BY <1>0, <1>4, <2>2, ReceiveStep, OwedLeftAlone
  <2> QED
    BY <2>1, <2>2
<1>5. ASSUME UNCHANGED <<canvas, base, frame, timer>>
      PROVE  OwedAt(d)'
  BY <1>0, <1>5 DEF OwedAt
<1>6. ASSUME NEW c \in Clients, ThrottleTimer(c) \/ DragStop(c)
      PROVE  OwedAt(d)'
  BY <1>3, <1>6 DEF ThrottleTimer, DragStop
<1>7. ASSUME NEW c \in Clients,
             DragStart(c) \/ ((Reflect(c) \/ \E k \in Keys : TtlLapse(c, k)) /\ UNCHANGED publisher)
      PROVE  OwedAt(d)'
  BY <1>5, <1>7 DEF DragStart, vars, Reflect, TtlLapse, publisher
<1>8. CASE UNCHANGED pubVars
  BY <1>5, <1>8 DEF pubVars, vars, publisher
<1> QED
  BY <1>1, <1>2, <1>4, <1>6, <1>7, <1>8 DEF PubNext

\* Whatever a client shows beyond its baseline is owed and has a timer to send
\* it: publishThrottled never drops a frame, and the early returns of emit,
\* flush and adopt leave nothing castable unsent and unscheduled.
THEOREM NothingUnpublishedIsForgotten == PubSpec => []UnpublishedIsOwed
<1>1. PubInit => UnpublishedIsOwed
  BY DEF PubInit, UnpublishedIsOwed
<1>2. PubTypeInv /\ PubTypeInv' /\ UnpublishedIsOwed /\ [PubNext]_pubVars => UnpublishedIsOwed'
  BY NextUnpublishedIsOwed
<1> QED
  BY <1>1, <1>2, PubTypeInvariant, PTL DEF PubSpec

(***************************************************************************)
(* The order.  An emission is as many edits of CanvasSync at once as it    *)
(* casts keys, so it keeps the invariants about links, order and history.  *)
(***************************************************************************)

LEMMA EmitOrder ==
  ASSUME PubTypeInv, OrderInv, NEW c \in Clients, NEW next \in [Keys -> Contents], emit(c, next)
  PROVE  OrderInv'
<1>1. /\ Len(sent'[c]) \in Nat /\ Len(sent[c]) \in Nat /\ Len(sent[c]) <= Len(sent'[c])
      /\ \A i \in 1..Len(sent[c]) : sent'[c][i] = sent[c][i]
      /\ \A d \in Clients \ {c} : sent'[d] = sent[d]
  BY EmitSends
<1>2. PICK at : EmitsAt(c, next, at)
  BY EmitSends
<1>3. UNCHANGED <<read, log, pos, lastSeq>>
  BY DEF emit, onLocalAll
<1>4. SentInv'
  <2> SUFFICES ASSUME NEW d \in Clients, NEW i \in 1..Len(sent'[d])
               PROVE  sent'[d][i].src = d /\ sent'[d][i].nth = i /\ sent'[d][i].seen <= pos[d]
    BY <1>3 DEF SentInv
  <2>1. CASE d = c /\ i > Len(sent[c])
    <3>1. i \in (Len(sent[c]) + 1)..Len(sent'[c])
      BY <1>1, <2>1
    <3>2. PICK k \in castKeys(c, next) : at[k] = i
      BY <1>2, <3>1 DEF EmitsAt
    <3>3. sent'[c][i] = [src |-> c, key |-> k, val |-> next[k], seen |-> lastSeq[c], nth |-> i]
      BY <1>2, <3>2 DEF EmitsAt
    <3>4. lastSeq[c] = pos[c] /\ pos[c] \in Nat
      BY Entries DEF OrderInv, AtPos, PubTypeInv
    <3> QED
      BY <2>1, <3>3, <3>4
  <2>2. CASE ~(d = c /\ i > Len(sent[c]))
    <3>1. i \in 1..Len(sent[d]) /\ sent'[d][i] = sent[d][i]
      BY <1>1, <2>2
    <3> QED
      BY <3>1 DEF OrderInv, SentInv
  <2> QED
    BY <2>1, <2>2
<1>5. LoggedInv'
  <2> SUFFICES ASSUME NEW j \in 1..Len(log)
               PROVE  log[j] = sent'[log[j].src][log[j].nth]
    BY <1>3 DEF OrderInv, LoggedInv
  <2>1. log[j].src \in Clients /\ log[j].nth \in 1..Len(sent[log[j].src])
    BY Entries DEF OrderInv, LoggedInv, PubTypeInv
  <2>2. log[j] = sent[log[j].src][log[j].nth]
    BY DEF OrderInv, LoggedInv
  <2> QED
    BY <1>1, <2>1, <2>2
<1> QED
  BY <1>3, <1>4, <1>5 DEF OrderInv, FifoInv, ReadInv, AtPos

LEMMA EmitUnacked ==
  ASSUME PubTypeInv, OrderInv, NEW c \in Clients, NEW next \in [Keys -> Contents],
         emit(c, next), NEW at, EmitsAt(c, next, at)
  PROVE  /\ \A d \in Clients : \A j \in Keys :
              Unacked(d, j)' = IF d = c /\ j \in castKeys(c, next) THEN Unacked(c, j) \cup {at[j]}
                               ELSE Unacked(d, j)
         /\ \A d \in Clients : \A i \in 1..Len(sent[d]) : sent'[d][i] = sent[d][i]
<1>1. /\ Len(sent'[c]) \in Nat /\ Len(sent[c]) \in Nat /\ Len(sent[c]) <= Len(sent'[c])
      /\ \A i \in 1..Len(sent[c]) : sent'[c][i] = sent[c][i]
      /\ \A d \in Clients \ {c} : sent'[d] = sent[d]
  BY EmitSends
<1>2. UNCHANGED <<read, log, pos>>
  BY DEF emit
<1>3. pos[c] \in Nat /\ Len(log) \in Nat /\ pos[c] <= Len(log) /\ read[c] <= Len(sent[c])
      /\ read[c] \in Nat
  BY Entries DEF PubTypeInv
<1>4. \A i \in (Len(sent[c]) + 1)..Len(sent'[c]) :
        \A j \in 1..pos[c] : ~(log[j].src = c /\ log[j].nth = i)
  <2> SUFFICES ASSUME NEW i \in (Len(sent[c]) + 1)..Len(sent'[c]), NEW j \in 1..pos[c],
                      log[j].src = c, log[j].nth = i
               PROVE  FALSE
    OBVIOUS
  <2>1. log[j].nth \in 1..read[c]
    BY <1>3 DEF OrderInv, LoggedInv
  <2> QED
    BY <1>1, <1>3, <2>1
<1>5. ASSUME NEW j \in Keys, NEW i
      PROVE  i \in Unacked(c, j)' <=> i \in Unacked(c, j)
                                      \/ (j \in castKeys(c, next) /\ i = at[j])
  <2>1. i \in Unacked(c, j)' <=> /\ i \in 1..Len(sent'[c])
                                 /\ sent'[c][i].key = j
                                 /\ \A l \in 1..pos[c] : ~(log[l].src = c /\ log[l].nth = i)
    BY <1>2 DEF Unacked
  <2>2. i \in Unacked(c, j) <=> /\ i \in 1..Len(sent[c])
                                /\ sent[c][i].key = j
                                /\ \A l \in 1..pos[c] : ~(log[l].src = c /\ log[l].nth = i)
    BY DEF Unacked
  <2>3. i \in 1..Len(sent'[c]) <=> i \in 1..Len(sent[c]) \/ i \in (Len(sent[c]) + 1)..Len(sent'[c])
    BY <1>1
  <2>4. ~(i \in 1..Len(sent[c]) /\ i \in (Len(sent[c]) + 1)..Len(sent'[c]))
    BY <1>1
  <2>5. i \in (Len(sent[c]) + 1)..Len(sent'[c])
          => (sent'[c][i].key = j <=> j \in castKeys(c, next) /\ i = at[j])
    <3> SUFFICES ASSUME i \in (Len(sent[c]) + 1)..Len(sent'[c])
                 PROVE  sent'[c][i].key = j <=> j \in castKeys(c, next) /\ i = at[j]
      OBVIOUS
    <3>1. PICK k \in castKeys(c, next) : at[k] = i
      BY DEF EmitsAt
    <3>2. \A l \in castKeys(c, next) :
            sent'[c][at[l]] = [src |-> c, key |-> l, val |-> next[l], seen |-> lastSeq[c],
                               nth |-> at[l]]
      BY DEF EmitsAt
    <3>3. ASSUME NEW l \in castKeys(c, next)
          PROVE  sent'[c][at[l]].key = l
      <4>1. PICK m : m = sent'[c][at[l]]
        OBVIOUS
      <4>2. m = [src |-> c, key |-> l, val |-> next[l], seen |-> lastSeq[c], nth |-> at[l]]
        BY <3>2, <4>1
      <4>3. m.key = l
        BY <4>2
      <4> QED
        BY <4>1, <4>3
    <3> QED
      BY <3>1, <3>3
  <2>6. j \in castKeys(c, next) => at[j] \in (Len(sent[c]) + 1)..Len(sent'[c])
    BY DEF EmitsAt
  <2> QED
    BY <1>1, <1>4, <2>1, <2>2, <2>3, <2>4, <2>5, <2>6
<1>6. \A j \in Keys : Unacked(c, j)' = IF j \in castKeys(c, next) THEN Unacked(c, j) \cup {at[j]}
                                       ELSE Unacked(c, j)
  <2> SUFFICES ASSUME NEW j \in Keys
               PROVE  Unacked(c, j)' = IF j \in castKeys(c, next) THEN Unacked(c, j) \cup {at[j]}
                                       ELSE Unacked(c, j)
    OBVIOUS
  <2>1. \A i : i \in Unacked(c, j)' <=> i \in Unacked(c, j)
                                        \/ (j \in castKeys(c, next) /\ i = at[j])
    BY <1>5
  <2>2. CASE j \in castKeys(c, next)
    BY <2>1, <2>2
  <2>3. CASE j \notin castKeys(c, next)
    BY <2>1, <2>3
  <2> QED
    BY <2>2, <2>3
<1>7. \A d \in Clients \ {c} : \A j \in Keys : Unacked(d, j)' = Unacked(d, j)
  BY <1>1, <1>2 DEF Unacked
<1> QED
  BY <1>1, <1>6, <1>7

LEMMA EmitPending ==
  ASSUME PubTypeInv, OrderInv, PendingIsUnacked, NEW c \in Clients,
         NEW next \in [Keys -> Contents], emit(c, next)
  PROVE  PendingIsUnacked'
<1> SUFFICES ASSUME NEW d \in Clients, NEW j \in Keys
             PROVE  pending'[d][j] = Cardinality(Unacked(d, j)')
  BY DEF PendingIsUnacked
<1>1. PICK at : EmitsAt(c, next, at)
  BY EmitSends
<1>2. /\ pending[d][j] = Cardinality(Unacked(d, j))
      /\ IsFiniteSet(Unacked(d, j))
      /\ Unacked(d, j) \subseteq 1..Len(sent[d])
      /\ Len(sent[d]) \in Nat
  BY UnackedRange, Entries DEF PendingIsUnacked, PubTypeInv
<1>3. Unacked(d, j)' = IF d = c /\ j \in castKeys(c, next) THEN Unacked(c, j) \cup {at[j]}
                       ELSE Unacked(d, j)
  <2>1. \A e \in Clients : \A l \in Keys :
          Unacked(e, l)' = IF e = c /\ l \in castKeys(c, next) THEN Unacked(c, l) \cup {at[l]}
                           ELSE Unacked(e, l)
    BY <1>1, EmitUnacked
  <2> QED
    BY <2>1
<1>4. pending' = [pending EXCEPT ![c] = [k \in Keys |->
                                          IF k \in castKeys(c, next) THEN @[k] + 1 ELSE @[k]]]
  BY DEF emit, onLocalAll
<1>5. pending'[d][j] = IF d = c /\ j \in castKeys(c, next) THEN pending[d][j] + 1
                       ELSE pending[d][j]
  BY <1>4 DEF PubTypeInv, TypeInv, TypeOK
<1>6. CASE d = c /\ j \in castKeys(c, next)
  <2>1. at[j] \notin Unacked(d, j)
    <3>1. at[j] \in (Len(sent[c]) + 1)..Len(sent'[c])
      BY <1>1, <1>6 DEF EmitsAt
    <3> QED
      BY <1>2, <1>6, <3>1
  <2>2. Cardinality(Unacked(d, j) \cup {at[j]}) = Cardinality(Unacked(d, j)) + 1
    BY <1>2, <2>1, FS_AddElement
  <2> QED
    BY <1>2, <1>3, <1>5, <1>6, <2>2
<1>7. CASE ~(d = c /\ j \in castKeys(c, next))
  BY <1>2, <1>3, <1>5, <1>7
<1> QED
  BY <1>6, <1>7

PubBaseInv == BaseInv /\ PublisherTypeOK

LEMMA PubBaseType == PubBaseInv => PubTypeInv
BY DEF PubBaseInv, BaseInv, CoreInv, PubTypeInv

LEMMA NextPubBaseInv == PubBaseInv /\ [PubNext]_pubVars => PubBaseInv'
<1> SUFFICES ASSUME PubBaseInv, [PubNext]_pubVars
             PROVE  PubBaseInv'
  OBVIOUS
<1>1. PubTypeInv /\ PubTypeInv'
  BY PubBaseType, NextPubTypeInv
<1>2. BaseInv /\ TypeInv /\ OrderInv /\ VerdictInv /\ PendingIsUnacked /\ HistoryInv
  BY DEF PubBaseInv, BaseInv, CoreInv
<1>3. ASSUME UNCHANGED <<log, pos, seen, removed, history>>
      PROVE  VerdictInv' /\ HistoryInv'
  BY <1>2, <1>3 DEF history, VerdictInv, TombStep, SeenBehindPos, VerdictAgreement, HistoryInv,
                    TruthStep, TombsPast
<1>4. ASSUME NEW c \in Clients, NEW next, Emits(c, next)
      PROVE  BaseInv'
  <2>1. OrderInv' /\ PendingIsUnacked'
    BY <1>1, <1>2, <1>4, EmitOrder, EmitPending DEF Emits
  <2>2. UNCHANGED <<log, pos, seen, removed, history>>
    BY <1>4 DEF Emits, emit, onLocalAll
  <2> QED
    BY <1>1, <1>3, <2>1, <2>2 DEF BaseInv, CoreInv, PubTypeInv
<1>5. ASSUME UNCHANGED Links
      PROVE  BaseInv'
  <2>1. OrderInv'
    BY <1>2, <1>5 DEF Links, order, OrderInv, SentInv, LoggedInv, FifoInv, ReadInv, AtPos
  <2>2. PendingIsUnacked'
    BY <1>2, <1>5, IdleUnacked DEF Links, order, PendingIsUnacked
  <2> QED
    BY <1>1, <1>3, <1>5, <2>1, <2>2 DEF Links, order, BaseInv, CoreInv, PubTypeInv
<1>6. ASSUME [Next]_vars
      PROVE  BaseInv'
  BY <1>2, <1>6, NextBaseInv
<1>7. BaseInv'
  BY <1>1, <1>4, <1>5, <1>6, PubSteps
<1> QED
  BY <1>1, <1>7 DEF PubBaseInv, PubTypeInv

LEMMA PubBaseInvariant == PubSpec => []PubBaseInv
<1>1. PubInit => PubBaseInv
  BY InitBaseInv, InitPubTypeInv DEF PubInit, PubBaseInv, PubTypeInv
<1> QED
  BY <1>1, NextPubBaseInv, PTL DEF PubSpec

\* The publisher's emissions, several casts at a time and some refused, leave
\* rule 4's verdict a function of the total order.
THEOREM PublishedVerdictsAgree == PubSpec => []VerdictAgreement
<1>1. PubBaseInv => VerdictAgreement
  BY DEF PubBaseInv, BaseInv, CoreInv, VerdictInv
<1> QED
  BY <1>1, PubBaseInvariant, PTL

(***************************************************************************)
(* Convergence, through the publisher.  In CanvasSync a client's canvas is *)
(* what it has cast; here its baseline is, as far as it is castable, and   *)
(* the canvas agrees with the baseline but for what is owed.  So the       *)
(* invariants of CanvasSync's convergence are restated for a value v of a  *)
(* key (Agrees), which the baseline then stands for.  The refused contents *)
(* drop out: nothing is claimed while the baseline holds one, and it only  *)
(* ever leaves it by a cast or for what the order settles on.              *)
(*                                                                         *)
(* Adopting is what could lose an edit, and does when a mutation is        *)
(* applied between a coalesced drag frame and its trailing send.  DragInv  *)
(* says that cannot be while drags keep apart: all that can still reach a  *)
(* client that drags are echoes of its own, none of which repairs a key.   *)
(***************************************************************************)

\* v is what the order, and c's own casts, make of key k for client c.
Agrees(c, k, v) ==
  /\ k \notin superseded[c] => \A i \in Unacked(c, k) : Latest(c, k, i) => v = sent[c][i].val
  /\ Unacked(c, k) = {} => v = Now(c, k)
  /\ k \in superseded[c] => v = Now(c, k) \/ Tomb(c, k) = 0

\* What is owed may be cast: no remove of the key is in flight.
OwedKey(c, k) ==
  canvas[c][k] \notin Oversized \cup {Absent, base[c][k]} =>
    \A i \in Unacked(c, k) : ~isRemove(sent[c][i])

PubKeyInv(c, k) ==
  /\ RemovesLast(c, k)
  /\ KnowsTomb(c, k)
  /\ OwedKey(c, k)
  /\ base[c][k] \notin Oversized => Agrees(c, k, base[c][k])

DragInv ==
  \A c \in Clients :
    /\ frame[c] # NoFrame => c \in dragging
    /\ c \in dragging =>
         /\ dragging = {c}
         /\ superseded[c] = {}
         /\ \A d \in Clients \ {c} : read[d] = Len(sent[d])
         /\ \A i \in (pos[c] + 1)..Len(log) : log[i].src = c

\* A step that leaves a key of a client alone, but may evict its tomb or take
\* refused content for the baseline.
LEMMA PubKeyLeftAlone ==
  ASSUME TypeInv, NEW d \in Clients, NEW j \in Keys, PubKeyInv(d, j),
         Unacked(d, j)' = Unacked(d, j),
         \A i \in 1..Len(sent[d]) : sent'[d][i] = sent[d][i],
         j \in superseded'[d] <=> j \in superseded[d],
         Now(d, j)' = Now(d, j),
         Tomb(d, j)' \in {0, Tomb(d, j)},
         base'[d][j] = base[d][j] \/ base'[d][j] \in Oversized,
         \/ canvas'[d][j] = canvas[d][j] /\ base'[d][j] = base[d][j]
         \/ canvas'[d][j] \in Oversized \cup {Absent, base'[d][j]}
         \/ \A i \in Unacked(d, j) : ~isRemove(sent[d][i])
  PROVE  PubKeyInv(d, j)'
<1>1. \A i \in Unacked(d, j) : sent'[d][i] = sent[d][i] /\ sent[d][i].seen \in Nat
  BY UnackedRange, Entries
<1>2. Tomb(d, j) \in Nat
  BY PlaceType
<1>3. RemovesLast(d, j)'
  BY <1>1 DEF PubKeyInv, RemovesLast
<1>4. KnowsTomb(d, j)'
  BY <1>1, <1>2 DEF PubKeyInv, KnowsTomb, Latest
<1>5. OwedKey(d, j)'
  BY <1>1 DEF PubKeyInv, OwedKey
<1>6. ASSUME base'[d][j] \notin Oversized
      PROVE  Agrees(d, j, base[d][j])'
  <2>1. PICK v : v = base[d][j]
    OBVIOUS
  <2>2. Agrees(d, j, v) /\ base'[d][j] = v
    BY <1>6, <2>1 DEF PubKeyInv
  <2>3. Agrees(d, j, v)'
    BY <1>1, <2>2 DEF Agrees, Latest
  <2> QED
    BY <2>2, <2>3 DEF Agrees
<1> QED
  BY <1>3, <1>4, <1>5, <1>6 DEF PubKeyInv

\* A key that emit casts.
LEMMA EmitKeyInv ==
  ASSUME PubBaseInv, NEW c \in Clients, NEW next \in [Keys -> Contents], emit(c, next),
         NEW k \in castKeys(c, next), RemovesLast(c, k),
         next[k] = Absent \/ \A i \in Unacked(c, k) : ~isRemove(sent[c][i]),
         canvas'[c][k] = next[k]
  PROVE  PubKeyInv(c, k)'
<1>1. PubTypeInv /\ TypeInv /\ OrderInv /\ HistoryInv /\ k \in Keys /\ next[k] \notin Oversized
  BY PubBaseType DEF PubBaseInv, BaseInv, CoreInv, castKeys, refused
<1>2. PICK at : EmitsAt(c, next, at)
  BY <1>1, EmitSends
<1>3. PICK new : new = at[k]
  OBVIOUS
<1>4. /\ Unacked(c, k)' = Unacked(c, k) \cup {new}
      /\ \A i \in 1..Len(sent[c]) : sent'[c][i] = sent[c][i]
  <2>1. /\ \A d \in Clients : \A j \in Keys :
             Unacked(d, j)' = IF d = c /\ j \in castKeys(c, next) THEN Unacked(c, j) \cup {at[j]}
                              ELSE Unacked(d, j)
        /\ \A d \in Clients : \A i \in 1..Len(sent[d]) : sent'[d][i] = sent[d][i]
    BY <1>1, <1>2, EmitUnacked
  <2> QED
    BY <1>1, <1>3, <2>1
<1>5. /\ sent'[c][new] = [src |-> c, key |-> k, val |-> next[k], seen |-> lastSeq[c], nth |-> new]
      /\ new \in (Len(sent[c]) + 1)..Len(sent'[c])
  BY <1>2, <1>3 DEF EmitsAt
<1>6. sent'[c][new].val = next[k] /\ sent'[c][new].seen = pos[c]
  <2>1. sent'[c][new].val = next[k] /\ sent'[c][new].seen = lastSeq[c]
    BY <1>5
  <2> QED
    BY <1>1, <2>1 DEF OrderInv, AtPos
<1>7. Len(sent[c]) \in Nat /\ Unacked(c, k) \subseteq 1..Len(sent[c])
  BY <1>1, Entries, UnackedRange
<1>8. k \notin superseded'[c]
  <2>1. superseded' = [superseded EXCEPT ![c] = @ \ castKeys(c, next)]
    BY DEF emit, onLocalAll
  <2> QED
    BY <1>1, <2>1 DEF TypeInv, TypeOK
<1>9. base'[c][k] = next[k]
  BY <1>1, EmitBase
<1>10. \A i \in Unacked(c, k) : i < new /\ i # new /\ sent'[c][i] = sent[c][i]
  BY <1>4, <1>5, <1>7
<1>11. \A i \in Unacked(c, k)' : Latest(c, k, i)' => i = new
  <2> SUFFICES ASSUME NEW i \in Unacked(c, k) \cup {new}, Latest(c, k, i)'
               PROVE  i = new
    BY <1>4
  <2>1. new <= i
    BY <1>4 DEF Latest
  <2> QED
    BY <1>5, <1>7, <2>1
<1>12. RemovesLast(c, k)'
  <2> SUFFICES ASSUME NEW i \in Unacked(c, k) \cup {new}, NEW l \in Unacked(c, k) \cup {new},
                      i < l, isRemove(sent'[c][i])
               PROVE  isRemove(sent'[c][l])
    BY <1>4 DEF RemovesLast
  <2>1. i \in Unacked(c, k)
    BY <1>5, <1>7
  <2>2. CASE l = new
    BY <1>6, <1>10, <2>1, <2>2 DEF isRemove
  <2>3. CASE l # new
    BY <1>10, <2>1, <2>3 DEF RemovesLast
  <2> QED
    BY <2>2, <2>3
<1>13. KnowsTomb(c, k)'
  <2> SUFFICES Tomb(c, k)' <= sent'[c][new].seen
    BY <1>11 DEF KnowsTomb
  <2>1. pos[c] \in 0..Len(log) /\ pos[c] \in Nat
    BY <1>1, Entries
  <2>2. Tomb(c, k) = 0 \/ Tomb(c, k) \in 1..pos[c]
    BY <1>1, <2>1 DEF HistoryInv, TombsPast, Tomb
  <2>3. Tomb(c, k)' = Tomb(c, k)
    BY DEF Tomb, emit, history
  <2> QED
    BY <1>6, <2>1, <2>2, <2>3
<1>14. OwedKey(c, k)'
  BY <1>9 DEF OwedKey
<1>15. Agrees(c, k, base[c][k])'
  BY <1>4, <1>6, <1>8, <1>9, <1>11 DEF Agrees
<1> QED
  BY <1>12, <1>13, <1>14, <1>15 DEF PubKeyInv

\* An emission of the canvas.
LEMMA EmitAllKeys ==
  ASSUME PubBaseInv, \A d \in Clients : \A j \in Keys : PubKeyInv(d, j),
         NEW c \in Clients, NEW next \in [Keys -> Contents], emit(c, next),
         \A d \in Clients : canvas'[d] = IF d = c THEN next ELSE canvas[d],
         \A j \in castKeys(c, next) :
           next[j] = Absent \/ \A i \in Unacked(c, j) : ~isRemove(sent[c][i]),
         NEW d \in Clients, NEW j \in Keys
  PROVE  PubKeyInv(d, j)'
<1>1. PubTypeInv /\ TypeInv /\ OrderInv
  BY PubBaseType DEF PubBaseInv, BaseInv, CoreInv
<1>2. CASE d = c /\ j \in castKeys(c, next)
  BY <1>2, EmitKeyInv DEF PubKeyInv
<1>3. CASE ~(d = c /\ j \in castKeys(c, next))
  <2>1. PICK at : EmitsAt(c, next, at)
    BY <1>1, EmitSends
  <2>2. /\ Unacked(d, j)' = Unacked(d, j)
        /\ \A i \in 1..Len(sent[d]) : sent'[d][i] = sent[d][i]
    <3>1. /\ \A e \in Clients : \A l \in Keys :
               Unacked(e, l)' = IF e = c /\ l \in castKeys(c, next) THEN Unacked(c, l) \cup {at[l]}
                                ELSE Unacked(e, l)
          /\ \A e \in Clients : \A i \in 1..Len(sent[e]) : sent'[e][i] = sent[e][i]
      BY <1>1, <2>1, EmitUnacked
    <3> QED
      BY <1>3, <3>1
  <2>3. j \in superseded'[d] <=> j \in superseded[d]
    <3>1. superseded' = [superseded EXCEPT ![c] = @ \ castKeys(c, next)]
      BY DEF emit, onLocalAll
    <3> QED
      BY <1>1, <1>3, <3>1 DEF TypeInv, TypeOK
  <2>4. Now(d, j)' = Now(d, j) /\ Tomb(d, j)' = Tomb(d, j)
    BY DEF Now, Tomb, emit, history
  <2>5. /\ \A e \in Clients \ {c} : base'[e] = base[e]
        /\ \A l \in Keys : base'[c][l] = IF next[l] \in Oversized THEN base[c][l] ELSE next[l]
    BY <1>1, EmitBase
  <2>6. base'[d][j] = base[d][j]
    BY <1>3, <2>5 DEF castKeys, refused
  <2>7. \/ canvas'[d][j] = canvas[d][j]
        \/ canvas'[d][j] \in Oversized \cup {base'[d][j]}
    BY <2>5
  <2> QED
    BY <1>1, <2>2, <2>3, <2>4, <2>6, <2>7, PubKeyLeftAlone
<1> QED
  BY <1>2, <1>3

\* What a client owes it may cast.
LEMMA OwedMayBeCast ==
  ASSUME NEW c \in Clients, NEW next, NEW j \in castKeys(c, next), PubKeyInv(c, j),
         next[j] = canvas[c][j]
  PROVE  next[j] = Absent \/ \A i \in Unacked(c, j) : ~isRemove(sent[c][i])
BY DEF castKeys, refused, PubKeyInv, OwedKey

\* The two halves of a client's own step along the log, for a value v of the
\* key the step is about, which the step replaces when it is accepted.
LEMMA AckAgrees ==
  ASSUME BaseInv, BaseInv', NEW c \in Clients, AckEcho(c), NEW k, k = log[pos[c] + 1].key,
         KnowsTomb(c, k), NEW accepted \in BOOLEAN,
         accepted = repairs(c, log[pos[c] + 1], pos[c] + 1),
         NEW v, accepted \/ Agrees(c, k, v), NEW w,
         w = IF accepted THEN log[pos[c] + 1].val ELSE v
  PROVE  Agrees(c, k, w)'
<1> USE DEF BaseInv, CoreInv
<1>1. PICK m : m = log[pos[c] + 1]
  OBVIOUS
<1>2. /\ m \in Mutation /\ k \in Keys /\ m.src = c
      /\ m = sent[c][m.nth]
      /\ m.nth \in Unacked(c, k)
      /\ \A i \in Unacked(c, k) : m.nth <= i
      /\ Unacked(c, k)' = Unacked(c, k) \ {m.nth}
      /\ Unacked(c, k)' = {} => superseded' = [superseded EXCEPT ![c] = @ \ {k}]
      /\ Unacked(c, k)' # {} => superseded' = superseded
  BY <1>1, AckStep
<1>3. /\ supersededByRemove(c, m) => /\ isUpsert(m)
                                     /\ Now(c, k)' = Now(c, k)
                                     /\ Tomb(c, k)' = Tomb(c, k)
                                     /\ Tomb(c, k) # 0
                                     /\ m.seen < Tomb(c, k)
      /\ ~supersededByRemove(c, m) => Now(c, k)' = m.val
  BY <1>1, ViewStep DEF Processes
<1>4. UNCHANGED sent
  BY DEF AckEcho
<1>5. accepted <=> k \in superseded[c] /\ ~supersededByRemove(c, m)
  <2>1. pos[c] + 1 > seen[c][k]
    BY <1>1, ProcessesNext DEF Processes
  <2> QED
    BY <1>1, <1>2, <2>1 DEF repairs
<1>6. Unacked(c, k) \subseteq Nat
  BY <1>2, UnackedRange
<1>7. k \in superseded'[c] => k \in superseded[c]
  <2>1. superseded' = superseded \/ superseded' = [superseded EXCEPT ![c] = @ \ {k}]
    BY <1>2
  <2>2. superseded \in [Clients -> SUBSET Keys]
    BY DEF TypeInv, TypeOK
  <2> QED
    BY <2>1, <2>2
<1>8. ASSUME k \notin superseded'[c], NEW i \in Unacked(c, k)', Latest(c, k, i)'
      PROVE  w = sent[c][i].val
  <2>1. Latest(c, k, i)
    BY <1>1, <1>8, AckLatest
  <2>2. k \notin superseded[c]
    BY <1>2, <1>8
  <2> QED
    BY <1>5, <2>1, <2>2 DEF Agrees, Latest
<1>9. ASSUME Unacked(c, k)' = {}
      PROVE  w = Now(c, k)'
  <2>1. CASE k \in superseded[c]
    BY <1>1, <1>3, <1>5, <2>1 DEF Agrees
  <2>2. CASE k \notin superseded[c]
    <3>1. Unacked(c, k) = {m.nth}
      BY <1>2, <1>9
    <3>2. Latest(c, k, m.nth)
      BY <1>2, <1>6, <3>1 DEF Latest
    <3>3. v = m.val
      BY <1>2, <1>5, <2>2, <3>2 DEF Agrees
    <3>4. ~supersededByRemove(c, m)
      <4>1. isUpsert(m) => Tomb(c, k) <= m.seen
        BY <1>2, <2>2, <3>2 DEF KnowsTomb
      <4>2. Tomb(c, k) \in Nat /\ m.seen \in Nat
        BY <1>2, PlaceType DEF Mutation
      <4> QED
        BY <1>3, <4>1, <4>2
    <3> QED
      BY <1>3, <1>5, <2>2, <3>3, <3>4
  <2> QED
    BY <2>1, <2>2
<1>10. ASSUME k \in superseded'[c]
       PROVE  w = Now(c, k)' \/ Tomb(c, k)' = 0
  BY <1>1, <1>3, <1>5, <1>7, <1>10 DEF Agrees
<1> QED
  BY <1>4, <1>8, <1>9, <1>10 DEF Agrees

LEMMA PeerAgrees ==
  ASSUME BaseInv, BaseInv', NEW c \in Clients, PeerMutation(c), NEW k, k = log[pos[c] + 1].key,
         NEW accepted \in BOOLEAN,
         accepted = acceptsPeer(c, log[pos[c] + 1], pos[c] + 1),
         NEW v, accepted \/ Agrees(c, k, v), NEW w,
         w = IF accepted THEN log[pos[c] + 1].val ELSE v
  PROVE  Agrees(c, k, w)'
<1> USE DEF BaseInv, CoreInv
<1>1. PICK m : m = log[pos[c] + 1]
  OBVIOUS
<1>2. /\ m \in Mutation /\ k \in Keys
      /\ Unacked(c, k)' = Unacked(c, k)
      /\ accepted /\ Unacked(c, k) # {} => superseded' = [superseded EXCEPT ![c] = @ \cup {k}]
      /\ ~(accepted /\ Unacked(c, k) # {}) => superseded' = superseded
      /\ isRemove(m) \/ Unacked(c, k) = {} => (accepted <=> ~supersededByRemove(c, m))
      /\ accepted => ~supersededByRemove(c, m)
  <2>1. /\ m \in Mutation /\ k \in Keys
        /\ \A d \in Clients : \A j \in Keys : Unacked(d, j)' = Unacked(d, j)
        /\ accepted /\ Unacked(c, k) # {} => superseded' = [superseded EXCEPT ![c] = @ \cup {k}]
        /\ ~(accepted /\ Unacked(c, k) # {}) => superseded' = superseded
        /\ isRemove(m) \/ Unacked(c, k) = {} => (accepted <=> ~supersededByRemove(c, m))
        /\ accepted => ~supersededByRemove(c, m)
    BY <1>1, PeerStep
  <2> QED
    BY <2>1
<1>3. /\ supersededByRemove(c, m) => /\ isUpsert(m)
                                     /\ Now(c, k)' = Now(c, k)
                                     /\ Tomb(c, k)' = Tomb(c, k)
      /\ ~supersededByRemove(c, m) => /\ Now(c, k)' = m.val
                                      /\ isUpsert(m) => Tomb(c, k)' = 0
  BY <1>1, ViewStep DEF Processes
<1>4. UNCHANGED sent
  BY DEF PeerMutation
<1>5. k \in superseded'[c] <=> k \in superseded[c] \/ (accepted /\ Unacked(c, k) # {})
  <2>1. superseded \in [Clients -> SUBSET Keys]
    BY DEF TypeInv, TypeOK
  <2> QED
    BY <1>2, <2>1
<1>6. ASSUME k \notin superseded'[c], NEW i \in Unacked(c, k), Latest(c, k, i)
      PROVE  w = sent[c][i].val
  BY <1>5, <1>6 DEF Agrees
<1>7. ASSUME Unacked(c, k) = {}
      PROVE  w = Now(c, k)'
  BY <1>1, <1>2, <1>3, <1>7 DEF Agrees
<1>8. ASSUME k \in superseded'[c]
      PROVE  w = Now(c, k)' \/ Tomb(c, k)' = 0
  <2>1. CASE accepted
    BY <1>1, <1>2, <1>3, <2>1
  <2>2. CASE ~accepted /\ supersededByRemove(c, m)
    BY <1>3, <1>5, <1>8, <2>2 DEF Agrees
  <2>3. CASE ~accepted /\ ~supersededByRemove(c, m)
    BY <1>2, <1>3, <2>3 DEF isRemove, isUpsert
  <2> QED
    BY <2>1, <2>2, <2>3
<1> QED
  BY <1>2, <1>4, <1>6, <1>7, <1>8 DEF Agrees, Latest

\* Whether the mutation that is next for c is let through.
Accepted(c) ==
  LET m == log[pos[c] + 1]
  IN  IF m.src = c THEN repairs(c, m, pos[c] + 1) ELSE acceptsPeer(c, m, pos[c] + 1)

\* Nothing is let through to a client that holds a coalesced frame.
LEMMA AcceptedUnowed ==
  ASSUME PubTypeInv, DragInv, NEW c \in Clients, Receive(c), Accepted(c)
  PROVE  frame[c] = NoFrame
<1> SUFFICES ASSUME frame[c] # NoFrame
             PROVE  FALSE
  OBVIOUS
<1>1. superseded[c] = {} /\ \A i \in (pos[c] + 1)..Len(log) : log[i].src = c
  BY DEF DragInv
<1>2. pos[c] < Len(log) /\ pos[c] \in Nat /\ Len(log) \in Nat
  BY Entries DEF PubTypeInv, Receive, AckEcho, PeerMutation
<1>3. log[pos[c] + 1].src = c
  BY <1>1, <1>2
<1> QED
  BY <1>1, <1>3 DEF Accepted, repairs

\* What a step along the log leaves of the client's baseline.
LEMMA ReceiveBase ==
  ASSUME PubTypeInv, PubTypeInv', UnpublishedIsOwed, DragInv, NEW c \in Clients, Receive(c),
         NEW m, m = log[pos[c] + 1], NEW k, k = m.key
  PROVE  /\ base'[c][k] = IF Accepted(c) THEN m.val ELSE base[c][k]
         /\ \A j \in Keys \ {k} : base'[c][j] = base[c][j] \/ base'[c][j] \in Oversized
         /\ \A j \in Keys : \/ canvas'[c][j] = canvas[c][j] /\ base'[c][j] = base[c][j]
                            \/ canvas'[c][j] = base'[c][j]
<1>1. k \in Keys
  BY Entries DEF Receive, AckEcho, PeerMutation, PubTypeInv
<1>2. canvas' = [canvas EXCEPT ![c][k] = IF Accepted(c) THEN m.val ELSE @]
  <2>1. applied(c, m) = m.val
    BY PublishConstants DEF applied
  <2> QED
    BY <2>1 DEF Receive, AckEcho, PeerMutation, Accepted
<1>3. IF Accepted(c) /\ ~(isRemove(m) /\ canvas[c][k] = Absent)
      THEN base' = [base EXCEPT ![c] = canvas'[c]] ELSE base' = base
  BY DEF Receive, adopt, publisher, Accepted
<1>4. \A j \in Keys : canvas'[c][j] = IF Accepted(c) /\ j = k THEN m.val ELSE canvas[c][j]
  BY <1>1, <1>2 DEF PubTypeInv, TypeInv, TypeOK
<1>5. Accepted(c) => \A j \in Keys : canvas[c][j] \in Oversized \/ canvas[c][j] = base[c][j]
  BY AcceptedUnowed DEF UnpublishedIsOwed
<1>6. Absent \notin Oversized
  BY PublishConstants, CanvasConstants
<1>7. CASE Accepted(c) /\ ~(isRemove(m) /\ canvas[c][k] = Absent)
  <2>1. base'[c] = canvas'[c]
    BY <1>3, <1>7 DEF PubTypeInv, PublisherTypeOK
  <2> QED
    BY <1>1, <1>4, <1>5, <1>7, <2>1
<1>8. CASE Accepted(c) /\ isRemove(m) /\ canvas[c][k] = Absent
  BY <1>1, <1>3, <1>4, <1>5, <1>6, <1>8 DEF isRemove
<1>9. CASE ~Accepted(c)
  BY <1>1, <1>3, <1>4, <1>9
<1> QED
  BY <1>7, <1>8, <1>9

LEMMA ReceiveKeyInv ==
  ASSUME PubBaseInv, PubBaseInv', UnpublishedIsOwed, DragInv,
         \A d \in Clients : \A j \in Keys : PubKeyInv(d, j),
         NEW c \in Clients, Receive(c), NEW d \in Clients, NEW j \in Keys
  PROVE  PubKeyInv(d, j)'
<1>1. /\ PubTypeInv /\ PubTypeInv' /\ BaseInv /\ BaseInv' /\ TypeInv
      /\ PubKeyInv(d, j) /\ Tomb(d, j) \in Nat
  <2>1. PubTypeInv /\ PubTypeInv' /\ BaseInv /\ BaseInv'
    BY DEF PubBaseInv, BaseInv, CoreInv, PubTypeInv
  <2>2. TypeInv
    BY <2>1 DEF PubTypeInv
  <2> QED
    BY <2>1, <2>2, PlaceType
<1>2. Processes(c)
  BY DEF Receive, Processes
<1>3. PICK m : m = log[pos[c] + 1]
  OBVIOUS
<1>4. PICK k : k = m.key
  OBVIOUS
<1>5. UNCHANGED sent
  BY DEF Receive, AckEcho, PeerMutation
<1>6. /\ base'[c][k] = IF Accepted(c) THEN m.val ELSE base[c][k]
      /\ \A l \in Keys \ {k} : base'[c][l] = base[c][l] \/ base'[c][l] \in Oversized
      /\ \A l \in Keys : \/ canvas'[c][l] = canvas[c][l] /\ base'[c][l] = base[c][l]
                         \/ canvas'[c][l] = base'[c][l]
  BY <1>1, <1>3, <1>4, ReceiveBase
<1>7. CASE d = c /\ j = k
  <2>1. RemovesLast(c, k) /\ KnowsTomb(c, k) /\ OwedKey(c, k)
        /\ (base[c][k] \notin Oversized => Agrees(c, k, base[c][k]))
    BY <1>1, <1>7 DEF PubKeyInv
  <2>2. RemovesLast(c, k)' /\ KnowsTomb(c, k)'
    BY <1>1, <1>2, <1>3, <1>4, <2>1, AckCasts, PeerCasts DEF Processes
  <2>3. Unacked(c, k)' \subseteq Unacked(c, k)
    <3>1. CASE AckEcho(c)
      <4>1. \A e \in Clients : \A l \in Keys :
              Unacked(e, l)' = IF e = c /\ l = k THEN Unacked(c, l) \ {m.nth}
                               ELSE Unacked(e, l)
        BY <1>1, <1>3, <1>4, <3>1, AckStep
      <4> QED
        BY <1>7, <4>1
    <3>2. CASE PeerMutation(c)
      <4>1. \A e \in Clients : \A l \in Keys : Unacked(e, l)' = Unacked(e, l)
        BY <1>1, <3>2, PeerStep
      <4> QED
        BY <1>7, <4>1
    <3> QED
      BY <1>2, <3>1, <3>2 DEF Processes
  <2>4. OwedKey(c, k)'
    BY <1>5, <1>6, <1>7, <2>1, <2>3 DEF OwedKey
  <2>5. ASSUME base'[c][k] \notin Oversized
        PROVE  Agrees(c, k, base[c][k])'
    <3>1. PICK accepted \in BOOLEAN : accepted <=> Accepted(c)
      OBVIOUS
    <3>2. PICK v : v = base[c][k]
      OBVIOUS
    <3>3. PICK w : w = base'[c][k]
      OBVIOUS
    <3>4. w = IF accepted THEN m.val ELSE v
      BY <1>6, <3>1, <3>2, <3>3
    <3>5. accepted \/ Agrees(c, k, v)
      BY <2>1, <2>5, <3>2, <3>3, <3>4
    <3>6. Agrees(c, k, w)'
      <4>1. CASE AckEcho(c)
        <5>1. accepted = repairs(c, log[pos[c] + 1], pos[c] + 1)
          BY <3>1, <4>1 DEF Accepted, AckEcho, repairs
        <5> QED
          BY <1>1, <1>3, <1>4, <2>1, <3>4, <3>5, <4>1, <5>1, AckAgrees
      <4>2. CASE PeerMutation(c)
        <5>1. accepted = acceptsPeer(c, log[pos[c] + 1], pos[c] + 1)
          BY <3>1, <4>2 DEF Accepted, PeerMutation, acceptsPeer
        <5> QED
          BY <1>1, <1>3, <1>4, <3>4, <3>5, <4>2, <5>1, PeerAgrees
      <4> QED
        BY <1>2, <4>1, <4>2 DEF Processes
    <3> QED
      BY <3>3, <3>6 DEF Agrees
  <2> QED
    BY <1>7, <2>2, <2>4, <2>5 DEF PubKeyInv
<1>8. CASE ~(d = c /\ j = k)
  <2>1. /\ Now(d, j)' = Now(d, j)
        /\ Tomb(d, j)' \in {0, Tomb(d, j)}
    BY <1>1, <1>2, <1>3, <1>4, <1>8, ViewStep
  <2>2. Unacked(d, j)' = Unacked(d, j) /\ (j \in superseded'[d] <=> j \in superseded[d])
    BY <1>1, <1>2, <1>3, <1>4, <1>8, ProcessesElsewhere
  <2>3. CASE d = c
    BY <1>1, <1>5, <1>6, <1>8, <2>1, <2>2, <2>3, PubKeyLeftAlone
  <2>4. CASE d # c
    <3>1. canvas'[d] = canvas[d] /\ base'[d] = base[d]
      BY <1>1, <2>4, ReceiveStep
    <3> QED
      BY <1>1, <1>5, <2>1, <2>2, <3>1, PubKeyLeftAlone
  <2> QED
    BY <2>3, <2>4
<1> QED
  BY <1>7, <1>8

LEMMA NextPubKeyInv ==
  ASSUME ~UndoBeforeAck, PubBaseInv, PubBaseInv', UnpublishedIsOwed, DragInv,
         \A d \in Clients : \A j \in Keys : PubKeyInv(d, j), [PubNext]_pubVars,
         NEW d \in Clients, NEW j \in Keys
  PROVE  PubKeyInv(d, j)'
<1>0. /\ PubTypeInv /\ BaseInv /\ TypeInv /\ OrderInv /\ VerdictInv /\ PubKeyInv(d, j)
      /\ Tomb(d, j) \in Nat
  BY PubBaseType, PlaceType DEF PubBaseInv, BaseInv, CoreInv
<1>1. ASSUME UNCHANGED <<sent, log, pos, superseded, history, base>>,
             \/ canvas'[d][j] = canvas[d][j]
             \/ \A i \in Unacked(d, j) : ~isRemove(sent[d][i])
      PROVE  PubKeyInv(d, j)'
  <2>1. Unacked(d, j)' = Unacked(d, j)
    BY <1>1, IdleUnacked
  <2>2. Now(d, j)' = Now(d, j) /\ Tomb(d, j)' = Tomb(d, j)
    BY <1>1 DEF Now, Tomb, history
  <2> QED
    BY <1>0, <1>1, <2>1, <2>2, PubKeyLeftAlone
<1>2. ASSUME NEW c \in Clients, NEW k \in Keys, NEW v \in Contents, mayEdit(c, k, v)
      PROVE  v = Absent \/ \A i \in Unacked(c, k) : ~isRemove(sent[c][i])
  BY <1>0, <1>2, UnackedRemove DEF mayEdit
<1>3. ASSUME NEW c \in Clients, NEW k \in Keys, NEW v \in Contents, mayEdit(c, k, v),
             canvas' = [canvas EXCEPT ![c][k] = v], emit(c, canvas'[c])
      PROVE  PubKeyInv(d, j)'
  <2>1. PICK next : next = canvas'[c]
    OBVIOUS
  <2>2. next = [canvas[c] EXCEPT ![k] = v] /\ next \in [Keys -> Contents]
        /\ \A e \in Clients : canvas'[e] = IF e = c THEN next ELSE canvas[e]
    BY <1>0, <1>3, <2>1 DEF TypeInv, TypeOK
  <2>3. \A l \in castKeys(c, next) :
          next[l] = Absent \/ \A i \in Unacked(c, l) : ~isRemove(sent[c][i])
    <3> SUFFICES ASSUME NEW l \in castKeys(c, next)
                 PROVE  next[l] = Absent \/ \A i \in Unacked(c, l) : ~isRemove(sent[c][i])
      OBVIOUS
    <3>0. l \in Keys /\ canvas[c] \in [Keys -> Contents]
      BY <1>0 DEF castKeys, TypeInv, TypeOK
    <3>1. CASE l = k
      BY <1>2, <1>3, <2>2, <3>0, <3>1
    <3>2. CASE l # k
      BY <2>2, <3>0, <3>2, OwedMayBeCast
    <3> QED
      BY <3>1, <3>2
  <2>4. emit(c, next)
    BY <1>3, <2>1
  <2> QED
    BY <2>2, <2>3, <2>4, EmitAllKeys
<1>4. ASSUME NEW c \in Clients, NEW k \in Keys, NEW v \in Contents, PubEdit(c, k, v)
      PROVE  PubKeyInv(d, j)'
  BY <1>3, <1>4 DEF PubEdit, publishNow
<1>5. ASSUME NEW c \in Clients, NEW k \in Keys, NEW v \in Contents, DragFrame(c, k, v)
      PROVE  PubKeyInv(d, j)'
  <2>1. mayEdit(c, k, v) /\ canvas' = [canvas EXCEPT ![c][k] = v] /\ v # Absent
        /\ publishThrottled(c, canvas'[c])
    BY <1>5 DEF DragFrame
  <2>2. CASE c \in timer
    <3>1. UNCHANGED <<sent, log, pos, superseded, history, base>>
      BY <2>1, <2>2 DEF publishThrottled, emitNothing, order
    <3>2. \/ canvas'[d][j] = canvas[d][j]
          \/ \A i \in Unacked(d, j) : ~isRemove(sent[d][i])
      <4>1. CASE d = c /\ j = k
        BY <1>2, <2>1, <4>1
      <4>2. CASE ~(d = c /\ j = k)
        BY <1>0, <2>1, <4>2 DEF TypeInv, TypeOK
      <4> QED
        BY <4>1, <4>2
    <3> QED
      BY <1>1, <3>1, <3>2
  <2>3. CASE c \notin timer
    BY <1>3, <2>1, <2>3 DEF publishThrottled
  <2> QED
    BY <2>2, <2>3
<1>6. ASSUME NEW c \in Clients, sendFrame(c), UNCHANGED canvas
      PROVE  PubKeyInv(d, j)'
  <2>1. CASE frame[c] = NoFrame
    BY <1>1, <1>6, <2>1 DEF sendFrame, emitNothing, order
  <2>2. CASE frame[c] # NoFrame
    <3>1. PICK next : next = canvas[c]
      OBVIOUS
    <3>2. emit(c, next) /\ next \in [Keys -> Contents]
      BY <1>0, <1>6, <2>2, <3>1 DEF sendFrame, UnpublishedIsOwed, TypeInv, TypeOK
    <3>3. \A e \in Clients : canvas'[e] = IF e = c THEN next ELSE canvas[e]
      BY <1>6, <3>1
    <3>4. \A l \in castKeys(c, next) :
            next[l] = Absent \/ \A i \in Unacked(c, l) : ~isRemove(sent[c][i])
      BY <3>1, OwedMayBeCast DEF castKeys
    <3> QED
      BY <3>2, <3>3, <3>4, EmitAllKeys
  <2> QED
    BY <2>1, <2>2
<1>7. ASSUME NEW c \in Clients, ThrottleTimer(c) \/ DragStop(c)
      PROVE  PubKeyInv(d, j)'
  BY <1>6, <1>7 DEF ThrottleTimer, DragStop
<1>8. ASSUME NEW c \in Clients, Receive(c)
      PROVE  PubKeyInv(d, j)'
  BY <1>8, ReceiveKeyInv
<1>9. ASSUME NEW c \in Clients, Reflect(c), UNCHANGED publisher
      PROVE  PubKeyInv(d, j)'
  <2>1. Unacked(d, j)' = Unacked(d, j)
    BY <1>0, <1>9, ReflectUnacked
  <2>2. UNCHANGED <<canvas, sent, superseded, pos, base>>
    BY <1>9 DEF Reflect, order, publisher
  <2>3. \A i \in 1..(Len(log) + 1) : truth'[i] = truth[i] /\ tombs'[i] = tombs[i]
    BY <1>0, <1>9, ReflectHistory
  <2>4. Now(d, j)' = Now(d, j) /\ Tomb(d, j)' = Tomb(d, j)
    BY <1>0, <2>2, <2>3, PlaceType DEF Now, Tomb
  <2> QED
    BY <1>0, <2>1, <2>2, <2>4, PubKeyLeftAlone
<1>10. ASSUME NEW c \in Clients, DragStart(c)
       PROVE  PubKeyInv(d, j)'
  BY <1>1, <1>10 DEF DragStart, vars, order
<1>11. ASSUME NEW c \in Clients, NEW k \in Keys, TtlLapse(c, k), UNCHANGED publisher
       PROVE  PubKeyInv(d, j)'
  BY <1>1, <1>11 DEF TtlLapse, publisher
<1>12. CASE UNCHANGED pubVars
  BY <1>1, <1>12 DEF pubVars, vars, order, publisher
<1> QED
  BY <1>4, <1>5, <1>7, <1>8, <1>9, <1>10, <1>11, <1>12 DEF PubNext

LEMMA NextDragInv ==
  ASSUME DragsApart, PubBaseInv, PubBaseInv', UnpublishedIsOwed, DragInv, [PubNext]_pubVars
  PROVE  DragInv'
<1> SUFFICES ASSUME NEW d \in Clients
             PROVE  /\ frame'[d] # NoFrame => d \in dragging'
                    /\ d \in dragging' =>
                         /\ dragging' = {d}
                         /\ superseded'[d] = {}
                         /\ \A e \in Clients \ {d} : read'[e] = Len(sent'[e])
                         /\ \A i \in (pos'[d] + 1)..Len(log') : log'[i].src = d
  BY DEF DragInv
<1> DEFINE Goal == /\ frame'[d] # NoFrame => d \in dragging'
                   /\ d \in dragging' =>
                        /\ dragging' = {d}
                        /\ superseded'[d] = {}
                        /\ \A e \in Clients \ {d} : read'[e] = Len(sent'[e])
                        /\ \A i \in (pos'[d] + 1)..Len(log') : log'[i].src = d
<1>0. /\ PubTypeInv /\ PubTypeInv' /\ BaseInv /\ TypeInv /\ OrderInv
      /\ superseded \in [Clients -> SUBSET Keys] /\ superseded' \in [Clients -> SUBSET Keys]
      /\ frame \in [Clients -> [Keys -> Contents] \cup {NoFrame}]
  BY DEF PubBaseInv, BaseInv, CoreInv, PubTypeInv, TypeInv, TypeOK, PublisherTypeOK
<1>1. /\ frame[d] # NoFrame => d \in dragging
      /\ d \in dragging =>
           /\ dragging = {d}
           /\ superseded[d] = {}
           /\ \A e \in Clients \ {d} : read[e] = Len(sent[e])
           /\ \A i \in (pos[d] + 1)..Len(log) : log[i].src = d
  BY DEF DragInv
\* What an emission of the client that drags leaves of the other side.
<1>2. ASSUME NEW c \in Clients, NEW next \in [Keys -> Contents], emit(c, next)
      PROVE  /\ \A e \in Clients \ {c} : sent'[e] = sent[e]
             /\ \A e \in Clients : superseded'[e] \subseteq superseded[e]
             /\ UNCHANGED <<read, log, pos>>
  <2>1. superseded' = [superseded EXCEPT ![c] = @ \ castKeys(c, next)]
    BY <1>2 DEF emit, onLocalAll
  <2>2. \A e \in Clients : superseded'[e] \subseteq superseded[e]
    BY <1>0, <2>1
  <2>3. \A e \in Clients \ {c} : sent'[e] = sent[e]
    BY <1>0, <1>2, EmitSends
  <2> QED
    BY <1>2, <2>2, <2>3 DEF emit
<1>3. ASSUME NEW c \in Clients, NEW k \in Keys, NEW v \in Contents, PubEdit(c, k, v)
      PROVE  Goal
  <2>1. dragging = {} /\ dragging' = {} /\ frame' = [frame EXCEPT ![c] = NoFrame]
    BY <1>3 DEF PubEdit, mayEdit, publishNow
  <2> QED
    BY <1>0, <1>1, <2>1
<1>4. ASSUME NEW c \in Clients, NEW k \in Keys, NEW v \in Contents, DragFrame(c, k, v)
      PROVE  Goal
  <2>1. c \in dragging /\ dragging = {c} /\ dragging' = {c} /\ publishThrottled(c, canvas'[c])
        /\ canvas'[c] \in [Keys -> Contents]
    <3>1. /\ c \in dragging /\ dragging \subseteq {c} /\ dragging' = dragging
          /\ publishThrottled(c, canvas'[c])
      BY <1>4 DEF DragFrame, mayEdit
    <3>2. canvas'[c] \in [Keys -> Contents]
      BY <1>0 DEF PubTypeInv, TypeInv, TypeOK
    <3> QED
      BY <3>1, <3>2
  <2>2. frame' = [frame EXCEPT ![c] = canvas'[c]] \/ frame' = frame
    BY <2>1 DEF publishThrottled
  <2>3. frame'[d] # NoFrame => d = c
    BY <1>0, <1>1, <2>1, <2>2
  <2>4. CASE c \in timer
    BY <1>1, <2>1, <2>3, <2>4 DEF publishThrottled, emitNothing, order
  <2>5. CASE c \notin timer
    <3>1. emit(c, canvas'[c])
      BY <2>1, <2>5 DEF publishThrottled
    <3>2. /\ \A e \in Clients \ {c} : sent'[e] = sent[e]
          /\ \A e \in Clients : superseded'[e] \subseteq superseded[e]
          /\ UNCHANGED <<read, log, pos>>
      BY <1>2, <2>1, <3>1
    <3>3. d \in dragging' => d = c /\ superseded'[d] = {}
      BY <1>1, <2>1, <3>2
    <3> QED
      BY <1>1, <2>1, <2>3, <3>2, <3>3
  <2> QED
    BY <2>4, <2>5
<1>5. ASSUME NEW c \in Clients, sendFrame(c),
             dragging' = dragging \/ (c \in dragging /\ dragging' = dragging \ {c})
      PROVE  Goal
  <2>1. frame'[c] = NoFrame /\ (d # c => frame'[d] = frame[d])
    BY <1>0, <1>5 DEF sendFrame
  <2>2. frame'[d] # NoFrame => d \in dragging'
    BY <1>1, <1>5, <2>1
  <2>3. CASE frame[c] = NoFrame
    <3>1. UNCHANGED <<superseded, read, sent, log, pos>>
      BY <1>5, <2>3 DEF sendFrame, emitNothing, order
    <3>2. d \in dragging' => d \in dragging /\ dragging' = {d}
      BY <1>1, <1>5
    <3> QED
      BY <1>1, <2>2, <3>1, <3>2
  <2>4. CASE frame[c] # NoFrame
    <3>1. dragging = {c}
      BY <2>4 DEF DragInv
    <3>2. emit(c, frame[c]) /\ frame[c] \in [Keys -> Contents]
      BY <1>0, <1>5, <2>4 DEF sendFrame
    <3>3. /\ \A e \in Clients \ {c} : sent'[e] = sent[e]
          /\ \A e \in Clients : superseded'[e] \subseteq superseded[e]
          /\ UNCHANGED <<read, log, pos>>
      BY <1>2, <3>2
    <3>4. d \in dragging' => d = c /\ dragging' = {d} /\ superseded'[d] = {}
      BY <1>1, <1>5, <3>1, <3>3
    <3> QED
      BY <1>1, <2>2, <3>1, <3>3, <3>4
  <2> QED
    BY <2>3, <2>4
<1>6. ASSUME NEW c \in Clients, DragStart(c)
      PROVE  Goal
  <2>1. /\ dragging = {} /\ superseded[c] = {} /\ pos[c] = Len(log)
        /\ \A e \in Clients \ {c} : read[e] = Len(sent[e])
        /\ dragging' = {c}
        /\ UNCHANGED <<superseded, read, sent, log, pos, frame>>
    BY <1>6 DEF DragStart, vars, order
  <2>2. pos[c] \in Nat /\ Len(log) \in Nat
    BY <1>0, Entries
  <2>3. \A i \in (pos[c] + 1)..Len(log) : log[i].src = c
    BY <2>1, <2>2
  <2> QED
    BY <1>1, <2>1, <2>3
<1>7. ASSUME NEW c \in Clients, Receive(c)
      PROVE  Goal
  <2>1. /\ dragging' = dragging
        /\ d # c => frame'[d] = frame[d]
        /\ d = c => frame'[d] = frame[d] \/ frame'[d] = NoFrame \/ d \in dragging
    BY <1>0, <1>7, ReceiveStep
  <2>2. frame'[d] # NoFrame => d \in dragging'
    BY <1>1, <2>1
  <2>3. pos[c] < Len(log) /\ UNCHANGED <<sent, read, log>> /\ pos' = [pos EXCEPT ![c] = pos[c] + 1]
    BY <1>7 DEF Receive, AckEcho, PeerMutation, advance
  <2>4. pos \in [Clients -> Nat] /\ Len(log) \in Nat /\ pos[c] \in Nat
    BY <1>0, Entries DEF TypeInv, TypeOK
  <2>5. ASSUME d \in dragging
        PROVE  superseded'[d] = {} /\ \A i \in (pos'[d] + 1)..Len(log) : log[i].src = d
    <3>1. PICK m : m = log[pos[c] + 1]
      OBVIOUS
    <3>2. PICK S : superseded' = [superseded EXCEPT ![c] = S]
      BY <1>7 DEF Receive, AckEcho, PeerMutation
    <3>3. CASE d # c
      BY <1>0, <1>1, <2>3, <2>4, <2>5, <3>2, <3>3
    <3>4. CASE d = c
      <4>1. log[pos[c] + 1].src = c
        BY <1>1, <2>3, <2>4, <2>5, <3>4
      <4>2. AckEcho(c)
        BY <1>7, <4>1 DEF Receive, PeerMutation
      <4>3. superseded'[c] \subseteq superseded[c]
        BY <1>0, <4>2 DEF AckEcho
      <4>4. pos'[c] = pos[c] + 1
        BY <2>3, <2>4
      <4>5. \A i \in (pos[c] + 1 + 1)..Len(log) : i \in (pos[c] + 1)..Len(log)
        BY <2>4
      <4> QED
        BY <1>1, <2>5, <3>4, <4>3, <4>4, <4>5
    <3> QED
      BY <3>3, <3>4
  <2> QED
    BY <1>1, <2>1, <2>2, <2>3, <2>5
<1>8. ASSUME NEW c \in Clients, Reflect(c), UNCHANGED publisher
      PROVE  Goal
  <2>1. /\ UNCHANGED <<frame, dragging, superseded, sent, pos>>
        /\ read' = [read EXCEPT ![c] = @ + 1]
        /\ read[c] < Len(sent[c])
    BY <1>8 DEF Reflect, order, publisher
  <2>2. PICK m : /\ log' = Append(log, m)
                 /\ m \in Mutation /\ m.src = c
    BY <1>0, <1>8, StampedAsCast DEF Reflect
  <2>3. ASSUME d \in dragging
        PROVE  /\ \A e \in Clients \ {d} : read'[e] = Len(sent[e])
               /\ \A i \in (pos[d] + 1)..Len(log') : log'[i].src = d
    <3>1. d = c
      <4>1. Len(sent[c]) \in Nat /\ read[c] \in Nat
        BY <1>0, Entries
      <4> QED
        BY <1>1, <2>1, <2>3, <4>1
    <3>2. \A e \in Clients \ {d} : read'[e] = read[e]
      BY <1>0, <2>1, <3>1 DEF TypeInv, TypeOK
    <3>3. /\ Len(log) \in Nat /\ pos[d] \in Nat
          /\ Len(log') = Len(log) + 1 /\ log'[Len(log) + 1] = m
          /\ \A i \in 1..Len(log) : log'[i] = log[i]
      BY <1>0, <2>2, Entries DEF TypeInv, TypeOK
    <3>4. ASSUME NEW i \in (pos[d] + 1)..Len(log')
          PROVE  log'[i].src = d
      <4>1. CASE i = Len(log) + 1
        BY <2>2, <3>1, <3>3, <4>1
      <4>2. CASE i # Len(log) + 1
        <5>1. i \in (pos[d] + 1)..Len(log) /\ i \in 1..Len(log)
          BY <3>3, <4>2
        <5> QED
          BY <1>1, <2>3, <3>3, <5>1
      <4> QED
        BY <4>1, <4>2
    <3> QED
      BY <1>1, <2>3, <3>2, <3>4
  <2> QED
    BY <1>1, <2>1, <2>3
<1>9. ASSUME UNCHANGED <<frame, dragging, superseded, sent, read, log, pos>>
      PROVE  Goal
  BY <1>1, <1>9
<1>10. ASSUME NEW c \in Clients, NEW k \in Keys, TtlLapse(c, k), UNCHANGED publisher
       PROVE  Goal
  BY <1>9, <1>10 DEF TtlLapse, publisher
<1>11. ASSUME UNCHANGED pubVars
       PROVE  Goal
  BY <1>9, <1>11 DEF pubVars, vars, order, publisher
<1>12. ASSUME NEW c \in Clients, ThrottleTimer(c) \/ DragStop(c)
       PROVE  Goal
  BY <1>5, <1>12 DEF ThrottleTimer, DragStop
<1> HIDE DEF Goal
<1>13. Goal
  BY <1>3, <1>4, <1>6, <1>7, <1>8, <1>10, <1>11, <1>12 DEF PubNext
<1> QED
  BY <1>13 DEF Goal

PubConvergeInv ==
  /\ PubBaseInv
  /\ UnpublishedIsOwed
  /\ DragInv
  /\ \A c \in Clients : \A k \in Keys : PubKeyInv(c, k)

LEMMA InitPubConvergeInv == PubInit => PubConvergeInv
<1> SUFFICES ASSUME PubInit
             PROVE  PubConvergeInv
  OBVIOUS
<1>1. PubBaseInv
  BY InitBaseInv, InitPubTypeInv DEF PubInit, PubBaseInv, PubTypeInv
<1>2. UnpublishedIsOwed /\ DragInv
  BY DEF PubInit, UnpublishedIsOwed, DragInv
<1>3. \A c \in Clients : \A k \in Keys : Unacked(c, k) = {}
  BY DEF PubInit, Init, Unacked
<1>4. ASSUME NEW c \in Clients, NEW k \in Keys
      PROVE  PubKeyInv(c, k)
  <2>1. base[c][k] = Now(c, k) /\ superseded[c] = {}
    BY DEF PubInit, Init, Now
  <2> QED
    BY <1>3, <2>1 DEF PubKeyInv, RemovesLast, KnowsTomb, OwedKey, Agrees
<1> QED
  BY <1>1, <1>2, <1>4 DEF PubConvergeInv

LEMMA NextPubConvergeInv ==
  ASSUME ~UndoBeforeAck, DragsApart, PubConvergeInv, [PubNext]_pubVars
  PROVE  PubConvergeInv'
<1>1. PubBaseInv /\ PubBaseInv' /\ UnpublishedIsOwed /\ DragInv
      /\ \A c \in Clients : \A k \in Keys : PubKeyInv(c, k)
  BY NextPubBaseInv DEF PubConvergeInv
<1>2. PubTypeInv /\ PubTypeInv'
  BY <1>1 DEF PubBaseInv, BaseInv, CoreInv, PubTypeInv
<1>3. UnpublishedIsOwed'
  BY <1>1, <1>2, NextUnpublishedIsOwed
<1>4. DragInv'
  BY <1>1, NextDragInv
<1>5. \A c \in Clients : \A k \in Keys : PubKeyInv(c, k)'
  BY <1>1, NextPubKeyInv
<1> QED
  BY <1>1, <1>3, <1>4, <1>5 DEF PubConvergeInv

LEMMA PubConvergeInvConverges == PubConvergeInv => PublishConvergence
<1> SUFFICES ASSUME PubConvergeInv, Quiescent, PublisherIdle, NEW k \in Keys, Castable(k),
                    NEW c \in Clients, NEW d \in Clients
             PROVE  canvas[c][k] = canvas[d][k]
  BY DEF PublishConvergence
<1>1. ASSUME NEW e \in Clients
      PROVE  canvas[e][k] = truth[Len(log) + 1][k]
  <2>1. canvas[e][k] \notin Oversized /\ frame[e] = NoFrame
    BY DEF Castable, PublisherIdle
  <2>2. canvas[e][k] = base[e][k]
    BY <2>1 DEF PubConvergeInv, UnpublishedIsOwed
  <2>3. Agrees(e, k, base[e][k])
    BY <2>1, <2>2 DEF PubConvergeInv, PubKeyInv
  <2>4. Unacked(e, k) = {}
    BY QuiescentUnacked DEF PubConvergeInv, PubBaseInv
  <2>5. pos[e] = Len(log)
    BY DEF Quiescent
  <2> QED
    BY <2>2, <2>3, <2>4, <2>5 DEF Agrees, Now
<1> QED
  BY <1>1

\* No edit is lost between the canvas and its publisher: once everything is
\* out and delivered, all clients show the same content of every castable key,
\* as long as drags keep apart from the mutations of others and no client
\* brings a key back before its own remove of it is acknowledged.
THEOREM PublishersConverge ==
  ~UndoBeforeAck /\ DragsApart => (PubSpec => []PublishConvergence)
<1> SUFFICES ASSUME ~UndoBeforeAck, DragsApart
             PROVE  PubSpec => []PublishConvergence
  OBVIOUS
<1>1. PubConvergeInv /\ [PubNext]_pubVars => PubConvergeInv'
  BY NextPubConvergeInv
<1> QED
  BY <1>1, InitPubConvergeInv, PubConvergeInvConverges, PTL DEF PubSpec

=============================================================================

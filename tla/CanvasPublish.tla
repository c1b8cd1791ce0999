---------------------------- MODULE CanvasPublish ----------------------------
(***************************************************************************)
(* CanvasSync with the emitting side spelled out: the snapshot publisher   *)
(* of src/shared/canvas-publish.ts, between a client's canvas and its      *)
(* casts.  The publisher diffs each settled snapshot against a baseline,   *)
(* coalesces drag frames, keeps what the size guard refused owed, and      *)
(* adopts the canvas as its baseline whenever a peer's mutation changed    *)
(* it.                                                                     *)
(*                                                                         *)
(* Every client knows of a peer from the start (the solo gate is open) and *)
(* shows the project (Background is empty).                                *)
(***************************************************************************)
EXTENDS CanvasSync, SequencesExt

CONSTANTS
  Oversized,  \* contents the size guard refuses to cast
  Drags,      \* may clients drag, i.e. publish throttled?
  DragsApart, \* do drags keep apart from the mutations of other clients?
  NoFrame     \* no coalesced drag frame

ASSUME PublishConstants ==
  /\ Oversized \subseteq Values
  /\ Drags \in BOOLEAN /\ DragsApart \in BOOLEAN
  /\ Background = {}
  /\ IsFiniteSet(Keys)
  /\ NoFrame \notin [Keys -> Contents]

VARIABLES
  base,      \* base[c]: the publisher's baseline (`last')
  frame,     \* frame[c]: the coalesced snapshot (`pending'), or NoFrame
  timer,     \* clients whose throttle timer is armed
  dragging   \* clients with a drag in progress

publisher == <<base, frame, timer, dragging>>
pubVars == <<vars, publisher>>

PublisherTypeOK ==
  /\ TypeOK
  /\ base \in [Clients -> [Keys -> Contents]]
  /\ frame \in [Clients -> [Keys -> Contents] \cup {NoFrame}]
  /\ timer \subseteq Clients
  /\ dragging \subseteq Clients

PubInit ==
  /\ Init
  /\ base = canvas                      \* loading a project adopts it
  /\ frame = [c \in Clients |-> NoFrame]
  /\ timer = {}
  /\ dragging = {}

-----------------------------------------------------------------------------
\* diffToMutations: the keys in changed, additions and updates before removes.
diffToMutations(next, changed) ==
  LET upserts == {k \in changed : next[k] # Absent}
  IN  SetToSeq(upserts) \o SetToSeq(changed \ upserts)

\* send refuses a mutation the reflector would drop at ingest.
refused(next, k) == next[k] \in Oversized

castKeys(c, next) == {k \in Keys : base[c][k] # next[k] /\ ~refused(next, k)}

\* What emit casts: the changed keys that are not refused, in diff order.
casts(c, next) ==
  LET muts == diffToMutations(next, castKeys(c, next))
  IN  [i \in DOMAIN muts |->
         [stamp(c, muts[i], next[muts[i]]) EXCEPT !.nth = Len(sent[c]) + i]]

\* onLocal, once for every key in keys.
onLocalAll(c, keys) ==
  /\ pending' = [pending EXCEPT ![c] = [k \in Keys |-> IF k \in keys THEN @[k] + 1 ELSE @[k]]]
  /\ lapsed' = [lapsed EXCEPT ![c] = @ \ keys]
  /\ superseded' = [superseded EXCEPT ![c] = @ \ keys]
  /\ UNCHANGED <<seen, removed, lastSeq>>

\* Mutant: a refused mutation is recorded as cast and pending.
emit_RefusedPending(c, next) ==
  /\ sent' = [sent EXCEPT ![c] = @ \o casts(c, next)]
  /\ onLocalAll(c, {k \in Keys : base[c][k] # next[k]})
  /\ base' = [base EXCEPT ![c] = [k \in Keys |-> IF refused(next, k) THEN @[k] ELSE next[k]]]
  /\ UNCHANGED <<read, log, pos, history>>

\* emit: cast the diff and advance the baseline, over everything but what was refused.
emit(c, next) ==
  /\ sent' = [sent EXCEPT ![c] = @ \o casts(c, next)]
  /\ onLocalAll(c, castKeys(c, next))
  /\ base' = [base EXCEPT ![c] = [k \in Keys |-> IF refused(next, k) THEN @[k] ELSE next[k]]]
  /\ UNCHANGED <<read, log, pos, history>>

emitNothing == UNCHANGED <<read, log, pos, order, history, sent, base>>

\* Mutant: a frame inside the throttle window is dropped, not coalesced.
publishThrottled_Drops(c, next) ==
  IF c \in timer
  THEN emitNothing /\ UNCHANGED <<timer, frame>>
  ELSE emit(c, next) /\ timer' = timer \cup {c} /\ UNCHANGED frame

\* publish(next, {throttle: true}): lead, then coalesce until the timer.
publishThrottled(c, next) ==
  IF c \in timer
  THEN frame' = [frame EXCEPT ![c] = next] /\ emitNothing /\ UNCHANGED timer
  ELSE emit(c, next) /\ timer' = timer \cup {c} /\ UNCHANGED frame

\* publish(next): at once, and over any coalesced frame.
publishNow(c, next) ==
  /\ emit(c, next)
  /\ timer' = timer \ {c}
  /\ frame' = [frame EXCEPT ![c] = NoFrame]

\* What a user may do to a key: as in CanvasSync, within the bound on casts.
\* The workload switch DragsApart keeps the other clients still during a drag.
mayEdit(c, k, v) ==
  /\ DragsApart => dragging \subseteq {c}
  /\ v # canvas[c][k]
  /\ Len(sent[c]) + Cardinality({j \in Keys : base[c][j] # canvas[c][j]}) < MaxCasts[c]
  /\ UndoBeforeAck \/ v = Absent \/ ~RemoveInFlight(c, k)

\* Any change outside a drag: the effect publishes the settled snapshot.
PubEdit(c, k, v) ==
  /\ c \notin dragging
  /\ mayEdit(c, k, v)
  /\ canvas' = [canvas EXCEPT ![c][k] = v]
  /\ publishNow(c, canvas'[c])
  /\ UNCHANGED dragging

DragStart(c) ==
  /\ Drags
  /\ c \notin dragging
  /\ DragsApart =>
       /\ dragging = {} /\ superseded[c] = {} /\ pos[c] = Len(log)
       /\ \A d \in Clients \ {c} : read[d] = Len(sent[d])
  /\ Len(sent[c]) < MaxCasts[c]
  /\ dragging' = dragging \cup {c}
  /\ UNCHANGED <<vars, base, frame, timer>>

\* A drag moves a node that is on the canvas; the effect publishes throttled.
DragFrame(c, k, v) ==
  /\ c \in dragging
  /\ canvas[c][k] # Absent
  /\ v # Absent
  /\ mayEdit(c, k, v)
  /\ canvas' = [canvas EXCEPT ![c][k] = v]
  /\ publishThrottled(c, canvas'[c])
  /\ UNCHANGED dragging

\* Mutant: the timer is cleared and the frame stays behind.
sendFrame_Stuck(c) == timer' = timer \ {c} /\ emitNothing /\ UNCHANGED frame

\* flush and onTimer: the timer is gone and a coalesced frame goes out.
sendFrame(c) ==
  /\ timer' = timer \ {c}
  /\ IF frame[c] = NoFrame
     THEN emitNothing /\ UNCHANGED frame
     ELSE emit(c, frame[c]) /\ frame' = [frame EXCEPT ![c] = NoFrame]

ThrottleTimer(c) ==
  /\ c \in timer
  /\ sendFrame(c)
  /\ UNCHANGED <<canvas, dragging>>

DragStop(c) ==
  /\ c \in dragging
  /\ dragging' = dragging \ {c}
  /\ sendFrame(c)
  /\ UNCHANGED canvas

\* adopt, when a mutation off the wire was applied: the canvas becomes the
\* baseline and the coalesced frame is dropped.  The publish effect that
\* follows diffs to nothing, but arms the timer of a client that drags and
\* clears it otherwise.
adopt(c) ==
  /\ base' = [base EXCEPT ![c] = canvas'[c]]
  /\ IF c \in dragging
     THEN IF c \in timer
          THEN frame' = [frame EXCEPT ![c] = canvas'[c]] /\ UNCHANGED timer
          ELSE frame' = [frame EXCEPT ![c] = NoFrame] /\ timer' = timer \cup {c}
     ELSE frame' = [frame EXCEPT ![c] = NoFrame] /\ timer' = timer \ {c}
  /\ UNCHANGED dragging

\* Canvas's receiving effect: accept, apply, adopt.  Removing what is not
\* there leaves the canvas array as it was and returns early.
Receive(c) ==
  /\ AckEcho(c) \/ PeerMutation(c)
  /\ LET seq == pos[c] + 1
         m == log[seq]
         accepted == IF m.src = c THEN repairs(c, m, seq) ELSE acceptsPeer(c, m, seq)
     IN  IF accepted /\ ~(isRemove(m) /\ canvas[c][m.key] = Absent)
         THEN adopt(c)
         ELSE UNCHANGED publisher

PubNext ==
  \E c \in Clients :
    \/ \E k \in Keys : \E v \in Contents : PubEdit(c, k, v) \/ DragFrame(c, k, v)
    \/ DragStart(c)
    \/ DragStop(c)
    \/ ThrottleTimer(c)
    \/ Receive(c)
    \/ Reflect(c) /\ UNCHANGED publisher
    \/ \E k \in Keys : TtlLapse(c, k) /\ UNCHANGED publisher

PubSpec == PubInit /\ [][PubNext]_pubVars

\* The timer fires, the reflector reads and clients process what reaches them.
PubFairSpec ==
  /\ PubSpec
  /\ \A c \in Clients :
       /\ WF_pubVars(ThrottleTimer(c))
       /\ WF_pubVars(Receive(c))
       /\ WF_pubVars(Reflect(c) /\ UNCHANGED publisher)

-----------------------------------------------------------------------------
(* Properties.                                                              *)

PublisherIdle == \A c \in Clients : frame[c] = NoFrame /\ c \notin dragging

\* A key no client holds content for that the size guard refuses.
Castable(k) == \A c \in Clients : canvas[c][k] \notin Oversized

\* Once every drag is over, every coalesced frame is out and every mutation
\* is delivered, all clients show the same content for every castable key:
\* no edit is lost between the canvas and its publisher ("all clients
\* converge on the same node set", Canvas.tsx:4322).
PublishConvergence ==
  Quiescent /\ PublisherIdle =>
    \A c, d \in Clients : \A k \in Keys :
      Castable(k) => canvas[c][k] = canvas[d][k]

\* Whatever a client shows beyond its baseline is owed: castable content is
\* held by the coalesced frame, and a coalesced frame has a timer to send it.
UnpublishedIsOwed ==
  \A c \in Clients :
    /\ frame[c] # NoFrame => c \in timer /\ frame[c] = canvas[c]
    /\ \A k \in Keys :
         canvas[c][k] \notin Oversized /\ canvas[c][k] # base[c][k] => frame[c] # NoFrame

\* A drag's last coalesced frame leaves the client even if the pointer never
\* moves again.
FrameGoesOut == \A c \in Clients : frame[c] # NoFrame ~> frame[c] = NoFrame
=============================================================================

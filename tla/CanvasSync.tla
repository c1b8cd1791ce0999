----------------------------- MODULE CanvasSync -----------------------------
(***************************************************************************)
(* Team canvas sync: the reflector of src/core/canvas-sync.ts, the         *)
(* ordering state every client keeps (src/shared/canvas-order.ts) and the  *)
(* Canvas effects that wire the two (src/renderer/canvas/Canvas.tsx).      *)
(*                                                                         *)
(* A client edits its own canvas at once, casts the mutation and later     *)
(* hears every client's mutations, its own included, in one total order.   *)
(* Both directions of a connection are FIFO and lossless while it lasts    *)
(* (IPC, WebSocket), so each is an immutable sequence with a read          *)
(* position: `sent[c]' with `read[c]' towards the reflector, and `log'     *)
(* with `pos[c]' towards a client, for the reflector sends every stamped   *)
(* mutation to every client.  A mutation's `seq' is its index in `log'.    *)
(***************************************************************************)
EXTENDS Naturals, Sequences, FiniteSets

CONSTANTS
  Clients,        \* the attached clients (their publisher tags `src')
  Keys,           \* what a mutation addresses: mutationKey of a node, an edge or a link
  Values,         \* serialized contents of a node, edge or link
  Absent,         \* the key is not on the canvas; as a mutation's value: a remove
  Background,     \* clients that hold the project but show another one
  EventKeys,      \* nodes that carry a creationEventId
  RemovedMax,     \* REMOVED_MAX: how many removed keys stay judgeable
  MaxCasts,       \* MaxCasts[c] bounds the mutations client c casts in a behaviour
  UndoBeforeAck   \* may a client put back a key whose own remove is still unacked?

ASSUME CanvasConstants ==
  /\ Absent \notin Values
  /\ Background \subseteq Clients
  /\ EventKeys \subseteq Keys
  /\ RemovedMax \in Nat \ {0}
  /\ MaxCasts \in [Clients -> Nat]
  /\ UndoBeforeAck \in BOOLEAN

VARIABLES
  canvas,      \* canvas[c][k]: what client c shows, and would save
  sent,        \* sent[c]: c's casts
  read,        \* read[c]: how many of them the reflector has read
  log,         \* the mutations in the order the reflector stamped them
  pos,         \* pos[c]: how much of log c has processed
  seen,        \* seen[c][k]: highest seq c has seen for k (0: none)
  pending,     \* pending[c][k]: c's casts for k not echoed back yet (0: no entry)
  lapsed,      \* lapsed[c]: keys whose pending entry outlived PENDING_TTL_MS
  superseded,  \* superseded[c]: keys whose optimistic value a peer overwrote (rule 3)
  removed,     \* removed[c][k]: the seq a remove of k was ordered at (0: no entry; rule 4)
  lastSeq,     \* lastSeq[c]: highest seq c has processed, stamped on its casts
  truth,       \* history: truth[i+1] is the canvas the first i mutations settle on
  tombs        \* history: tombs[i+1][k] is the seq of the remove that then holds k down

order == <<seen, pending, lapsed, superseded, removed, lastSeq>>
history == <<truth, tombs>>
vars == <<canvas, sent, read, log, pos, order, history>>

Contents == Values \cup {Absent}
\* `nth', which cast of its sender a mutation is, is there for the proofs only.
Mutation == [src : Clients, key : Keys, val : Contents, seen : Nat, nth : Nat]

isRemove(m) == m.val = Absent
isUpsert(m) == m.val # Absent

TypeOK ==
  /\ canvas \in [Clients -> [Keys -> Contents]]
  /\ sent \in [Clients -> Seq(Mutation)]
  /\ read \in [Clients -> Nat]
  /\ log \in Seq(Mutation)
  /\ pos \in [Clients -> Nat]
  /\ seen \in [Clients -> [Keys -> Nat]]
  /\ pending \in [Clients -> [Keys -> Nat]]
  /\ lapsed \in [Clients -> SUBSET Keys]
  /\ superseded \in [Clients -> SUBSET Keys]
  /\ removed \in [Clients -> [Keys -> Nat]]
  /\ lastSeq \in [Clients -> Nat]
  /\ truth \in Seq([Keys -> Contents])
  /\ tombs \in Seq([Keys -> Nat])

Init ==
  /\ \E start \in [Keys -> Contents] :
       /\ canvas = [c \in Clients |-> start]
       /\ truth = <<start>>
  /\ tombs = <<[k \in Keys |-> 0]>>
  /\ sent = [c \in Clients |-> <<>>]
  /\ read = [c \in Clients |-> 0]
  /\ log = <<>>
  /\ pos = [c \in Clients |-> 0]
  /\ seen = [c \in Clients |-> [k \in Keys |-> 0]]
  /\ pending = [c \in Clients |-> [k \in Keys |-> 0]]
  /\ lapsed = [c \in Clients |-> {}]
  /\ superseded = [c \in Clients |-> {}]
  /\ removed = [c \in Clients |-> [k \in Keys |-> 0]]
  /\ lastSeq = [c \in Clients |-> 0]

-----------------------------------------------------------------------------
(* Casting: stamp, then onLocal, then the cast itself.                      *)

stamp(c, k, v) ==
  [src |-> c, key |-> k, val |-> v, seen |-> lastSeq[c], nth |-> Len(sent[c]) + 1]

\* Mutant: a second unacked cast of a key does not raise its count.
onLocal_CountsOnce(c, k) ==
  /\ pending' = [pending EXCEPT ![c][k] = 1]
  /\ lapsed' = [lapsed EXCEPT ![c] = @ \ {k}]
  /\ superseded' = [superseded EXCEPT ![c] = @ \ {k}]
  /\ UNCHANGED <<seen, removed, lastSeq>>

onLocal(c, k) ==
  /\ pending' = [pending EXCEPT ![c][k] = @ + 1]
  /\ lapsed' = [lapsed EXCEPT ![c] = @ \ {k}]
  /\ superseded' = [superseded EXCEPT ![c] = @ \ {k}]
  /\ UNCHANGED <<seen, removed, lastSeq>>

\* A remove of k that c has cast and not had acknowledged.
RemoveInFlight(c, k) ==
  \/ \E i \in (read[c] + 1)..Len(sent[c]) : sent[c][i].key = k /\ isRemove(sent[c][i])
  \/ \E i \in (pos[c] + 1)..Len(log) :
       log[i].src = c /\ log[i].key = k /\ isRemove(log[i])

\* A settled local edit: the canvas changes and the publish effect casts the
\* one mutation the diff yields.  The workload switch UndoBeforeAck decides
\* whether users may bring a key back before their own remove of it is acked.
Edit(c, k, v) ==
  /\ c \notin Background
  /\ v # canvas[c][k]
  /\ Len(sent[c]) < MaxCasts[c]
  /\ UndoBeforeAck \/ v = Absent \/ ~RemoveInFlight(c, k)
  /\ canvas' = [canvas EXCEPT ![c][k] = v]
  /\ onLocal(c, k)
  /\ sent' = [sent EXCEPT ![c] = Append(@, stamp(c, k, v))]
  /\ UNCHANGED <<read, log, pos, history>>

\* removed.set(k, seq), evicting the oldest entry past the cap.  Entries are
\* inserted in seq order, so the oldest is the one with the smallest seq.
noteRemoved(entries, k, seq) ==
  LET marked == [entries EXCEPT ![k] = seq]
      held == {j \in Keys : marked[j] # 0}
      oldest == CHOOSE j \in held : \A i \in held : marked[j] <= marked[i]
  IN  IF Cardinality(held) > RemovedMax
      THEN [marked EXCEPT ![oldest] = 0]
      ELSE marked

-----------------------------------------------------------------------------
(* The reflector.                                                           *)

\* Mutant: the clamp is one too low.
stampMutation_OffByOne(m, seq) == [m EXCEPT !.seen = IF @ >= seq - 1 THEN seq - 2 ELSE @]

\* The sender can only have seen what was ordered before its mutation.
stampMutation(m, seq) == [m EXCEPT !.seen = IF @ >= seq THEN seq - 1 ELSE @]

\* What the canvas and the removes in force become once m is ordered at seq:
\* the highest seq wins a key, except an upsert cast in ignorance of a remove.
settle(m, seq) ==
  LET k == m.key
      now == truth[seq]
      tomb == tombs[seq]
      ignorant == isUpsert(m) /\ tomb[k] # 0 /\ m.seen < tomb[k]
  IN  /\ truth' = Append(truth, IF ignorant THEN now ELSE [now EXCEPT ![k] = m.val])
      /\ tombs' = Append(tombs, IF isRemove(m) THEN noteRemoved(tomb, k, seq)
                                ELSE IF ignorant THEN tomb
                                ELSE [tomb EXCEPT ![k] = 0])

Reflect(c) ==
  /\ read[c] < Len(sent[c])
  /\ LET seq == Len(log) + 1
         m == stampMutation(sent[c][read[c] + 1], seq)
     IN  /\ log' = Append(log, m)
         /\ settle(m, seq)
  /\ read' = [read EXCEPT ![c] = @ + 1]
  /\ UNCHANGED <<canvas, sent, pos, order>>

-----------------------------------------------------------------------------
(* Receiving: accept and, if it says so, apply.                             *)

\* Rule 4: the upsert was cast in ignorance of the remove c knows of.
supersededByRemove(c, m) ==
  /\ isUpsert(m)
  /\ removed[c][m.key] # 0
  /\ m.seen < removed[c][m.key]

\* Rule 2: c's own unacked mutation of the key holds peers off.
suppressing(c, k) == pending[c][k] > 0 /\ k \notin lapsed[c]

\* Mutant: a stale frame clears the record of the remove it lost to.
advance_StaleClears(c, m, seq) ==
  LET k == m.key
      current == seq > seen[c][k]
  IN  /\ pos' = [pos EXCEPT ![c] = seq]
      /\ seen' = [seen EXCEPT ![c][k] = IF current THEN seq ELSE @]
      /\ lastSeq' = [lastSeq EXCEPT ![c] = IF seq > @ THEN seq ELSE @]
      /\ removed' =
           IF ~current THEN removed
           ELSE IF isRemove(m) THEN [removed EXCEPT ![c] = noteRemoved(@, k, seq)]
           ELSE [removed EXCEPT ![c][k] = 0]

\* The part of accept that runs for every mutation: c's place in the order
\* and rule 4's bookkeeping.  Only a current mutation moves the latter.
advance(c, m, seq) ==
  LET k == m.key
      current == seq > seen[c][k]
  IN  /\ pos' = [pos EXCEPT ![c] = seq]
      /\ seen' = [seen EXCEPT ![c][k] = IF current THEN seq ELSE @]
      /\ lastSeq' = [lastSeq EXCEPT ![c] = IF seq > @ THEN seq ELSE @]
      /\ removed' =
           IF ~current THEN removed
           ELSE IF isRemove(m) THEN [removed EXCEPT ![c] = noteRemoved(@, k, seq)]
           ELSE IF supersededByRemove(c, m) THEN removed
           ELSE [removed EXCEPT ![c][k] = 0]

\* What applying m leaves of key k on c's canvas.  A background project is
\* patched in the store, where an upsert of a creation event that is already
\* present is taken for a retry and ignored.
applied(c, m) ==
  IF /\ c \in Background
     /\ isUpsert(m)
     /\ m.key \in EventKeys
     /\ canvas[c][m.key] # Absent
  THEN canvas[c][m.key]
  ELSE m.val

\* Mutant: an echo is an ack and nothing else, rule 3 is gone.
repairs_Never(c, m, seq) == FALSE

\* Mutant: every echo is applied again, rule 1 is gone.
repairs_Always(c, m, seq) == seq > seen[c][m.key] /\ ~supersededByRemove(c, m)

\* Our own echo is the repair of a value a peer overwrote (rule 3).
repairs(c, m, seq) ==
  /\ m.key \in superseded[c]
  /\ seq > seen[c][m.key]
  /\ ~supersededByRemove(c, m)

\* Our own echo: an ack (rule 1), or a repair.
AckEcho(c) ==
  /\ pos[c] < Len(log)
  /\ LET seq == pos[c] + 1
         m == log[seq]
         k == m.key
     IN  /\ m.src = c
         /\ advance(c, m, seq)
         /\ pending' = [pending EXCEPT ![c][k] = IF @ > 0 THEN @ - 1 ELSE @]
         /\ superseded' = [superseded EXCEPT ![c] = IF pending[c][k] = 1 THEN @ \ {k} ELSE @]
         /\ lapsed' = [lapsed EXCEPT ![c] = IF pending[c][k] = 1 THEN @ \ {k} ELSE @]
         /\ canvas' = [canvas EXCEPT ![c][k] = IF repairs(c, m, seq) THEN applied(c, m) ELSE @]
  /\ UNCHANGED <<sent, read, log, history>>

\* Mutant: a frame cast in ignorance of a delete is applied, rule 4 is gone.
acceptsPeer_StaleFrame(c, m, seq) ==
  seq > seen[c][m.key] /\ (isRemove(m) \/ ~suppressing(c, m.key))

\* Does accept let a peer's mutation through?
acceptsPeer(c, m, seq) ==
  /\ seq > seen[c][m.key]                          \* not a straggler
  /\ ~supersededByRemove(c, m)                     \* rule 4
  /\ isRemove(m) \/ ~suppressing(c, m.key)         \* rule 2, never for a remove

PeerMutation(c) ==
  /\ pos[c] < Len(log)
  /\ LET seq == pos[c] + 1
         m == log[seq]
         k == m.key
         accepted == acceptsPeer(c, m, seq)
     IN  /\ m.src # c
         /\ advance(c, m, seq)
         /\ superseded' = [superseded EXCEPT ![c] =
                             IF accepted /\ pending[c][k] > 0 THEN @ \cup {k} ELSE @]
         /\ canvas' = [canvas EXCEPT ![c][k] = IF accepted THEN applied(c, m) ELSE @]
  /\ UNCHANGED <<sent, read, log, pending, lapsed, history>>

\* The clock passes PENDING_TTL_MS after c's last cast for k.  The code reads
\* the clock only when a peer's mutation asks, which nobody can tell apart.
TtlLapse(c, k) ==
  /\ pending[c][k] > 0
  /\ k \notin lapsed[c]
  /\ lapsed' = [lapsed EXCEPT ![c] = @ \cup {k}]
  /\ UNCHANGED <<canvas, sent, read, log, pos, seen, pending, superseded, removed, lastSeq,
                 history>>

Next ==
  \E c \in Clients :
    \/ \E k \in Keys : \E v \in Contents : Edit(c, k, v)
    \/ Reflect(c)
    \/ AckEcho(c)
    \/ PeerMutation(c)
    \/ \E k \in Keys : TtlLapse(c, k)

Spec == Init /\ [][Next]_vars
-----------------------------------------------------------------------------
(* Properties.                                                              *)

Quiescent == \A c \in Clients : read[c] = Len(sent[c]) /\ pos[c] = Len(log)

\* Once every cast is reflected and every echo delivered, every client shows
\* (and would save) the same canvas: for each key the mutation with the
\* highest seq, other than frames cast in ignorance of a delete ("every
\* client ends on the mutation with the highest `seq' for that node",
\* canvas-order.ts:66).
Convergence == Quiescent => \A c \in Clients : canvas[c] = truth[Len(log) + 1]

\* Every client judges every mutation against the same record of removes,
\* whatever it had pending, lapsed or overwritten when it processed them:
\* rule 4's verdict depends on the total order alone.
VerdictAgreement == \A c \in Clients : removed[c] = tombs[pos[c] + 1]

\* The casts of c for k whose echo c has not processed.
Unacked(c, k) ==
  {i \in 1..Len(sent[c]) :
     /\ sent[c][i].key = k
     /\ \A j \in 1..pos[c] : ~(log[j].src = c /\ log[j].nth = i)}

\* The premise of rules 1 and 2: a client's pending count is exactly its
\* unacknowledged casts for the key, so it neither stays deaf to its peers
\* after its last ack nor hears them before.
PendingIsUnacked ==
  \A c \in Clients : \A k \in Keys : pending[c][k] = Cardinality(Unacked(c, k))

\* While one of its own edits is unacknowledged and no peer's mutation was
\* applied over it, a client shows its latest edit of the key: its echo,
\* the acks of older frames and suppressed peer frames never move it back.
OptimisticValueShown ==
  \A c \in Clients : \A k \in Keys \ superseded[c] :
    \A i \in Unacked(c, k) :
      (\A j \in Unacked(c, k) : j <= i) => canvas[c][k] = sent[c][i].val

\* A remove ordered at r that the record cannot have let go of by then: fewer
\* than RemovedMax other keys were removed since.
Judgeable(r, upto) ==
  Cardinality({log[j].key : j \in {i \in (r + 1)..upto : isRemove(log[i])}}
                \ {log[r].key}) < RemovedMax

\* Rule 4: a mutation off the wire brings a key back onto a canvas only if
\* its sender had processed every judgeable remove of that key ordered since
\* the last mutation that legitimately kept or made it alive.
NoResurrection ==
  [][\A c \in Clients : \A k \in Keys :
       (canvas[c][k] = Absent /\ canvas'[c][k] # Absent /\ pos'[c] # pos[c])
         => LET m == log[pos'[c]]
            IN  ~\E r \in 1..pos[c] :
                   /\ log[r].key = k /\ isRemove(log[r]) /\ Judgeable(r, pos[c])
                   /\ m.seen < r
                   /\ \A j \in (r + 1)..pos[c] :
                        log[j].key = k => isRemove(log[j]) \/ log[j].seen < r]_vars
=============================================================================

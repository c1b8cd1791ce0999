----------------------------- MODULE HostSession -----------------------------
(***************************************************************************)
(* One generation of a persisted terminal session, as the host process     *)
(* keeps it (session-host/session.ts, socket-flow.ts and the attach,       *)
(* detach, drain and close handlers of host.ts): which connections view    *)
(* it, who keeps its process paused, which size its terminal has and which *)
(* output a viewer has seen.                                               *)
(*                                                                         *)
(* The emulator applies output asynchronously, so writes, resizes and      *)
(* screen reads queue on one promise chain (outputTail).  An attach runs   *)
(* across it in steps, and a connection can go away between them.  The     *)
(* host runs the requests of one connection for a name one at a time, and  *)
(* the attaches of a name one at a time (socket-request-queue.ts, the      *)
(* generation coordinator), so at most one attach is under way.            *)
(***************************************************************************)
EXTENDS Integers, Sequences, FiniteSets, FiniteSetsExt

CONSTANTS
  Sockets,    \* connections of the host
  Geometries, \* sizes a viewer may ask for, <<cols, rows>>
  None,       \* no attach under way
  High, Low,  \* water marks of the emulator's queue, in chunks
  MaxEpoch,   \* bound: attaches and detaches of one connection
  MaxChunks,  \* bound: chunks of output
  MaxTail     \* bound: work queued on the emulator when a request starts

Sizes == (Nat \ {0}) \X (Nat \ {0})
Unclaimed == <<0, 0>>
Attaches == [socket : Sockets, epoch : Nat, paused : BOOLEAN, explicitPaused : BOOLEAN,
             subscribed : BOOLEAN, geometry : Sizes \cup {Unclaimed}]

ASSUME HostSessionAssumption ==
  /\ Geometries \subseteq Sizes
  /\ High \in Nat /\ Low \in Nat /\ Low < High
  /\ MaxEpoch \in Nat /\ MaxChunks \in Nat /\ MaxTail \in Nat
  /\ None \notin Attaches

VARIABLES
  subscribers,         \* connections that receive output
  explicitPauseOwners, \* connections that asked for a pause
  transportPauseOwners,\* connections whose socket buffer is full
  emulatorPauseOwner,  \* the emulator's queue passed the high water mark
  procPaused,          \* what the pty was last told: pause or resume
  geometryClaims,      \* connection -> the size it asked for, or Unclaimed
  appliedGeometry,     \* the size the pty was last resized to
  attachmentEpochs,    \* connection -> attaches and detaches so far
  outputTail,          \* work queued on the emulator
  attach,              \* the attach under way: who, and what to restore
  phase,               \* connection -> where its current request stands
  conn,                \* connection -> "open", "destroyed", "closed"
  needDrain,           \* connections whose last write returned false
  proc,                \* the process: "live" or "dead"
  exited,              \* its exit was observed
  disposed,            \* the generation was retired
  chunks,              \* output applied to the emulator so far
  seen                 \* connection -> output it has seen, in chunks

flow == <<explicitPauseOwners, transportPauseOwners, emulatorPauseOwner, procPaused>>
size == <<geometryClaims, appliedGeometry>>
life == <<proc, exited, disposed>>
vars == <<subscribers, flow, size, attachmentEpochs, outputTail, attach, phase,
          conn, needDrain, life, chunks, seen>>

-----------------------------------------------------------------------------
(* Flow: the pty is told to pause with the first owner, to resume with the last. *)

\* Mutant: a full socket buffer does not count.
HasPauseOwner_NoTransport == emulatorPauseOwner \/ explicitPauseOwners # {}

HasPauseOwner ==
  \/ emulatorPauseOwner
  \/ explicitPauseOwners # {}
  \/ transportPauseOwners # {}

\* The pty of a dead process throws, which is swallowed.
ReconcileProcFlow ==
  procPaused' = IF HasPauseOwner' # HasPauseOwner /\ proc = "live"
                THEN HasPauseOwner' ELSE procPaused

\* Mutant: only a subscriber may hold a ticket, as in pauseFor.
Ticket_SubscribersOnly(owners, s, held) ==
  IF held THEN owners \cup ({s} \cap subscribers) ELSE owners \ {s}

Ticket(owners, s, held) == IF held THEN owners \cup {s} ELSE owners \ {s}

-----------------------------------------------------------------------------
(* Geometry: the smallest claim in each direction. *)

EffectiveGeometry(claims) ==
  LET held == {claims[s] : s \in Sockets} \ {Unclaimed}
  IN IF held = {} THEN Unclaimed
     ELSE <<Min({g[1] : g \in held}), Min({g[2] : g \in held})>>

At(tail, kind) == {i \in DOMAIN tail : tail[i].kind = kind}
Queued(kind) == At(outputTail, kind)

\* Mutant: the one who joins is not told.
ApplyEffectiveGeometry_JoinsSilently(tail, claims, waiters) ==
  LET key == EffectiveGeometry(claims)
  IN IF \E i \in At(tail, "geometry") : tail[i].key = key THEN tail
     ELSE Append(tail, [kind |-> "geometry", key |-> key, waiters |-> waiters])

\* A request for the size that is already on its way joins it.
ApplyEffectiveGeometry(tail, claims, waiters) ==
  LET key  == EffectiveGeometry(claims)
      last == Max(At(tail, "geometry"))
  IN IF At(tail, "geometry") # {} /\ tail[last].key = key
     THEN [tail EXCEPT ![last].waiters = @ \cup waiters]
     ELSE Append(tail, [kind |-> "geometry", key |-> key, waiters |-> waiters])

-----------------------------------------------------------------------------
\* The connection that creates the generation is attached by the time it can
\* put anything out: no timer or socket event runs in between.
Init ==
  \E s \in Sockets, g \in Geometries, paused \in BOOLEAN :
    /\ subscribers = {s}
    /\ explicitPauseOwners = IF paused THEN {s} ELSE {}
    /\ transportPauseOwners = {}
    /\ emulatorPauseOwner = FALSE
    /\ procPaused = paused
    /\ geometryClaims = [t \in Sockets |-> IF t = s THEN g ELSE Unclaimed]
    /\ appliedGeometry = g
    /\ attachmentEpochs = [t \in Sockets |-> IF t = s THEN 1 ELSE 0]
    /\ outputTail = <<>>
    /\ attach = None
    /\ phase = [t \in Sockets |-> "idle"]
    /\ conn = [t \in Sockets |-> "open"]
    /\ needDrain = {}
    /\ proc = "live" /\ exited = FALSE /\ disposed = FALSE
    /\ chunks = 0
    /\ seen = [t \in Sockets |-> 0]

-----------------------------------------------------------------------------
(* Requests of a connection. A request queued before the close still runs.    *)

\* attach and attachExisting of a live generation, up to the first await.  An
\* older client gives no size and gets the one that is applied.
PrepareAttachment(s, g, paused) ==
  /\ Len(outputTail) < MaxTail
  /\ phase[s] = "idle" /\ attach = None
  /\ ~exited
  /\ attachmentEpochs[s] < MaxEpoch
  /\ attachmentEpochs' = [attachmentEpochs EXCEPT ![s] = @ + 1]
  /\ attach' = [socket |-> s, epoch |-> attachmentEpochs[s] + 1, paused |-> paused,
                geometry |-> geometryClaims[s],
                explicitPaused |-> s \in explicitPauseOwners,
                subscribed |-> s \in subscribers]
  /\ explicitPauseOwners' = Ticket(explicitPauseOwners, s, paused)
  /\ UNCHANGED <<transportPauseOwners, emulatorPauseOwner>>
  /\ ReconcileProcFlow
  /\ geometryClaims' = [geometryClaims EXCEPT ![s] = g]
  /\ outputTail' = ApplyEffectiveGeometry(outputTail, geometryClaims', {s})
  /\ phase' = [phase EXCEPT ![s] = "claiming"]
  /\ UNCHANGED <<subscribers, appliedGeometry, conn, needDrain, life, chunks, seen>>

Resize(s, g) ==
  /\ Len(outputTail) < MaxTail
  /\ phase[s] = "idle" /\ s \in subscribers /\ ~exited
  /\ geometryClaims[s] # g
  /\ geometryClaims' = [geometryClaims EXCEPT ![s] = g]
  /\ outputTail' = ApplyEffectiveGeometry(outputTail, geometryClaims', {s})
  /\ phase' = [phase EXCEPT ![s] = "waiting"]
  /\ UNCHANGED <<subscribers, flow, appliedGeometry, attachmentEpochs, attach, conn,
                 needDrain, life, chunks, seen>>

SetPaused(s, paused) ==
  /\ phase[s] = "idle" /\ s \in subscribers /\ ~exited
  /\ explicitPauseOwners' = Ticket(explicitPauseOwners, s, paused)
  /\ UNCHANGED <<transportPauseOwners, emulatorPauseOwner>>
  /\ ReconcileProcFlow
  /\ UNCHANGED <<subscribers, size, attachmentEpochs, outputTail, attach, phase, conn,
                 needDrain, life, chunks, seen>>

\* Mutant: a claim that goes does not let the terminal grow back.
Regrow_Never(s, waiters) == outputTail

Regrow(s, waiters) ==
  IF geometryClaims[s] = Unclaimed THEN outputTail
  ELSE ApplyEffectiveGeometry(outputTail, geometryClaims', waiters)

\* What a detach request and a closed connection have in common: both tickets,
\* the claim and the subscription go, and an attach under way is cancelled.
Release(s, waiters) ==
  /\ attachmentEpochs' = [attachmentEpochs EXCEPT ![s] = @ + 1]
  /\ subscribers' = subscribers \ {s}
  /\ explicitPauseOwners' = explicitPauseOwners \ {s}
  /\ transportPauseOwners' = transportPauseOwners \ {s}
  /\ UNCHANGED emulatorPauseOwner
  /\ ReconcileProcFlow
  /\ geometryClaims' = [geometryClaims EXCEPT ![s] = Unclaimed]
  /\ outputTail' = Regrow(s, waiters)
  /\ seen' = [seen EXCEPT ![s] = 0]

Detach(s) ==
  /\ phase[s] = "idle" /\ ~disposed
  /\ attachmentEpochs[s] < MaxEpoch
  /\ Release(s, {s})
  /\ phase' = [phase EXCEPT ![s] = IF geometryClaims[s] = Unclaimed THEN "idle" ELSE "waiting"]
  /\ UNCHANGED <<appliedGeometry, attach, conn, needDrain, life, chunks>>

-----------------------------------------------------------------------------
(* Events of the transport.                                                   *)

\* The peer is gone or the host gave up on it; its close event comes later.
Destroy(s) ==
  /\ conn[s] = "open"
  /\ conn' = [conn EXCEPT ![s] = "destroyed"]
  /\ UNCHANGED <<subscribers, flow, size, attachmentEpochs, outputTail, attach, phase,
                 needDrain, life, chunks, seen>>

\* The close handler detaches from every generation still in the table.
Close(s) ==
  /\ conn[s] = "destroyed"
  /\ conn' = [conn EXCEPT ![s] = "closed"]
  /\ IF disposed
     THEN UNCHANGED <<subscribers, flow, geometryClaims, attachmentEpochs, outputTail, seen>>
     ELSE Release(s, {})
  /\ UNCHANGED <<appliedGeometry, attach, phase, needDrain, life, chunks>>

\* A frame, of this session or another, finds the socket's buffer full: the
\* ticket is booked against every session the socket views.
WriteSessionHostFrame(s) ==
  /\ conn[s] = "open" /\ s \notin needDrain
  /\ needDrain' = needDrain \cup {s}
  /\ transportPauseOwners' = transportPauseOwners \cup {t \in subscribers : t = s /\ ~disposed}
  /\ UNCHANGED <<explicitPauseOwners, emulatorPauseOwner>>
  /\ ReconcileProcFlow
  /\ UNCHANGED <<subscribers, size, attachmentEpochs, outputTail, attach, phase, conn,
                 life, chunks, seen>>

DrainSessionHostTransport(s) ==
  /\ conn[s] = "open" /\ s \in needDrain
  /\ needDrain' = needDrain \ {s}
  /\ transportPauseOwners' = transportPauseOwners \ {t \in subscribers : t = s /\ ~disposed}
  /\ UNCHANGED <<explicitPauseOwners, emulatorPauseOwner>>
  /\ ReconcileProcFlow
  /\ UNCHANGED <<subscribers, size, attachmentEpochs, outputTail, attach, phase, conn,
                 life, chunks, seen>>

-----------------------------------------------------------------------------
(* The process and its output.                                                *)

QueuedOutput == Cardinality(Queued("write"))

\* node-pty hands over a chunk; a paused process may still have some on their way.
RecordOutput ==
  /\ ~exited
  /\ chunks + QueuedOutput < MaxChunks
  /\ outputTail' = Append(outputTail, [kind |-> "write", key |-> Unclaimed, waiters |-> {}])
  /\ emulatorPauseOwner' = (emulatorPauseOwner \/ QueuedOutput + 1 >= High)
  /\ UNCHANGED <<explicitPauseOwners, transportPauseOwners>>
  /\ ReconcileProcFlow
  /\ UNCHANGED <<subscribers, size, attachmentEpochs, attach, phase, conn, needDrain,
                 life, chunks, seen>>

Die ==
  /\ proc = "live" /\ proc' = "dead"
  /\ UNCHANGED <<subscribers, flow, size, attachmentEpochs, outputTail, attach, phase,
                 conn, needDrain, exited, disposed, chunks, seen>>

ObserveProcessExit ==
  /\ proc = "dead" /\ ~exited /\ exited' = TRUE
  /\ UNCHANGED <<subscribers, flow, size, attachmentEpochs, outputTail, attach, phase,
                 conn, needDrain, proc, disposed, chunks, seen>>

\* Retirement, once the output observed before the exit is on the emulator.
Dispose ==
  /\ exited /\ ~disposed /\ Queued("write") = {}
  /\ disposed' = TRUE
  /\ explicitPauseOwners' = {} /\ transportPauseOwners' = {} /\ emulatorPauseOwner' = FALSE
  /\ geometryClaims' = [s \in Sockets |-> Unclaimed]
  /\ UNCHANGED <<subscribers, procPaused, appliedGeometry, attachmentEpochs, outputTail,
                 attach, phase, conn, needDrain, proc, exited, chunks, seen>>

-----------------------------------------------------------------------------
(* The head of the emulator's queue.                                          *)

\* The chunk is on the screen and goes out to whoever is subscribed then.
WriteLands ==
  /\ outputTail # <<>> /\ Head(outputTail).kind = "write"
  /\ outputTail' = Tail(outputTail)
  /\ chunks' = chunks + 1
  /\ seen' = [s \in Sockets |-> IF s \in subscribers THEN seen[s] + 1 ELSE seen[s]]
  /\ emulatorPauseOwner' = (emulatorPauseOwner /\ QueuedOutput - 1 > Low)
  /\ UNCHANGED <<explicitPauseOwners, transportPauseOwners>>
  /\ ReconcileProcFlow
  /\ UNCHANGED <<subscribers, size, attachmentEpochs, attach, phase, conn, needDrain, life>>

\* The target is computed now, not when it was asked for; resizing a dead pty
\* throws, and everyone who waits for this resize sees it.
GeometryLands ==
  /\ outputTail # <<>> /\ Head(outputTail).kind = "geometry"
  /\ outputTail' = Tail(outputTail)
  /\ LET target == EffectiveGeometry(geometryClaims)
         moves  == target \notin {Unclaimed, appliedGeometry}
         fails  == moves /\ proc = "dead"
     IN /\ appliedGeometry' = IF moves /\ ~fails THEN target ELSE appliedGeometry
        /\ phase' = [s \in Sockets |->
                       IF s \notin Head(outputTail).waiters THEN phase[s]
                       ELSE IF phase[s] # "claiming" THEN "idle"
                       ELSE IF fails THEN "refused" ELSE "claimed"]
        /\ attach' = IF attach # None /\ phase[attach.socket] = "restoring"
                        /\ attach.socket \in Head(outputTail).waiters
                     THEN None ELSE attach
  /\ UNCHANGED <<subscribers, flow, geometryClaims, attachmentEpochs, conn, needDrain,
                 life, chunks, seen>>

\* Mutant: epochs are not compared.
Current_Always(s) == TRUE

Current(s) == attach.epoch = attachmentEpochs[s]

\* restoreAttachment: only an attach nothing has cancelled puts back what it
\* found; then the attach is over, once the old size is back.
RestoreAttachment(s, tail) ==
  IF ~Current(s)
  THEN /\ outputTail' = tail
       /\ phase' = [phase EXCEPT ![s] = "idle"]
       /\ attach' = None
       /\ UNCHANGED <<subscribers, flow, geometryClaims>>
  ELSE /\ explicitPauseOwners' = Ticket(explicitPauseOwners, s, attach.explicitPaused)
       /\ subscribers' = IF attach.subscribed THEN subscribers \cup {s} ELSE subscribers \ {s}
       /\ UNCHANGED <<transportPauseOwners, emulatorPauseOwner>>
       /\ ReconcileProcFlow
       /\ geometryClaims' = [geometryClaims EXCEPT ![s] = attach.geometry]
       /\ outputTail' = ApplyEffectiveGeometry(tail, geometryClaims', {s})
       /\ phase' = [phase EXCEPT ![s] = "restoring"]
       /\ UNCHANGED attach

\* Mutant: live delivery starts before the screen is read.
AwaitScreen_Subscribes(s) ==
  /\ phase[s] = "claimed"
  /\ phase' = [phase EXCEPT ![s] = "reading"]
  /\ subscribers' = subscribers \cup {s}
  /\ outputTail' = Append(outputTail, [kind |-> "serialize", key |-> Unclaimed, waiters |-> {s}])
  /\ UNCHANGED <<flow, size, attachmentEpochs, attach, conn, needDrain, life, chunks, seen>>

\* The size is in place: the attach queues for the screen.
AwaitScreen(s) ==
  /\ phase[s] = "claimed"
  /\ phase' = [phase EXCEPT ![s] = "reading"]
  /\ outputTail' = Append(outputTail, [kind |-> "serialize", key |-> Unclaimed, waiters |-> {s}])
  /\ UNCHANGED <<subscribers, flow, size, attachmentEpochs, attach, conn, needDrain,
                 life, chunks, seen>>

ClaimRefused(s) ==
  /\ phase[s] = "refused"
  /\ RestoreAttachment(s, outputTail)
  /\ UNCHANGED <<appliedGeometry, attachmentEpochs, conn, needDrain, life, chunks, seen>>

\* The screen is read and the attach committed without a pause in between, so
\* no output lands between the two. A cancelled attach, or one whose process
\* has exited, is rolled back.
ScreenLands ==
  /\ outputTail # <<>> /\ Head(outputTail).kind = "serialize"
  /\ LET s == attach.socket
     IN IF Current(s) /\ conn[s] = "open" /\ ~exited
        THEN /\ subscribers' = subscribers \cup {s}
             /\ seen' = [seen EXCEPT ![s] = chunks]
             /\ transportPauseOwners' = transportPauseOwners \cup ({s} \cap needDrain)
             /\ UNCHANGED <<explicitPauseOwners, emulatorPauseOwner>>
             /\ ReconcileProcFlow
             /\ outputTail' = Tail(outputTail)
             /\ phase' = [phase EXCEPT ![s] = "idle"]
             /\ attach' = None
             /\ UNCHANGED geometryClaims
        ELSE RestoreAttachment(s, Tail(outputTail)) /\ UNCHANGED seen
  /\ UNCHANGED <<appliedGeometry, attachmentEpochs, conn, needDrain, life, chunks>>

-----------------------------------------------------------------------------
Requests(s) ==
  \/ \E g \in Geometries \cup {appliedGeometry}, paused \in BOOLEAN : PrepareAttachment(s, g, paused)
  \/ \E g \in Geometries : Resize(s, g)
  \/ \E paused \in BOOLEAN : SetPaused(s, paused)
  \/ Detach(s)

Transport(s) ==
  \/ Destroy(s)
  \/ Close(s)
  \/ WriteSessionHostFrame(s)
  \/ DrainSessionHostTransport(s)

\* Only a write waits for a timer of the emulator. Everything else on the queue
\* runs, with what awaits it, before the next event of the process.
PromisesSettled ==
  /\ outputTail # <<>> => Head(outputTail).kind = "write"
  /\ \A s \in Sockets : phase[s] \notin {"claimed", "refused"}

Continuations(s) == AwaitScreen(s) \/ ClaimRefused(s)

Next ==
  \/ /\ PromisesSettled
     /\ \/ \E s \in Sockets : Requests(s) \/ Transport(s)
        \/ RecordOutput \/ Die \/ ObserveProcessExit \/ Dispose
        \/ WriteLands
  \/ GeometryLands \/ ScreenLands
  \/ \E s \in Sockets : Continuations(s)

Spec == Init /\ [][Next]_vars

-----------------------------------------------------------------------------
(* What must hold.                                                            *)

Phases == {"idle", "waiting", "claiming", "claimed", "refused", "reading", "restoring"}
Work == [kind : {"write", "geometry", "serialize"}, key : Sizes \cup {Unclaimed},
         waiters : SUBSET Sockets]

\* Every variable of a session keeps its type; a dead process is what exited and
\* an exit is what retires (session.ts fields).
TypeOK ==
  /\ subscribers \subseteq Sockets
  /\ explicitPauseOwners \subseteq Sockets /\ transportPauseOwners \subseteq Sockets
  /\ emulatorPauseOwner \in BOOLEAN /\ procPaused \in BOOLEAN
  /\ geometryClaims \in [Sockets -> Sizes \cup {Unclaimed}]
  /\ appliedGeometry \in Sizes
  /\ attachmentEpochs \in [Sockets -> Nat]
  /\ outputTail \in Seq(Work)
  /\ attach \in Attaches \cup {None}
  /\ phase \in [Sockets -> Phases]
  /\ conn \in [Sockets -> {"open", "destroyed", "closed"}]
  /\ needDrain \subseteq Sockets
  /\ proc \in {"live", "dead"} /\ exited \in BOOLEAN /\ disposed \in BOOLEAN
  /\ (disposed => exited) /\ (exited => proc = "dead")
  /\ chunks \in Nat /\ seen \in [Sockets -> Nat]

Attaching(s) == attach # None /\ attach.socket = s
Viewing(s) == Attaching(s) \/ (s \in subscribers /\ conn[s] # "closed")

\* A running process is paused only while somebody who can still let it go holds
\* it: a viewer that asked for it, a viewer whose buffer waits for its drain, or
\* the emulator's queue above the low water mark. It does run only when no
\* viewer's buffer is full and the queue is below the high water mark
\* (session.ts: the three owner sets behind one pty actuator).
PauseIsOwed ==
  proc = "live" =>
    IF procPaused
    THEN \/ QueuedOutput > Low
         \/ \E s \in explicitPauseOwners : Viewing(s)
         \/ \E s \in transportPauseOwners : s \in needDrain /\ conn[s] # "closed"
    ELSE QueuedOutput < High /\ subscribers \cap needDrain = {}

\* A connection that closed leaves nothing behind in the session once its attach,
\* if one was under way, is over: no subscription, no ticket, no size
\* (session.ts detach, attachmentEpochs and the destroyed check of commit).
NoGhostViewer ==
  ~disposed => \A s \in Sockets :
    conn[s] = "closed" /\ ~Attaching(s) =>
      /\ s \notin subscribers \cup explicitPauseOwners \cup transportPauseOwners
      /\ geometryClaims[s] = Unclaimed

\* Once no resize is on its way, a running terminal has the largest size that
\* fits every viewer, whatever claims came and went while earlier work was
\* pending (session.ts applyEffectiveGeometry).
ViewersFit ==
  /\ proc = "live" /\ Queued("geometry") = {} /\ EffectiveGeometry(geometryClaims) # Unclaimed
       => appliedGeometry = EffectiveGeometry(geometryClaims)
  /\ ~disposed => \A s \in subscribers : geometryClaims[s] # Unclaimed

\* A viewer has seen each chunk of output once: on the screen it was given or as
\* a frame, never both and never neither (host.ts handleAttach: the snapshot,
\* then the commit).
NoGapNoRepeat == \A s \in subscribers : seen[s] = chunks

\* A connection that attaches paused holds its ticket before live output can
\* reach it (host.ts: "must never receive bytes in the gap").
NoOutputBeforePause ==
  [][\A s \in subscribers' \ subscribers :
       attach.paused => s \in explicitPauseOwners' /\ (proc = "live" => procPaused')]_vars

\* Whoever waits is on the queue or next to be continued: no attach, resize or
\* detach waits for work that joining another request, or cancelling one, has
\* lost (session.ts pendingGeometry).
WaitsForQueuedWork ==
  \A s \in Sockets :
    /\ phase[s] \in {"waiting", "claiming", "reading", "restoring"} =>
         \E i \in DOMAIN outputTail : s \in outputTail[i].waiters
    /\ phase[s] \in Phases \ {"idle", "waiting"} <=> Attaching(s)
=============================================================================

# A TLA+ development of material-nodeterm

material-nodeterm is a desktop and server application for working with many
terminals and notes on shared canvases. This directory holds a verification
project for the parts of it that are protocols: pieces of state that several
clients, processes or callbacks change in an order nobody controls. It has
TLA+ modules translated from the TypeScript source, TLC configurations that
check them on small instances, and proofs checked by TLAPS.

Paths below are relative to the repository's `src/`. `PROJECT.json` maps every
definition to the source lines it stands for.

## 1. Inventory

### Modelled

**Canvas ordering and reflector** (`core/canvas-sync.ts`,
`shared/canvas-order.ts`, the receive effect of `renderer/canvas/Canvas.tsx`).
State: the reflector's sequence number; per client the highest seq seen per
key, the pending (unacknowledged) casts, the keys a peer overwrote, the record
of removes and the last seq. Operations: `stamp`, `onLocal`, `accept`, the
reflector's relay. Clients interact only through the reflector, over FIFO
connections. Hard: optimistic edits crossing each other, acks that come late,
frames cast in ignorance of a delete, the cap on the record of removes, two
receive paths (the shown project and the stored ones). Correct when: all
clients end on the same canvas; no key comes back because of a stale frame;
the pending count is exactly what is unacknowledged.

**Canvas publisher** (`shared/canvas-publish.ts` and the publish effect of
`Canvas.tsx`). State: the base last published, the coalesced frame, the
throttle timer. Operations: `publish` (leading and trailing edge), `adopt`,
the size guard of the send callback. Hard: mutations from peers adopted
between a coalesced frame and its timer. Correct when: every difference
between the canvas and the published base is either refused or owed to a
timer, and clients converge.

**Session host: generations, kills and leases** (`session-host/host.ts`,
`generation-barrier.ts`, `kill-session.ts`, `socket-request-queue.ts`).
State: the session registry, kill operations under way and completed,
replacement leases, per-name turns, subscriptions, shutdown, the idle timer.
Operations: attach, attachExisting, killSession and its retries, shutdown,
process exit, drained output, lease expiry, the idle exit, connection loss.
Hard: everything happens between awaits of one event loop, so a name can be
attached, killed, exited and attached again while any of these is half done.
Correct when: one generation per name; an acknowledged kill means its target
is gone; a late kill never ends a replacement; a lease has one holder; every
request is answered; an idle host's exit timer is armed.

**Session host startup** (`session-host/host.ts`, `existing-host-state.ts`,
`hello-probe.ts`). State: the state file (at once lock and identity), the
token file, the endpoint. Operations: exclusive create, probe, reclaim, listen
with retries, publish, cleanup. Hard: several app instances launch hosts
together, and any of them may die between any two file operations. Correct
when: one host owns the directory, a serving host is reachable, and no crash
point blocks a later start.

**Host session: output, flow control, geometry** (`session-host/session.ts`,
`socket-flow.ts`, the attach, detach, drain and close handlers of `host.ts`).
State of one terminal generation: its subscribers, three kinds of pause
owners, one size claim per connection, attachment epochs, the chain of work on
the emulator (`outputTail`). Operations: attach in steps, commit, rollback,
resize, pause, resume, detach, back-pressure and drain, output, process exit,
disposal, connection loss. Hard: an attach waits on the emulator between its
steps, while its own connection detaches or closes and others change what it
will restore. Correct when: a running process is paused only for somebody who
can still let it go, a closed connection leaves nothing behind, the size fits
every viewer, and a viewer sees every chunk of output once.

**Host session: trusted launches** (`session.ts`, `executeLaunch` to
`deliverVerifiedCommand`). State: the launch ledger, the launch queue, where
the delivery under way stands. Operations: a request that starts, joins or is
refused, typing with verification of the echo, retry, timeout, the follow-up
text, the exit. Hard: requests repeated because a reply was lost, a shell that
loses characters while it starts, late echoes. Correct when: each launch
presses enter at most once, on a line of its own, and every request is
answered consistently.

**Trigger scheduler** (`core/trigger-scheduler.ts`,
`core/trigger-arm-store.ts`). State: one slot per trigger on the canvas, runs
awaiting their delivery, the arm records in memory, on disk and in queued
writes. Operations: canvas saves, ticks, runs, arm and disarm, restart. Hard:
a trigger is edited, disarmed or removed while its run awaits, and the arm
file lags behind memory. Correct when: one run at a time, only what the user
armed fires, and what is armed is scheduled.

**Cross-process transactions and the secure store** (`core/secure-store.ts`,
`core/fs-transaction-lock.ts`, `renameAtomic` of `core/fs-atomic.ts`). State:
the file, the SQLite lock, one queue per process, what each call has read and
drafted. Operations: load, save, mutate; begin, compare, rename, commit,
rollback; crash. Hard: two processes, failures and crashes at any step, and
programs that rewrite the file without the lock. Correct when: the processes
together behave as one atomic document.

### Not modelled yet, planned

| Part | State and operations | What is hard | Correct when |
|---|---|---|---|
| Session host input and messages (`send-keys-delivery.ts`, `message-pane.ts`, `core/command-delivery.ts`, `core/paste-injection.ts`) | queued keys, paste state, submission checks | typing interleaved with output and other writers | a message is delivered whole or reported not delivered |
| Session host client (`core/session-host-client.ts`) | connection, pending requests, kill identities, reconnect timers | replies of an old connection; a kill retried over a reconnect | each call settles once; a confirmed kill was executed |
| Canvas reconnect (`server/platform-server.ts`, `server/ws.ts`) | client ids, seq of the core | the core restarts with its seq at 0 and hands the same client id out again | a client that reconnects does not take new frames for old ones |
| Durable occurrences (`core/durable-occurrence-service.ts`) | persisted occurrences and claims | a crash between claim, delivery and outcome | delivered at most once; every outcome is recorded or recovered |
| Browser lease (`main/browser-lease.ts`, `main/browser-control-ledger.ts`) | attached targets, child sessions, grants | detach while a child target is being attached | no session survives its lease |
| Presence hub (`core/presence/hub.ts`) | peers, sent diffs, token buckets | dropped casts against diffs | clients' tables converge to the hub's |

### Not modelled, and not planned

* The wire protocol's framing (`session-host/protocol.ts`): a parser; the
  models take frames as delivered whole and in order.
* The terminal manager (`core/pty-manager.ts`): 5400 lines bound to node-pty,
  tmux and ssh. Its session host backend is reached through the client above.
* The workspace store, watcher and history: mostly file layout. Their save and
  reload protocol is a candidate once the planned modules are done.
* Agent status and notifications, codex relay, provider integrations (git,
  GitHub, AWS, Cloudflare, ollama): mirrors and wrappers of external services.
* Remote access and pairing (`main/remote`), remote projects over ssh:
  encrypted transport, trust decisions and process orchestration.
* The renderer's other stores and components, the site, the scripts and the
  packaging: user interface and build code.

`PROJECT.json` lists each with its sources, and under `hazards` what is hard to
test in this code, also in the parts no module covers yet.

## 2. Modules

    CanvasSync <----------- CanvasPublish             AtomicDocument
        ^                       ^                         ^ INSTANCE ... WITH
    CanvasSyncProofs <----- CanvasPublishProofs       SecureStore
                                                          ^
                                                      SecureStoreProofs

    SessionHost                    HostStartup        TriggerScheduler
        ^                              ^                  ^
    SessionHostProofs              HostStartupProofs  TriggerSchedulerProofs

                                   HostSession        SessionLaunch
                                       ^                  ^
                                   HostSessionProofs  SessionLaunchProofs

Every arrow but the marked one is EXTENDS. `MC<module>.tla` extends the module
of its name with the model values of its configurations. SessionHost keeps of
a generation only whether it lives; HostSession and SessionLaunch are the two
sides of one generation, and share no state but its exit.

### CanvasSync

| TLA+ | code |
|---|---|
| `sent[c]`, `read[c]`, `log`, `pos[c]` | the two directions of each connection; immutable sequences with read positions, because delivery is FIFO and lossless while a connection lasts. `log[i]` has `seq` i. |
| `seen`, `pending`, `lapsed`, `superseded`, `removed`, `lastSeq` | the fields of `createCanvasOrder` (`canvas-order.ts:183`); `lapsed` stands for a pending entry older than `PENDING_TTL_MS` |
| `canvas[c][k]` | what the client shows and saves |
| `truth`, `tombs` | history: the outcome the documented rules give the first i mutations of the total order, computed without any client's state |
| `Edit` | the edit, `stamp`, `onLocal` and the cast (`Canvas.tsx:4379`) |
| `Reflect` | the relay with its clamp of `seen` (`canvas-sync.ts:105`) |
| `AckEcho`, `PeerMutation` | `accept` on an own and on a foreign mutation and its application |
| `TtlLapse` | time passing |

Keys are nodes, edges and links alike: what `mutationKey` tells apart. Contents
are opaque values. `UndoBeforeAck` and `Background` are workload switches: what
users do, not what the code does (section 4).

### CanvasPublish

EXTENDS CanvasSync and replaces `Edit` by the publisher in front of it: the
diff against the last base (`diffToMutations`), what the send callback refuses,
the leading and trailing frames, `adopt` on receipt, a drag with its moved-but-
unsaved state. All receiving actions are CanvasSync's. `casts` are the stamped
mutations of one snapshot and `castKeys` their keys, which `onLocalAll` records
as pending. `DragsApart` is a workload switch: during a drag the others are
still and everything they cast has arrived, and a drag begins when no repair of
an own cast is due (no key of the dragger is superseded), because either one
would be adopted over a coalesced frame.

### SessionHost

An action is what runs between two awaits of the host's event loop. A promise
that is settled is acted on before the next event: `Quiet` says no such
continuation waits, and guards every action triggered from outside. `req[s][n]`
is the request of socket s for name n with the await it stands at (`turn`: in
the coordinator's queue or at the barrier; `inspect`: the operation's turn of
the microtask queue; `warm`, `cold`, `launch`, `coldEnd`: awaits of
`handleAttach`; `awaitEnd`, `killing`: of `handleKill`). An attach subscribes
its socket when its screen has landed (`WarmDone`, `ColdDone`) and is answered
only after the initial launch (`LaunchDone`), so an exit may come before the
attach's own answer. `phase[g]` follows a process through
`RetiringSessionGeneration`. The lease and the idle timer run equally long, and
the timer is armed anew when a lease is set: an idle exit that is due finds no
lease. `op[id]` is the client's decision what to kill;
ids double as replacement tokens, as in the code.

### HostStartup

A step is one file or socket operation of one process; the processes share the
state file (`lock`), the token file and the endpoint. `pc` names the step.
`windows` selects the platform, whose pipes need no unlink but stay busy for a
while. `age` counts for how many ticks the state file has gone untouched, up to
`Stale` (`EMPTY_LOCK_STALE_MS`), and `waited` how many ticks ago a start last
tried to listen, up to `Retry` (`LISTEN_RETRY_MAX_DELAY_MS`). `ListenBusy`
touches the lock, which is all that keeps a waiting start's lock from being
judged abandoned. The steps from creating the lock to publishing the state are
synchronous but for the wait to listen, so `Tick` lets no time pass in the
others; that processes are not suspended and a touch does not fail is assumed.
`closeServer` gives up the endpoint before the files, as the code cleans up in
the callback of `server.close`. `Orderly` is a workload switch, explained
below.

### HostSession

| TLA+ | code |
|---|---|
| `outputTail` | the promise chain of that name: queued writes, resizes and screen reads, each with the requests that wait for it. `pendingGeometry` is its last entry of kind `geometry`. |
| `attach`, `phase[s]` | the local variables of `prepareAttachment` and the await at which the request of connection s stands |
| `PrepareAttachment`, `GeometryLands`, `AwaitScreen`, `ScreenLands` | the steps of `handleAttach` between its awaits; the last is the screen, the checks and `commit` or `rollback` in one, as nothing can run in between |
| `RestoreAttachment` | `restoreAttachment`, which an attach whose epoch has passed skips |
| `Release` | what a detach request and a closed connection have in common |
| `WriteSessionHostFrame`, `DrainSessionHostTransport` | a full and a drained socket buffer |
| `conn[s]` | `destroyed` before its close handler has run |
| `seen[s]` | history: how much output the connection has seen |

Output is counted in chunks, the water marks too. `PromisesSettled` says that
nothing but an emulator write is waited for, and guards every event from
outside: only a write takes a timer, everything else on the chain runs with
its continuations before the next event. One attach is under way at a time, as
the coordinator runs the attaches of a name one after another.

### SessionLaunch

`launchQueue` is the chain of that name, `stage` the await of the delivery at
its head, `typed` what is written to the terminal and not read. The shell is
the environment: it reads in order, may lose part of a command or its echo, and
runs the line when it reads enter; so may the program in front of it echo what
it reads. `echoes` holds inputs, not launches: the host knows an echo by its
text, so an echo of an earlier attempt, or of another launch of the same input,
presses enter as well. `ran` records which launch entered whose line, by enter
or by a follow-up text that the shell read. Nothing else is typed: what users and messages write to the same
prompt is outside this model.

### TriggerScheduler

A slot is an object that a run keeps across its await; `held` says whether the
slot a run captured is still the one in the map, which is all that its
`finally` can tell. `writeQueue` holds the snapshots that `persist` has queued
together with the call that awaits them: the continuation of `arm` or `disarm`
is part of the step in which its write lands. `consented` and `refused` are
history: what the user's calls allow to fire, and which of them were told of a
failed write. Time is a counter, `Minute` its units per minute.

### AtomicDocument and SecureStore

AtomicDocument is the promise: a document, on which each save and mutation
takes effect at once or not at all. SecureStore is the code: each process's
queue, the lock, the read, the draft, the temporary file, the comparison and
the rename, a crash or a failure at each. `Document` is the refinement, with
`document <- file` and `phase <- phases`; a call is applied by its rename.
Programs that rewrite the file without the lock may do so at any moment except
between the comparison and the rename (`fs-transaction-lock.ts:198-199`), where
no code can notice: this is the window the compared write leaves open, and
`ImplementsDocument` fails without that guard.

## 3. Runs

| Run | Instance | Shows |
|---|---|---|
| `canvas_pair` | 2 clients casting up to 3 and 2 mutations of 1 key with 2 contents | two users editing, deleting and re-creating the same node across each other, with lapsed pending entries: convergence, exact pending counts, the optimistic value stays, no resurrection |
| `publish` | `PubFairSpec`: 2 clients casting up to 2 and 1, 2 nodes, drags, one content the size guard refuses, `RemovedMax` 1 | every coalesced frame goes out, what differs from the base is owed, castable keys converge; eviction from the record of removes happens at the same place of the order everywhere |
| `host_generations` | 2 sockets that attach and kill, 1 name, 1 kill id, 2 processes, with shutdown | one generation per name; acknowledged kills; kills hit what was observed; no exit reaches who was answered with a newer generation; an empty host's exit timer runs |
| `host_answers` | `FairSpec`, Windows: 2 sockets, 1 name, 1 kill id, 1 process | every attach, attachExisting and kill is answered, whether taskkill succeeds or fails |
| `startup` | `FairSpec`: 3 processes, both platforms, 2 crashes, hosts that leave; a start retries to listen every tick and an untouched lock is stale after 2 | one owner, also while a start waits for the endpoint longer than a lock may go untouched; a serving host stays reachable; no crash point blocks a later start |
| `session` | 2 connections with up to 2 attaches and detaches each, 2 sizes neither of which fits the other, 2 chunks of output at a high water mark of 2 | pauses are owed, no ghost viewer, sizes fit, no gap and no repeat, the pause precedes the output, nobody waits for lost work |
| `launch` | `FairSpec`: 2 connections with 2 and 1 requests, 3 ids, 2 inputs, one with a follow-up, a ledger of 2, 2 attempts, echoes that are late or another launch's | at most one enter per launch, every line entered by the launch that typed it, answers agree, every request is answered |
| `trigger` | 1 trigger, a one-shot and a recurring definition, 2 runs at once, 2 queued writes, 2 minutes | no overlapping runs, consent, armed is scheduled |
| `secure_store` | `FairSpec`: 2 processes, one with 2 callers; a save, a load and two different mutations | refinement of AtomicDocument, exclusion, the lock is not left behind, every call is answered |

Three runs show a disagreement between the code and what it says of itself:
`publish_lost_frame`, `host_lease_replay` and `trigger_skipped` (section 4).

Why the bounds are enough. The canvas protocol relates a client to the total
order key by key; two clients give every crossing of two mutations, and two
keys with a cap of one make every second remove evict. In the session host all
state is per name but the idle timer and shutdown. Two generations give a
replaced process and a kill that arrives after the replacement; two sockets the
concurrency of every pair of requests. Liveness has a run of its own, with one
process and the longer, Windows, kill path. A second kill id is needed only for
the conflict of two leases, which is the run that fails. Three startup
processes give a crashed host and two that find it. Every counter that would be
unbounded is a constant with a guard: `MaxCasts`, `MaxGen`, `Crashes`,
`Stale`, `MaxEpoch`, `MaxChunks`, `MaxTail`, `MaxAsks`, `MaxNow`, `MaxWrites`. In the
host session a second attach of one connection restores what a first one
claimed, and one more connection is what it must not disturb; two sizes that
cross make the terminal smaller than either. A chunk of output queued behind
one that is being applied reaches the high water mark, and the queue drained
reaches the low one. Three launch ids and a ledger of two give the refusal at
the cap with one launch under way and one queued. Two minutes of trigger time
let a recurring trigger come due twice, around an edit and a restart. In the
store, two callers of one process and one of another give every pair of calls
in one queue and across the lock.

CHECK_DEADLOCK is off where the modelled system really stops: clients with
nothing left to cast, a host that exited, processes that all started or left,
a retired session, launches that are all answered, the end of the clock.
`secure_store` checks for deadlock.

**Fairness.** Canvas: the publisher's timer fires, the reflector reads what was
sent and clients process what arrives (one event loop each, FIFO connections).
SessionHost: continuations run (WF); an event that keeps becoming ready is
processed (SF, since `Quiet` is false in between: the event queue is FIFO);
taskkill answers or times out (`kill-session.ts` has a deadline); a process
that was signalled exits and its output drains. Nothing is assumed of processes
nobody signalled, nor of clients. SessionLaunch: timers fire and settled
promises run their continuations; the shell owes nothing, since every wait for
it is capped. SecureStore: in each process, a step of the first call of the
queue is followed by its next step, its failure or the timeout of its wait for
the lock. HostStartup: a live process takes its steps, the bounded probe loop
ends, a process that began to clean up finishes, Windows frees a dead process's
pipe.

## 4. What the runs found

Three runs end in a violation, each of something the repository says of itself.

* `publish_lost_frame`. `adopt` moves the publisher's base while a coalesced
  frame waits for its timer, and the frame is never sent: the new base already
  contains it, so no later diff shows it either. The mutation need not be a
  peer's: the echo of an own cast that a peer overwrote is applied again to
  repair the node, and adopted too. `DragsApart` excludes both in the passing
  run; the second was found by the proof of `PublishersConverge`, as the run's
  two casts per dragging client are too few for it.
* `host_lease_replay`. A replayed reserving kill whose lease has expired sets
  the lease again (`host.ts:688-710`) without looking for a kill under way:
  while another client's reserving kill drains, both are told they own the one
  replacement lease.
* `trigger_skipped`. `setSpecs` copies `inFlight` into the new slot of an edited
  trigger (`trigger-scheduler.ts:265`), and the `finally` of the run resets
  only the slot it captured (`:380`). An edit while a run awaits its delivery
  leaves a trigger that is in flight for good: every later firing is skipped
  although no run is under way, against `docs/features/automation/triggers.md:37-38`.

Five more are hypotheses of passing runs; dropping the hypothesis shows each
of them:

* `UndoBeforeAck = TRUE` in `MCCanvasSync.cfg`: `Convergence` fails. Undoing a
  delete before its echo is back casts an upsert whose `seen` predates the
  client's own delete, so every peer drops it as stale while the sender shows
  and saves it (`canvas-order.ts:51-52`, `234-239`).
* `Background = {b}` and `EventKeys = {k}` there: `Convergence` fails. A
  project that is not shown is patched in the store, where an upsert of a node
  whose `creationEventId` is already present is taken for a retry
  (`canvas-mutations.ts:263`): later edits of such a node are lost there.
* `Orderly = FALSE` in `MCHostStartup.cfg`, with a crash: `OneOwner` fails.
  Reclaiming a stale lock is an unlink and an exclusive create; a second
  process that judged the same stale lock unlinks the first one's fresh lock
  and then its live socket (`host.ts:199`).
* The same with a departure instead of a crash: `ServingIsReachable` fails.
  `cleanupFiles` drops the state file, which is the lock, before the token and
  the endpoint, so a host that starts in between loses its token or its socket
  to the one that leaves, although `host.ts:1191-1192` speaks of "every artifact
  owned behind our exclusive startup lock". `Orderly` keeps such troubles apart:
  launches overlap freely until a process has crashed or left, and from then on
  only with a start that has the lock; at most one other process is starting
  when one crashes or leaves; and nobody overtakes one that cleans up.
* Without the guard of `Edit` in SecureStore `ImplementsDocument` fails: the
  compared write reads and renames in separate steps
  (`fs-transaction-lock.ts:198-199`).

What the models contain although no property forbids it:

* `dispatch` refuses attaches during a shutdown when they arrive
  (`host.ts:914`), not when their turn comes: one that waits at the barrier
  spawns a process during the shutdown. The shutdown counts what slipped in
  once its last target has retired, but the retirement also hands the turn on,
  and the attach that gets it creates after the count, while the successful
  reply is flushed (`host.ts:886-907`); the host exits over the new session,
  against `host.ts:347-348` and `832-833`. The model has it (`Create`
  between `ShutdownDone` and `ShutdownExit`); no property forbids it.
* A command is confirmed by an echo that has its head and its tail
  (`session.ts:637-639`), which may be the late echo of an earlier attempt, or
  of another launch of the same text. What is entered then need not be intact,
  against `session.ts:616`, "Never submit an unverified/mangled command"; `ran`
  does not tell intact lines from mangled ones.
* The follow-up text of a launch is typed after a wait for quiet output that
  does not look again whether the launched program still runs
  (`session.ts:494-503`): in front of a shell it becomes a command line.
* A one-shot trigger fires only on a tick at its very moment; a tick one
  millisecond later records it as missed (`trigger-scheduler.ts:341`).
* A recurring trigger that came due while the machine slept fires once on the
  next tick (`triggers.md:8` says it never catches up), and a restart within
  the minute of a firing schedules that minute again.
* The continuation of `arm` schedules from the definition the call captured,
  which an edit may have replaced meanwhile, and a repeated disarm of a node
  that is not armed is answered while the first one's write is still queued.

## 5. Proofs

Eight modules of theorems, for every value of the constants. They assume only the
named assumptions of the modules they are about (`CanvasConstants`,
`PublishConstants`, `HostConstants`, `StartupConstants`, `HostSessionAssumption`,
`SessionLaunchAssumption`, `TriggerAssumption`, `SecureStoreAssumption`): bounds
are natural numbers, the low water mark is below the high one, a start retries
to listen before its lock turns stale, switches are Booleans, "no id" and the like are not ids. Nothing is assumed finite but the
keys of a published canvas, and no theorem needs fairness. A hypothesis on a
workload switch stands in the theorem it is needed for.

**CanvasSyncProofs.** `TypeCorrect`: the invariant is `TypeInv`, TypeOK with
`Positions` (the history sequences are one longer than the log, nobody has read
past its end), without which reading the log is not typed. `VerdictsAgree`:
rule 4 judges a mutation by the record of removes, and a client's record is a
function of how far it has read, equal to the history's `tombs` at that point.
Pending entries, the TTL, and the keys a peer overwrote therefore cannot make
two clients judge differently, with or without evictions from the record.

Everything else looks at what a client has cast and not read back:
`Unacked(c, k)`, the places of those casts of k in c's stream, whether the
reflector has read them or not. Links are FIFO and a mutation carries its place
(`OrderInv`), so the next own mutation in the log is the first of them.
`PendingCountsUnacked`: the pending count is the size of this set, so rule 2
holds peers off while and only while a cast is unacknowledged.
`OptimisticIsShown`: a key that is not superseded shows the last of them.
`ApplyingClientsConverge` adds what ties the canvas to the order (`KeyInv`).
A key with nothing unacknowledged shows what the order has come to at the client's
position (`Settled`). Between a cast and its echo this is kept by three facts.
The last cast is an upsert only if no remove that it is ignorant of is in force
(`KnowsTomb`), so its echo settles on what is shown already; this needs that
after an unacknowledged remove the client casts no upsert (`RemovesLast`), which
is the hypothesis `~UndoBeforeAck`. A superseded key shows what the order has come to,
unless a peer's upsert was suppressed after it, and then no remove is in force
which the repairing echo could be ignorant of (`Overwritten`). `ClientsConverge` has
the clients in the background too: they patch their stored copy, which takes a
mutation as it is unless the node has a creation event. Both hypotheses are
necessary (section 4).

`NothingResurrected` needs neither. `KilledHeld`: a remove that nothing undid
since, with fewer than `RemovedMax` other keys removed after it, is still in the
record, since each later remove evicts at most the oldest. So whoever accepts an
upsert of the key judges it by that remove or a later one.

**CanvasPublishProofs.** A publisher casts several keys in one step and holds
others back, so the lemmas about `emit` come first: `diffToMutations` lists
each key it is given once, hence one more cast of every key of `castKeys` and
of no other (`EmitsAt`). `PublishedVerdictsAgree` is CanvasSync's theorem with
these steps in place of `Edit`. `NothingUnpublishedIsForgotten` is inductive
and needs no restriction on drags: a coalesced frame is the canvas, so sending
it leaves nothing castable behind, and adopting moves baseline and canvas
together, which is also why the publisher cannot notice a lost frame.
`PublishersConverge` states CanvasSync's facts for the baseline where it holds
castable content (`Agrees` in `PubKeyInv`), because the canvas is ahead of what
was cast; `UnpublishedIsOwed` closes the gap when everything is idle. `OwedKey`:
no remove of a key is in flight while content for it is owed, so that
`RemovesLast` survives the trailing frame. `DragInv` is where the hypothesis
`DragsApart` is used: a client that drags is alone, no key of it is superseded,
and all that can still reach it are echoes of its own, none of which repairs a
key; so nothing is adopted over a frame. The only assumptions on data are that
the canvas has finitely many keys and that "no frame" is not a canvas.

**HostStartupProofs.** `TypeCorrect` for everything; `OneStarts`
and `StaysReachable` under `Undisturbed \/ Orderly`, for any
number of processes, crashes and departures. The invariant has two phases. While
the directory is calm, `LockInv` says that the state file, once there, belongs to a process
that owns the start and is empty until that process serves (`LockHasOwner`,
`OwnerHasLock`); it was touched no longer ago than its owner last tried to
listen (`Fresh`), which with `Retry < Stale` keeps it from being judged
abandoned; the owner has the endpoint and the token from the step on that
writes them (`OwnerHasFiles`); and a process that probes sees the lock taken, and read
either the empty file or the serving host's own token (`ProbesAreHarmless`). So
no judgement "abandoned" is reached and nobody reaches `unlink`, and this part
needs no restriction on launches. The first crash or departure ends it
(`FirstTrouble`), as the state file may now be left by the dead. From then on
`TroubledInv` holds: one start builds and one probes at a time
(`StartsTakeTurns`, the workload's `Orderly`), who builds has the lock, and who
probes beside it has read no more than an empty file that is `Fresh`
(`BuildsAlone`), who cleans up was the only owner (`CleansAlone`), and who starts
beside a serving host is probing and has read nothing that would let it reclaim
(`ServesAlone`). The restriction is needed: without it a second process unlinks a
lock just reclaimed, and with an overtaken cleanup a host loses its files
(section 4): it is the order of starts and cleanups, not the order of the
unlinks, that protects a successor's files.

**SessionHostProofs.** `OneGenerationPerName`. Two inductive invariants.
`Queued`: requests are well formed, and one that is past the barrier
(`Holding`) is the head of its name's turn queue, so there is at most one of
them per name. `Registered`: an unretired generation is the one registered
under its name and the registry holds only unretired ones, and `Observed`: what
a request at `inspect` read at the barrier is still registered and has not
exited. `Observed` is what a unit test cannot show: between the barrier and the
creation the operation yields to the microtask queue once. It survives because
exits, retirements and everything else from outside wait until no continuation
is left (`Quiet`), and among the continuations only the head of the queue
creates.

Its second half is about the kills. `KillsHitTheirTarget` follows from
`Aimed`: a generation some client wants killed existed under the name it gave;
the operation registered in `ending`, the owner `publishSessionEnd` looked up
and the record of who killed a generation all carry an operation aimed at that
generation. `AckedKillsAreDone` needs two more. `Awaited`: a kill that waited
for a natural exit finds, when it resumes, the name empty or a generation that
is not on its way out; otherwise "not live" would be mistaken for "gone".
`Done`: a completed or acknowledged kill was decided, and its generation is
retired. `TargetGone` is the step between them: by `Registered`, a generation
that is not the registered one of its name has retired.

The remaining safety properties of the host follow.
`IdleHostsAreTimed` needs `EndsRegistered` and `Observed`: an attach that
cancels the timer without arming it again was refused because its name is being
killed or because it found a generation, and both are registered.
`NoExitIsLate` needs that generations are born in their order and a name's
unretired one is its youngest (`Latest`), that a connection was answered with a
generation that existed under the name (`Answered`), and that the generation an
attach joins stays the last of its name while the attach has the turn (`Joins`):
so of two generations of a name the older retires before anybody can be answered
with, or wait for the launch of, the younger.
`HostTypeCorrect` adds to these invariants the types they leave out.

**HostSessionProofs.** Every property of the run `session`, from one invariant.
`Flow` and `Emulator`: the pty was last told what the owners say, and the
emulator owns a pause above its marks. `Waiting`: whoever waits is named by one
piece of queued work only, of the kind its phase says (`Orderly`); so the screen
that lands belongs to the attach under way, and a landing resize wakes nobody
who waits for another. The heart is what an attach may still put back.
`Cancelled`: an attach whose epoch has passed has nothing left in the session,
so skipping its rollback leaves nothing behind. `Restores`: one whose epoch is
current remembers a subscription exactly if the connection has one, and of a
closed connection no subscription and no size. `Held` says who may hold which
ticket: a subscriber or the attach under way the explicit one, a subscriber with
a full buffer the other. `NoGhostViewer` and `Restores` need each other: the
attach copies what it finds, and what it finds of a closed connection must be
nothing. `Rest` adds that who waits is on the queue (`OnQueue`), that the size
fits once no resize is queued (`Fits`), and that viewers and an attach about to
commit have a size (`Sized`). That the smallest number of a set of naturals is
one of them comes from WellFoundedInduction.

**SessionLaunchProofs.** `TypeCorrect`, `AtMostOneEnter`, `OwnLine` and
`AnswersAreConsistent` from one invariant. `Queued`: the pending launches are
those in the queue, each once, so a repeated id never starts a second delivery.
`Presses`: a launch that has not submitted has no enter typed or run, and one
that has submitted has exactly one, typed or run. Enters of several launches may
be on their way at once, since a late echo of the same text confirms a command
before the shell has read it. `Lines`: what stands on the prompt, and what will
when the shell has read up to an enter, a follow-up text or the end of what was
typed, is text of one launch. Each retry types kill-line first and
the queue lets one launch type at a time; `Lines` is where both are used.
`Told`: what callers wait for and were told agrees with the ledger.

**TriggerSchedulerProofs.** `TypeCorrect` and `OneRun` from one invariant. A
run's slot may be replaced by an edit, so `inFlight` of a slot does not say
which run set it. `Captured`: a run whose slot is still in the map has not been
removed with its trigger. `Shown`: the trigger of a run that was not taken off
the canvas since it began shows as in flight, in whatever slot it has by now.
With `Shown`, a firing finds the trigger in flight and does not start a second
run. The same step, read the other way, is the defect of `trigger_skipped`.
`TypeCorrect` needs that the nearest moment of a set of naturals is one of
them, which comes from WellFoundedInduction. `OnlyArmedFires` needs a second
invariant, `Consent`, about what is armed in memory, on disk and in each queued
write. A landing write withdraws the consent of every earlier call for its
node, so that the records lie within the remaining consent needs `Asked`: from
a queued call on, the records of its node are those of that call or of a later
queued one, never older. `ArmedGetsATime` needs the converse of `Asked`
(`LastCall`: the last queued call of a node asked for the record in memory), as
only the continuation of that call schedules what memory says, and `Ready`: a
trigger without queued calls, whose last write did not fail, has a time. A save
that edits a definition keeps the arm record and schedules at once only what
was armed and settled; one that comes while a call is queued leaves it to the
continuation. The hypothesis `RecurringOccurs` says that a recurring definition
has a next occurrence from every moment of the clock; the code searches 366
days ahead (`trigger-scheduler.ts:187`) and gives a rule that never occurs no
time, which is not what the property is about.

**SecureStoreProofs.** `Exclusion`, `LockUse` and `Refinement` from one
invariant of three parts. `Shape`: the places of the calls, the queues and the
lock are well formed, and a call under way is in its process's queue. `Held`: a
call between its BEGIN and its end is the first of the queue of the process
that holds the lock, so there is one at most. `Sound`: the draft is the effect
of the call on what it read, and from the comparison to the rename the file is
what it read. The refinement proof maps the initial state, and then every
action: the rename is the abstract call's step, by `Sound`; a foreign edit is
the abstract one; every other step changes neither the file nor what the
abstract document sees of the calls, or is their start or their answer.

TLC checked all invariants on the instances of section 3 before they were
proved.

## 6. What is only model-checked

* Liveness (`FrameGoesOut`, `RequestAnswered`, `Recovers`, `LaunchAnswered`,
  `CallAnswered`): out of the prover's reach, which does not reason about
  fairness and ENABLED.
* What the runs that end in a violation are about (section 4); no theorem can
  state it.

Every safety property of a passing run is a theorem for all values of the
constants. Those of CanvasSync and CanvasPublish about convergence, those of
HostStartup and `ArmedIsScheduled` have a hypothesis on the workload or the
calendar; what fails without the former is in section 4. The type
invariant of SecureStore has no theorem of its own; the configurations list type
invariants only where they are cheap, since the other properties would meet a
badly typed state as well.

## 7. Abstractions

* Contents, names, ids and tokens are opaque values; frames are whole.
* The session host's deadlines are nondeterministic: they may fire whenever
  what they wait for has not happened. That a lease ends before the idle timer
  that was armed after it follows from their equal length and is built into
  `GraceExit`. The order of the continuations around `ShutdownDone` is open.
* `CompletedForgotten` lets the record of a completed kill vanish at any time,
  which covers both its TTL and the eviction by count.
* SessionHost, HostSession and SessionLaunch are separate: the first has many
  generations and no output, the others one generation and no kills but its
  exit.
* In HostSession, output is a number of chunks and the screen shows how many of
  them it has taken; a geometry is a pair that is compared by its components.
* In SessionLaunch nobody else writes to the prompt, kill-line always empties
  it, and a write that throws (`session.ts:507`, `595-603`) is the exit of the
  terminal. A mangled command is only one that is not echoed in full.
* The trigger scheduler's cron calendar is a fixed period, the next moment
  after a given one; the history of triggers (a file that is only appended to)
  is left out. A failed write of the arm file may have replaced it.
* The secure store's sealing and parsing is the identity on entries but for
  `Corrupt`; path aliases and the sweeping of old temporary files are left out.
  `main/pairing-registry-lock.ts`, a second user of the lock, is not modelled,
  nor are COMMIT, ROLLBACK and close all throwing
  (`fs-transaction-lock.ts:392-397`).
* `closeProject`, `pruneProjects` and `pruneNodes` have no action: no shell of
  the application calls them.
* Sockets that closed do not come back; a reconnecting client is a new socket.
* The canvas models have one core that does not restart, and clients that are
  attached from the beginning. `applied` has no shop nodes
  (`canvas-mutations.ts:244-259`) and no creation event retried under another
  id; `diffToMutations` does not filter nodes that cannot be deleted
  (`canvas-publish.ts:418`).

## 8. Plan

In this order.

1. HostStartup: what `Orderly` may allow more of, a start that overlaps the
   reclaim of another one, except between its unlink and create. As it stands,
   after a crash or a departure a start overlaps only one that has the lock.
2. `CanvasReconnect`: a core restart, connection ids and `reset`; composes
   CanvasSync, whose reflector implements an append-only log.
3. `SessionHostClient`, composed with SessionHost's kill protocol: an
   acknowledged call was executed by the host.
4. `DurableOccurrences`, which no shell constructs yet; input and message
   delivery; `BrowserLease`; `PresenceHub`.

The runs are kept few, so that the whole development checks in well under an
hour: a new module takes the place of a run whose question it answers too.

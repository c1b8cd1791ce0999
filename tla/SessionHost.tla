---------------------------- MODULE SessionHost ----------------------------
(***************************************************************************)
(* The session host daemon (src/session-host/host.ts with                  *)
(* generation-barrier.ts and kill-session.ts): the generations of a named  *)
(* terminal, the clients that attach to them, the kills that end them, the *)
(* replacement leases a kill leaves behind, shutdown and the idle exit.    *)
(*                                                                         *)
(* The host runs on one event loop.  An action is what runs between two    *)
(* awaits.  A continuation whose promise is settled runs before the next   *)
(* request, exit or timer is looked at: `Quiet' says none is waiting, and  *)
(* guards every action the outside world triggers.                         *)
(*                                                                         *)
(* A request's socket and name identify it: SessionHostSocketRequestQueue  *)
(* runs the requests of one socket for one name one after the other.       *)
(***************************************************************************)
EXTENDS Naturals, Sequences, FiniteSets

CONSTANTS
  Names,        \* session names
  Sockets,      \* connections; one that closed does not come back
  Ids,          \* kill operation ids; the id of a granted kill is its replacement token
  MaxGen,       \* bound: how many processes the host spawns
  Kinds,        \* the attach commands clients use: "attach", "existing"
  Windows,      \* process.platform === 'win32'
  MayShutDown,  \* do clients send `shutdown'?
  None,         \* no id
  Shutdown      \* the operation id of the kills a shutdown issues

ASSUME HostConstants ==
  /\ MaxGen \in Nat
  /\ Kinds \subseteq {"attach", "existing"}
  /\ {Windows, MayShutDown} \subseteq BOOLEAN
  /\ None \notin Ids \cup Names /\ Shutdown \notin Ids /\ None # Shutdown

Gens == 1..MaxGen
NoGen == 0

VARIABLES
  up,          \* is the host process running?
  shutting,    \* "no", "ending" (shuttingDown) or "exiting" (the reply is out)
  targets,     \* generations the shutdown waits for
  failed,      \* those of them it gave up on
  grace,       \* is the idle-exit timer armed?
  sessions,    \* sessions[n]: the registered generation, or NoGen
  ending,      \* ending[n]: the kill operation under way, or NoKill
  completed,   \* completedKillIds
  lease,       \* replacementReservations: the token that holds n, or None
  turns,       \* turns[n]: the sockets queued for n's coordinator turn
  phase,       \* phase[g]: unborn, live, killed (retiring), exited (draining), retired
  nameOf, creator,  \* the generation's name, and the token it was created by
  owner,       \* owner[g]: the kill that publishSessionEnd found for g
  subs,        \* subs[g]: the sockets that receive g's frames
  req,         \* req[s][n]: the request of socket s for n that is under way
  closed,      \* sockets that are gone
  op,          \* op[id]: what the client that chose id wants killed
  granted,     \* tokens that reached their client
  acked,       \* history: kills answered with success
  attached,    \* history: attached[s][n], the last generation s was answered with
  killedBy     \* history: killedBy[g], the operation that ended g

host == <<up, shutting, targets, failed, grace>>
gens == <<phase, nameOf, creator, owner, subs>>
clients == <<closed, op>>
vars == <<host, sessions, ending, completed, lease, turns, gens, req, clients, granted, acked,
          attached, killedBy>>

NoKill == [gen |-> NoGen, id |-> None, tree |-> FALSE]
NoOp == [name |-> None, gen |-> NoGen, reserve |-> FALSE]
Idle == [pc |-> "idle", kind |-> "none", id |-> None, want |-> NoGen, gen |-> NoGen]

Phases == {"unborn", "live", "killed", "exited", "retired"}
Steps == {"idle", "turn", "inspect", "warm", "cold", "launch", "coldEnd", "awaitEnd", "killing"}
KillIds == Ids \cup {Shutdown, None}

TypeOK ==
  /\ up \in BOOLEAN /\ grace \in BOOLEAN
  /\ shutting \in {"no", "ending", "exiting"}
  /\ targets \subseteq Gens /\ failed \subseteq Gens
  /\ sessions \in [Names -> Gens \cup {NoGen}]
  /\ ending \in [Names -> [gen : Gens \cup {NoGen}, id : KillIds, tree : BOOLEAN]]
  /\ completed \subseteq Ids /\ granted \subseteq Ids /\ acked \subseteq Ids
  /\ lease \in [Names -> Ids \cup {None}]
  /\ turns \in [Names -> Seq(Sockets)]
  /\ phase \in [Gens -> Phases]
  /\ nameOf \in [Gens -> Names \cup {None}]
  /\ creator \in [Gens -> Ids \cup {None}]
  /\ owner \in [Gens -> KillIds]
  /\ subs \in [Gens -> SUBSET Sockets]
  /\ req \in [Sockets -> [Names -> [pc : Steps, kind : Kinds \cup {"kill", "none"},
                                    id : Ids \cup {None}, want : Gens \cup {NoGen},
                                    gen : Gens \cup {NoGen}]]]
  /\ closed \subseteq Sockets
  /\ op \in [Ids -> [name : Names \cup {None}, gen : Gens \cup {NoGen}, reserve : BOOLEAN]]
  /\ attached \in [Sockets -> [Names -> Gens \cup {NoGen}]]
  /\ killedBy \in [Gens -> KillIds]

Init ==
  /\ up = TRUE /\ shutting = "no" /\ targets = {} /\ failed = {}
  /\ grace = TRUE
  /\ sessions = [n \in Names |-> NoGen]
  /\ ending = [n \in Names |-> NoKill]
  /\ completed = {} /\ granted = {} /\ acked = {}
  /\ lease = [n \in Names |-> None]
  /\ turns = [n \in Names |-> <<>>]
  /\ phase = [g \in Gens |-> "unborn"]
  /\ nameOf = [g \in Gens |-> None] /\ creator = [g \in Gens |-> None]
  /\ owner = [g \in Gens |-> None] /\ killedBy = [g \in Gens |-> None]
  /\ subs = [g \in Gens |-> {}]
  /\ req = [s \in Sockets |-> [n \in Names |-> Idle]]
  /\ closed = {}
  /\ op = [id \in Ids |-> NoOp]
  /\ attached = [s \in Sockets |-> [n \in Names |-> NoGen]]

-----------------------------------------------------------------------------
(* Helpers.                                                                 *)

isExited(g) == phase[g] \in {"exited", "retired"}
isLive(n) == sessions[n] # NoGen /\ ~isExited(sessions[n])

reserves(id) == id \in Ids /\ op[id].reserve

\* cancelGraceExit, then scheduleGraceExitIfEmpty, once the registry is s.
rescheduleGrace(s) == grace' = (\A n \in Names : s[n] = NoGen)

\* The lease and the idle timer run equally long, and the timer is armed anew
\* after the lease is set.
setReplacementReservation(n, id, s) ==
  /\ lease' = [lease EXCEPT ![n] = id]
  /\ rescheduleGrace(s)

endRequest(s, n) == req' = [req EXCEPT ![s][n] = Idle]
step(s, n, pc, g) == req' = [req EXCEPT ![s][n].pc = pc, ![s][n].gen = g]
releaseTurn(n) == turns' = [turns EXCEPT ![n] = Tail(@)]

\* Mutant: an exited generation that still drains counts as gone.
atBarrier_Draining(s, n) ==
  /\ req[s][n].pc = "turn" /\ Head(turns[n]) = s
  /\ sessions[n] # NoGen => phase[sessions[n]] # "killed"

\* It is s's turn for n, and currentSessionAfterRetirement has no exited or
\* retiring generation to wait for.
atBarrier(s, n) ==
  /\ req[s][n].pc = "turn" /\ Head(turns[n]) = s
  /\ sessions[n] # NoGen => phase[sessions[n]] = "live"

\* No continuation waits: every settled promise has been acted on.
Quiet ==
  /\ \A s \in Sockets : \A n \in Names :
       /\ ~atBarrier(s, n)
       /\ req[s][n].pc # "inspect"
       /\ req[s][n].pc \in {"awaitEnd", "coldEnd"} => phase[req[s][n].gen] # "retired"
  /\ shutting = "ending" => \E g \in targets \ failed : phase[g] # "retired"

-----------------------------------------------------------------------------
(* attach and attachExisting.                                               *)

\* dispatch refuses both while the host shuts down.  A token is one the
\* client was granted; an expected generation is one it has heard of.
Attach(s, n) ==
  /\ up /\ Quiet /\ s \notin closed /\ req[s][n].pc = "idle"
  /\ shutting = "no"
  /\ \E kind \in Kinds :
     \E id \in {None} \cup {i \in granted : kind = "attach" /\ op[i].name = n} :
     \E want \in {NoGen} \cup {g \in Gens : kind = "existing" /\ nameOf[g] = n} :
       req' = [req EXCEPT ![s][n] = [pc |-> "turn", kind |-> kind, id |-> id, want |-> want,
                                     gen |-> NoGen]]
  /\ turns' = [turns EXCEPT ![n] = Append(@, s)]
  /\ UNCHANGED <<host, sessions, ending, completed, lease, gens, clients, granted, acked,
                 attached, killedBy>>

\* currentSessionAfterRetirement returns; the operation runs a turn of the
\* microtask queue later, with what it returned.
Observe(s, n) ==
  /\ up /\ atBarrier(s, n)
  /\ step(s, n, "inspect", sessions[n])
  /\ UNCHANGED <<host, sessions, ending, completed, lease, turns, gens, clients, granted, acked,
                 attached, killedBy>>

\* The operation, up to its first await, given the generation observed.
inspecting(s, n) == up /\ req[s][n].pc = "inspect"
existing(s, n) == IF req[s][n].gen # NoGen /\ ~isExited(req[s][n].gen) THEN req[s][n].gen ELSE NoGen
token(s, n) == req[s][n].id

\* A live generation: it is being killed or is not the one expected; or the
\* request has a token, and the generation was not created by it or from
\* another launch plan.
RefuseWarm(s, n) ==
  /\ inspecting(s, n)
  /\ LET g == existing(s, n)
     IN  \/ ending[n] # NoKill
         \/ /\ g # NoGen
            /\ \/ token(s, n) # None
               \/ req[s][n].want \notin {NoGen, g}
  /\ endRequest(s, n) /\ releaseTurn(n)
  /\ grace' = FALSE
  /\ UNCHANGED <<up, shutting, targets, failed, sessions, ending, completed, lease,
                 gens, clients, granted, acked, attached, killedBy>>

\* Join the live generation: prepareAttachment, then the screen snapshot.
PrepareWarm(s, n) ==
  /\ inspecting(s, n)
  /\ LET g == existing(s, n)
     IN  /\ ending[n] = NoKill
         /\ g # NoGen
         /\ token(s, n) # None => creator[g] = token(s, n)
         /\ req[s][n].want \in {NoGen, g}
         /\ step(s, n, "warm", g)
  /\ grace' = FALSE
  /\ UNCHANGED <<up, shutting, targets, failed, sessions, ending, completed, lease,
                 turns, gens, clients, granted, acked, attached, killedBy>>

mayCreate(s, n) ==
  /\ ending[n] = NoKill
  /\ existing(s, n) = NoGen
  /\ req[s][n].kind = "attach"

\* Mutant: a refused attach keeps its turn.
RefuseCold_KeepsTurn(s, n) ==
  /\ inspecting(s, n)
  /\ ending[n] = NoKill /\ existing(s, n) = NoGen
  /\ req[s][n].kind = "existing" \/ lease[n] # token(s, n)
  /\ endRequest(s, n)
  /\ rescheduleGrace(sessions)
  /\ UNCHANGED <<up, shutting, targets, failed, sessions, ending, completed, lease, turns, gens,
                 clients, granted, acked, attached, killedBy>>

\* Nothing to join for attachExisting, or the name's lease and the token differ.
RefuseCold(s, n) ==
  /\ inspecting(s, n)
  /\ ending[n] = NoKill /\ existing(s, n) = NoGen
  /\ req[s][n].kind = "existing" \/ lease[n] # token(s, n)
  /\ endRequest(s, n) /\ releaseTurn(n)
  /\ rescheduleGrace(sessions)
  /\ UNCHANGED <<up, shutting, targets, failed, sessions, ending, completed, lease, gens, clients,
                 granted, acked, attached, killedBy>>

\* Mutant: a failed spawn leaves the host without its idle timer.
SpawnFails_NoTimer(s, n) ==
  /\ inspecting(s, n) /\ mayCreate(s, n) /\ lease[n] = token(s, n)
  /\ lease' = [lease EXCEPT ![n] = None]
  /\ endRequest(s, n) /\ releaseTurn(n)
  /\ grace' = FALSE
  /\ UNCHANGED <<up, shutting, targets, failed, sessions, ending, completed, gens,
                 clients, granted, acked, attached, killedBy>>

\* The constructor throws; the lease was consumed before it ran.
SpawnFails(s, n) ==
  /\ inspecting(s, n) /\ mayCreate(s, n) /\ lease[n] = token(s, n)
  /\ lease' = [lease EXCEPT ![n] = None]
  /\ endRequest(s, n) /\ releaseTurn(n)
  /\ rescheduleGrace(sessions)
  /\ UNCHANGED <<up, shutting, targets, failed, sessions, ending, completed, gens, clients,
                 granted, acked, attached, killedBy>>

Create(s, n) ==
  /\ inspecting(s, n) /\ mayCreate(s, n) /\ lease[n] = token(s, n)
  /\ lease' = [lease EXCEPT ![n] = None]
  /\ \E g \in Gens :
       /\ phase[g] = "unborn" /\ \A h \in Gens : phase[h] = "unborn" => g <= h
       /\ phase' = [phase EXCEPT ![g] = "live"]
       /\ nameOf' = [nameOf EXCEPT ![g] = n]
       /\ creator' = [creator EXCEPT ![g] = token(s, n)]
       /\ sessions' = [sessions EXCEPT ![n] = g]
       /\ step(s, n, "cold", g)
  /\ grace' = FALSE
  /\ UNCHANGED <<up, shutting, targets, failed, ending, completed, turns, owner, subs,
                 clients, granted, acked, attached, killedBy>>

Operate(s, n) ==
  \/ RefuseWarm(s, n) \/ PrepareWarm(s, n)
  \/ RefuseCold(s, n) \/ SpawnFails(s, n) \/ Create(s, n)

\* A response that ends an attach; it tells the client of g, or of an error.
respond(s, n, g) ==
  /\ attached' = [attached EXCEPT ![s][n] = IF g # NoGen /\ s \notin closed THEN g ELSE @]
  /\ endRequest(s, n) /\ releaseTurn(n)

\* commit.  From here on s receives g's frames.  The response follows at once
\* or, if the attach has a plan, when its initial launch is over.
activate(s, n, g, plan) ==
  /\ subs' = [subs EXCEPT ![g] = @ \cup {s}]
  /\ \/ respond(s, n, g)
     \/ plan /\ step(s, n, "launch", g) /\ UNCHANGED <<turns, attached>>
  /\ UNCHANGED <<host, sessions, ending, completed, lease, phase, nameOf, creator, owner, clients,
                 granted, acked, killedBy>>

\* The geometry and the screen of a warm attach are there; only a replay of a
\* replacement runs a launch.  An attach whose generation ended meanwhile
\* crosses the barrier again, keeping its turn.  One that is cancelled, or
\* whose screen fails, is rolled back.
WarmDone(s, n) ==
  /\ up /\ Quiet /\ req[s][n].pc = "warm"
  /\ LET g == req[s][n].gen
         replaced == isExited(g) \/ sessions[n] # g
     IN  \/ s \notin closed /\ ~replaced /\ activate(s, n, g, token(s, n) # None)
         \/ /\ s \notin closed /\ replaced
            /\ step(s, n, "turn", NoGen)
            /\ UNCHANGED <<host, sessions, ending, completed, lease, turns, gens, clients, granted,
                           acked, attached, killedBy>>
         \/ /\ respond(s, n, NoGen)
            /\ UNCHANGED <<host, sessions, ending, completed, lease, gens, clients, granted, acked,
                           killedBy>>

\* The geometry of a cold attach is there.  A creation that is cancelled, or
\* whose resize fails, is killed again, unless the kill itself throws.
ColdDone(s, n) ==
  /\ up /\ Quiet /\ req[s][n].pc = "cold"
  /\ LET g == req[s][n].gen
     IN  \/ s \notin closed /\ ~isExited(g) /\ activate(s, n, g, TRUE)
         \/ /\ step(s, n, "coldEnd", g)
            /\ phase' = [phase EXCEPT ![g] = IF @ = "live" THEN "killed" ELSE @]
            /\ UNCHANGED <<host, sessions, ending, completed, lease, turns, nameOf, creator, owner,
                           subs, clients, granted, acked, attached, killedBy>>
         \/ /\ phase[g] = "live"
            /\ respond(s, n, NoGen)
            /\ UNCHANGED <<host, sessions, ending, completed, lease, gens, clients, granted, acked,
                           killedBy>>

\* executeInitialLaunch is over, or threw: the attach is then answered with
\* the error and stays committed.
LaunchDone(s, n) ==
  /\ up /\ Quiet /\ req[s][n].pc = "launch"
  /\ \E g \in {req[s][n].gen, NoGen} : respond(s, n, g)
  /\ UNCHANGED <<host, sessions, ending, completed, lease, gens, clients, granted, acked, killedBy>>

\* The cancelled creation is retired: the attach is answered with its error.
ColdEnd(s, n) ==
  /\ up /\ req[s][n].pc = "coldEnd" /\ phase[req[s][n].gen] = "retired"
  /\ endRequest(s, n) /\ releaseTurn(n)
  /\ UNCHANGED <<host, sessions, ending, completed, lease, gens, clients, granted, acked, attached,
                 killedBy>>

-----------------------------------------------------------------------------
(* killSession.                                                             *)

\* A client decides to kill what it has last heard of n (the immediate
\* probe), or to lease a name it expects to be absent.
Decide(id, n) ==
  /\ up /\ Quiet /\ op[id] = NoOp
  /\ \E reserve \in BOOLEAN : \E g \in {NoGen, IF isLive(n) THEN sessions[n] ELSE NoGen} :
       /\ isLive(n) /\ g = NoGen => reserve
       /\ op' = [op EXCEPT ![id] = [name |-> n, gen |-> g, reserve |-> reserve]]
  /\ UNCHANGED <<host, sessions, ending, completed, lease, turns, gens, req, closed, granted, acked,
                 attached, killedBy>>

\* A success reply.  Its client may have given up on the connection by then.
ack(id) ==
  /\ acked' = acked \cup {id}
  /\ granted' \in {granted} \cup (IF op[id].reserve THEN {granted \cup {id}} ELSE {})

\* Every request that waits for kill id of n is answered with success.
ackAll(n, id) ==
  /\ req' = [s \in Sockets |-> [m \in Names |->
               IF m = n /\ req[s][n].pc = "killing" THEN Idle ELSE req[s][m]]]
  /\ IF id \in Ids /\ \E s \in Sockets : req[s][n].pc = "killing"
     THEN ack(id)
     ELSE UNCHANGED <<acked, granted>>

leasedToOther(n, id) == op[id].reserve /\ lease[n] \notin {None, id}

\* Mutant: any live generation of the name will do.
expected_Any(n, id) == isLive(n)

\* The name's live generation is the one the client observed.
expected(n, id) == isLive(n) /\ sessions[n] = op[id].gen

\* The kill of an operation with nothing left to wait for: the name is
\* absent, or a generation is live.
KillAbsent(s, n, id) ==
  /\ ~isLive(n) /\ ~leasedToOther(n, id)
  /\ IF op[id].reserve
     THEN setReplacementReservation(n, id, sessions)
     ELSE UNCHANGED <<lease, grace>>
  /\ completed' = completed \cup {id}
  /\ ack(id) /\ endRequest(s, n)
  /\ UNCHANGED <<up, shutting, targets, failed, sessions, ending, turns, gens, clients, attached,
                 killedBy>>

\* Another generation took the name: the target is gone, the lease is not to be had.
KillOther(s, n, id) ==
  /\ isLive(n) /\ ~expected(n, id) /\ ~op[id].reserve
  /\ completed' = completed \cup {id}
  /\ ack(id) /\ endRequest(s, n)
  /\ UNCHANGED <<host, sessions, ending, lease, turns, gens, clients, attached, killedBy>>

KillRefused(s, n, id) ==
  /\ \/ ~isLive(n) /\ leasedToOther(n, id)
     \/ isLive(n) /\ ~expected(n, id) /\ op[id].reserve
     \/ ~Windows /\ expected(n, id)                   \* proc.kill() throws
  /\ endRequest(s, n)
  /\ UNCHANGED <<host, sessions, ending, completed, lease, turns, gens, clients, granted, acked,
                 attached, killedBy>>

\* The expected generation: signal it and claim the name.  On Windows the
\* process tree is terminated first and the generation is retiring after.
KillExpected(s, n, id) ==
  /\ expected(n, id)
  /\ LET g == sessions[n]
     IN  /\ ending' = [ending EXCEPT ![n] = [gen |-> g, id |-> id, tree |-> Windows]]
         /\ killedBy' = [killedBy EXCEPT ![g] = id]
         /\ phase' = IF Windows THEN phase ELSE [phase EXCEPT ![g] = "killed"]
         /\ req' = [req EXCEPT ![s][n] = [Idle EXCEPT !.pc = "killing", !.kind = "kill", !.id = id]]
  /\ UNCHANGED <<host, sessions, completed, lease, turns, nameOf, creator, owner, subs, clients,
                 granted, acked, attached>>

KillNow(s, n, id) ==
  \/ KillAbsent(s, n, id) \/ KillOther(s, n, id) \/ KillRefused(s, n, id) \/ KillExpected(s, n, id)

startKill(s, n, id) ==
  /\ up /\ Quiet /\ s \notin closed /\ req[s][n].pc = "idle"
  /\ op[id].name = n

\* A replay of a completed operation: the reservation it left is refreshed.
KillReplay(s, n, id) ==
  /\ startKill(s, n, id) /\ id \in completed
  /\ op[id].reserve /\ lease[n] # id => id \notin granted
  /\ IF op[id].reserve
     THEN IF isLive(n) \/ leasedToOther(n, id)
          THEN UNCHANGED <<lease, grace, acked, granted>>
          ELSE setReplacementReservation(n, id, sessions) /\ ack(id)
     ELSE UNCHANGED <<lease, grace>> /\ ack(id)
  /\ UNCHANGED <<up, shutting, targets, failed, sessions, ending, completed, turns, gens, req,
                 clients, attached, killedBy>>

\* A retry joins its own operation under way.
KillJoin(s, n, id) ==
  /\ startKill(s, n, id) /\ id \notin completed
  /\ ending[n].id = id
  /\ req' = [req EXCEPT ![s][n] = [Idle EXCEPT !.pc = "killing", !.kind = "kill", !.id = id]]
  /\ UNCHANGED <<host, sessions, ending, completed, lease, turns, gens, clients, granted, acked,
                 attached, killedBy>>

\* Mutant: a kill does not wait for a generation that retires by itself.
retiring_Never(n) == FALSE

retiring(n) == sessions[n] # NoGen /\ phase[sessions[n]] # "live"

\* A generation that retires by itself: absence is only known once it has.
KillWaits(s, n, id) ==
  /\ startKill(s, n, id) /\ id \notin completed
  /\ ending[n] = NoKill /\ retiring(n)
  /\ req' = [req EXCEPT ![s][n] = [Idle EXCEPT !.pc = "awaitEnd", !.kind = "kill", !.id = id,
                                               !.gen = sessions[n]]]
  /\ UNCHANGED <<host, sessions, ending, completed, lease, turns, gens, clients, granted, acked,
                 attached, killedBy>>

\* The request may find another operation under way, which is an error and
\* changes nothing, or start its own.
Kill(s, n, id) ==
  /\ startKill(s, n, id) /\ id \notin completed
  /\ ending[n] = NoKill /\ ~retiring(n)
  /\ KillNow(s, n, id)

KillResumes(s, n) ==
  /\ up /\ req[s][n].pc = "awaitEnd" /\ phase[req[s][n].gen] = "retired"
  /\ KillNow(s, n, req[s][n].id)

\* failOperation: whoever waits for the kill is answered with its error.
failOperation(n) ==
  /\ ending' = [ending EXCEPT ![n] = NoKill]
  /\ req' = [s \in Sockets |-> [m \in Names |->
               IF m = n /\ req[s][n].pc = "killing" THEN Idle ELSE req[s][m]]]
  /\ failed' = IF ending[n].gen \in targets THEN failed \cup {ending[n].gen} ELSE failed

\* terminateWindowsProcessTree is done with the process tree of n's kill.
TreeKilled(n) ==
  /\ up /\ Quiet /\ ending[n].tree
  /\ ending' = [ending EXCEPT ![n].tree = FALSE]
  /\ phase' = [phase EXCEPT ![ending[n].gen] = IF @ = "live" THEN "killed" ELSE @]
  /\ UNCHANGED <<host, sessions, completed, lease, turns, nameOf, creator, owner, subs, req, clients,
                 granted, acked, attached, killedBy>>

TreeKillFails(n) ==
  /\ up /\ Quiet /\ ending[n].tree
  /\ failOperation(n)
  /\ UNCHANGED <<up, shutting, targets, grace, sessions, completed, lease, turns, gens,
                 clients, granted, acked, attached, killedBy>>

-----------------------------------------------------------------------------
(* The end of a generation.                                                 *)

\* node-pty reports the exit.  publishSessionEnd looks up who killed g
\* before it waits for the last output.
ProcessExit(g) ==
  /\ up /\ Quiet /\ phase[g] \in {"live", "killed"}
  /\ phase' = [phase EXCEPT ![g] = "exited"]
  /\ owner' = [owner EXCEPT ![g] = IF ending[nameOf[g]].gen = g THEN ending[nameOf[g]].id ELSE None]
  /\ UNCHANGED <<host, sessions, ending, completed, lease, turns, nameOf, creator, subs, req,
                 clients, granted, acked, attached, killedBy>>

\* The output has drained: reserve, broadcast the exit, unregister, release
\* whoever waits for the kill.
Retire(g) ==
  LET n == nameOf[g]
      id == owner[g]
      left == [sessions EXCEPT ![n] = IF @ = g THEN NoGen ELSE @]
  IN  /\ up /\ Quiet /\ phase[g] = "exited"
      /\ phase' = [phase EXCEPT ![g] = "retired"]
      /\ subs' = [subs EXCEPT ![g] = {}]
      /\ sessions' = left
      /\ IF reserves(id)
         THEN setReplacementReservation(n, id, left)
         ELSE rescheduleGrace(left) /\ UNCHANGED lease
      /\ ending' = [ending EXCEPT ![n] = NoKill]
      /\ completed' = IF id \in Ids THEN completed \cup {id} ELSE completed
      /\ IF id = None THEN UNCHANGED <<req, acked, granted>> ELSE ackAll(n, id)
      /\ UNCHANGED <<up, shutting, targets, failed, turns, nameOf, creator, owner, clients, attached,
                     killedBy>>

-----------------------------------------------------------------------------
(* Time, connections, shutdown.                                             *)

LeaseExpires(n) ==
  /\ up /\ Quiet /\ lease[n] # None
  /\ lease' = [lease EXCEPT ![n] = None]
  /\ UNCHANGED <<up, shutting, targets, failed, grace, sessions, ending, completed, turns, gens,
                 req, clients, granted, acked, attached, killedBy>>

\* The completed-operation record outlives its TTL, or its place in the cache.
CompletedForgotten(id) ==
  /\ up /\ Quiet /\ id \in completed
  /\ completed' = completed \ {id}
  /\ UNCHANGED <<host, sessions, ending, lease, turns, gens, req, clients, granted, acked, attached,
                 killedBy>>

disconnect(S) ==
  /\ closed' = closed \cup S
  /\ subs' = [g \in Gens |-> subs[g] \ S]

SocketClose(s) ==
  /\ up /\ Quiet /\ s \notin closed
  /\ disconnect({s})
  /\ UNCHANGED <<host, sessions, ending, completed, lease, turns, phase, nameOf, creator, owner, req,
                 op, granted, acked, attached, killedBy>>

\* process.exit, in either of two ways.
stop ==
  /\ up' = FALSE
  /\ UNCHANGED <<shutting, targets, failed, grace, sessions, ending, completed, lease,
                 turns, gens, req, clients, granted, acked, attached, killedBy>>

\* The idle timer fires.  A lease is no younger than the timer (see
\* setReplacementReservation), and has expired by then.
GraceExit ==
  /\ up /\ Quiet /\ grace
  /\ \A n \in Names : sessions[n] = NoGen
  /\ \A n \in Names : lease[n] = None
  /\ stop

\* shutdown: kill every registered generation that nobody is ending yet.
\* proc.kill() may throw for some of them.
ShutdownStart ==
  /\ MayShutDown
  /\ up /\ Quiet /\ shutting = "no"
  /\ LET mine == {n \in Names : /\ sessions[n] # NoGen /\ ending[n] = NoKill
                                /\ phase[sessions[n]] = "live"}
     IN  \E thrown \in IF Windows THEN {{}} ELSE SUBSET mine :
           LET signalled == {sessions[n] : n \in mine \ thrown}
           IN  /\ ending' = [n \in Names |->
                               IF n \in mine \ thrown
                               THEN [gen |-> sessions[n], id |-> Shutdown, tree |-> Windows]
                               ELSE ending[n]]
               /\ phase' = [g \in Gens |->
                              IF ~Windows /\ g \in signalled THEN "killed" ELSE phase[g]]
               /\ killedBy' = [g \in Gens |-> IF g \in signalled THEN Shutdown ELSE killedBy[g]]
               /\ failed' = {sessions[n] : n \in thrown}
  /\ targets' = {sessions[n] : n \in Names} \ {NoGen}
  /\ shutting' = "ending" /\ grace' = FALSE
  /\ UNCHANGED <<up, sessions, completed, lease, turns, nameOf, creator, owner, subs, req, clients,
                 granted, acked, attached>>

\* SHUTDOWN_KILL_DEADLINE_MS is over for g.
ShutdownDeadline(g) ==
  /\ up /\ Quiet /\ shutting = "ending"
  /\ g \in targets \ failed /\ phase[g] # "retired"
  /\ failed' = failed \cup {g}
  /\ UNCHANGED <<up, shutting, targets, grace, sessions, ending, completed, lease, turns,
                 gens, req, clients, granted, acked, attached, killedBy>>

\* A session that slipped in and is still running.
slippedIn == \E n \in Names : isLive(n)

\* Every target is retired or given up: reply and, if nothing runs,
\* exitAfterShutdown, which destroys every connection but the requester's.
\* Continuations released by the last retirement may run before this one or
\* after it, those of an attach that spawns included.
ShutdownDone ==
  /\ up /\ shutting = "ending"
  /\ \A g \in targets \ failed : phase[g] = "retired"
  /\ IF failed # {} \/ slippedIn
     THEN shutting' = "no" /\ rescheduleGrace(sessions) /\ UNCHANGED <<closed, subs>>
     ELSE /\ shutting' = "exiting" /\ UNCHANGED grace
          /\ \E requester \in {{}} \cup {{s} : s \in Sockets} : disconnect(Sockets \ requester)
  /\ targets' = {} /\ failed' = {}
  /\ UNCHANGED <<up, sessions, ending, completed, lease, turns, phase, nameOf, creator, owner, req,
                 op, granted, acked, attached, killedBy>>

\* The reply is flushed, or two seconds are over.  Until then the host works
\* on: what was past its guards is still carried out.
ShutdownExit == up /\ Quiet /\ shutting = "exiting" /\ stop

Continue(s, n) == Observe(s, n) \/ Operate(s, n) \/ ColdEnd(s, n) \/ KillResumes(s, n)
Activate(s, n) == WarmDone(s, n) \/ ColdDone(s, n) \/ LaunchDone(s, n)
TreeKill(n) == TreeKilled(n) \/ TreeKillFails(n)

Next ==
  \/ \E s \in Sockets, n \in Names : Attach(s, n) \/ Continue(s, n) \/ Activate(s, n)
  \/ \E s \in Sockets, n \in Names, id \in Ids :
       KillReplay(s, n, id) \/ KillJoin(s, n, id) \/ KillWaits(s, n, id) \/ Kill(s, n, id)
  \/ \E id \in Ids, n \in Names : Decide(id, n)
  \/ \E n \in Names : TreeKill(n) \/ LeaseExpires(n)
  \/ \E g \in Gens : ProcessExit(g) \/ Retire(g) \/ ShutdownDeadline(g)
  \/ \E id \in Ids : CompletedForgotten(id)
  \/ \E s \in Sockets : SocketClose(s)
  \/ GraceExit \/ ShutdownStart \/ ShutdownDone \/ ShutdownExit

Spec == Init /\ [][Next]_vars

\* The event loop runs and starves none of its events, taskkill answers, a
\* signalled process exits and its output drains.  Nothing is asked of
\* processes nobody signalled.
FairSpec ==
  /\ Spec
  /\ \A s \in Sockets, n \in Names : WF_vars(Continue(s, n)) /\ SF_vars(Activate(s, n))
  /\ \A n \in Names : SF_vars(TreeKill(n))
  /\ \A g \in Gens : SF_vars(ProcessExit(g) /\ phase[g] = "killed") /\ SF_vars(Retire(g))
  /\ WF_vars(ShutdownDone)

-----------------------------------------------------------------------------
(* Properties.                                                              *)

\* "A same-name PTY can have only one protocol generation at a time"
\* (generation-barrier.ts:1): until a generation's output, exit frame and
\* teardown are through, no other generation of its name exists.
OneGeneration ==
  \A g, h \in Gens :
    /\ phase[g] \in {"live", "killed", "exited"} /\ phase[h] \in {"live", "killed", "exited"}
    /\ nameOf[g] = nameOf[h]
    => g = h

\* "a socket may receive the old exit before its attach response, but never
\* after it has attached to a new same-name PTY" (generation-barrier.ts:28):
\* nobody who receives g's exit was answered with a newer generation of the
\* name, or joined one and waits for its launch.
NoLateExit ==
  [][\A g \in Gens : phase[g] = "exited" /\ phase'[g] = "retired" =>
       \A s \in subs[g] : /\ attached[s][nameOf[g]] <= g
                          /\ req[s][nameOf[g]].pc = "launch" => req[s][nameOf[g]].gen = g]_vars

\* A kill is answered with success only once the generation it was meant for
\* is gone, its process observed to exit and its name released, whichever
\* retries, natural exits and failed signals came between.
AckedIsGone == \A id \in acked : op[id].gen # NoGen => phase[op[id].gen] = "retired"

\* However late it arrives and however often it is retried, a kill ends the
\* generation its client observed and never a replacement of it.
KillsTheObserved == \A g \in Gens : killedBy[g] \in Ids => op[killedBy[g]].gen = g

\* "A second client must not [...] falsely believe its own id owns the single
\* replacement reservation" (host.ts:725): while a lease holds, nobody else
\* is given it.
LeaseIsExclusive ==
  [][\A n \in Names : lease[n] # None => lease'[n] \in {lease[n], None}]_vars

\* An empty host always has its exit timer armed, so it does not linger: no
\* refused, failed, cancelled or retried attach leaves the timer cancelled.
IdleHostIsTimed ==
  up /\ shutting = "no" /\ (\A n \in Names : sessions[n] = NoGen) => grace

\* Every request is answered: the turn queue, the retirement barrier and the
\* waits of kills for one another never block for good.
RequestAnswered ==
  \A s \in Sockets : \A n \in Names : req[s][n].pc # "idle" ~> req[s][n].pc = "idle" \/ ~up
=============================================================================

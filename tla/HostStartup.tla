---------------------------- MODULE HostStartup ----------------------------
(***************************************************************************)
(* How session hosts of one user directory start and leave                 *)
(* (src/session-host/host.ts with existing-host-state.ts): the state file  *)
(* is at once the startup lock, empty until its creator listens, and the   *)
(* published identity.  Every app instance that finds no host launches     *)
(* one, so several may start together, and any may die at any point.       *)
(*                                                                         *)
(* A step is one filesystem or socket operation: the processes share       *)
(* nothing but the state file, the token file and the endpoint.            *)
(***************************************************************************)
EXTENDS Naturals

CONSTANTS
  Procs,     \* the host processes ever launched
  None,      \* no process
  Platforms, \* the values of process.platform === 'win32' to look at
  Crashes,   \* bound: processes that die without cleaning up
  Leaves,    \* do processes leave by themselves (idle exit, failed start)?
  Orderly,   \* workload switch: troubles keep apart (see mayLaunch, mayEnd)
  Retry,     \* LISTEN_RETRY_MAX_DELAY_MS, in ticks
  Stale      \* EMPTY_LOCK_STALE_MS, in ticks

ASSUME StartupConstants ==
  /\ None \notin Procs /\ Crashes \in Nat
  /\ Retry \in Nat /\ Stale \in Nat /\ Retry < Stale
  /\ Platforms \subseteq BOOLEAN /\ {Leaves, Orderly} \subseteq BOOLEAN

VARIABLES
  windows,   \* the endpoint is a named pipe: nothing to unlink, busy for a while after its
             \* owner died; otherwise a socket file that stays
  pc,        \* where each process is
  seen,      \* seen[p]: what p's last probe read: "unreadable", "absent", or a token's process
  lock,      \* the state file: [kind, by], by whom it was created or published
  age,       \* for how many ticks the state file has gone untouched, up to Stale
  waited,    \* waited[p]: how many ticks ago p last tried to listen
  token,     \* whose token the token file holds, or None
  endpoint,  \* who bound the endpoint, alive or not, or None
  crashed    \* how many processes crashed

files == <<lock, age, token, endpoint>>
vars == <<windows, pc, seen, waited, files, crashed>>

Absent == [kind |-> "absent", by |-> None]
Owning == {"clear", "listen", "token", "publish", "serving"}
Starting == {"gate", "probe", "hello", "judge", "unlink", "relock"} \cup (Owning \ {"serving"})
Leaving == {"dropState", "dropToken", "dropEndpoint"}
Gone == {"quiet", "fatal", "dead"}

TypeOK ==
  /\ windows \in Platforms
  /\ pc \in [Procs -> {"off"} \cup Starting \cup {"serving"} \cup Leaving \cup Gone]
  /\ seen \in [Procs -> {"unreadable", "absent"} \cup Procs]
  /\ lock \in [kind : {"absent", "empty", "ready"}, by : Procs \cup {None}]
  /\ age \in 0..Stale /\ waited \in [Procs -> 0..Retry]
  /\ token \in Procs \cup {None} /\ endpoint \in Procs \cup {None}
  /\ crashed \in 0..Crashes

Init ==
  /\ windows \in Platforms
  /\ pc = [p \in Procs |-> "off"]
  /\ seen = [p \in Procs |-> "absent"]
  /\ lock = Absent /\ age = 0 /\ waited = [p \in Procs |-> 0]
  /\ token = None /\ endpoint = None /\ crashed = 0

goto(p, step) ==
  /\ pc' = [pc EXCEPT ![p] = step]
  /\ waited' = [waited EXCEPT ![p] = 0]
  /\ UNCHANGED windows

\* Orderly launches overlap freely as long as no process crashed or left, and
\* then only with a start that has the lock; at most one process is starting
\* when another crashes or leaves; and nobody overtakes a process that cleans
\* up.
starting(p) == {q \in Procs \ {p} : pc[q] \in Starting}
nobodyCleans == \A q \in Procs : pc[q] \notin Leaving
mayLaunch(p) ==
  /\ nobodyCleans
  /\ (\E q \in Procs : pc[q] = "dead") => \A q \in starting(p) : pc[q] \in Owning
mayEnd(p) == \A q, r \in starting(p) : q = r
at(p, step) == pc[p] = step /\ (Orderly /\ step \notin Leaving => nobodyCleans)
mayLeave(p) == Leaves /\ (Orderly => mayEnd(p))

Launch(p) ==
  /\ pc[p] = "off"
  /\ Orderly => mayLaunch(p)
  /\ goto(p, "gate")
  /\ UNCHANGED <<seen, files, crashed>>

\* open(statePath, 'wx'): whoever creates the file owns the startup lock.
createLock(p, otherwise) ==
  IF lock = Absent
  THEN lock' = [kind |-> "empty", by |-> p] /\ age' = 0 /\ goto(p, "clear")
  ELSE goto(p, otherwise) /\ UNCHANGED <<lock, age>>

Gate(p) ==
  /\ at(p, "gate")
  /\ createLock(p, "probe")
  /\ UNCHANGED <<seen, token, endpoint, crashed>>

\* readExistingSessionHostIdentity: an empty file throws, a file that is not
\* there, or whose token is not there, is absence.
Probe(p) ==
  /\ at(p, "probe")
  /\ seen' = [seen EXCEPT ![p] = IF lock.kind = "empty" THEN "unreadable"
                                 ELSE IF lock = Absent \/ token = None THEN "absent"
                                 ELSE token]
  /\ goto(p, "hello")
  /\ UNCHANGED <<lock, age, token, endpoint, crashed>>

\* Mutant: no host ever answers hello.
answersHello_Never(p) == FALSE

\* trySessionHostHello: the process behind the endpoint accepts its own token.
answersHello(p) ==
  /\ seen[p] \in Procs /\ endpoint = seen[p]
  /\ pc[endpoint] \in {"token", "publish", "serving"}

\* A host answered: exit quietly.  Otherwise probe again, or give up.
Hello(p) ==
  /\ at(p, "hello")
  /\ \/ answersHello(p) /\ goto(p, "quiet")
     \/ ~answersHello(p) /\ \E next \in {"probe", "judge"} : goto(p, next)
  /\ UNCHANGED <<seen, files, crashed>>

\* Mutant: an empty lock is never taken for abandoned.
abandoned_Never == FALSE

abandoned == lock.kind = "empty" /\ age = Stale

\* What the last probe proved: reclaim the lock, or refuse to start.
Judge(p) ==
  /\ at(p, "judge")
  /\ goto(p, IF seen[p] # "unreadable" \/ abandoned THEN "unlink" ELSE "fatal")
  /\ UNCHANGED <<seen, files, crashed>>

ReclaimUnlink(p) ==
  /\ at(p, "unlink")
  /\ lock' = Absent /\ age' = 0
  /\ goto(p, "relock")
  /\ UNCHANGED <<seen, token, endpoint, crashed>>

ReclaimCreate(p) ==
  /\ at(p, "relock")
  /\ createLock(p, "fatal")
  /\ UNCHANGED <<seen, token, endpoint, crashed>>

\* POSIX: remove the socket file a crashed host left behind.
ClearEndpoint(p) ==
  /\ at(p, "clear")
  /\ endpoint' = IF windows THEN endpoint ELSE None
  /\ goto(p, "listen")
  /\ UNCHANGED <<seen, lock, age, token, crashed>>

Listen(p) ==
  /\ at(p, "listen") /\ endpoint = None
  /\ endpoint' = p
  /\ goto(p, "token")
  /\ UNCHANGED <<seen, lock, age, token, crashed>>

\* Mutant: retrying to listen does not touch the lock.
ListenBusy_NoTouch(p) ==
  /\ at(p, "listen") /\ endpoint # None
  /\ \/ goto(p, "listen") /\ UNCHANGED age
     \/ mayLeave(p) /\ goto(p, "dropState") /\ UNCHANGED age
  /\ UNCHANGED <<seen, lock, token, endpoint, crashed>>

\* EADDRINUSE: touch the lock and retry, until the budget is spent.
ListenBusy(p) ==
  /\ at(p, "listen") /\ endpoint # None
  /\ \/ age' = 0 /\ goto(p, "listen")
     \/ mayLeave(p) /\ goto(p, "dropState") /\ UNCHANGED age
  /\ UNCHANGED <<seen, lock, token, endpoint, crashed>>

\* server.close: the endpoint goes at once, the files when it has closed.
closeServer(p) ==
  /\ mayLeave(p) /\ goto(p, "dropState")
  /\ endpoint' = IF windows /\ endpoint # p THEN endpoint ELSE None

\* The `listening' callback: the token file, then the state file over the
\* lock.  A write that fails aborts the start.
WriteToken(p) ==
  /\ at(p, "token")
  /\ \/ token' = p /\ goto(p, "publish") /\ UNCHANGED endpoint
     \/ closeServer(p) /\ UNCHANGED token
  /\ UNCHANGED <<seen, lock, age, crashed>>

PublishState(p) ==
  /\ at(p, "publish")
  /\ \/ /\ lock' = [kind |-> "ready", by |-> p] /\ age' = 0
        /\ goto(p, "serving") /\ UNCHANGED endpoint
     \/ closeServer(p) /\ UNCHANGED <<lock, age>>
  /\ UNCHANGED <<seen, token, crashed>>

\* The idle timer cleans up and exits; after a shutdown the server closes first.
IdleExit(p) ==
  /\ mayLeave(p) /\ at(p, "serving")
  /\ goto(p, "dropState")
  /\ UNCHANGED <<seen, files, crashed>>

ShutdownExit(p) ==
  /\ at(p, "serving")
  /\ closeServer(p)
  /\ UNCHANGED <<seen, lock, age, token, crashed>>

\* cleanupFiles, one unlink after the other, then process.exit.
DropState(p) ==
  /\ at(p, "dropState")
  /\ lock' = Absent /\ age' = 0
  /\ goto(p, "dropToken")
  /\ UNCHANGED <<seen, token, endpoint, crashed>>

DropToken(p) ==
  /\ at(p, "dropToken")
  /\ token' = None
  /\ goto(p, "dropEndpoint")
  /\ UNCHANGED <<seen, lock, age, endpoint, crashed>>

DropEndpoint(p) ==
  /\ at(p, "dropEndpoint")
  /\ endpoint' = IF windows THEN endpoint ELSE None
  /\ goto(p, "dead")
  /\ UNCHANGED <<seen, lock, age, token, crashed>>

\* The process is killed, the machine keeps its files.
Crash(p) ==
  /\ crashed < Crashes /\ (Orderly => mayEnd(p))
  /\ pc[p] \in Starting \cup Leaving \cup {"serving"}
  /\ crashed' = crashed + 1
  /\ goto(p, "dead")
  /\ UNCHANGED <<seen, files>>

\* Windows lets go of a dead owner's pipe.
PipeFreed ==
  /\ windows /\ endpoint # None /\ pc[endpoint] \in Gone
  /\ endpoint' = None
  /\ UNCHANGED <<windows, pc, seen, waited, lock, age, token, crashed>>

\* Time passes over an empty lock.  A start that waits to listen again tries
\* within Retry ticks; its other steps with the lock held are synchronous.
Tick ==
  /\ lock.kind = "empty" /\ age < Stale
  /\ \A p \in Procs : /\ pc[p] \notin {"clear", "token", "publish"}
                      /\ pc[p] = "listen" => waited[p] < Retry
  /\ age' = age + 1
  /\ waited' = [p \in Procs |-> IF pc[p] = "listen" THEN waited[p] + 1 ELSE waited[p]]
  /\ UNCHANGED <<windows, pc, seen, lock, token, endpoint, crashed>>

Start(p) ==
  \/ Gate(p) \/ Probe(p) \/ Hello(p) \/ Judge(p) \/ ReclaimUnlink(p) \/ ReclaimCreate(p)
  \/ ClearEndpoint(p) \/ Listen(p) \/ ListenBusy(p) \/ WriteToken(p) \/ PublishState(p)

Leave(p) == IdleExit(p) \/ ShutdownExit(p) \/ DropState(p) \/ DropToken(p) \/ DropEndpoint(p)

Next ==
  \/ \E p \in Procs : Launch(p) \/ Start(p) \/ Leave(p) \/ Crash(p)
  \/ PipeFreed \/ Tick

Spec == Init /\ [][Next]_vars

\* Live processes take their steps, ten probes come to an end, and Windows
\* lets go of a dead process's pipe.
FairSpec ==
  /\ Spec
  /\ \A p \in Procs : /\ WF_vars(Start(p)) /\ SF_vars(Hello(p) /\ pc'[p] # "probe")
                       /\ WF_vars(DropState(p) \/ DropToken(p) \/ DropEndpoint(p))
  /\ WF_vars(PipeFreed)

-----------------------------------------------------------------------------
(* Properties.                                                              *)

\* "exactly one of them may proceed past this point" (host.ts:162): of
\* processes that start together one gets past the startup gate, however its
\* start and the others' probes interleave; and "a live retrier is never
\* robbed" (existing-host-state.ts:137), however long it waits for the endpoint.
OneOwner == \A p, q \in Procs : pc[p] \in Owning /\ pc[q] \in Owning => p = q

\* A host that serves can be reached by every client: the published state,
\* the token file and the endpoint stay its own as long as it lives.  One that
\* lost any of them would keep its terminals running where nobody finds them.
ServingIsReachable ==
  \A p \in Procs : pc[p] = "serving" =>
    lock = [kind |-> "ready", by |-> p] /\ token = p /\ endpoint = p

\* Whatever point earlier hosts died at, a host launched alone over what they
\* left, once an empty lock has aged, starts ("before issue #783 that
\* deadlocked every later launch", host.ts:183).
alone(p) == \A q \in Procs \ {p} : pc[q] \in Gone \cup {"off"}
Recovers ==
  \A p \in Procs :
    pc[p] = "gate" /\ alone(p) /\ (lock.kind = "empty" => age = Stale)
      ~> pc[p] \in {"serving", "dead"} \/ ~alone(p)
=============================================================================

----------------------------- MODULE SecureStore -----------------------------
(***************************************************************************)
(* One sealed-secret file and the processes that share it                  *)
(* (core/secure-store.ts over core/fs-transaction-lock.ts and              *)
(* core/fs-atomic.ts): each process runs its calls one after another, a    *)
(* save or mutation holds the sidecar's SQLite lock from before it reads   *)
(* the file until after it has renamed its temporary file over it, and     *)
(* compares the file with what it read just before that rename.  A process *)
(* may die at any step, a step may fail, and programs that know nothing of *)
(* the lock may rewrite the file.                                          *)
(***************************************************************************)
EXTENDS Sequences, FiniteSets, Naturals

CONSTANTS
  Processes, \* desktop apps and servers on one data directory
  Callers,   \* calls that may be outstanding
  Home,      \* caller -> the process it runs in
  Entries, Absent, Corrupt,
  Requests,  \* bound: caller -> what it may ask for
  NoProcess  \* nobody holds the lock

VARIABLES
  file,   \* the canonical file
  lock,   \* the process whose transaction holds the sidecar
  queue,  \* process -> its calls in order, the first under way
  call,   \* caller -> what it asked for
  stage,  \* caller -> where its call stands
  base,   \* caller -> the file its transaction read
  draft,  \* caller -> the entries it is about to publish
  seen    \* caller -> the entries its load was answered with

locals == <<base, draft>>
vars == <<file, lock, queue, call, stage, locals, seen>>

\* Stages of a call: queued, then, with the lock held, locked (BEGIN succeeded),
\* drafted (the mutation ran), staged (the temporary file is written), compared
\* (the revision is the one read), published (renamed) or settled (nothing to
\* write); done or failed once answered, idle before the first call.
Transacting == {"locked", "drafted", "staged", "compared", "published", "settled"}

Phase(s) ==
  CASE s \in {"idle", "done", "failed"} -> s
    [] s \in {"queued", "locked", "drafted", "staged", "compared"} -> "pending"
    [] s \in {"published", "settled"} -> "applied"

\* What a call's caller could tell of its progress.
phases == [c \in Callers |-> Phase(stage[c])]

Document == INSTANCE AtomicDocument WITH document <- file, phase <- phases

ASSUME SecureStoreAssumption ==
  /\ Home \in [Callers -> Processes]
  /\ NoProcess \notin Processes
  /\ Requests \in [Callers -> SUBSET Document!Calls]

Documents == Document!Documents
Effect(c, d) == Document!Effect(c, d)

Init ==
  /\ file = Absent /\ lock = NoProcess
  /\ queue = [p \in Processes |-> <<>>]
  /\ call = [c \in Callers |-> [kind |-> "load"]]
  /\ stage = [c \in Callers |-> "idle"]
  /\ base = [c \in Callers |-> Absent] /\ draft = [c \in Callers |-> {}]
  /\ seen = [c \in Callers |-> {}]

Active(c) == queue[Home[c]] # <<>> /\ Head(queue[Home[c]]) = c
At(c, s) == Active(c) /\ stage[c] = s
Move(c, s) == stage' = [stage EXCEPT ![c] = s]

-----------------------------------------------------------------------------
(* Calls of one process, in order.                                           *)

Call(c, request) ==
  /\ stage[c] \in {"idle", "done", "failed"}
  /\ call' = [call EXCEPT ![c] = request]
  /\ queue' = [queue EXCEPT ![Home[c]] = Append(@, c)]
  /\ Move(c, "queued")
  /\ seen' = [seen EXCEPT ![c] = {}]
  /\ UNCHANGED <<file, lock, locals>>

\* What a call's transaction read and drafted goes with it.
Forget(callers) ==
  /\ base' = [c \in Callers |-> IF c \in callers THEN Absent ELSE base[c]]
  /\ draft' = [c \in Callers |-> IF c \in callers THEN {} ELSE draft[c]]

\* Mutant: the queue's tail is the call itself, which a failure leaves rejected.
Leave_Poisoned(c, answer) ==
  /\ Forget({c})
  /\ queue' = IF answer = "failed" THEN queue
              ELSE [queue EXCEPT ![Home[c]] = Tail(@)]
  /\ Move(c, answer)

\* The call is answered, the next one of the process starts.
Leave(c, answer) ==
  /\ Forget({c})
  /\ queue' = [queue EXCEPT ![Home[c]] = Tail(@)]
  /\ Move(c, answer)

\* load takes its turn in the process and reads without the lock.
Load(c) ==
  /\ At(c, "queued") /\ call[c].kind = "load"
  /\ IF Document!Readable(file)
     THEN Leave(c, "done") /\ seen' = [seen EXCEPT ![c] = Document!Contents(file)]
     ELSE Leave(c, "failed") /\ UNCHANGED seen
  /\ UNCHANGED <<file, lock, call>>

-----------------------------------------------------------------------------
(* withCrossProcessLock.                                                     *)

\* Mutant: the lock of a transaction that looks abandoned is taken over.
Begin_Steals(c) ==
  /\ At(c, "queued") /\ call[c].kind # "load"
  /\ lock' = Home[c]
  /\ Move(c, "locked")
  /\ UNCHANGED <<file, queue, call, locals, seen>>

\* BEGIN IMMEDIATE succeeds when no process holds the sidecar.
Begin(c) ==
  /\ At(c, "queued") /\ call[c].kind # "load"
  /\ lock = NoProcess /\ lock' = Home[c]
  /\ Move(c, "locked")
  /\ UNCHANGED <<file, queue, call, locals, seen>>

\* The wait timed out, or the sidecar could not be opened or locked, or the
\* file could not be read.
GiveUp(c) ==
  /\ At(c, "queued")
  /\ Leave(c, "failed")
  /\ UNCHANGED <<file, lock, call, seen>>

\* Mutant: a failed operation leaves its transaction open.
Abort_KeepsLock(c) ==
  /\ \E s \in {"locked", "drafted", "staged", "compared"} : At(c, s)
  /\ Leave(c, "failed")
  /\ UNCHANGED <<file, lock, call, seen>>

\* A step failed: the temporary file is removed, the transaction rolled back.
Abort(c) ==
  /\ \E s \in {"locked", "drafted", "staged", "compared"} : At(c, s)
  /\ lock' = NoProcess
  /\ Leave(c, "failed")
  /\ UNCHANGED <<file, call, seen>>

\* COMMIT succeeds or throws; closing the connection frees the lock either way.
Commit(c) ==
  /\ \E s \in {"published", "settled"} : At(c, s)
  /\ lock' = NoProcess
  /\ \E answer \in {"done", "failed"} : Leave(c, answer)
  /\ UNCHANGED <<file, call, seen>>

-----------------------------------------------------------------------------
(* mutate and save, with the lock held.                                      *)

\* The file is read and the mutation runs on its entries; a damaged file fails
\* a mutation (by Abort) and not a save.
Read(c) ==
  /\ At(c, "locked") /\ Document!Applicable(call[c], file)
  /\ base' = [base EXCEPT ![c] = file]
  /\ IF Document!Changes(call[c], file)
     THEN draft' = [draft EXCEPT ![c] = Effect(call[c], file)] /\ Move(c, "drafted")
     ELSE Move(c, "settled") /\ UNCHANGED draft
  /\ UNCHANGED <<file, lock, queue, call, seen>>

\* writeAtomicFileCompared: the temporary file is written and the lease fenced.
WriteTemp(c) ==
  /\ At(c, "drafted")
  /\ Move(c, "staged")
  /\ UNCHANGED <<file, lock, queue, call, locals, seen>>

\* Mutant: the lock alone is trusted.
Compare_Nothing(c) ==
  /\ At(c, "staged")
  /\ Move(c, "compared")
  /\ UNCHANGED <<file, lock, queue, call, locals, seen>>

\* assertAtomicFileRevision: the file still holds the bytes that were read, or
\* the call fails with a conflict.
Compare(c) ==
  /\ At(c, "staged")
  /\ IF file = base[c] THEN Move(c, "compared") /\ UNCHANGED <<lock, queue, locals>>
     ELSE Leave(c, "failed") /\ lock' = NoProcess
  /\ UNCHANGED <<file, call, seen>>

Publish(c) ==
  /\ At(c, "compared")
  /\ file' = draft[c]
  /\ Move(c, "published")
  /\ UNCHANGED <<lock, queue, call, locals, seen>>

-----------------------------------------------------------------------------
(* The environment.                                                          *)

Crash(p) ==
  /\ queue' = [queue EXCEPT ![p] = <<>>]
  /\ stage' = [c \in Callers |-> IF Home[c] = p THEN "idle" ELSE stage[c]]
  /\ lock' = IF lock = p THEN NoProcess ELSE lock
  /\ Forget({c \in Callers : Home[c] = p})
  /\ UNCHANGED <<file, call, seen>>

\* A program that does not take the lock rewrites the file, except between the
\* comparison and the rename, where nothing could notice it.
Edit(d) ==
  /\ \A c \in Callers : stage[c] # "compared"
  /\ file' = d
  /\ UNCHANGED <<lock, queue, call, stage, locals, seen>>

Transact(c) ==
  \/ Begin(c) \/ Read(c) \/ WriteTemp(c) \/ Compare(c) \/ Publish(c)
  \/ Abort(c) \/ Commit(c)

Step(c) == Load(c) \/ GiveUp(c) \/ Transact(c)

Next ==
  \/ \E c \in Callers : Step(c) \/ \E request \in Requests[c] : Call(c, request)
  \/ \E p \in Processes : Crash(p)
  \/ \E d \in Documents : Edit(d)

Spec == Init /\ [][Next]_vars

\* In every process, a step of the first call is followed by the next, by its
\* failure or by its timeout.
FairSpec ==
  Spec /\ \A p \in Processes : WF_vars(\E c \in Callers : Home[c] = p /\ Step(c))

-----------------------------------------------------------------------------
(* Properties.                                                               *)

Stages == {"idle", "queued", "done", "failed"} \cup Transacting
Outstanding(c) == stage[c] \in {"queued"} \cup Transacting

\* The state has the expected shape: a process queues exactly its outstanding
\* calls, once each, and one that is past BEGIN is the first of its queue.
TypeOK ==
  /\ file \in Documents /\ lock \in Processes \cup {NoProcess}
  /\ queue \in [Processes -> Seq(Callers)]
  /\ call \in [Callers -> Document!Calls] /\ stage \in [Callers -> Stages]
  /\ base \in [Callers -> Documents] /\ draft \in [Callers -> SUBSET Entries]
  /\ seen \in [Callers -> SUBSET Entries]
  /\ \A p \in Processes :
       /\ {queue[p][k] : k \in DOMAIN queue[p]} = {c \in Callers : Home[c] = p /\ Outstanding(c)}
       /\ \A j, k \in DOMAIN queue[p] : queue[p][j] = queue[p][k] => j = k
  /\ \A c \in Callers : stage[c] \in Transacting => Active(c)

\* A transaction runs from its BEGIN to its end only in the process that holds
\* the lock: no two calls, of one process or of two, are between their read and
\* their rename at once ("a crash releases it automatically, and no process
\* ever guesses that a foreign PID or old timestamp means dead",
\* fs-transaction-lock.ts:10).
Exclusive ==
  \A c \in Callers : stage[c] \in Transacting =>
    /\ lock = Home[c]
    /\ \A d \in Callers \ {c} : stage[d] \notin Transacting

\* The lock is not left behind: whoever holds it has a transaction under way,
\* after failures and crashes too.
LockIsUsed == lock # NoProcess => \E c \in Callers : Home[c] = lock /\ stage[c] \in Transacting

\* The processes together implement the document: each save and mutation takes
\* effect as a whole on what the file holds at that moment, no update is lost,
\* and the answers tell the truth (secure-store.ts, mutate: "one complete
\* read/modify/write transaction").
ImplementsDocument == Document!Spec

\* Every call is answered, though others of its process fail before it and
\* other processes hold the lock, unless its own process dies
\* (secure-store.ts: "one failed request cannot poison every later request").
CallAnswered == \A c \in Callers : Outstanding(c) ~> ~Outstanding(c)
=============================================================================

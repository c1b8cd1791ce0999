-------------------------- MODULE SecureStoreProofs --------------------------
(***************************************************************************)
(* Theorems about SecureStore for any processes, callers and entries: the  *)
(* transactions of a file exclude each other, and together the processes   *)
(* implement AtomicDocument.                                               *)
(***************************************************************************)
EXTENDS SecureStore, TLAPS

-----------------------------------------------------------------------------
(* The inductive invariant.                                                  *)

Drafted == {"drafted", "staged", "compared"}

Shape ==
  /\ queue \in [Processes -> Seq(Callers)]
  /\ stage \in [Callers -> Stages]
  /\ call \in [Callers -> Document!Calls]
  /\ base \in [Callers -> Documents] /\ draft \in [Callers -> SUBSET Entries]
  /\ seen \in [Callers -> SUBSET Entries]
  /\ file \in Documents /\ lock \in Processes \cup {NoProcess}

\* A transaction is of the first call of the process that holds the lock.
Held == \A c \in Callers : stage[c] \in Transacting => lock = Home[c] /\ Active(c)

\* What a transaction is about to publish is its call's effect on what it read,
\* which is the file from the comparison on.
Sound ==
  /\ \A c \in Callers : stage[c] \in Transacting => call[c].kind # "load"
  /\ \A c \in Callers : stage[c] \in Drafted =>
       /\ Document!Applicable(call[c], base[c]) /\ Document!Changes(call[c], base[c])
       /\ draft[c] = Effect(call[c], base[c])
  /\ \A c \in Callers : stage[c] = "compared" => file = base[c]

Inv == Shape /\ Held /\ Sound

LEMMA HeldIsExclusive ==
  ASSUME Held, NEW c \in Callers, NEW d \in Callers,
         stage[c] \in Transacting, stage[d] \in Transacting
  PROVE  c = d
BY DEF Held, Active

\* Two calls at the head of a process's queue are one.
LEMMA OneActive ==
  ASSUME Held, NEW c \in Callers, Active(c), NEW d \in Callers, Home[d] = Home[c],
         stage[d] \in Transacting
  PROVE  d = c
BY DEF Held, Active

-----------------------------------------------------------------------------
(* Documents.                                                                *)

LEMMA EffectIsDocument ==
  ASSUME NEW c \in Document!Calls, c.kind # "load", NEW d \in Documents,
         Document!Applicable(c, d)
  PROVE  Effect(c, d) \in SUBSET Entries
<1>1. CASE c.kind = "save"
  BY <1>1 DEF Effect, Document!Effect, Document!Calls
<1>2. CASE c.kind = "add"
  <2>1. d # Corrupt
    BY <1>2 DEF Document!Applicable, Document!Readable
  <2>2. Document!Contents(d) \in SUBSET Entries
    BY <2>1 DEF Documents, Document!Documents, Document!Contents
  <2>3. c.entry \in Entries
    BY <1>2 DEF Document!Calls
  <2>4. QED
    BY <1>2, <2>2, <2>3 DEF Effect, Document!Effect
<1>3. QED
  BY <1>1, <1>2 DEF Document!Calls

\* A transaction that goes on keeps what it read and drafted.
LEMMA SoundKept ==
  ASSUME Sound, UNCHANGED file,
         \A d \in Callers : stage'[d] \in Transacting =>
           /\ stage'[d] = stage[d] /\ call'[d] = call[d]
           /\ base'[d] = base[d] /\ draft'[d] = draft[d]
  PROVE  Sound'
<1>1. \A d \in Callers : stage'[d] \in Drafted \cup {"compared"} => stage'[d] \in Transacting
  BY DEF Drafted, Transacting
<1>2. ASSUME NEW d \in Callers, stage'[d] \in Transacting
      PROVE  call'[d].kind # "load"
  BY <1>2 DEF Sound
<1>3. ASSUME NEW d \in Callers, stage'[d] \in Drafted
      PROVE  /\ Document!Applicable(call'[d], base'[d]) /\ Document!Changes(call'[d], base'[d])
             /\ draft'[d] = Effect(call'[d], base'[d])
  BY <1>1, <1>3 DEF Sound
<1>4. ASSUME NEW d \in Callers, stage'[d] = "compared"
      PROVE  file' = base'[d]
  BY <1>1, <1>4 DEF Sound
<1>5. QED
  BY <1>2, <1>3, <1>4 DEF Sound, Effect, Document!Applicable, Document!Changes,
     Document!Readable, Document!Effect, Document!Contents

-----------------------------------------------------------------------------
(* Steps that end a call.                                                    *)

LEMMA LeaveShape ==
  ASSUME Inv, NEW c \in Callers, Active(c), NEW answer \in {"done", "failed"},
         Leave(c, answer)
  PROVE  /\ queue' \in [Processes -> Seq(Callers)]
         /\ stage' \in [Callers -> Stages]
         /\ base' \in [Callers -> Documents] /\ draft' \in [Callers -> SUBSET Entries]
<1>1. queue[Home[c]] \in Seq(Callers) /\ queue[Home[c]] # <<>>
  BY SecureStoreAssumption DEF Inv, Shape, Active
<1>2. Tail(queue[Home[c]]) \in Seq(Callers)
  BY <1>1
<1>3. queue' \in [Processes -> Seq(Callers)]
  BY <1>2 DEF Inv, Shape, Leave
<1>4. stage' \in [Callers -> Stages]
  BY DEF Inv, Shape, Leave, Move, Stages
<1>5. Absent \in Documents
  BY DEF Documents, Document!Documents
<1>6. base' \in [Callers -> Documents] /\ draft' \in [Callers -> SUBSET Entries]
  BY <1>5 DEF Inv, Shape, Leave, Forget
<1>7. QED
  BY <1>3, <1>4, <1>6

\* Others keep their place and what they read.
LEMMA LeaveOthers ==
  ASSUME Inv, NEW c \in Callers, Active(c), NEW answer \in {"done", "failed"},
         Leave(c, answer), NEW d \in Callers, stage'[d] \in Transacting
  PROVE  /\ d # c /\ stage'[d] = stage[d] /\ Home[d] # Home[c]
         /\ base'[d] = base[d] /\ draft'[d] = draft[d]
         /\ queue'[Home[d]] = queue[Home[d]]
<1>1. d # c /\ stage'[d] = stage[d]
  BY DEF Inv, Shape, Leave, Move, Transacting
<1>2. Home[d] # Home[c]
  BY <1>1, OneActive DEF Inv
<1>3. base'[d] = base[d] /\ draft'[d] = draft[d]
  BY <1>1 DEF Leave, Forget
<1>4. queue'[Home[d]] = queue[Home[d]]
  BY <1>2, SecureStoreAssumption DEF Inv, Shape, Leave
<1>5. QED
  BY <1>1, <1>2, <1>3, <1>4

LEMMA LeaveInv ==
  ASSUME Inv, NEW c \in Callers, Active(c), NEW answer \in {"done", "failed"},
         Leave(c, answer), UNCHANGED <<file, call>>,
         seen' \in [Callers -> SUBSET Entries],
         lock' = IF stage[c] \in Transacting THEN NoProcess ELSE lock
  PROVE  Inv'
<1>1. Shape'
  BY LeaveShape DEF Inv, Shape, Documents, Document!Documents
<1>2. ASSUME NEW d \in Callers, stage'[d] \in Transacting
      PROVE  /\ lock' = Home[d] /\ Active(d)'
             /\ stage[d] \in Transacting /\ stage'[d] = stage[d]
             /\ base'[d] = base[d] /\ draft'[d] = draft[d]
  <2>1. /\ d # c /\ stage'[d] = stage[d] /\ Home[d] # Home[c]
        /\ base'[d] = base[d] /\ draft'[d] = draft[d]
        /\ queue'[Home[d]] = queue[Home[d]]
    BY <1>2, LeaveOthers
  <2>2. stage[d] \in Transacting
    BY <1>2, <2>1
  <2>3. lock = Home[d] /\ Active(d)
    BY <2>2 DEF Inv, Held
  <2>4. stage[c] \notin Transacting
    BY <2>1, <2>2, HeldIsExclusive DEF Inv
  <2>5. lock' = Home[d]
    BY <2>3, <2>4
  <2>6. Active(d)'
    BY <2>1, <2>3 DEF Active
  <2>7. QED
    BY <2>1, <2>2, <2>5, <2>6
<1>3. Held'
  BY <1>2 DEF Held
<1>4. Sound'
  BY <1>2, SoundKept DEF Inv
<1>5. QED
  BY <1>1, <1>3, <1>4 DEF Inv

-----------------------------------------------------------------------------
(* The other steps of a call.                                                *)

\* A step that moves a call within its transaction, or into one.
LEMMA MoveHolds ==
  ASSUME Shape, Held, NEW c \in Callers, Active(c), NEW s \in Transacting, Move(c, s),
         UNCHANGED queue, lock' = Home[c],
         lock \in {NoProcess, Home[c]}
  PROVE  /\ Held'
         /\ \A d \in Callers : d # c => stage'[d] = stage[d] /\ stage[d] \notin Transacting
         /\ stage'[c] = s
<1>1. stage'[c] = s /\ \A d \in Callers : d # c => stage'[d] = stage[d]
  BY DEF Shape, Move
<1>2. ASSUME NEW d \in Callers, d # c
      PROVE  stage[d] \notin Transacting
  <2>1. SUFFICES ASSUME stage[d] \in Transacting PROVE FALSE
    OBVIOUS
  <2>2. lock = Home[d] /\ Home[d] \in Processes
    BY <2>1, SecureStoreAssumption DEF Held
  <2>3. Home[d] = Home[c]
    BY <2>2, SecureStoreAssumption
  <2>4. QED
    BY <1>2, <2>1, <2>3, OneActive
<1>3. Held'
  BY <1>1, <1>2 DEF Held, Active
<1>4. QED
  BY <1>1, <1>2, <1>3

LEMMA MoveShape ==
  ASSUME Shape, NEW c \in Callers, NEW s \in Stages, Move(c, s)
  PROVE  stage' \in [Callers -> Stages]
BY DEF Shape, Move

LEMMA CallInv ==
  ASSUME Inv, NEW c \in Callers, NEW request \in Requests[c], Call(c, request)
  PROVE  Inv'
<1>1. request \in Document!Calls
  BY SecureStoreAssumption
<1>2. Shape'
  <2>1. queue' \in [Processes -> Seq(Callers)]
    <3>1. queue[Home[c]] \in Seq(Callers)
      BY SecureStoreAssumption DEF Inv, Shape
    <3>2. Append(queue[Home[c]], c) \in Seq(Callers)
      BY <3>1
    <3>3. QED
      BY <3>2 DEF Inv, Shape, Call
  <2>2. stage' \in [Callers -> Stages]
    BY DEF Inv, Shape, Call, Move, Stages
  <2>3. call' \in [Callers -> Document!Calls] /\ seen' \in [Callers -> SUBSET Entries]
    BY <1>1 DEF Inv, Shape, Call
  <2>4. QED
    BY <2>1, <2>2, <2>3 DEF Inv, Shape, Call, locals, Documents, Document!Documents
<1>3. ASSUME NEW d \in Callers, stage'[d] \in Transacting
      PROVE  /\ d # c /\ stage'[d] = stage[d] /\ call'[d] = call[d]
             /\ lock' = Home[d] /\ Active(d)'
  <2>1. d # c /\ stage'[d] = stage[d]
    BY <1>3 DEF Inv, Shape, Call, Move, Transacting
  <2>2. call'[d] = call[d]
    BY <2>1 DEF Inv, Shape, Call
  <2>3. lock' = Home[d] /\ Active(d)
    BY <1>3, <2>1 DEF Inv, Held, Call
  <2>4. queue[Home[d]] \in Seq(Callers) /\ queue[Home[d]] # <<>>
    BY <2>3, SecureStoreAssumption DEF Inv, Shape, Active
  <2>5. Append(queue[Home[d]], c) # <<>> /\ Head(Append(queue[Home[d]], c)) = Head(queue[Home[d]])
    BY <2>4
  <2>6. queue'[Home[d]] \in {queue[Home[d]], Append(queue[Home[d]], c)}
    BY SecureStoreAssumption DEF Inv, Shape, Call
  <2>7. Active(d)'
    BY <2>3, <2>4, <2>5, <2>6 DEF Active
  <2>8. QED
    BY <2>1, <2>2, <2>3, <2>7
<1>4. Held'
  BY <1>3 DEF Held
<1>5. Sound'
  BY <1>3, SoundKept DEF Inv, Call, locals
<1>6. QED
  BY <1>2, <1>4, <1>5 DEF Inv

\* Soundness after a step of the only transaction there is.
LEMMA SoundOne ==
  ASSUME NEW c \in Callers, \A d \in Callers : stage'[d] \in Transacting => d = c,
         call'[c].kind # "load",
         stage'[c] \in Drafted =>
           /\ Document!Applicable(call'[c], base'[c]) /\ Document!Changes(call'[c], base'[c])
           /\ draft'[c] = Effect(call'[c], base'[c]),
         stage'[c] = "compared" => file' = base'[c]
  PROVE  Sound'
<1>1. \A d \in Callers : stage'[d] \in Drafted \cup {"compared"} => d = c
  BY DEF Drafted, Transacting
<1>2. ASSUME NEW d \in Callers, stage'[d] \in Transacting
      PROVE  call'[d].kind # "load"
  BY <1>2
<1>3. ASSUME NEW d \in Callers, stage'[d] \in Drafted
      PROVE  /\ Document!Applicable(call'[d], base'[d]) /\ Document!Changes(call'[d], base'[d])
             /\ draft'[d] = Effect(call'[d], base'[d])
  BY <1>1, <1>3
<1>4. ASSUME NEW d \in Callers, stage'[d] = "compared"
      PROVE  file' = base'[d]
  BY <1>1, <1>4
<1>5. QED
  BY <1>2, <1>3, <1>4 DEF Sound, Effect, Document!Applicable, Document!Changes,
     Document!Readable, Document!Effect, Document!Contents

LEMMA BeginInv ==
  ASSUME Inv, NEW c \in Callers, Begin(c)
  PROVE  Inv'
<1>1. /\ Active(c) /\ Move(c, "locked") /\ lock' = Home[c] /\ lock = NoProcess
      /\ UNCHANGED <<file, queue, call, base, draft, seen>>
  BY DEF Begin, At, locals
<1>2. /\ Held' /\ stage'[c] = "locked"
      /\ \A d \in Callers : d # c => stage'[d] = stage[d] /\ stage[d] \notin Transacting
  BY <1>1, MoveHolds DEF Inv, Transacting
<1>3. Shape'
  BY <1>1, MoveShape, SecureStoreAssumption
     DEF Inv, Shape, Stages, Transacting, Documents, Document!Documents
<1>4. call'[c].kind # "load"
  BY <1>1 DEF Begin
<1>5. Sound'
  BY <1>2, <1>4, SoundOne DEF Drafted
<1>6. QED
  BY <1>2, <1>3, <1>5 DEF Inv

\* A step of the transaction under way that neither ends it nor renames.
LEMMA TransactionInv ==
  ASSUME Inv, NEW c \in Callers, Active(c), stage[c] \in Transacting,
         NEW s \in Transacting, Move(c, s),
         UNCHANGED <<lock, queue, call, seen>>,
         file' \in Documents, base' \in [Callers -> Documents],
         draft' \in [Callers -> SUBSET Entries],
         s \in Drafted =>
           /\ Document!Applicable(call[c], base'[c]) /\ Document!Changes(call[c], base'[c])
           /\ draft'[c] = Effect(call[c], base'[c]),
         s = "compared" => file' = base'[c]
  PROVE  Inv'
<1>1. lock = Home[c] /\ lock' = Home[c] /\ UNCHANGED queue
  BY DEF Inv, Held
<1>2. /\ Held' /\ stage'[c] = s
      /\ \A d \in Callers : d # c => stage'[d] = stage[d] /\ stage[d] \notin Transacting
  BY <1>1, MoveHolds DEF Inv
<1>3. Shape'
  <2>1. s \in Stages
    BY DEF Stages
  <2>2. stage' \in [Callers -> Stages]
    BY <2>1, MoveShape DEF Inv
  <2>3. QED
    BY <2>2 DEF Inv, Shape, Documents, Document!Documents
<1>4. call'[c] = call[c] /\ call[c].kind # "load"
  BY DEF Inv, Sound
<1>5. Sound'
  BY <1>2, <1>4, SoundOne
<1>6. QED
  BY <1>2, <1>3, <1>5 DEF Inv

LEMMA ReadInv ==
  ASSUME Inv, NEW c \in Callers, Read(c)
  PROVE  Inv'
<1>1. /\ Active(c) /\ stage[c] = "locked" /\ stage[c] \in Transacting
      /\ UNCHANGED <<file, lock, queue, call, seen>>
      /\ base' = [base EXCEPT ![c] = file]
  BY DEF Read, At, Transacting
<1>2. /\ call[c] \in Document!Calls /\ call[c].kind # "load" /\ file \in Documents
      /\ base \in [Callers -> Documents] /\ draft \in [Callers -> SUBSET Entries]
  BY <1>1 DEF Inv, Shape, Sound
<1>3. base'[c] = file /\ base' \in [Callers -> Documents] /\ file' \in Documents
  BY <1>1, <1>2
<1>4. CASE Document!Changes(call[c], file)
  <2>1. /\ draft' = [draft EXCEPT ![c] = Effect(call[c], file)] /\ Move(c, "drafted")
        /\ Document!Applicable(call[c], file)
    BY <1>4 DEF Read
  <2>2. Effect(call[c], file) \in SUBSET Entries
    BY <1>2, <2>1, EffectIsDocument
  <2>3. draft' \in [Callers -> SUBSET Entries] /\ draft'[c] = Effect(call[c], base'[c])
    BY <1>2, <1>3, <2>1, <2>2
  <2>4. /\ Document!Applicable(call[c], base'[c]) /\ Document!Changes(call[c], base'[c])
    BY <1>3, <1>4, <2>1
  <2>5. "drafted" \in Transacting /\ "drafted" # "compared"
    BY DEF Transacting
  <2>6. QED
    BY <1>1, <1>3, <2>1, <2>3, <2>4, <2>5, TransactionInv
<1>5. CASE ~ Document!Changes(call[c], file)
  <2>1. Move(c, "settled") /\ draft' \in [Callers -> SUBSET Entries]
    BY <1>2, <1>5 DEF Read
  <2>2. "settled" \in Transacting /\ "settled" \notin Drafted /\ "settled" # "compared"
    BY DEF Transacting, Drafted
  <2>3. QED
    BY <1>1, <1>3, <2>1, <2>2, TransactionInv
<1>6. QED
  BY <1>4, <1>5

\* A transaction keeps what it drafted until it has renamed.
LEMMA WriteInv ==
  ASSUME Inv, NEW c \in Callers, WriteTemp(c)
  PROVE  Inv'
<1>1. /\ Active(c) /\ stage[c] = "drafted" /\ Move(c, "staged")
      /\ UNCHANGED <<file, lock, queue, call, base, draft, seen>>
  BY DEF WriteTemp, At, locals
<1>2. /\ stage[c] \in Transacting /\ stage[c] \in Drafted
      /\ "staged" \in Transacting /\ "staged" # "compared"
  BY <1>1 DEF Transacting, Drafted
<1>3. /\ Document!Applicable(call[c], base'[c]) /\ Document!Changes(call[c], base'[c])
      /\ draft'[c] = Effect(call[c], base'[c])
  BY <1>1, <1>2 DEF Inv, Sound
<1>4. /\ file' \in Documents /\ base' \in [Callers -> Documents]
      /\ draft' \in [Callers -> SUBSET Entries]
  BY <1>1 DEF Inv, Shape
<1>5. QED
  BY <1>1, <1>2, <1>3, <1>4, TransactionInv

LEMMA CompareInv ==
  ASSUME Inv, NEW c \in Callers, Compare(c)
  PROVE  Inv'
<1>1. Active(c) /\ stage[c] = "staged" /\ UNCHANGED <<file, call, seen>>
  BY DEF Compare, At
<1>2. /\ stage[c] \in Transacting /\ stage[c] \in Drafted
      /\ "compared" \in Transacting
  BY <1>1 DEF Transacting, Drafted
<1>3. CASE file = base[c]
  <2>1. Move(c, "compared") /\ UNCHANGED <<lock, queue, base, draft>>
    BY <1>3 DEF Compare, locals
  <2>2. /\ Document!Applicable(call[c], base'[c]) /\ Document!Changes(call[c], base'[c])
        /\ draft'[c] = Effect(call[c], base'[c])
    BY <1>2, <2>1 DEF Inv, Sound
  <2>3. /\ file' \in Documents /\ base' \in [Callers -> Documents]
        /\ draft' \in [Callers -> SUBSET Entries] /\ file' = base'[c]
    BY <1>1, <1>3, <2>1 DEF Inv, Shape
  <2>4. QED
    BY <1>1, <1>2, <2>1, <2>2, <2>3, TransactionInv
<1>4. CASE file # base[c]
  <2>1. Leave(c, "failed") /\ lock' = NoProcess
    BY <1>4 DEF Compare
  <2>2. seen' \in [Callers -> SUBSET Entries]
    BY <1>1 DEF Inv, Shape
  <2>3. QED
    BY <1>1, <1>2, <2>1, <2>2, LeaveInv
<1>5. QED
  BY <1>3, <1>4

LEMMA PublishInv ==
  ASSUME Inv, NEW c \in Callers, Publish(c)
  PROVE  Inv'
<1>1. /\ Active(c) /\ stage[c] = "compared" /\ Move(c, "published") /\ file' = draft[c]
      /\ UNCHANGED <<lock, queue, call, base, draft, seen>>
  BY DEF Publish, At, locals
<1>2. /\ stage[c] \in Transacting /\ "published" \in Transacting
      /\ "published" \notin Drafted /\ "published" # "compared"
  BY <1>1 DEF Transacting, Drafted
<1>3. /\ file' \in Documents /\ base' \in [Callers -> Documents]
      /\ draft' \in [Callers -> SUBSET Entries]
  BY <1>1 DEF Inv, Shape, Documents, Document!Documents
<1>4. QED
  BY <1>1, <1>2, <1>3, TransactionInv

\* Loads and the steps that end a call.
LEMMA EndInv ==
  ASSUME Inv, NEW c \in Callers, Load(c) \/ GiveUp(c) \/ Abort(c) \/ Commit(c)
  PROVE  Inv'
<1>1. CASE Load(c)
  <2>1. /\ Active(c) /\ stage[c] \notin Transacting /\ UNCHANGED <<file, lock, call>>
    BY <1>1 DEF Load, At, Transacting
  <2>2. CASE Document!Readable(file)
    <3>1. Leave(c, "done") /\ seen' = [seen EXCEPT ![c] = Document!Contents(file)]
      BY <1>1, <2>2 DEF Load
    <3>2. Document!Contents(file) \in SUBSET Entries
      BY <2>2 DEF Inv, Shape, Documents, Document!Documents, Document!Contents, Document!Readable
    <3>3. seen' \in [Callers -> SUBSET Entries]
      BY <3>1, <3>2 DEF Inv, Shape
    <3>4. QED
      BY <2>1, <3>1, <3>3, LeaveInv
  <2>3. CASE ~ Document!Readable(file)
    <3>1. Leave(c, "failed") /\ seen' \in [Callers -> SUBSET Entries]
      BY <1>1, <2>3 DEF Load, Inv, Shape
    <3>2. QED
      BY <2>1, <3>1, LeaveInv
  <2>4. QED
    BY <2>2, <2>3
<1>2. CASE GiveUp(c)
  <2>1. /\ Active(c) /\ stage[c] \notin Transacting /\ Leave(c, "failed")
        /\ UNCHANGED <<file, lock, call>> /\ seen' \in [Callers -> SUBSET Entries]
    BY <1>2 DEF GiveUp, At, Transacting, Inv, Shape
  <2>2. QED
    BY <2>1, LeaveInv
<1>3. CASE Abort(c)
  <2>1. /\ Active(c) /\ stage[c] \in Transacting /\ Leave(c, "failed") /\ lock' = NoProcess
        /\ UNCHANGED <<file, call>> /\ seen' \in [Callers -> SUBSET Entries]
    BY <1>3 DEF Abort, At, Transacting, Inv, Shape
  <2>2. QED
    BY <2>1, LeaveInv
<1>4. CASE Commit(c)
  <2>1. /\ Active(c) /\ stage[c] \in Transacting /\ lock' = NoProcess
        /\ UNCHANGED <<file, call>> /\ seen' \in [Callers -> SUBSET Entries]
    BY <1>4 DEF Commit, At, Transacting, Inv, Shape
  <2>2. PICK answer \in {"done", "failed"} : Leave(c, answer)
    BY <1>4 DEF Commit
  <2>3. QED
    BY <2>1, <2>2, LeaveInv
<1>5. QED
  BY <1>1, <1>2, <1>3, <1>4

-----------------------------------------------------------------------------
(* The environment.                                                          *)

LEMMA CrashInv ==
  ASSUME Inv, NEW p \in Processes, Crash(p)
  PROVE  Inv'
<1>1. Shape'
  <2>1. <<>> \in Seq(Callers)
    OBVIOUS
  <2>2. queue' \in [Processes -> Seq(Callers)] /\ lock' \in Processes \cup {NoProcess}
    BY <2>1 DEF Inv, Shape, Crash
  <2>3. stage' \in [Callers -> Stages]
    BY DEF Inv, Shape, Crash, Stages
  <2>4. Absent \in Documents
    BY DEF Documents, Document!Documents
  <2>5. base' \in [Callers -> Documents] /\ draft' \in [Callers -> SUBSET Entries]
    BY <2>4 DEF Inv, Shape, Crash, Forget
  <2>6. UNCHANGED <<file, call, seen>>
    BY DEF Crash
  <2>7. QED
    BY <2>2, <2>3, <2>5, <2>6 DEF Inv, Shape, Documents, Document!Documents
<1>2. ASSUME NEW d \in Callers, stage'[d] \in Transacting
      PROVE  /\ Home[d] # p /\ stage'[d] = stage[d]
             /\ base'[d] = base[d] /\ draft'[d] = draft[d]
  BY <1>2 DEF Crash, Forget, Transacting
<1>3. ASSUME NEW d \in Callers, stage'[d] \in Transacting
      PROVE  lock' = Home[d] /\ Active(d)'
  <2>1. lock = Home[d] /\ Active(d) /\ Home[d] # p
    BY <1>2, <1>3 DEF Inv, Held
  <2>2. queue'[Home[d]] = queue[Home[d]] /\ lock' = lock
    BY <2>1, SecureStoreAssumption DEF Inv, Shape, Crash
  <2>3. QED
    BY <2>1, <2>2 DEF Active
<1>4. Held'
  BY <1>3 DEF Held
<1>5. Sound'
  BY <1>2, SoundKept DEF Inv, Crash
<1>6. QED
  BY <1>1, <1>4, <1>5 DEF Inv

LEMMA EditInv ==
  ASSUME Inv, NEW d \in Documents, Edit(d)
  PROVE  Inv'
<1>1. /\ UNCHANGED <<lock, queue, call, stage, base, draft, seen>> /\ file' = d
      /\ \A c \in Callers : stage[c] # "compared"
  BY DEF Edit, locals
<1>2. Shape'
  BY <1>1 DEF Inv, Shape, Documents, Document!Documents
<1>3. Held'
  BY <1>1 DEF Inv, Held, Active
<1>4. Sound'
  <2>1. /\ \A c \in Callers : stage'[c] \in Transacting => call'[c].kind # "load"
        /\ \A c \in Callers : stage'[c] \in Drafted =>
             /\ Document!Applicable(call'[c], base'[c]) /\ Document!Changes(call'[c], base'[c])
             /\ draft'[c] = Effect(call'[c], base'[c])
        /\ \A c \in Callers : stage'[c] = "compared" => file' = base'[c]
    BY <1>1 DEF Inv, Sound
  <2>2. QED
    BY <2>1 DEF Sound, Effect, Document!Applicable, Document!Changes,
       Document!Readable, Document!Effect, Document!Contents
<1>5. QED
  BY <1>2, <1>3, <1>4 DEF Inv

-----------------------------------------------------------------------------
(* Transactions exclude each other.                                          *)

LEMMA InvInit == Init => Inv
<1> SUFFICES ASSUME Init PROVE Inv
  OBVIOUS
<1>2. Shape
  <2>1. <<>> \in Seq(Callers) /\ Absent \in Documents
    BY DEF Documents, Document!Documents
  <2>2. [kind |-> "load"] \in Document!Calls
    BY DEF Document!Calls
  <2>3. call \in [Callers -> Document!Calls]
    BY <2>2 DEF Init
  <2>4. QED
    BY <2>1, <2>3 DEF Init, Shape, Stages
<1>3. \A c \in Callers : stage[c] \notin Transacting /\ stage[c] \notin Drafted
        /\ stage[c] # "compared"
  BY DEF Init, Transacting, Drafted
<1>4. QED
  BY <1>2, <1>3 DEF Inv, Held, Sound

LEMMA StepInv ==
  ASSUME Inv, NEW c \in Callers, Step(c)
  PROVE  Inv'
BY BeginInv, ReadInv, WriteInv, CompareInv, PublishInv, EndInv DEF Step, Transact

LEMMA InvKept == Inv /\ [Next]_vars => Inv'
<1> SUFFICES ASSUME Inv, [Next]_vars PROVE Inv'
  OBVIOUS
<1>2. ASSUME NEW c \in Callers, Step(c) PROVE Inv'
  BY <1>2, StepInv
<1>3. ASSUME NEW c \in Callers, NEW request \in Requests[c], Call(c, request) PROVE Inv'
  BY <1>3, CallInv
<1>4. ASSUME NEW p \in Processes, Crash(p) PROVE Inv'
  BY <1>4, CrashInv
<1>5. ASSUME NEW d \in Documents, Edit(d) PROVE Inv'
  BY <1>5, EditInv
<1>6. CASE UNCHANGED vars
  <2>1. Shape'
    BY <1>6 DEF Inv, Shape, vars, locals, Documents, Document!Documents
  <2>2. Held'
    BY <1>6 DEF Inv, Held, Active, vars
  <2>3. Sound'
    BY <1>6, SoundKept DEF Inv, vars, locals
  <2>4. QED
    BY <2>1, <2>2, <2>3 DEF Inv
<1>7. QED
  BY <1>2, <1>3, <1>4, <1>5, <1>6 DEF Next

THEOREM Invariance == Spec => []Inv
BY InvInit, InvKept, PTL DEF Spec

\* The transactions of a file exclude each other, whatever fails or dies
\* between their steps (fs-transaction-lock.ts, withCrossProcessLock).
THEOREM Exclusion == Spec => []Exclusive
<1>1. Inv => Exclusive
  BY HeldIsExclusive DEF Inv, Held, Exclusive
<1>2. QED
  BY <1>1, Invariance, PTL

LEMMA UsedKept == Inv /\ LockIsUsed /\ [Next]_vars => LockIsUsed'
<1> SUFFICES ASSUME Inv, LockIsUsed, [Next]_vars, lock' # NoProcess
             PROVE  \E e \in Callers : Home[e] = lock' /\ stage'[e] \in Transacting
  BY DEF LockIsUsed
<1>2. ASSUME lock' = lock,
             \A e \in Callers : stage[e] \in Transacting => stage'[e] \in Transacting
      PROVE  \E e \in Callers : Home[e] = lock' /\ stage'[e] \in Transacting
  BY <1>2 DEF LockIsUsed
<1>3. ASSUME NEW c \in Callers, NEW s \in Transacting, Move(c, s), lock' = Home[c]
      PROVE  \E e \in Callers : Home[e] = lock' /\ stage'[e] \in Transacting
  BY <1>3 DEF Move, Inv, Shape
<1>4. ASSUME NEW c \in Callers, NEW s \in Transacting, Move(c, s), lock' = lock
      PROVE  \E e \in Callers : Home[e] = lock' /\ stage'[e] \in Transacting
  <2>1. \A e \in Callers : stage[e] \in Transacting => stage'[e] \in Transacting
    BY <1>4 DEF Move, Inv, Shape
  <2>2. QED
    BY <1>2, <1>4, <2>1
<1>5. ASSUME NEW c \in Callers, NEW s \in Stages, Move(c, s), lock' = lock,
             stage[c] \notin Transacting
      PROVE  \E e \in Callers : Home[e] = lock' /\ stage'[e] \in Transacting
  <2>1. \A e \in Callers : stage[e] \in Transacting => stage'[e] \in Transacting
    BY <1>5 DEF Move, Inv, Shape
  <2>2. QED
    BY <1>2, <1>5, <2>1
<1>6. ASSUME NEW c \in Callers, Step(c)
      PROVE  \E e \in Callers : Home[e] = lock' /\ stage'[e] \in Transacting
  <2>1. CASE Begin(c)
    BY <1>3, <2>1 DEF Begin, Transacting
  <2>2. CASE Read(c)
    <3>1. \E s \in Transacting : Move(c, s)
      BY <2>2 DEF Read, Transacting
    <3>2. QED
      BY <1>4, <2>2, <3>1 DEF Read
  <2>3. CASE WriteTemp(c)
    BY <1>4, <2>3 DEF WriteTemp, Transacting
  <2>4. CASE Compare(c)
    BY <1>4, <2>4 DEF Compare, Transacting
  <2>5. CASE Publish(c)
    BY <1>4, <2>5 DEF Publish, Transacting
  <2>6. CASE Abort(c) \/ Commit(c)
    BY <2>6 DEF Abort, Commit
  <2>7. CASE Load(c) \/ GiveUp(c)
    <3>1. lock' = lock /\ stage[c] \notin Transacting
          /\ \E s \in Stages : Move(c, s)
      BY <2>7 DEF Load, GiveUp, At, Leave, Transacting, Stages
    <3>2. QED
      BY <1>5, <3>1
  <2>8. QED
    BY <1>6, <2>1, <2>2, <2>3, <2>4, <2>5, <2>6, <2>7 DEF Step, Transact
<1>7. ASSUME NEW c \in Callers, NEW request \in Requests[c], Call(c, request)
      PROVE  \E e \in Callers : Home[e] = lock' /\ stage'[e] \in Transacting
  BY <1>5, <1>7 DEF Call, Transacting, Stages
<1>8. ASSUME NEW p \in Processes, Crash(p)
      PROVE  \E e \in Callers : Home[e] = lock' /\ stage'[e] \in Transacting
  <2>1. lock # p /\ lock' = lock /\ lock # NoProcess
    BY <1>8 DEF Crash
  <2>2. PICK e \in Callers : Home[e] = lock /\ stage[e] \in Transacting
    BY <2>1 DEF LockIsUsed
  <2>3. stage'[e] = stage[e]
    BY <1>8, <2>1, <2>2 DEF Crash
  <2>4. QED
    BY <2>1, <2>2, <2>3
<1>9. ASSUME NEW d \in Documents, Edit(d)
      PROVE  \E e \in Callers : Home[e] = lock' /\ stage'[e] \in Transacting
  BY <1>2, <1>9 DEF Edit
<1>10. CASE UNCHANGED vars
  BY <1>2, <1>10 DEF vars
<1>11. QED
  BY <1>6, <1>7, <1>8, <1>9, <1>10 DEF Next

\* No failure and no crash leaves the lock behind: whoever holds it has a
\* transaction under way (fs-transaction-lock.ts, the finally of
\* withCrossProcessLock).
THEOREM LockUse == Spec => []LockIsUsed
<1>1. Init => LockIsUsed
  BY DEF Init, LockIsUsed
<1>2. QED
  BY <1>1, UsedKept, Invariance, PTL DEF Spec

-----------------------------------------------------------------------------
(* The refinement.                                                           *)

LEMMA PhaseValues ==
  /\ \A s \in {"idle", "done", "failed"} : Phase(s) = s
  /\ \A s \in {"queued", "locked", "drafted", "staged", "compared"} : Phase(s) = "pending"
  /\ \A s \in {"published", "settled"} : Phase(s) = "applied"
BY DEF Phase

\* A call that moves takes its phase along, the others keep theirs.
LEMMA PhaseMoves ==
  ASSUME Shape, NEW c \in Callers, NEW s \in Stages, Move(c, s)
  PROVE  /\ phases[c] = Phase(stage[c])
         /\ phases' = [phases EXCEPT ![c] = Phase(s)]
         /\ Phase(s) = Phase(stage[c]) => UNCHANGED phases
<1>1. stage' = [stage EXCEPT ![c] = s] /\ stage \in [Callers -> Stages]
  BY DEF Move, Shape
<1>2. phases' = [d \in Callers |-> Phase(stage'[d])]
  BY DEF phases
<1>3. phases = [d \in Callers |-> Phase(stage[d])]
  BY DEF phases
<1>4. \A d \in Callers : stage'[d] = IF d = c THEN s ELSE stage[d]
  BY <1>1
<1>5. phases' = [d \in Callers |-> Phase(IF d = c THEN s ELSE stage[d])]
  BY <1>2, <1>4
<1>6. QED
  BY <1>3, <1>5

LEMMA DocumentInit == Init => Document!Init
<1> SUFFICES ASSUME Init PROVE Document!Init
  OBVIOUS
<1>1. \A c \in Callers : Phase(stage[c]) = "idle"
  BY PhaseValues DEF Init
<1>2. phases = [c \in Callers |-> "idle"]
  BY <1>1 DEF phases
<1>3. QED
  BY <1>2 DEF Init, Document!Init

\* Steps the caller cannot tell.
LEMMA StutterStep ==
  ASSUME Inv, NEW c \in Callers,
         Begin(c) \/ WriteTemp(c) \/ (Read(c) /\ Document!Changes(call[c], file))
           \/ (Compare(c) /\ file = base[c])
  PROVE  UNCHANGED Document!vars
<1>1. PICK s \in {"locked", "drafted", "staged", "compared"} : Move(c, s)
  BY DEF Begin, WriteTemp, Read, Compare
<1>2. stage[c] \in {"queued", "locked", "drafted", "staged"}
  BY DEF Begin, WriteTemp, Read, Compare, At
<1>3. Phase(s) = Phase(stage[c]) /\ s \in Stages
  BY <1>2, PhaseValues DEF Stages, Transacting
<1>4. UNCHANGED phases
  BY <1>1, <1>3, PhaseMoves DEF Inv
<1>5. UNCHANGED <<file, call, seen>>
  BY DEF Begin, WriteTemp, Read, Compare
<1>6. QED
  BY <1>4, <1>5 DEF Document!vars

\* A transaction takes effect where it finds nothing to write, or renames.
LEMMA ApplyStep ==
  ASSUME Inv, NEW c \in Callers,
         Publish(c) \/ (Read(c) /\ ~ Document!Changes(call[c], file))
  PROVE  Document!Apply(c)
<1>1. /\ stage[c] \in {"locked", "compared"} /\ stage[c] \in Transacting
      /\ UNCHANGED <<call, seen>> /\ \E s \in {"published", "settled"} : Move(c, s)
  BY DEF Publish, Read, At, Transacting
<1>2. call[c].kind # "load"
  BY <1>1 DEF Inv, Sound
<1>3. /\ phases[c] = "pending" /\ phases' = [phases EXCEPT ![c] = "applied"]
  <2>1. PICK s \in {"published", "settled"} : Move(c, s)
    BY <1>1
  <2>2. s \in Stages /\ Phase(s) = "applied" /\ Phase(stage[c]) = "pending"
    BY <1>1, PhaseValues DEF Stages, Transacting
  <2>3. QED
    BY <2>1, <2>2, PhaseMoves DEF Inv
<1>4. /\ Document!Applicable(call[c], file)
      /\ file' = IF Document!Changes(call[c], file) THEN Document!Effect(call[c], file) ELSE file
  <2>1. CASE Publish(c)
    <3>1. stage[c] = "compared" /\ stage[c] \in Drafted /\ file' = draft[c]
      BY <2>1 DEF Publish, At, Drafted
    <3>2. file = base[c]
      BY <3>1 DEF Inv, Sound
    <3>3. /\ Document!Applicable(call[c], base[c]) /\ Document!Changes(call[c], base[c])
          /\ draft[c] = Effect(call[c], base[c])
      BY <3>1 DEF Inv, Sound
    <3>4. QED
      BY <3>1, <3>2, <3>3 DEF Effect
  <2>2. CASE Read(c) /\ ~ Document!Changes(call[c], file)
    BY <2>2 DEF Read
  <2>3. QED
    BY <2>1, <2>2
<1>5. QED
  BY <1>1, <1>2, <1>3, <1>4 DEF Document!Apply

\* A call that leaves its process's queue is answered.
LEMMA AnswerStep ==
  ASSUME Inv, NEW c \in Callers,
         GiveUp(c) \/ Abort(c) \/ Commit(c) \/ (Compare(c) /\ file # base[c])
           \/ (Load(c) /\ ~ Document!Readable(file))
  PROVE  Document!Answer(c)
<1>1. /\ UNCHANGED <<file, call, seen>>
      /\ \/ stage[c] \in {"queued", "locked", "drafted", "staged", "compared"} /\ Move(c, "failed")
         \/ stage[c] \in {"published", "settled"} /\ Move(c, "done")
         \/ stage[c] \in {"published", "settled"} /\ Move(c, "failed")
  BY DEF GiveUp, Abort, Commit, Compare, Load, At, Leave
<1>2. {"done", "failed"} \subseteq Stages
  BY DEF Stages
<1>3. CASE stage[c] \in {"queued", "locked", "drafted", "staged", "compared"} /\ Move(c, "failed")
  <2>1. Phase("failed") = "failed" /\ Phase(stage[c]) = "pending"
    BY <1>3, PhaseValues
  <2>2. phases[c] = "pending" /\ phases' = [phases EXCEPT ![c] = "failed"]
    BY <1>2, <1>3, <2>1, PhaseMoves DEF Inv
  <2>3. QED
    BY <1>1, <2>2 DEF Document!Answer
<1>4. CASE stage[c] \in {"published", "settled"} /\ Move(c, "done")
  <2>1. Phase("done") = "done" /\ Phase(stage[c]) = "applied"
    BY <1>4, PhaseValues
  <2>2. phases[c] = "applied" /\ phases' = [phases EXCEPT ![c] = "done"]
    BY <1>2, <1>4, <2>1, PhaseMoves DEF Inv
  <2>3. QED
    BY <1>1, <2>2 DEF Document!Answer
<1>5. CASE stage[c] \in {"published", "settled"} /\ Move(c, "failed")
  <2>1. Phase("failed") = "failed" /\ Phase(stage[c]) = "applied"
    BY <1>5, PhaseValues
  <2>2. phases[c] = "applied" /\ phases' = [phases EXCEPT ![c] = "failed"]
    BY <1>2, <1>5, <2>1, PhaseMoves DEF Inv
  <2>3. QED
    BY <1>1, <2>2 DEF Document!Answer
<1>6. QED
  BY <1>1, <1>3, <1>4, <1>5

LEMMA ObserveStep ==
  ASSUME Inv, NEW c \in Callers, Load(c), Document!Readable(file)
  PROVE  Document!Observe(c)
<1>1. /\ stage[c] = "queued" /\ call[c].kind = "load" /\ Move(c, "done")
      /\ seen' = [seen EXCEPT ![c] = Document!Contents(file)] /\ UNCHANGED <<file, call>>
  BY DEF Load, At, Leave
<1>2. Phase(stage[c]) = "pending" /\ Phase("done") = "done" /\ "done" \in Stages
  BY <1>1, PhaseValues DEF Stages
<1>3. phases[c] = "pending" /\ phases' = [phases EXCEPT ![c] = "done"]
  BY <1>1, <1>2, PhaseMoves DEF Inv
<1>4. QED
  BY <1>1, <1>3 DEF Document!Observe

LEMMA AskStep ==
  ASSUME Inv, NEW c \in Callers, NEW request \in Requests[c], Call(c, request)
  PROVE  Document!Ask(c, request)
<1>1. stage[c] \in {"idle", "done", "failed"} /\ Move(c, "queued")
  BY DEF Call
<1>2. Phase(stage[c]) = stage[c] /\ Phase("queued") = "pending" /\ "queued" \in Stages
  BY <1>1, PhaseValues DEF Stages
<1>3. phases[c] \in {"idle", "done", "failed"} /\ phases' = [phases EXCEPT ![c] = "pending"]
  BY <1>1, <1>2, PhaseMoves DEF Inv
<1>4. QED
  BY <1>3 DEF Call, Document!Ask

LEMMA CrashStep ==
  ASSUME NEW p \in Processes, Crash(p)
  PROVE  \E callers \in SUBSET Callers : Document!Crash(callers)
<1> DEFINE gone == {c \in Callers : Home[c] = p}
<1>1. \A c \in Callers : stage'[c] = IF Home[c] = p THEN "idle" ELSE stage[c]
  BY DEF Crash
<1>2. \A c \in Callers : Phase(stage'[c]) = IF c \in gone THEN "idle" ELSE Phase(stage[c])
  BY <1>1, PhaseValues
<1>3. phases' = [c \in Callers |-> Phase(stage'[c])]
  BY DEF phases
<1>4. phases = [c \in Callers |-> Phase(stage[c])]
  BY DEF phases
<1>5. phases' = [c \in Callers |-> IF c \in gone THEN "idle" ELSE phases[c]]
  BY <1>2, <1>3, <1>4
<1>6. UNCHANGED <<file, call, seen>>
  BY DEF Crash
<1>7. Document!Crash(gone)
  BY <1>5, <1>6 DEF Document!Crash
<1>8. QED
  BY <1>7

LEMMA NextRefines == Inv /\ [Next]_vars => [Document!Next]_(Document!vars)
<1> SUFFICES ASSUME Inv, [Next]_vars PROVE [Document!Next]_(Document!vars)
  OBVIOUS
<1>1. ASSUME NEW c \in Callers, Step(c) PROVE Document!Next \/ UNCHANGED Document!vars
  <2>1. CASE Load(c)
    <3>1. Document!Observe(c) \/ Document!Answer(c)
      BY <2>1, ObserveStep, AnswerStep
    <3>2. QED
      BY <3>1 DEF Document!Next
  <2>2. CASE GiveUp(c) \/ Abort(c) \/ Commit(c)
    BY <2>2, AnswerStep DEF Document!Next
  <2>3. CASE Begin(c) \/ WriteTemp(c)
    BY <2>3, StutterStep
  <2>4. CASE Read(c)
    <3>1. Document!Apply(c) \/ UNCHANGED Document!vars
      BY <2>4, ApplyStep, StutterStep
    <3>2. QED
      BY <3>1 DEF Document!Next
  <2>5. CASE Compare(c)
    <3>1. Document!Answer(c) \/ UNCHANGED Document!vars
      BY <2>5, AnswerStep, StutterStep
    <3>2. QED
      BY <3>1 DEF Document!Next
  <2>6. CASE Publish(c)
    BY <2>6, ApplyStep DEF Document!Next
  <2>7. QED
    BY <1>1, <2>1, <2>2, <2>3, <2>4, <2>5, <2>6 DEF Step, Transact
<1>2. ASSUME NEW c \in Callers, NEW request \in Requests[c], Call(c, request)
      PROVE  Document!Next
  BY <1>2, AskStep DEF Document!Next
<1>3. ASSUME NEW p \in Processes, Crash(p) PROVE Document!Next
  BY <1>3, CrashStep DEF Document!Next
<1>4. ASSUME NEW d \in Documents, Edit(d) PROVE Document!Next
  <2>1. UNCHANGED phases
    BY <1>4 DEF Edit, phases
  <2>2. Document!Edit(d)
    BY <1>4, <2>1 DEF Edit, Document!Edit
  <2>3. QED
    BY <2>2 DEF Document!Next, Documents
<1>5. CASE UNCHANGED vars
  BY <1>5 DEF vars, phases, Document!vars
<1>6. QED
  BY <1>1, <1>2, <1>3, <1>4, <1>5 DEF Next

\* Whatever processes use the store, however their steps interleave, fail or
\* stop short, its callers see one document on which each save and mutation
\* takes effect at once (secure-store.ts, mutate).
THEOREM Refinement == Spec => ImplementsDocument
BY DocumentInit, NextRefines, Invariance, PTL DEF Spec, ImplementsDocument, Document!Spec
=============================================================================

--------------------------- MODULE AtomicDocument ---------------------------
(***************************************************************************)
(* What SecureStore promises its callers (core/secure-store.ts), whatever  *)
(* processes they run in: one document, on which every save and mutation   *)
(* takes effect as a whole and at once, or not at all.  A save or mutation *)
(* answered "done" has taken effect once; one answered "failed", or whose  *)
(* process died, once at most.  Programs that do not use the store may     *)
(* rewrite the file.                                                       *)
(***************************************************************************)
EXTENDS FiniteSets

CONSTANTS
  Callers,  \* calls that may be outstanding
  Entries,  \* what a readable document is a set of
  Absent,   \* no file
  Corrupt,  \* a file that is no document
  Requests  \* caller -> what it may ask for

VARIABLES
  document, \* Absent, Corrupt or a set of entries
  call,     \* caller -> what it asked for
  phase,    \* caller -> how far the call is
  seen      \* caller -> the entries its load was answered with

vars == <<document, call, phase, seen>>

Documents == {Absent, Corrupt} \cup SUBSET Entries

\* A save replaces the document, a mutation, here one that adds an entry,
\* changes the one there is.
Calls == [kind : {"save"}, entries : SUBSET Entries]
           \cup [kind : {"add"}, entry : Entries] \cup [kind : {"load"}]

\* loadFile: a missing file is an empty list, a damaged one an error.
Readable(d) == d # Corrupt
Contents(d) == IF d = Absent THEN {} ELSE d

\* The document after a call on d.
Effect(c, d) ==
  CASE c.kind = "save"   -> c.entries
    [] c.kind = "add"    -> Contents(d) \cup {c.entry}

\* A mutation that changes nothing writes nothing.
Changes(c, d) == c.kind = "save" \/ Effect(c, d) # Contents(d)

Applicable(c, d) == c.kind = "save" \/ Readable(d)

Init ==
  /\ document = Absent
  /\ call = [c \in Callers |-> [kind |-> "load"]]
  /\ phase = [c \in Callers |-> "idle"]
  /\ seen = [c \in Callers |-> {}]

Ask(c, request) ==
  /\ phase[c] \in {"idle", "done", "failed"}
  /\ call' = [call EXCEPT ![c] = request]
  /\ phase' = [phase EXCEPT ![c] = "pending"]
  /\ seen' = [seen EXCEPT ![c] = {}]
  /\ UNCHANGED document

Apply(c) ==
  /\ phase[c] = "pending" /\ call[c].kind # "load"
  /\ Applicable(call[c], document)
  /\ document' = IF Changes(call[c], document) THEN Effect(call[c], document) ELSE document
  /\ phase' = [phase EXCEPT ![c] = "applied"]
  /\ UNCHANGED <<call, seen>>

Observe(c) ==
  /\ phase[c] = "pending" /\ call[c].kind = "load" /\ Readable(document)
  /\ seen' = [seen EXCEPT ![c] = Contents(document)]
  /\ phase' = [phase EXCEPT ![c] = "done"]
  /\ UNCHANGED <<document, call>>

Answer(c) ==
  /\ \/ phase[c] = "applied" /\ phase' = [phase EXCEPT ![c] = "done"]
     \/ phase[c] \in {"pending", "applied"} /\ phase' = [phase EXCEPT ![c] = "failed"]
  /\ UNCHANGED <<document, call, seen>>

\* The callers of a process that dies hear nothing.
Crash(callers) ==
  /\ phase' = [c \in Callers |-> IF c \in callers THEN "idle" ELSE phase[c]]
  /\ UNCHANGED <<document, call, seen>>

Edit(d) ==
  /\ document' = d
  /\ UNCHANGED <<call, phase, seen>>

Next ==
  \/ \E c \in Callers :
       \/ \E request \in Requests[c] : Ask(c, request)
       \/ Apply(c) \/ Observe(c) \/ Answer(c)
  \/ \E callers \in SUBSET Callers : Crash(callers)
  \/ \E d \in Documents : Edit(d)

Spec == Init /\ [][Next]_vars
=============================================================================

---------------------------- MODULE SessionLaunch ----------------------------
(***************************************************************************)
(* Trusted launches of one terminal generation (session-host/session.ts    *)
(* executeLaunch, deliverLaunch and deliverVerifiedCommand): connections   *)
(* ask for a command to be typed at the shell's prompt, under an id that   *)
(* makes a repeated request join the first one.  Launches queue; each      *)
(* types its command, waits for its echo, retypes it after a timeout and   *)
(* presses enter once the echo is intact; a follow-up text is typed when   *)
(* the host sees the launched program run.                                 *)
(*                                                                         *)
(* The shell is the environment: it reads what was typed in order, may     *)
(* lose part of a command while it starts, and its echo may be late.  An   *)
(* echo is known by its text alone, so any launch of that input answers to *)
(* it.                                                                     *)
(***************************************************************************)
EXTENDS Integers, Sequences, FiniteSets

CONSTANTS
  Ids,        \* launch ids
  Inputs,     \* what a launch types; two differ in the head or tail of their echo
  Followed,   \* the inputs that have a follow-up text
  Callers,    \* connections that ask for launches
  Nothing,    \* no entry, no request
  MaxLedger,  \* MAX_LAUNCH_LEDGER_ENTRIES
  Attempts,   \* DELIVERY_ATTEMPTS
  MaxAsks     \* bound: caller -> its requests

Outcomes == {"pending", "ok", "failed"}
Entry == [input : Inputs, outcome : Outcomes]
Request == [id : Ids, input : Inputs]

ASSUME SessionLaunchAssumption ==
  /\ Followed \subseteq Inputs
  /\ Nothing \notin Entry /\ Nothing \notin Request
  /\ MaxLedger \in Nat /\ Attempts \in Nat \ {0} /\ MaxAsks \in [Callers -> Nat]

VARIABLES
  launchLedger, \* id -> its input and outcome, or Nothing
  launchQueue,  \* ids whose delivery has not settled, the first under way
  stage,        \* where the delivery under way stands
  attempt,      \* how often it has typed its command
  request,      \* caller -> the launch it waits for, or Nothing
  asked,        \* caller -> requests so far
  told,         \* answers given so far
  exited,       \* the terminal's process exited
  typed,        \* written to the terminal and not read yet
  prompt,       \* launches whose text is on the shell's command line
  echoes,       \* inputs the terminal echoed in full, not yet seen by the host
  agent,        \* the launched program runs, in front of the shell
  ran           \* lines that were entered: the launch, the text, whose line it ended

host == <<launchLedger, launchQueue, stage, attempt>>
callers == <<request, asked, told>>
shell == <<prompt, echoes, agent, ran>>
vars == <<host, callers, exited, typed, shell>>

Init ==
  /\ launchLedger = [i \in Ids |-> Nothing]
  /\ launchQueue = <<>> /\ stage = "idle" /\ attempt = 0
  /\ request = [c \in Callers |-> Nothing]
  /\ asked = [c \in Callers |-> 0]
  /\ told = {}
  /\ exited = FALSE
  /\ typed = <<>> /\ prompt = {} /\ echoes = <<>>
  /\ agent = FALSE /\ ran = <<>>

-----------------------------------------------------------------------------
(* Requests.                                                                  *)

Entries == {i \in Ids : launchLedger[i] # Nothing}
Answer(i, x, verdict) == [id |-> i, input |-> x, verdict |-> verdict]

Ask(c) ==
  /\ request[c] = Nothing /\ asked[c] < MaxAsks[c] /\ ~exited
  /\ asked' = [asked EXCEPT ![c] = @ + 1]
  /\ UNCHANGED <<stage, attempt, exited, typed, shell>>

\* Mutant: a failed launch may be tried again.
known_Delivered(i) == i \in Entries /\ launchLedger[i].outcome # "failed"

known(i) == i \in Entries

\* The same id with another input, or a full ledger: refused.
RefuseLaunch(c, i, x) ==
  /\ Ask(c)
  /\ IF known(i) THEN launchLedger[i].input # x
     ELSE Cardinality(Entries) >= MaxLedger
  /\ told' = told \cup {Answer(i, x, "refused")}
  /\ UNCHANGED <<launchLedger, launchQueue, request>>

\* A repeated id joins the outcome of the first request.
JoinLaunch(c, i, x) ==
  /\ Ask(c)
  /\ known(i) /\ launchLedger[i].input = x
  /\ request' = [request EXCEPT ![c] = [id |-> i, input |-> x]]
  /\ UNCHANGED <<launchLedger, launchQueue, told>>

\* The entry is in the ledger before the queued work can begin.
ExecuteLaunch(c, i, x) ==
  /\ Ask(c)
  /\ ~known(i) /\ Cardinality(Entries) < MaxLedger
  /\ launchLedger' = [launchLedger EXCEPT ![i] = [input |-> x, outcome |-> "pending"]]
  /\ launchQueue' = Append(launchQueue, i)
  /\ request' = [request EXCEPT ![c] = [id |-> i, input |-> x]]
  /\ UNCHANGED told

\* Mutant: a caller that joins is told as soon as there is an entry.
settled_Joined(e) == TRUE

settled(e) == e.outcome # "pending"

AnswerLaunch(c) ==
  /\ request[c] # Nothing
  /\ LET e == launchLedger[request[c].id]
     IN /\ settled(e)
        /\ told' = told \cup {Answer(request[c].id, request[c].input,
                                     IF e.outcome = "failed" THEN "failed" ELSE "executed")}
  /\ request' = [request EXCEPT ![c] = Nothing]
  /\ UNCHANGED <<host, asked, exited, typed, shell>>

-----------------------------------------------------------------------------
(* The delivery under way.                                                    *)

current == Head(launchQueue)
text(kind) == [kind |-> kind, id |-> current]

\* Mutant: a failure gives up those behind it.
Settle_DropsQueue(outcome) ==
  /\ launchLedger' = [launchLedger EXCEPT ![current].outcome = outcome]
  /\ launchQueue' = IF outcome = "failed" THEN <<>> ELSE Tail(launchQueue)
  /\ stage' = "idle" /\ attempt' = 0

\* The delivery settles and the next one in the queue may begin.
Settle(outcome) ==
  /\ launchLedger' = [launchLedger EXCEPT ![current].outcome = outcome]
  /\ launchQueue' = Tail(launchQueue)
  /\ stage' = "idle" /\ attempt' = 0

\* Mutant: the next launch does not wait for the one under way.
BeginDelivery_Overtakes ==
  /\ stage \in {"idle", "echo"} /\ Len(launchQueue) > 0
  /\ stage' = "quiet" /\ attempt' = 0
  /\ launchQueue' = Append(Tail(launchQueue), current)
  /\ UNCHANGED <<launchLedger, callers, exited, typed, shell>>

BeginDelivery ==
  /\ stage = "idle" /\ launchQueue # <<>> /\ ~exited
  /\ stage' = "quiet"
  /\ UNCHANGED <<launchLedger, launchQueue, attempt, callers, exited, typed, shell>>

\* Output has been quiet for a while, or the wait has reached its cap.
OutputQuiet ==
  /\ ~exited
  /\ \/ /\ stage = "quiet"
        /\ stage' = "echo" /\ attempt' = 1
        /\ typed' = Append(typed, text("command"))
        /\ UNCHANGED <<launchLedger, launchQueue>>
     \/ /\ stage = "started"
        /\ stage' = "followed"
        /\ typed' = Append(typed, text("follow-up"))
        /\ UNCHANGED <<launchLedger, launchQueue, attempt>>
     \/ /\ stage = "followed"
        /\ Settle("ok")
        /\ UNCHANGED typed
  /\ UNCHANGED <<callers, exited, shell>>

\* Output the host sees: while it verifies, the head and the tail of the
\* command, whoever typed it, press enter.
SeeEcho ==
  /\ echoes # <<>> /\ ~exited
  /\ echoes' = Tail(echoes)
  /\ IF stage = "echo" /\ Head(echoes) = launchLedger[current].input
     THEN /\ typed' = Append(typed, text("enter"))
          /\ IF launchLedger[current].input \in Followed
             THEN stage' = "submitted" /\ UNCHANGED <<launchLedger, launchQueue, attempt>>
             ELSE Settle("ok")
     ELSE UNCHANGED <<host, typed>>
  /\ UNCHANGED <<callers, exited, prompt, agent, ran>>

VerifyTimeout ==
  /\ stage = "echo" /\ ~exited
  /\ IF attempt >= Attempts
     THEN /\ typed' = Append(typed, text("kill-line"))
          /\ Settle("failed")
     ELSE /\ typed' = typed \o <<text("kill-line"), text("command")>>
          /\ attempt' = attempt + 1
          /\ UNCHANGED <<launchLedger, launchQueue, stage>>
  /\ UNCHANGED <<callers, exited, shell>>

\* The probe sees a program other than the shell, or never does.
SeeReady ==
  /\ stage = "submitted" /\ ~exited
  /\ agent
  /\ stage' = "started"
  /\ UNCHANGED <<launchLedger, launchQueue, attempt, callers, exited, typed, shell>>

ReadyTimeout ==
  /\ stage = "submitted" /\ ~exited
  /\ Settle("failed")
  /\ UNCHANGED <<callers, exited, typed, shell>>

\* Mutant: the exit is only seen by the delivery under way.
FailExited_OnlyCurrent ==
  /\ exited /\ launchQueue # <<>> /\ stage # "idle"
  /\ Settle("failed")
  /\ UNCHANGED <<callers, exited, typed, shell>>

\* The exit settles what is under way; what is queued fails as it begins.
FailExited ==
  /\ exited /\ launchQueue # <<>>
  /\ Settle("failed")
  /\ UNCHANGED <<callers, exited, typed, shell>>

-----------------------------------------------------------------------------
(* The environment.                                                           *)

\* A command is echoed in full, or not; then the host makes nothing of it.
echoed(t) == echoes' = Append(echoes, launchLedger[t.id].input)

entered(t, line) == ran' = Append(ran, [by |-> t.id, what |-> t.kind, line |-> line])

\* The shell reads what was typed next.  A follow-up text carries its own enter.
ShellReads(t) ==
  /\ ~agent
  /\ \/ /\ t.kind = "command"
        /\ prompt' = prompt \cup {t.id}
        /\ UNCHANGED echoes \/ (prompt = {} /\ echoed(t))
        /\ UNCHANGED <<agent, ran>>
     \/ /\ t.kind = "kill-line"
        /\ prompt' = {}
        /\ UNCHANGED <<echoes, agent, ran>>
     \/ /\ t.kind \in {"enter", "follow-up"}
        /\ prompt' = {} /\ entered(t, prompt)
        /\ agent' \in (IF t.kind = "enter" THEN BOOLEAN ELSE {FALSE})
        /\ UNCHANGED echoes

\* The program in front of it reads; it may echo what it reads.
AgentReads(t) ==
  /\ agent
  /\ UNCHANGED echoes \/ (t.kind = "command" /\ echoed(t))
  /\ IF t.kind = "enter" THEN entered(t, {}) ELSE UNCHANGED ran
  /\ UNCHANGED <<agent, prompt>>

ReadTyped ==
  /\ typed # <<>> /\ ~exited
  /\ typed' = Tail(typed)
  /\ ShellReads(Head(typed)) \/ AgentReads(Head(typed))
  /\ UNCHANGED <<host, callers, exited>>

AgentExits ==
  /\ agent /\ agent' = FALSE
  /\ UNCHANGED <<host, callers, exited, typed, prompt, echoes, ran>>

ProcessExits ==
  /\ ~exited /\ exited' = TRUE
  /\ UNCHANGED <<host, callers, typed, shell>>

-----------------------------------------------------------------------------
Delivery ==
  BeginDelivery \/ OutputQuiet \/ SeeEcho \/ VerifyTimeout \/ SeeReady \/ ReadyTimeout \/ FailExited

Next ==
  \/ \E c \in Callers, i \in Ids, x \in Inputs :
       RefuseLaunch(c, i, x) \/ JoinLaunch(c, i, x) \/ ExecuteLaunch(c, i, x)
  \/ \E c \in Callers : AnswerLaunch(c)
  \/ Delivery
  \/ ReadTyped \/ AgentExits \/ ProcessExits

Spec == Init /\ [][Next]_vars

\* Timers fire, and promises that are settled run their continuations. The
\* shell owes nothing.
FairSpec ==
  /\ Spec
  /\ WF_vars(BeginDelivery \/ OutputQuiet \/ VerifyTimeout \/ ReadyTimeout \/ FailExited)
  /\ \A c \in Callers : WF_vars(AnswerLaunch(c))

-----------------------------------------------------------------------------
(* What must hold.                                                            *)

Stages == {"idle", "quiet", "echo", "submitted", "started", "followed"}

\* Types, and the ledger against the queue: exactly the queued launches are
\* pending, each queued once (session.ts launchLedger, launchQueue).
TypeOK ==
  /\ launchLedger \in [Ids -> Entry \cup {Nothing}]
  /\ launchQueue \in Seq(Ids)
  /\ stage \in Stages /\ attempt \in 0 .. Attempts
  /\ request \in [Callers -> Request \cup {Nothing}]
  /\ asked \in [Callers -> Nat]
  /\ exited \in BOOLEAN /\ agent \in BOOLEAN
  /\ Cardinality(Entries) <= MaxLedger
  /\ {i \in Entries : launchLedger[i].outcome = "pending"}
       = {launchQueue[n] : n \in DOMAIN launchQueue}

pressed(i) ==
  Cardinality({n \in DOMAIN ran : ran[n].by = i /\ ran[n].what = "enter"})
    + Cardinality({n \in DOMAIN typed : typed[n] = [kind |-> "enter", id |-> i]})

\* However often it is asked for, and whatever became of the first request, a
\* launch presses enter at most once in a generation (session.ts "exactly-once
\* ledger").
LaunchedAtMostOnce == \A i \in Ids : pressed(i) <= 1

\* Enter, or a follow-up text that is read by the shell after all, ends a line
\* of the launch that typed it: no other launch types over its prompt in
\* between, although another's late echo may have it press enter (session.ts
\* launchQueue).
RunsItsOwnLine ==
  \A n \in DOMAIN ran : ran[n].line \subseteq {ran[n].by}

\* Answers about one launch never disagree: whoever is told that it was executed
\* asked for the input that was typed and submitted, and nobody is told that it
\* failed as well (session.ts executed, already-executed, previously failed).
AnswersAgree ==
  \A a \in told :
    a.verdict = "executed" =>
      /\ pressed(a.id) = 1 /\ launchLedger[a.id].input = a.input
      /\ Answer(a.id, a.input, "failed") \notin told

\* Every request is answered: each wait of a delivery is capped, and a failed one
\* does not hold up those behind it.
LaunchAnswered == \A c \in Callers : request[c] # Nothing ~> request[c] = Nothing
=============================================================================

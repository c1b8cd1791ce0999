------------------------- MODULE MCTriggerScheduler -------------------------
(* TriggerScheduler on small instances.                                      *)
EXTENDS TriggerScheduler, TLC

CONSTANTS n1, r1, r2

OnceAt(t) == [schedule |-> [kind |-> "once", at |-> t], payload |-> "a"]
OnTheMinute == [schedule |-> [kind |-> "cron", step |-> 1], payload |-> "b"]

\* A one-shot and a recurring definition, of two payloads.
TwoSpecs == {OnceAt(3), OnTheMinute}
Runs == Permutations(RunIds)
=============================================================================

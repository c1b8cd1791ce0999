--------------------------- MODULE MCSessionLaunch ---------------------------
(* SessionLaunch on small instances.                                        *)
EXTENDS SessionLaunch, TLC

CONSTANTS i1, i2, i3, x, y, c1, c2

\* Two requests of one caller and a third of another: an id repeated while its
\* launch is under way or after it, another input, a full ledger.
Asks == [c \in Callers |-> IF c = c1 THEN 2 ELSE 1]
=============================================================================

---------------------------- MODULE MCCanvasSync ----------------------------
(* CanvasSync on small instances.                                           *)
EXTENDS CanvasSync, TLC

CONSTANTS a, b

\* How many mutations each client may cast.
PairCasts == [x \in Clients |-> IF x = a THEN 3 ELSE 2]

Symmetry == Permutations(Values)
=============================================================================

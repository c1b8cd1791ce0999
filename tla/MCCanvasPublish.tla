--------------------------- MODULE MCCanvasPublish ---------------------------
(* CanvasPublish on small instances.                                        *)
EXTENDS CanvasPublish

CONSTANTS a, b

\* How many mutations each client may cast.
DragCasts == [x \in Clients |-> IF x = a THEN 2 ELSE 1]
=============================================================================

--------------------------- MODULE MCHostStartup ---------------------------
(* HostStartup on small instances.                                          *)
EXTENDS HostStartup

CONSTANTS p1, p2, p3
=============================================================================

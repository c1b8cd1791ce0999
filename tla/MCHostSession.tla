---------------------------- MODULE MCHostSession ----------------------------
(* HostSession on small instances.                                          *)
EXTENDS HostSession, TLC

CONSTANTS s1, s2

\* Two sizes neither of which fits the other: the terminal must take the
\* smaller of each direction.
Crossed == {<<1, 2>>, <<2, 1>>}
Symmetry == Permutations(Sockets)
=============================================================================

---- MODULE MCSessionHost ----
(* Instances of SessionHost for TLC. *)
EXTENDS SessionHost, TLC

CONSTANTS n1, s1, s2, i1, i2

Symmetry == Permutations(Sockets) \cup Permutations(Ids)
====

--------------------------- MODULE MCSecureStore ---------------------------
(* SecureStore on a small instance: two processes that add different         *)
(* entries, one of them with a second caller that saves or loads.            *)
EXTENDS SecureStore, TLC

CONSTANTS p1, p2, c1, c2, c3, x, y

Add(entry) == [kind |-> "add", entry |-> entry]

Homes == [c \in Callers |-> IF c = c3 THEN p2 ELSE p1]
Asked == [c \in Callers |->
            CASE c = c1 -> {Add(x)}
              [] c = c2 -> {[kind |-> "save", entries |-> {}], [kind |-> "load"]}
              [] c = c3 -> {Add(y)}]
=============================================================================

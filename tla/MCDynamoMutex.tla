--------------------------- MODULE MCDynamoMutex ---------------------------
(* The mutex with two or three clients and clocks that agree or do not. *)
EXTENDS DynamoMutex, TLC

CONSTANTS c1, c2, c3

TwoClients   == {c1, c2}
ThreeClients == {c1, c2, c3}

\* All clocks agree; clients are then interchangeable (not in temporal runs).
SameClocks == [c \in Clients |-> 0]
Symmetry   == Permutations(Clients)

\* The clock of c1 is the slowest, the others are Skew ahead.
FirstBehind == [c \in Clients |-> IF c = c1 THEN 0 ELSE Skew]
=============================================================================

---------------------------- MODULE MCQueueBroker ----------------------------
(* Small instances of QueueBroker for TLC.                                   *)
EXTENDS QueueBroker

CONSTANTS g1, g2, n1, n2, t1, c1, p1

\* The second group also has a queue of the first.
Shared == [g \in Group |-> IF g = g1 THEN {n1} ELSE {n1, n2}]
=============================================================================

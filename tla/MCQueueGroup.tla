---------------------------- MODULE MCQueueGroup ----------------------------
(* Small instances of QueueGroup for TLC.                                   *)
EXTENDS QueueGroup, TLC

CONSTANTS c1, t1, t2

\* c1 works without a transaction or in one of its own, c2 in a transaction; or all in any.
OwnTrid == [c \in Client |-> IF c = c1 THEN {NoTrid, t1} ELSE {t2}]
AnyTrid == [c \in Client |-> Trid \cup {NoTrid}]
NoRetries == [q \in Queue |-> 0]
OneRetry == [q \in Queue |-> 1]
QueuesOnly == Queue \X {"cQueue"}
=============================================================================

--------------------------- MODULE MCServiceBroker ---------------------------
(* Small instances of ServiceBroker for TLC.                                *)
EXTENDS ServiceBroker, TLC

CONSTANTS c1, c2, s1, s2

TwoAndOne == [c \in Caller |-> IF c = c1 THEN 2 ELSE 1]
=============================================================================

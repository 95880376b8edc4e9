-------------------------- MODULE MCInboundDevice --------------------------
EXTENDS InboundDevice
CONSTANTS a, b, m1, m2, m3, e1, request, event

MCFrom == [m \in {m1, m2, m3} |-> IF m = m3 THEN b ELSE a]
\* Two parts, an empty message, and two parts of which the second is short.
MCSize == [m \in {m1, m2, m3} |-> CASE m = m1 -> 4 [] m = m2 -> 0 [] m = m3 -> 3]
MCType == [m \in {m1, m2, m3, e1} |-> CASE m = e1 -> event [] OTHER -> request]
=============================================================================

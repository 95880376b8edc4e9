------------------------ MODULE MCTransactionContext ------------------------
(* A client calls a server, which calls or forwards to a second one. The   *)
(* client and the first server have a static resource manager each, the    *)
(* second server a dynamic one.                                            *)
EXTENDS TransactionContext

CONSTANTS c, s1, s2, r1, r2, r3

CallChain == [p \in Process |-> CASE p = c -> {s1} [] p = s1 -> {s2} [] OTHER -> {}]
StaticRMs == [p \in Process |-> CASE p = c -> {r1} [] p = s1 -> {r2} [] OTHER -> {}]
DynamicRMs == [p \in Process |-> IF p = s2 THEN {r3} ELSE {}]
Starts == [p \in Process |-> CASE p = c -> 2 [] p = s1 -> 1 [] OTHER -> 0]
Programs == [p \in Process |->
    CASE p = c -> {"begin", "end", "control", "tran"}
      [] p = s1 -> {"suspend", "fail", "cancel", "tran", "noreply"}
      [] OTHER -> {"register"}]
Modes == [s \in Servers |-> IF s = s1 THEN Mode ELSE {"join", "none"}]

(* The hypothesis of the theorems about several processes holds here.      *)
ASSUME CallsGoDown == NoCallBack
=============================================================================

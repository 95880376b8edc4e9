---------------------------- MODULE AtomicCommit ----------------------------
(***************************************************************************)
(* What the transaction manager, its resource proxies and the resource     *)
(* managers behind them promise together, seen at the resource managers    *)
(* only: how the branches of a transaction may change, whatever requests,  *)
(* replies, log records and processes bring it about.                      *)
(***************************************************************************)
CONSTANTS
    Trid,   \* global transaction ids
    RM      \* ids of the configured resources

VARIABLE branch   \* what each RM knows of each transaction

Branch == {"none", "active", "prepared", "ended", "committed", "rolledback"}

Init == branch = [t \in Trid |-> [r \in RM |-> "none"]]

Become(t, r, b) == branch' = [branch EXCEPT ![t][r] = b]

\* Work is done in the transaction at the resources rs.
Work(t, rs) ==
    branch' = [branch EXCEPT ![t] =
        [r \in RM |-> IF r \in rs /\ @[r] \in {"none", "ended", "rolledback"} THEN "active" ELSE @[r]]]

\* First phase: the resource gives its promise, or has nothing to commit.
Prepare(t, r) ==
    /\ branch[t][r] = "active"
    /\ Become(t, r, "prepared") \/ Become(t, r, "ended")

\* Second phase: no resource of the transaction can refuse any more.
Commit(t, r) ==
    /\ branch[t][r] = "prepared"
    /\ \A q \in RM : branch[t][q] \in {"none", "prepared", "ended", "committed"}
    /\ Become(t, r, "committed")

\* One-phase commit: no other resource has anything at stake.
CommitOnePhase(t, r) ==
    /\ branch[t][r] = "active"
    /\ \A q \in RM \ {r} : branch[t][q] = "none"
    /\ Become(t, r, "committed")

\* A resource refuses in the first phase, or is told to roll back.
Rollback(t, r) ==
    /\ branch[t][r] \in {"active", "prepared"}
    /\ \A q \in RM : branch[t][q] # "committed"
    /\ Become(t, r, "rolledback")

Next ==
    \/ \E t \in Trid, rs \in SUBSET RM : Work(t, rs)
    \/ \E t \in Trid, r \in RM :
          Prepare(t, r) \/ Commit(t, r) \/ CommitOnePhase(t, r) \/ Rollback(t, r)

Spec == Init /\ [][Next]_branch

\* A transaction is never committed at one resource and rolled back at another.
Consistent ==
    \A t \in Trid : \A r, q \in RM :
        ~ (branch[t][r] = "committed" /\ branch[t][q] = "rolledback")
=============================================================================

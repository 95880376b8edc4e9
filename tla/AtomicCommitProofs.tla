------------------------- MODULE AtomicCommitProofs -------------------------
(***************************************************************************)
(* AtomicCommit gives atomicity, for any transactions and resources. With  *)
(* ImplementsAtomicCommit of TransactionManager this is what the manager   *)
(* is for.                                                                 *)
(***************************************************************************)
EXTENDS AtomicCommit, TLAPS

\* The types of the branches, which the proof needs beside Consistent.
Typed == branch \in [Trid -> [RM -> Branch]]

\* What a step of one resource does to the branches.
LEMMA BecomeIs ==
    ASSUME Typed, NEW t \in Trid, NEW r \in RM, NEW b \in Branch, Become(t, r, b)
    PROVE  /\ Typed'
           /\ \A u \in Trid : \A q \in RM :
                 branch'[u][q] = IF u = t /\ q = r THEN b ELSE branch[u][q]
BY DEF Typed, Become

\* The promise of atomic commit keeps a transaction from ending both ways: no branch is
\* committed where another of the same transaction is rolled back.
THEOREM AtomicCommitConsistent == Spec => []Consistent
<1> DEFINE Inv == Typed /\ Consistent
<1>1. Init => Inv
    BY DEF Init, Typed, Consistent, Branch
<1>2. Inv /\ [Next]_branch => Inv'
    <2> SUFFICES ASSUME Typed, Consistent, [Next]_branch PROVE Typed' /\ Consistent'
        OBVIOUS
    <2>1. ASSUME NEW t \in Trid, NEW rs \in SUBSET RM, Work(t, rs) PROVE Typed' /\ Consistent'
        <3>1. Typed'
            BY <2>1 DEF Typed, Work, Branch
        <3>2. \A u \in Trid : \A q \in RM : branch'[u][q] \in {"active", branch[u][q]}
            BY <2>1 DEF Typed, Work
        <3> QED BY <3>1, <3>2 DEF Consistent
    <2>2. ASSUME NEW t \in Trid, NEW r \in RM, Prepare(t, r) PROVE Typed' /\ Consistent'
        <3>1. PICK b \in {"prepared", "ended"} : Become(t, r, b)
            BY <2>2 DEF Prepare
        <3> QED BY <3>1, BecomeIs DEF Consistent, Branch
    <2>3. ASSUME NEW t \in Trid, NEW r \in RM, Commit(t, r) PROVE Typed' /\ Consistent'
        BY <2>3, BecomeIs DEF Commit, Consistent, Branch
    <2>4. ASSUME NEW t \in Trid, NEW r \in RM, CommitOnePhase(t, r) PROVE Typed' /\ Consistent'
        BY <2>4, BecomeIs DEF CommitOnePhase, Consistent, Branch
    <2>5. ASSUME NEW t \in Trid, NEW r \in RM, Rollback(t, r) PROVE Typed' /\ Consistent'
        BY <2>5, BecomeIs DEF Rollback, Consistent, Branch
    <2>6. CASE UNCHANGED branch
        BY <2>6 DEF Typed, Consistent
    <2> QED BY <2>1, <2>2, <2>3, <2>4, <2>5, <2>6 DEF Next
<1> QED BY <1>1, <1>2, PTL DEF Spec
=============================================================================

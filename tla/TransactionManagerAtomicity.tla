-------------------- MODULE TransactionManagerAtomicity ---------------------
(***************************************************************************)
(* TransactionManager implements AtomicCommit, and with it atomicity and   *)
(* the promises about the log and the replies, for any number of           *)
(* transactions, resources, proxies and processes.                         *)
(*                                                                         *)
(* The inductive invariant IInv says that every transaction is in one of   *)
(* the phases of TransactionManagerProofs (Phase), and relates the log,    *)
(* the disk and the decisions that have been told. There is one lemma for  *)
(* each handler, then the theorems. The last part is about the requests:   *)
(* the course of a transaction, with its own inductive invariant, RInv,    *)
(* and the last reply to its owner.                                        *)
(***************************************************************************)
EXTENDS TransactionManagerProofs

-----------------------------------------------------------------------------
(* Steps about one transaction.                                            *)

\* Whatever happens to t, the other transactions are left alone.
Alone(t) ==
    \A u \in Trid \ {t} :
        Untouched(u) /\ SendsNothing(u) /\ TellsNothing(u) /\ Answers(u)' \subseteq Answers(u)

\* A step about t keeps the phase of every transaction if it keeps the one of t.
LEMMA OthersFramed ==
    ASSUME TypeOK, \A u \in Trid : Phase(u), NEW t \in Trid, Alone(t), Phase(t)'
    PROVE  \A u \in Trid : Phase(u)'
BY Framed DEF Alone

\* Where nothing is asked there is at most one request.
LEMMA NoneAtMostOne ==
    ASSUME TypeOK, NEW t \in Trid, NEW r \in RM,
           \A m \in Request : m.trid = t => ~ Holds(Scheduling, m, r)
    PROVE  AtMostOne(Scheduling, t, r)
<1>1. ASSUME NEW n \in DOMAIN pendingRequests, Waits(Scheduling, t, r, n)
      PROVE  FALSE
    <2>1. pendingRequests[n] \in PendingRequest
        BY DEF TypeOK
    <2>2. pendingRequests[n].message \in Request
        BY <2>1 DEF PendingRequest
    <2> QED BY <1>1, <2>2 DEF Waits, Holds, Scheduling
<1>2. ASSUME NEW i \in Instance, NEW n \in DOMAIN inbox[i], Queued(Scheduling, t, r, i, n)
      PROVE  FALSE
    BY <1>2 DEF Queued, Holds, Scheduling
<1> QED BY <1>1, <1>2 DEF AtMostOne, Scheduling

\* One resource is one, more are two.
LEMMA OneOrTwo ==
    ASSUME NEW rs \in SUBSET RM, rs # {}
    PROVE  /\ Cardinality(rs) = 1 => \E r \in rs : rs = {r}
           /\ Cardinality(rs) # 1 => \E r, q \in rs : r # q
<1>1. IsFiniteSet(rs)
    BY FiniteAssumption, FS_Subset
<1>2. Cardinality(rs) = 1 <=> \E r : rs = {r}
    BY <1>1, FS_Singleton
<1>3. PICK r \in rs : TRUE
    OBVIOUS
<1>4. rs # {r} => \E q \in rs : r # q
    BY <1>3
<1> QED BY <1>2, <1>3, <1>4

\* What an owner does when it asks for the end: its work is done, the request counted.
LEMMA AsksMoves ==
    ASSUME TypeOK, NEW t \in Trid, NEW type \in {"commit", "rollback"}, Asks(t, type)
    PROVE  /\ client[t] = "active" /\ Owner[t] \in alive
           /\ client'[t] = type /\ sent'[t] # 0 /\ sent'[t] \in 0 .. MaxRequests
           /\ sent[t] # 0 => branch'[t] = branch[t]
           /\ sent[t] = 0 => \A r \in RM : branch'[t][r] =
                 IF r \in own[t] /\ branch[t][r] \in {"none", "ended", "rolledback"} THEN "active" ELSE branch[t][r]
           /\ \A u \in Trid \ {t} : client'[u] = client[u] /\ sent'[u] = sent[u] /\ branch'[u] = branch[u]
<1>1. client \in [Trid -> {"active", "commit", "logged", "rollback", "done"}] /\ sent \in [Trid -> 0 .. MaxRequests]
      /\ branch \in [Trid -> [RM -> {"none", "active", "prepared", "ended", "committed", "rolledback"}]]
    BY DEF TypeOK
<1>2. /\ client' = [client EXCEPT ![t] = type] /\ sent' = [sent EXCEPT ![t] = @ + 1] /\ sent[t] < MaxRequests
      /\ client[t] = "active" /\ Owner[t] \in alive
    BY DEF Asks
<1>3. sent[t] \in 0 .. MaxRequests /\ sent'[t] = sent[t] + 1
    BY <1>1, <1>2
<1>4. /\ sent[t] # 0 => branch' = branch
      /\ sent[t] = 0 => branch' = [branch EXCEPT ![t] = [r \in RM |-> IF r \in own[t] /\ branch[t][r] \in {"none", "ended", "rolledback"}
                                   THEN "active" ELSE branch[t][r]]]
    BY DEF Asks, Worked
<1> QED BY <1>1, <1>2, <1>3, <1>4, BoundAssumption

\* handle::Commit is about one transaction.
LEMMA CommitAlone ==
    ASSUME TypeOK, NEW t \in Trid, Commit(t)
    PROVE  Alone(t)
<1> DEFINE rs == Involve(t, own[t])
<1>1. rs \in SUBSET RM
    BY DEF TypeOK, Involve
<1>2. Asks(t, "commit") /\ UNCHANGED <<unsent, log, inbound, own, calls, alive>>
    BY DEF Commit
<1>3. CommitRefused(t, rs) \/ CommitEmpty(t, rs) \/ CommitResources(t, rs)
    BY DEF Commit
<1>4. sent'[t] \in 0 .. MaxRequests
      /\ \A u \in Trid \ {t} : client'[u] = client[u] /\ sent'[u] = sent[u] /\ branch'[u] = branch[u]
    BY <1>2, AsksMoves
<1> HIDE DEF rs
<1> SUFFICES ASSUME NEW u \in Trid \ {t}
             PROVE  Untouched(u) /\ SendsNothing(u) /\ TellsNothing(u) /\ Answers(u)' \subseteq Answers(u)
    BY DEF Alone
<1>5. Untouched(u)
    <2>1. /\ u \in transactions' <=> u \in transactions
          /\ resources'[u] = resources[u] /\ stage'[u] = stage[u] /\ result'[u] = result[u]
        BY <1>3 DEF CommitRefused, CommitEmpty, CommitResources, RequestResources, Erase, TypeOK
    <2> QED BY <1>2, <1>4, <2>1 DEF Untouched
<1>6. Answers(u)' \subseteq Answers(u)
    BY <1>2 DEF Answers
<1>7. RepliesOK
    BY DEF TypeOK, RepliesOK
<1>8. CASE CommitRefused(t, rs) \/ CommitEmpty(t, rs)
    <2>1. SendsNothing(u)
        BY <1>8, SameSends DEF CommitRefused, CommitEmpty
    <2>2. PICK m \in Reply : m.trid = t /\ SendReply(m)
        BY <1>4, <1>8, ReplyTypes, StagesTyped DEF CommitRefused, CommitEmpty, CommitReply
    <2>3. TellsNothing(u)
        BY <1>2, <1>7, <2>2, SendReplyTells, TellsOther
    <2> QED BY <1>5, <1>6, <2>1, <2>3
<1>9. CASE CommitResources(t, rs)
    <2>1. PICK m \in Request, to \in SUBSET RM : m.trid = t /\ Schedule(SendRequest(Scheduling, m, to))
        <3>1. AtStage(stage[t], rs, cInvolved) \in SUBSET RM
            BY <1>1 DEF AtStage
        <3> QED BY <1>9, <3>1, RequestType DEF CommitResources, RequestResources
    <2>2. SendsNothing(u)
        BY <2>1, SameFollows, SendRequestSends, SendsOther
    <2>3. TellsNothing(u)
        BY <1>2, <1>9, NoReplyTells DEF CommitResources, NoReply
    <2> QED BY <1>5, <1>6, <2>2, <2>3
<1> QED BY <1>3, <1>8, <1>9

-----------------------------------------------------------------------------
(* handle::Commit.                                                         *)

\* What a reply that is sent changes for its transaction.
LEMMA TellsOne ==
    ASSUME TypeOK, UNCHANGED unsent, NEW n \in Reply, SendReply(n) \/ SendPersistent(n)
    PROVE  Tells(n)
BY SendReplyTells DEF TypeOK, RepliesOK

\* The first commit request of the owner starts the first phase, or a one-phase commit;
\* without resources, the transaction is settled.
LEMMA CommitFresh ==
    ASSUME TypeOK, NEW t \in Trid, Fresh(t), Commit(t)
    PROVE  Phase(t)'
<1> DEFINE rs == Involve(t, own[t])
<1>1. rs \in SUBSET RM /\ resources[t] \subseteq rs /\ own[t] \cap RM \subseteq rs /\ rs \subseteq resources[t] \cup own[t]
    BY DEF TypeOK, Involve
<1>2. UNCHANGED <<unsent, log, inbound, own, calls, alive>> /\ calls[t] = {}
    BY DEF Commit
<1>3. CommitRefused(t, rs) \/ CommitEmpty(t, rs) \/ CommitResources(t, rs)
    BY DEF Commit
<1>4. /\ client'[t] = "commit" /\ sent'[t] # 0 /\ sent'[t] \in 0 .. MaxRequests
      /\ \A r \in RM : branch'[t][r] =
           IF r \in own[t] /\ branch[t][r] \in {"none", "ended", "rolledback"} THEN "active" ELSE branch[t][r]
    BY AsksMoves DEF Commit, Fresh
<1> HIDE DEF rs
<1>5. \A r \in RM : IF r \in rs THEN branch'[t][r] = "active" ELSE branch'[t][r] = "none"
    BY <1>1, <1>4 DEF Fresh
<1>6. stage[t] \in [RM -> Stage] /\ \A r \in RM : stage[t][r] = cInvolved
    BY DEF Fresh, TypeOK, Stage, cInvolved
<1>7. LeastStage(stage[t], rs) \in {cInvolved, cNotInvolved}
    BY <1>1, <1>6, StageLeast
<1>8. CASE CommitEmpty(t, rs)
    <2>1. rs = {}
        BY <1>8 DEF CommitEmpty
    <2>2. SendsNothing(t)
        BY <1>8, SameSends DEF CommitEmpty
    <2> DEFINE m == CommitReply(t, "commit", cXA_RDONLY, sent'[t])
    <2>3. m \in Reply
        BY <1>4, ReplyTypes, StagesTyped
    <2>4. \A n \in Reply : Told(n)' => Told(n) \/ n = m
        BY <1>2, <1>8, <2>3, TellsOne DEF CommitEmpty, Tells
    <2>5. m.stage = "commit" /\ m.state = cXA_RDONLY
        BY DEF CommitReply
    <2> HIDE DEF m
    <2>6. \A n \in Reply : n.trid = t /\ Told(n)' => n.stage # "prepare" /\ n.state = cXA_RDONLY
        BY <2>4, <2>5 DEF Fresh, cXA_OK, cXA_RDONLY
    <2>7. resources'[t] = {} /\ result'[t] = [r \in RM |-> cXA_OK]
        BY <1>8 DEF CommitEmpty, Erase, TypeOK
    <2>8. Answers(t)' = {}
        BY <1>2 DEF Fresh, Answers
    <2>9. OnePhase(t)'
        BY <1>2, <1>4, <1>5, <2>1, <2>2, <2>6, <2>7, <2>8
           DEF OnePhase, EndRequested, AllOk, Fresh, SendsNothing
    <2> QED BY <2>9 DEF Phase
<1>9. CASE CommitResources(t, rs)
    <2>1. /\ rs # {} /\ resources'[t] = rs /\ result'[t] = result[t] /\ t \in transactions'
          /\ TellsNothing(t)
        BY <1>2, <1>9, NoReplyTells DEF CommitResources, NoReply, TypeOK
    <2>2. \A n \in Reply : n.trid = t => ~ Told(n)'
        BY <2>1 DEF TellsNothing, Fresh
    <2>3. Answers(t)' = {}
        BY <1>2 DEF Fresh, Answers
    <2>4. AtStage(stage[t], rs, cInvolved) = rs
        BY <1>1, <1>6 DEF AtStage
    <2>5. CASE Cardinality(rs) = 1
        <3> DEFINE m == [op |-> "commit", trid |-> t, onephase |-> TRUE]
        <3>1. RequestResources(Scheduling, t, rs, "commit", TRUE, cCommitRequested)
            BY <1>9, <2>4, <2>5 DEF CommitResources
        <3>2. m \in Request /\ Schedule(SendRequest(Scheduling, m, rs))
            BY <3>1, RequestType DEF RequestResources
        <3>3. Sends(m, rs)
            BY <1>1, <3>2, SameFollows, SendRequestSends
        <3>4. \A r \in rs : stage'[t][r] # cInvolved
            BY <1>1, <3>1 DEF RequestResources, TypeOK, cInvolved, cCommitRequested
        <3>5. PICK q \in rs : rs = {q}
            BY <1>1, <2>1, <2>5, OneOrTwo
        <3>6. \A a \in Request, r \in RM : a.trid = t /\ Holds(Scheduling, a, r)' => a = m /\ r = q
            BY <3>3, <3>5 DEF Sends, Fresh
        <3>7. OnePhase(t)'
            BY <1>1, <1>2, <1>4, <1>5, <2>1, <2>2, <2>3, <3>4, <3>5, <3>6
               DEF OnePhase, EndRequested, AllOk, Fresh
        <3> QED BY <3>7 DEF Phase
    <2>6. CASE Cardinality(rs) # 1
        <3> DEFINE m == [op |-> "prepare", trid |-> t, onephase |-> FALSE]
        <3>1. RequestResources(Scheduling, t, rs, "prepare", FALSE, cPrepareRequested)
            BY <1>9, <2>4, <2>6 DEF CommitResources
        <3>2. m \in Request /\ Schedule(SendRequest(Scheduling, m, rs))
            BY <3>1, RequestType DEF RequestResources
        <3>3. Sends(m, rs)
            BY <1>1, <3>2, SameFollows, SendRequestSends
        <3>4. \A r \in rs : stage'[t][r] = cPrepareRequested
            BY <1>1, <3>1 DEF RequestResources, TypeOK
        <3>5. \E r, q \in rs : r # q
            BY <1>1, <2>1, <2>6, OneOrTwo
        <3>6. \A a \in Request, r \in RM : a.trid = t /\ Holds(Scheduling, a, r)' => a.op = "prepare" /\ r \in rs
            BY <3>3 DEF Sends, Fresh
        <3>7. \A r \in RM : AtMostOne(Scheduling, t, r)'
            BY <3>3, NoneAtMostOne DEF Sends, Fresh
        <3>8. \A r \in rs : Vote(t, r)'
            BY <1>1, <1>5, <3>4 DEF Vote, cPrepareRequested, cPrepareReplied, cNotInvolved
        <3>9. Voting(t)'
            BY <1>1, <1>2, <1>4, <1>5, <2>1, <2>2, <2>3, <3>4, <3>5, <3>6, <3>7, <3>8
               DEF Voting, EndRequested, Fresh
        <3> QED BY <3>9 DEF Phase
    <2> QED BY <2>5, <2>6
<1> QED BY <1>3, <1>7, <1>8, <1>9 DEF CommitRefused

\* A commit request after a logged decision, or one that names what has ended, asks for
\* nothing that could undo the outcome.
LEMMA CommitAgain ==
    ASSUME TypeOK, NEW t \in Trid, Committing(t) \/ Settled(t), Commit(t)
    PROVE  Phase(t)'
<1> DEFINE rs == Involve(t, own[t])
<1>1. rs \in SUBSET RM /\ rs = resources[t] \cup (own[t] \cap RM)
    BY DEF TypeOK, Involve
<1>2. UNCHANGED <<unsent, log, inbound, own, calls, alive>>
    BY DEF Commit
<1>3. CommitRefused(t, rs) \/ CommitEmpty(t, rs) \/ CommitResources(t, rs)
    BY DEF Commit
<1>4. /\ sent'[t] # 0 /\ sent'[t] \in 0 .. MaxRequests /\ branch'[t] = branch[t]
    BY AsksMoves DEF Commit, Committing, Settled, EndRequested
<1> HIDE DEF rs
<1>5. Answers(t)' = Answers(t)
    BY <1>2 DEF Answers
<1>6. resources'[t] = rs
    BY <1>3 DEF CommitRefused, CommitEmpty, CommitResources, Erase, TypeOK
<1>7. CASE Settled(t)
    BY <1>1, <1>2, <1>4, <1>5, <1>6, <1>7 DEF Settled, EndRequested, Phase
<1>8. CASE Committing(t)
    <2>1. rs = resources[t] /\ rs # {}
        BY <1>1, <1>8 DEF Committing
    <2>2. \A r \in rs : stage[t][r] # cInvolved
        BY <1>8, <2>1 DEF Committing, cInvolved, cPrepareRequested, cCommitReplied, cNotInvolved
    <2>3. t \in transactions' /\ stage'[t] = stage[t]
              /\ SendsNothing(t)
        <3>1. CASE CommitRefused(t, rs)
            BY <3>1, <1>8, SameSends DEF CommitRefused, Committing
        <3>2. CASE CommitResources(t, rs)
            <4> DEFINE m == IF Cardinality(rs) = 1 THEN [op |-> "commit", trid |-> t, onephase |-> TRUE]
                            ELSE [op |-> "prepare", trid |-> t, onephase |-> FALSE]
            <4>1. AtStage(stage[t], rs, cInvolved) = {}
                BY <2>2 DEF AtStage
            <4>2. /\ \/ RequestResources(Scheduling, t, {}, "commit", TRUE, cCommitRequested)
                     \/ RequestResources(Scheduling, t, {}, "prepare", FALSE, cPrepareRequested)
                  /\ t \in transactions'
                BY <3>2, <4>1 DEF CommitResources
            <4>3. stage'[t] = [r \in RM |-> stage[t][r]]
                BY <4>2 DEF RequestResources, TypeOK
            <4>4. stage'[t] = stage[t]
                BY <4>3 DEF TypeOK
            <4>5. PICK n \in Request : Schedule(SendRequest(Scheduling, n, {}))
                BY <4>2, RequestType DEF RequestResources
            <4>6. SendsNothing(t)
                BY <4>5, SameFollows, SendRequestSends, SendsOther
            <4> QED BY <4>2, <4>4, <4>6
        <3> QED BY <1>3, <2>1, <3>1, <3>2 DEF CommitEmpty
    <2>5. Committing(t)'
        BY <1>2, <1>4, <1>5, <1>6, <1>8, <2>1, <2>3
           DEF Committing, EndRequested, SendsNothing
    <2> QED BY <2>5 DEF Phase
<1> QED BY <1>7, <1>8

\* handle::Commit keeps every transaction in a phase.
LEMMA CommitPhase ==
    ASSUME TypeOK, \A u \in Trid : Phase(u), NEW t \in Trid, Commit(t)
    PROVE  \A u \in Trid : Phase(u)'
<1>1. client[t] = "active" /\ Owner[t] \in alive
    BY AsksMoves DEF Commit
<1>2. Fresh(t) \/ Committing(t) \/ Settled(t)
    BY <1>1 DEF Phase, OnePhase, Aborting, Voting
<1> QED BY <1>2, CommitFresh, CommitAgain, CommitAlone, OthersFramed

-----------------------------------------------------------------------------
(* handle::Rollback, process::Exit and resource::Involved.                 *)

\* basic_rollback asks for rollback only, and only of resources that were not asked yet.
LEMMA RollMoves ==
    ASSUME TypeOK, NEW t \in Trid, NEW rs \in SUBSET RM, NEW c, Roll(t, rs, c)
    PROVE  /\ resources'[t] = rs /\ (rs # {} => t \in transactions')
           /\ result'[t] = result[t] \/ AllOk(t)'
           /\ \A r \in rs : stage[t][r] # cInvolved => stage'[t][r] = stage[t][r]
           /\ \A a \in Request, r \in RM : a.trid = t /\ Holds(Scheduling, a, r)' =>
                 Holds(Scheduling, a, r) \/ a.op = "rollback"
           /\ (\A r \in rs : stage[t][r] # cInvolved) => SendsNothing(t)
           /\ \A u \in Trid \ {t} :
                 /\ u \in transactions' <=> u \in transactions
                 /\ resources'[u] = resources[u] /\ stage'[u] = stage[u] /\ result'[u] = result[u]
                 /\ SendsNothing(u)
<1> DEFINE to == AtStage(stage[t], rs, cInvolved)
           m == [op |-> "rollback", trid |-> t, onephase |-> FALSE]
<1>1. to \in SUBSET RM /\ to \subseteq rs
    BY DEF AtStage
<1>2. m \in Request /\ m.op = "rollback" /\ m.trid = t
    BY RequestType
<1>3. CASE rs = {}
    <2>1. Erase(t) /\ UNCHANGED <<instance, inbox, pendingRequests>>
        BY <1>3 DEF Roll
    <2>2. \A u \in Trid : SendsNothing(u)
        BY <2>1, SameSends
    <2>3. /\ resources'[t] = {} /\ AllOk(t)'
          /\ \A u \in Trid \ {t} :
                 /\ u \in transactions' <=> u \in transactions
                 /\ resources'[u] = resources[u] /\ stage'[u] = stage[u] /\ result'[u] = result[u]
        BY <2>1 DEF Erase, TypeOK, AllOk
    <2> QED BY <1>3, <2>2, <2>3 DEF SendsNothing
<1>4. CASE rs # {}
    <2>1. /\ transactions' = transactions \cup {t} /\ resources' = [resources EXCEPT ![t] = rs]
          /\ UNCHANGED result /\ RequestResources(Scheduling, t, to, "rollback", FALSE, cRollbackRequested)
        BY <1>4 DEF Roll
    <2>2. /\ stage' = [stage EXCEPT ![t] = [r \in RM |-> IF r \in to THEN cRollbackRequested ELSE stage[t][r]]]
          /\ Schedule(SendRequest(Scheduling, m, to))
        BY <2>1 DEF RequestResources
    <2>3. Sends(m, to)
        BY <1>1, <1>2, <2>2, SameFollows, SendRequestSends
    <2>4. (\A r \in rs : stage[t][r] # cInvolved) => to = {}
        BY DEF AtStage
    <2>5. \A r \in rs : stage[t][r] # cInvolved => stage'[t][r] = stage[t][r]
        BY <2>2 DEF TypeOK, AtStage
    <2> HIDE DEF to, m
    <2>6. (\A r \in rs : stage[t][r] # cInvolved) => SendsNothing(t)
        BY <1>2, <2>3, <2>4, SendsOther
    <2>7. \A u \in Trid \ {t} : SendsNothing(u)
        BY <1>2, <2>3, SendsOther
    <2>8. \A u \in Trid \ {t} :
                 /\ u \in transactions' <=> u \in transactions
                 /\ resources'[u] = resources[u] /\ stage'[u] = stage[u] /\ result'[u] = result[u]
        BY <2>1, <2>2 DEF TypeOK
    <2>9. \A a \in Request, r \in RM : a.trid = t /\ Holds(Scheduling, a, r)' =>
                 Holds(Scheduling, a, r) \/ a.op = "rollback"
        BY <1>2, <2>3 DEF Sends
    <2>10. resources'[t] = rs /\ t \in transactions' /\ result'[t] = result[t]
        BY <2>1 DEF TypeOK
    <2> QED BY <1>4, <2>5, <2>6, <2>7, <2>8, <2>9, <2>10
<1> QED BY <1>3, <1>4

\* handle::Rollback for the owner keeps every transaction in a phase.
LEMMA RollbackPhase ==
    ASSUME TypeOK, \A u \in Trid : Phase(u), NEW t \in Trid, Rollback(t)
    PROVE  \A u \in Trid : Phase(u)'
<1> DEFINE rs == Involve(t, own[t])
           m == RollbackReply(t, "rollback", cXA_OK, sent'[t])
<1>1. rs \in SUBSET RM /\ rs = resources[t] \cup (own[t] \cap RM)
    BY DEF TypeOK, Involve
<1>2. /\ UNCHANGED <<unsent, log, inbound, own, calls, alive>> /\ Asks(t, "rollback")
      /\ Roll(t, rs, sent'[t])
      /\ IF rs = {} THEN SendReply(m) ELSE NoReply
    BY DEF Rollback
<1>3. /\ client[t] = "active" /\ Owner[t] \in alive /\ client'[t] = "rollback"
      /\ sent'[t] # 0 /\ sent'[t] \in 0 .. MaxRequests
      /\ sent[t] # 0 => branch'[t] = branch[t]
      /\ sent[t] = 0 => \A r \in RM : branch'[t][r] =
           IF r \in own[t] /\ branch[t][r] \in {"none", "ended", "rolledback"} THEN "active" ELSE branch[t][r]
      /\ \A u \in Trid \ {t} : client'[u] = client[u] /\ sent'[u] = sent[u] /\ branch'[u] = branch[u]
    BY <1>2, AsksMoves
<1>4. /\ resources'[t] = rs /\ (rs # {} => t \in transactions')
      /\ result'[t] = result[t] \/ AllOk(t)'
      /\ \A r \in rs : stage[t][r] # cInvolved => stage'[t][r] = stage[t][r]
      /\ \A a \in Request, r \in RM : a.trid = t /\ Holds(Scheduling, a, r)' =>
            Holds(Scheduling, a, r) \/ a.op = "rollback"
      /\ (\A r \in rs : stage[t][r] # cInvolved) => SendsNothing(t)
      /\ \A u \in Trid \ {t} :
            /\ u \in transactions' <=> u \in transactions
            /\ resources'[u] = resources[u] /\ stage'[u] = stage[u] /\ result'[u] = result[u]
            /\ SendsNothing(u)
    BY <1>1, <1>2, RollMoves
<1>5. m \in Reply /\ m.trid = t /\ m.type = "rollback" /\ m.stage = "rollback" /\ m.state = cXA_OK
    BY <1>3, ReplyTypes, StagesTyped DEF RollbackReply
<1>6. Answers(t)' = Answers(t) /\ \A u \in Trid : Answers(u)' \subseteq Answers(u)
    BY <1>2 DEF Answers
<1> HIDE DEF rs, m
<1>7. /\ \A u \in Trid \ {t} : TellsNothing(u)
      /\ \A a \in Reply : a.trid = t /\ Told(a)' => Told(a) \/ a = m
    <2>1. CASE rs = {}
        <3>1. Tells(m)
            BY <1>2, <1>5, <2>1, TellsOne
        <3> QED BY <1>5, <3>1, TellsOther DEF Tells
    <2>2. CASE rs # {}
        <3>1. \A u \in Trid : TellsNothing(u)
            BY <1>2, <2>2, NoReplyTells DEF NoReply
        <3> QED BY <3>1 DEF TellsNothing
    <2> QED BY <2>1, <2>2
<1>8. Alone(t)
    BY <1>2, <1>3, <1>4, <1>6, <1>7 DEF Alone, Untouched
<1>9. Phase(t)'
    <2>1. CASE Fresh(t)
        <3>1. \A r \in RM : branch'[t][r] \in {"none", "active"}
            BY <1>3, <2>1 DEF Fresh
        <3>2. AllOk(t)'
            BY <1>4, <2>1 DEF Fresh, AllOk
        <3>3. Aborting(t)'
            BY <1>2, <1>3, <1>4, <1>5, <1>6, <1>7, <2>1, <3>1, <3>2 DEF Aborting, Fresh
        <3> QED BY <3>3 DEF Phase
    <2>2. CASE Committing(t)
        <3>1. rs = resources[t] /\ rs # {} /\ branch'[t] = branch[t]
            BY <1>1, <1>3, <2>2 DEF Committing, EndRequested
        <3>2. \A r \in rs : stage[t][r] # cInvolved
            BY <2>2, <3>1
               DEF Committing, cInvolved, cPrepareRequested, cCommitReplied, cNotInvolved
        <3>4. Committing(t)'
            BY <1>2, <1>3, <1>4, <1>6, <2>2, <3>1, <3>2
               DEF Committing, EndRequested, SendsNothing
        <3> QED BY <3>4 DEF Phase
    <2>3. CASE Settled(t)
        BY <1>1, <1>2, <1>3, <1>4, <1>6, <2>3 DEF Settled, EndRequested, Phase
    <2> QED BY <1>3, <2>1, <2>2, <2>3 DEF Phase, OnePhase, Aborting, Voting
<1> QED BY <1>8, <1>9, OthersFramed

\* So does the rollback that handle::process::Exit starts for a dead owner.
LEMMA ExitRollbackPhase ==
    ASSUME TypeOK, \A u \in Trid : Phase(u), NEW t \in Trid, Owner[t] \notin alive, ExitRollback(t)
    PROVE  \A u \in Trid : Phase(u)'
<1> DEFINE rs == resources[t]
<1>1. rs \in SUBSET RM
    BY DEF TypeOK
<1>2. /\ UNCHANGED <<persistentReplies, received, unsent, log, inbound, branch, client, sent, own, calls, alive>>
      /\ Roll(t, rs, 0)
    BY DEF ExitRollback, clientVars
<1>4. /\ resources'[t] = rs /\ (rs # {} => t \in transactions')
      /\ result'[t] = result[t] \/ AllOk(t)'
      /\ \A r \in rs : stage[t][r] # cInvolved => stage'[t][r] = stage[t][r]
      /\ \A a \in Request, r \in RM : a.trid = t /\ Holds(Scheduling, a, r)' =>
            Holds(Scheduling, a, r) \/ a.op = "rollback"
      /\ (\A r \in rs : stage[t][r] # cInvolved) => SendsNothing(t)
      /\ \A u \in Trid \ {t} :
            /\ u \in transactions' <=> u \in transactions
            /\ resources'[u] = resources[u] /\ stage'[u] = stage[u] /\ result'[u] = result[u]
            /\ SendsNothing(u)
    BY <1>1, <1>2, RollMoves
<1>5. \A u \in Trid : Answers(u)' = Answers(u) /\ TellsNothing(u)
    BY <1>2, NoReplyTells DEF Answers
<1>6. Alone(t)
    BY <1>2, <1>4, <1>5 DEF Alone, Untouched
<1> SUFFICES Phase(t)'
    BY <1>6, OthersFramed
<1>7. \A r \in {cPrepareRequested, cPrepareReplied, cCommitReplied, cNotInvolved} : r # cInvolved
    BY DEF cInvolved, cPrepareRequested, cPrepareReplied, cCommitReplied, cNotInvolved
<1>8. CASE Fresh(t) \/ Aborting(t)
    <2>1. Aborting(t)'
        BY <1>2, <1>4, <1>5, <1>8 DEF Fresh, Aborting, AllOk, TellsNothing
    <2> QED BY <2>1 DEF Phase
<1>9. CASE OnePhase(t)
    <2>1. SendsNothing(t) /\ AllOk(t)' /\ \A r \in resources'[t] : stage'[t][r] # cInvolved
        BY <1>4, <1>9 DEF OnePhase, AllOk
    <2>2. OnePhase(t)'
        BY <1>2, <1>4, <1>5, <1>9, <2>1
           DEF OnePhase, EndRequested, SendsNothing, TellsNothing
    <2> QED BY <2>2 DEF Phase
<1>10. CASE Voting(t) \/ Committing(t)
    <2>1. \A r \in rs : stage[t][r] # cInvolved
        BY <1>7, <1>10 DEF Voting, Committing, Vote
    <2>3. CASE Committing(t)
        <3>1. Committing(t)'
            BY <1>2, <1>4, <1>5, <2>1, <2>3
               DEF Committing, EndRequested, SendsNothing, TellsNothing
        <3> QED BY <3>1 DEF Phase
    <2>4. CASE Voting(t)
        <3>1. rs # {}
            BY <2>4 DEF Voting
        <3>2. Roll(t, rs, 0) /\ rs # {}
            BY <1>2, <3>1
        <3>3. result' = result /\ stage' = [stage EXCEPT ![t] = [r \in RM |-> IF r \in AtStage(stage[t], rs, cInvolved) THEN cRollbackRequested ELSE stage[t][r]]]
            BY <3>2 DEF Roll, RequestResources
        <3>4. stage'[t] = [r \in RM |-> stage[t][r]]
            BY <2>1, <3>3 DEF AtStage, TypeOK
        <3>5. stage'[t] = stage[t]
            BY <3>4 DEF TypeOK
        <3>6. Untouched(t)
            BY <1>2, <1>4, <2>4, <3>1, <3>3, <3>5 DEF Untouched, Voting
        <3> QED BY <1>4, <1>5, <2>1, <3>6, Framed
    <2> QED BY <1>10, <2>3, <2>4
<1>11. CASE Settled(t)
    BY <1>2, <1>4, <1>5, <1>11 DEF Settled, EndRequested, Phase
<1> QED BY <1>8, <1>9, <1>10, <1>11 DEF Phase

\* handle::resource::Involved comes before the owner's request, and after it only when the
\* transaction is being rolled back.
LEMMA InvolvedPhase ==
    ASSUME TypeOK, \A u \in Trid : Phase(u), NEW t \in Trid, NEW id \in ResourceId, Involved(t, id)
    PROVE  \A u \in Trid : Phase(u)'
<1>1. /\ UNCHANGED <<stage, result, inbox, pendingRequests, persistentReplies, received, unsent, log, inbound,
                     client, sent, own, alive>>
      /\ id \in calls[t]
      /\ calls' = [calls EXCEPT ![t] = @ \ {id}]
      /\ transactions' = transactions \cup {t}
      /\ resources' = [resources EXCEPT ![t] = resources[t] \cup ({id} \cap RM)]
      /\ branch' = Worked(branch, t, {id})
    BY DEF Involved, Involve
<1>2. /\ resources'[t] = resources[t] \cup ({id} \cap RM)
      /\ \A r \in RM : branch'[t][r] = IF r = id /\ branch[t][r] \in {"none", "ended", "rolledback"}
                                       THEN "active" ELSE branch[t][r]
    BY <1>1 DEF TypeOK, Worked
<1>3. \A u \in Trid \ {t} : /\ u \in transactions' <=> u \in transactions
                            /\ resources'[u] = resources[u] /\ branch'[u] = branch[u] /\ calls'[u] = calls[u]
    BY <1>1 DEF TypeOK, Worked
<1>4. \A u \in Trid : Answers(u)' = Answers(u) /\ SendsNothing(u) /\ TellsNothing(u)
    BY <1>1, SameSends, NoReplyTells DEF Answers
<1>5. Alone(t)
    BY <1>1, <1>3, <1>4 DEF Alone, Untouched
<1>6. CASE Fresh(t)
    <2>1. Fresh(t)'
        BY <1>1, <1>2, <1>4, <1>6 DEF Fresh, AllOk, SendsNothing, TellsNothing
    <2> QED BY <1>5, <2>1, OthersFramed DEF Phase
<1>7. CASE Aborting(t)
    <2>1. Aborting(t)'
        BY <1>1, <1>2, <1>4, <1>7 DEF Aborting, AllOk, SendsNothing, TellsNothing
    <2> QED BY <1>5, <2>1, OthersFramed DEF Phase
<1> QED BY <1>1, <1>6, <1>7 DEF Phase, OnePhase, Voting, Committing, Settled, EndRequested

-----------------------------------------------------------------------------
(* The owners read their replies.                                          *)

\* A reply is in the queue of the owner of its transaction.
Addressed == \A t \in Trid : \A n \in DOMAIN received[t] : received[t][n].trid = t

\* The sequence s without what is at n.
Dropped(s, n) == SubSeq(s, 1, n - 1) \o SubSeq(s, n + 1, Len(s))

\* What is left of a sequence was in it.
LEMMA DroppedAt ==
    ASSUME NEW s \in Seq(Reply), NEW n \in DOMAIN s, NEW k \in DOMAIN Dropped(s, n)
    PROVE  \E l \in DOMAIN s : Dropped(s, n)[k] = s[l]
<1> DEFINE a == SubSeq(s, 1, n - 1)
           b == SubSeq(s, n + 1, Len(s))
<1>1. n \in 1 .. Len(s) /\ Len(s) \in Nat
    OBVIOUS
<1>2. a \in Seq(Reply) /\ Len(a) = n - 1 /\ \A l \in 1 .. n - 1 : a[l] = s[l]
    BY <1>1
<1>3. b \in Seq(Reply) /\ Len(b) = Len(s) - n /\ \A l \in 1 .. Len(s) - n : b[l] = s[n + l]
    BY <1>1
<1>4. Dropped(s, n) = a \o b
    BY DEF Dropped
<1> HIDE DEF a, b
<1>5. k \in 1 .. Len(s) - 1
    BY <1>1, <1>2, <1>3, <1>4
<1>6. CASE k <= n - 1
    <2>1. (a \o b)[k] = s[k] /\ k \in DOMAIN s
        BY <1>1, <1>2, <1>3, <1>5, <1>6
    <2> QED BY <1>4, <2>1
<1>7. CASE k > n - 1
    <2>1. (a \o b)[k] = s[k + 1] /\ k + 1 \in DOMAIN s
        BY <1>1, <1>2, <1>3, <1>5, <1>7
    <2> QED BY <1>4, <2>1
<1> QED BY <1>1, <1>5, <1>6, <1>7

\* The owner reads a reply of its own transaction and is active again only after a
\* failure.
LEMMA ReceiveMoves ==
    ASSUME TypeOK, Addressed, NEW t \in Trid, Receive(t)
    PROVE  /\ \A u \in Trid : TellsNothing(u)
           /\ \E m \in Reply : /\ m.trid = t /\ Told(m)
                               /\ m.type = client[t] \/ client[t] = "logged"
                               /\ m.stage # "prepare" /\ m.state \in {cXA_OK, cXA_RDONLY} => client'[t] = "done"
           /\ Owner[t] \in alive
           /\ client[t] \in Waiting
           /\ \A u \in Trid \ {t} : client'[u] = client[u]
           /\ Addressed'
           /\ \A u \in Trid : \A k \in DOMAIN received'[u] : \E l \in DOMAIN received[u] : received'[u][k] = received[u][l]
<1>1. PICK n \in Expected(t) :
          /\ received' = [received EXCEPT ![t] = SubSeq(@, 1, n - 1) \o SubSeq(@, n + 1, Len(@))]
          /\ received[t][n].type = ReplyType(t)
          /\ \/ received[t][n].stage = "prepare" /\ client' = [client EXCEPT ![t] = "logged"]
             \/ /\ received[t][n].stage = "prepare" \/ received[t][n].state \in {cXA_OK, cXA_RDONLY}
                /\ client' = [client EXCEPT ![t] = "done"]
             \/ /\ received[t][n].state \notin {cXA_OK, cXA_RDONLY}
                /\ client' = [client EXCEPT ![t] = "active"]
    BY DEF Receive
<1> DEFINE m == received[t][n]
<1>2. n \in DOMAIN received[t] /\ received[t] \in Seq(Reply) /\ received \in [Trid -> Seq(Reply)]
    BY DEF Expected, TypeOK
<1>3. m \in Reply /\ m.trid = t /\ Told(m)
    BY <1>2 DEF Addressed, Told
<1>4. client[t] \in Waiting /\ (m.type = client[t] \/ client[t] = "logged")
    BY <1>1 DEF Receive, ReplyType, Waiting
<1>5. UNCHANGED <<persistentReplies, unsent>> /\ Owner[t] \in alive
    BY DEF Receive
<1>6. \A u \in Trid : \A k \in DOMAIN received'[u] : \E l \in DOMAIN received[u] : received'[u][k] = received[u][l]
    <2> SUFFICES ASSUME NEW u \in Trid, NEW k \in DOMAIN received'[u]
                 PROVE  \E l \in DOMAIN received[u] : received'[u][k] = received[u][l]
        OBVIOUS
    <2>1. CASE u = t
        <3>1. received'[t] = Dropped(received[t], n)
            BY <1>1, <1>2 DEF Dropped
        <3>2. k \in DOMAIN Dropped(received[t], n)
            BY <2>1, <3>1
        <3> QED BY <1>2, <2>1, <3>1, <3>2, DroppedAt
    <2>2. CASE u # t
        <3>1. received'[u] = received[u]
            BY <1>1, <1>2, <2>2
        <3> QED BY <3>1
    <2> QED BY <2>1, <2>2
<1>7. \A u \in Trid : TellsNothing(u)
    BY <1>5, <1>6 DEF TellsNothing, Told, Reply
<1>8. Addressed'
    BY <1>6 DEF Addressed
<1>11. \A u \in Trid \ {t} : client'[u] = client[u]
    BY <1>1 DEF TypeOK
<1>12. m.stage # "prepare" /\ m.state \in {cXA_OK, cXA_RDONLY} => client'[t] = "done"
    BY <1>1 DEF TypeOK
<1> HIDE DEF m
<1> QED BY <1>3, <1>4, <1>5, <1>6, <1>7, <1>8, <1>11, <1>12

\* The owner reading a reply keeps every transaction in a phase.
LEMMA ReceivePhase ==
    ASSUME TypeOK, Addressed, \A u \in Trid : Phase(u), NEW t \in Trid, Receive(t)
    PROVE  \A u \in Trid : Phase(u)'
<1>1. UNCHANGED <<transactions, resources, stage, result, inbox, pendingRequests, unsent, log, inbound,
                  branch, sent, own, calls, alive>>
    BY DEF Receive, transVars, proxyVars
<1>2. /\ \A u \in Trid : TellsNothing(u)
      /\ Owner[t] \in alive
      /\ client[t] \in Waiting
      /\ \A u \in Trid \ {t} : client'[u] = client[u]
    BY ReceiveMoves
<1>3. PICK m \in Reply : /\ m.trid = t /\ Told(m)
                         /\ m.type = client[t] \/ client[t] = "logged"
                         /\ m.stage # "prepare" /\ m.state \in {cXA_OK, cXA_RDONLY} => client'[t] = "done"
    BY ReceiveMoves
<1>4. \A u \in Trid : SendsNothing(u) /\ Answers(u)' = Answers(u)
    BY <1>1, SameSends DEF Answers
<1>5. Alone(t)
    BY <1>1, <1>2, <1>4 DEF Alone, Untouched
<1> SUFFICES Phase(t)'
    BY <1>5, OthersFramed
<1>6. CASE OnePhase(t)
    <2>1. client'[t] = "done"
        BY <1>3, <1>6 DEF OnePhase
    <2>2. OnePhase(t)'
        BY <1>1, <1>2, <1>4, <1>6, <2>1
           DEF OnePhase, EndRequested, AllOk, SendsNothing, TellsNothing
    <2> QED BY <2>2 DEF Phase
<1>7. CASE Aborting(t)
    <2>1. client[t] = "rollback"
        BY <1>3, <1>7 DEF Aborting
    <2>2. client'[t] = "done"
        BY <1>3, <1>7, <2>1 DEF Aborting
    <2>3. Aborting(t)'
        BY <1>1, <1>2, <1>4, <1>7, <2>2 DEF Aborting, SendsNothing, TellsNothing
    <2> QED BY <2>3 DEF Phase
<1>8. CASE Committing(t)
    <2>1. Committing(t)'
        BY <1>1, <1>2, <1>4, <1>8
           DEF Committing, EndRequested, SendsNothing, TellsNothing
    <2> QED BY <2>1 DEF Phase
<1>9. CASE Settled(t)
    BY <1>1, <1>4, <1>9 DEF Settled, EndRequested, Phase
<1> QED BY <1>3, <1>6, <1>7, <1>8, <1>9 DEF Phase, Fresh, Voting

\* So does a signal that ends its wait for the outcome.
LEMMA GiveUpPhase ==
    ASSUME TypeOK, \A u \in Trid : Phase(u), NEW t \in Trid, GiveUp(t)
    PROVE  \A u \in Trid : Phase(u)'
<1>1. /\ UNCHANGED <<transactions, resources, stage, result, inbox, pendingRequests, persistentReplies, received,
                     unsent, log, inbound, branch, sent, own, calls, alive>>
      /\ client[t] = "logged" /\ client' = [client EXCEPT ![t] = "active"]
    BY DEF GiveUp, transVars, proxyVars
<1>2. \A u \in Trid \ {t} : client'[u] = client[u]
    BY <1>1 DEF TypeOK
<1>4. \A u \in Trid : SendsNothing(u) /\ TellsNothing(u) /\ Answers(u)' = Answers(u)
    BY <1>1, SameSends, NoReplyTells DEF Answers
<1>5. Alone(t)
    BY <1>1, <1>2, <1>4 DEF Alone, Untouched
<1> SUFFICES Phase(t)'
    BY <1>5, OthersFramed
<1>8. CASE Committing(t)
    <2>1. Committing(t)'
        BY <1>1, <1>4, <1>8 DEF Committing, EndRequested, SendsNothing, TellsNothing
    <2> QED BY <2>1 DEF Phase
<1>9. CASE Settled(t)
    BY <1>1, <1>4, <1>9 DEF Settled, EndRequested, Phase
<1> QED BY <1>1, <1>8, <1>9 DEF Phase, Fresh, Voting, OnePhase, Aborting

-----------------------------------------------------------------------------
(* The pump and the lives of the proxies.                                  *)

\* A step that leaves the transactions, their branches and their owners alone.
StateKept == UNCHANGED <<transactions, resources, stage, result, log, branch, client, sent, own, calls>> /\ alive' \subseteq alive

\* A step that leaves the requests alone.
QueuesKept == UNCHANGED <<inbox, pendingRequests>>

\* A step that leaves the replies alone.
RepliesKept == UNCHANGED <<persistentReplies, received, unsent>>

\* A step that leaves the transactions alone and adds nothing keeps their phases.
LEMMA KeptPhase ==
    ASSUME TypeOK, \A u \in Trid : Phase(u), StateKept,
           \A u \in Trid : SendsNothing(u) /\ TellsNothing(u) /\ Answers(u)' \subseteq Answers(u)
    PROVE  \A u \in Trid : Phase(u)'
BY Framed DEF StateKept, Untouched

\* Deaths, connections of proxies and changes of their number keep the phases.
LEMMA PumpPhase ==
    ASSUME TypeOK, \A u \in Trid : Phase(u),
           \/ \E p \in Process : Exit(p) \/ Ends(p)
           \/ \E m \in inbound : Connect(m) \/ PumpFails(m)
           \/ \E r \in RM, n \in 0 .. MaxInstances : Instances(r, n)
    PROVE  \A u \in Trid : Phase(u)'
<1>1. StateKept
    BY DEF StateKept, Exit, Ends, Connect, PumpFails, Instances, transVars, proxyVars, clientVars
<1>2. RepliesKept
    BY DEF RepliesKept, Exit, Ends, Connect, PumpFails, Instances, transVars, proxyVars, clientVars
<1>3. inbound' \subseteq inbound
    BY DEF Exit, Ends, Connect, PumpFails, Instances, transVars, proxyVars, clientVars
<1>4. \A u \in Trid : TellsNothing(u) /\ Answers(u)' \subseteq Answers(u)
    BY <1>2, <1>3, NoReplyTells DEF RepliesKept, Answers
<1>5. \A u \in Trid : SendsNothing(u)
    <2>1. CASE \/ \E p \in Process : Exit(p) \/ Ends(p)
               \/ \E m \in inbound : PumpFails(m)
        <3>1. UNCHANGED <<inbox, pendingRequests>>
            BY <2>1 DEF Exit, Ends, PumpFails, proxyVars
        <3> QED BY <3>1, SameSends
    <2>2. ASSUME NEW m \in inbound, Connect(m) PROVE \A u \in Trid : SendsNothing(u)
        <3>1. m.instance \in Instance
            BY <2>2 DEF Connect, TypeOK, ConnectReply, ResourceReply
        <3>2. CASE m.state = cXA_OK
            <4>1. Schedule(Done(Scheduling, m.instance))
                BY <2>2, <3>2 DEF Connect
            <4> QED BY <3>1, <4>1, DoneFollows, FollowsSends
        <3>3. CASE m.state # cXA_OK
            <4>1. UNCHANGED <<inbox, pendingRequests>>
                BY <2>2, <3>3 DEF Connect, Schedule, Scheduling
            <4> QED BY <4>1, SameSends
        <3> QED BY <3>2, <3>3
    <2>3. ASSUME NEW r \in RM, NEW n \in 0 .. MaxInstances, Instances(r, n)
          PROVE  \A u \in Trid : SendsNothing(u)
        <3>1. pendingRequests' = pendingRequests
            BY <2>3 DEF Instances
        <3>2. /\ inbox' \in [Instance -> Seq(Request \cup {Shutdown})]
              /\ \A i \in Instance : inbox'[i] \in {inbox[i], Append(inbox[i], Shutdown), <<>>}
            <4>1. CASE Spawn(r, n)
                BY <4>1 DEF Spawn, TypeOK
            <4>2. CASE Retire(r, n)
                BY <4>2 DEF Retire, TypeOK
            <4> QED BY <2>3, <4>1, <4>2 DEF Instances
        <3> QED BY <3>1, <3>2, RetireSends
    <2> QED BY <2>1, <2>2, <2>3
<1> QED BY <1>1, <1>4, <1>5, KeptPhase

\* So do the start and the shutdown of a proxy.
LEMMA ProxyPhase ==
    ASSUME TypeOK, \A u \in Trid : Phase(u), NEW i \in Instance, ProxyOpen(i) \/ ProxyShutdown(i)
    PROVE  \A u \in Trid : Phase(u)'
<1>1. StateKept /\ RepliesKept /\ pendingRequests' = pendingRequests
    BY DEF StateKept, RepliesKept, ProxyOpen, ProxyShutdown, transVars, clientVars
<1>2. \A u \in Trid : Answers(u)' \subseteq Answers(u)
    BY DEF Answers, ProxyOpen, ProxyShutdown
<1>3. /\ inbox' \in [Instance -> Seq(Request \cup {Shutdown})]
      /\ \A j \in Instance : inbox'[j] \in {inbox[j], Append(inbox[j], Shutdown), <<>>}
    <2>1. inbox' = inbox \/ inbox' = [inbox EXCEPT ![i] = <<>>]
        BY DEF ProxyOpen, ProxyShutdown
    <2>2. <<>> \in Seq(Request \cup {Shutdown}) /\ inbox \in [Instance -> Seq(Request \cup {Shutdown})]
        BY DEF TypeOK
    <2> QED BY <2>1, <2>2
<1>4. \A u \in Trid : TellsNothing(u)
    BY <1>1, NoReplyTells DEF RepliesKept
<1>5. \A u \in Trid : SendsNothing(u)
    <2>1. pendingRequests' = pendingRequests
        BY <1>1
    <2> QED BY <1>3, <2>1, RetireSends
<1> QED BY <1>1, <1>2, <1>4, <1>5, KeptPhase

\* The partition of the persistent replies sends or keeps each of them.
LEMMA SendBatchTells ==
    ASSUME TypeOK, SendBatch, NEW t \in Trid
    PROVE  TellsNothing(t)
<1> DEFINE n == Len(persistentReplies)
           m == IF pc = "left" THEN Head(persistentReplies) ELSE persistentReplies[n]
           rest == IF pc = "left" THEN Tail(persistentReplies)
                   ELSE SubSeq(persistentReplies, 1, n - 1)
<1>1. persistentReplies \in Seq(Reply) /\ unsent \in Seq(Reply) /\ persistentReplies # <<>> /\ n \in Nat
    BY DEF SendBatch, TypeOK
<1>2. m \in Reply /\ \E k \in DOMAIN persistentReplies : persistentReplies[k] = m
    BY <1>1
<1>3. \A k \in DOMAIN rest : \E l \in DOMAIN persistentReplies : persistentReplies[l] = rest[k]
    <2>1. CASE pc = "left"
        BY <1>1, <2>1
    <2>2. CASE pc # "left"
        <3> HIDE DEF n
        <3>1. SubSeq(persistentReplies, 1, n - 1) \in Seq(Reply) /\ Len(SubSeq(persistentReplies, 1, n - 1)) = n - 1
              /\ \A k \in 1 .. n - 1 : SubSeq(persistentReplies, 1, n - 1)[k] = persistentReplies[k]
            <4>1. n \in 1 .. Len(persistentReplies)
                BY <1>1 DEF n
            <4> QED BY <1>1, <4>1
        <3>2. rest \in Seq(Reply) /\ Len(rest) = n - 1 /\ \A k \in 1 .. n - 1 : rest[k] = persistentReplies[k]
            BY <2>2, <3>1
        <3>3. n = Len(persistentReplies)
            BY DEF n
        <3> HIDE DEF rest
        <3> QED BY <1>1, <3>2, <3>3
    <2> QED BY <2>1, <2>2
<1>4. /\ persistentReplies' = rest
      /\ \/ Push(m, TRUE) /\ UNCHANGED unsent
         \/ Push(m, FALSE) /\ unsent' = Append(unsent, m)
    BY DEF SendBatch
<1> HIDE DEF m, rest
<1>5. \A k \in DOMAIN unsent' : unsent'[k] = m \/ \E l \in DOMAIN unsent : unsent[l] = unsent'[k]
    <2>1. unsent' = unsent \/ unsent' = Append(unsent, m)
        BY <1>4, Zenon
    <2> QED BY <1>1, <1>2, <2>1
<1>6. \A a \in Reply : \A k \in DOMAIN received'[a.trid] :
          received'[a.trid][k] = a => (\E l \in DOMAIN received[a.trid] : received[a.trid][l] = a) \/ a = m
    BY <1>2, <1>4, PushTells DEF TypeOK, RepliesOK
<1> QED BY <1>2, <1>3, <1>4, <1>5, <1>6 DEF TellsNothing, Told

\* Writing the log and sending the replies that waited for it keeps the phases.
LEMMA BatchPhase ==
    ASSUME TypeOK, \A u \in Trid : Phase(u), WriteBatch \/ SendBatch \/ EndBatch
    PROVE  \A u \in Trid : Phase(u)'
<1>1. StateKept /\ QueuesKept /\ UNCHANGED inbound
    BY DEF StateKept, QueuesKept, WriteBatch, SendBatch, EndBatch, transVars, proxyVars,
       clientVars
<1>2. \A u \in Trid : SendsNothing(u) /\ Answers(u)' \subseteq Answers(u)
    BY <1>1, SameSends DEF QueuesKept, Answers
<1>3. \A u \in Trid : TellsNothing(u)
    <2>1. CASE WriteBatch
        BY <2>1, NoReplyTells DEF WriteBatch
    <2>2. CASE SendBatch
        BY <2>2, SendBatchTells
    <2>3. CASE EndBatch
        BY <2>3 DEF EndBatch, TellsNothing, Told
    <2> QED BY <2>1, <2>2, <2>3
<1> QED BY <1>1, <1>2, <1>3, KeptPhase

-----------------------------------------------------------------------------
(* The proxies and the resource managers.                                  *)

\* The XA promise: a resource that has prepared commits when it is asked to, and one asked
\* to commit in one phase commits or rolls back.
PromiseKept == CommitResults \subseteq {cXA_OK, cXA_RBROLLBACK}

\* What a call of the xa-switch can change, and which result says so.
LEMMA XaOutcomes ==
    ASSUME NEW m \in Request, NEW b, NEW x \in Xa(m, b)
    PROVE  \/ /\ m.op = "prepare" /\ b = "active"
              /\ x[2] \in {"prepared", "ended", "rolledback", b}
              /\ x[1] = cXA_OK => x[2] = "prepared"
              /\ x[1] = cXA_RDONLY => x[2] = "ended"
           \/ /\ m.op = "commit" /\ m.onephase /\ b = "active"
              /\ x[1] \in CommitResults
              /\ x[2] \in {"committed", "rolledback", b}
              /\ x[1] = cXA_OK => x[2] = "committed"
           \/ /\ m.op = "commit" /\ ~ m.onephase /\ b = "prepared"
              /\ x[1] \in CommitResults \ {cXA_RBROLLBACK}
              /\ x[2] \in {"committed", b}
              /\ x[1] = cXA_OK => x[2] = "committed"
           \/ m.op = "rollback" /\ b \in {"active", "prepared"} /\ x[2] \in {"rolledback", b}
           \/ /\ x[1] = cXAER_NOTA /\ x[2] = b
              /\ m.op = "commit" => b # IF m.onephase THEN "active" ELSE "prepared"
<1>1. m.op \in {"prepare", "commit", "rollback"} /\ m.onephase \in BOOLEAN
    BY DEF Request
<1>2. CASE m.op = "prepare" /\ b = "active"
    <2>1. Xa(m, b) = {<<y, CASE y = cXA_OK -> "prepared"
                    [] y = cXA_RDONLY -> "ended"
                    [] y = cXA_RBROLLBACK -> "rolledback"
                    [] OTHER -> b>> : y \in PrepareResults}
        BY <1>2 DEF Xa
    <2> QED BY <1>2, <2>1 DEF cXA_OK, cXA_RDONLY, cXA_RBROLLBACK
<1>3. CASE m.op = "commit" /\ b = IF m.onephase THEN "active" ELSE "prepared"
    <2>1. Xa(m, b) = {<<y, CASE y = cXA_OK -> "committed"
                    [] y = cXA_RBROLLBACK -> "rolledback"
                    [] OTHER -> b>> :
                y \in IF m.onephase THEN CommitResults ELSE CommitResults \ {cXA_RBROLLBACK}}
        BY <1>3 DEF Xa
    <2> QED BY <1>1, <1>3, <2>1 DEF cXA_OK, cXA_RBROLLBACK
<1>4. CASE m.op = "rollback" /\ b \in {"active", "prepared"}
    <2>1. Xa(m, b) = {<<y, IF y = cXA_OK THEN "rolledback" ELSE b>> : y \in RollbackResults}
        BY <1>4 DEF Xa
    <2> QED BY <1>4, <2>1
<1>5. CASE /\ ~ (m.op = "prepare" /\ b = "active")
           /\ ~ (m.op = "commit" /\ b = IF m.onephase THEN "active" ELSE "prepared")
           /\ ~ (m.op = "rollback" /\ b \in {"active", "prepared"})
    <2>1. Xa(m, b) = {<<cXAER_NOTA, b>>}
        BY <1>5 DEF Xa
    <2> QED BY <1>5, <2>1
<1> QED BY <1>2, <1>3, <1>4, <1>5

\* A proxy takes one request and changes one branch.
LEMMA ProxyRequestMoves ==
    ASSUME TypeOK, NEW i \in Instance, ProxyRequest(i)
    PROVE  /\ UNCHANGED <<transactions, resources, stage, result, pendingRequests, persistentReplies, received, unsent,
                          log, client, sent, own, calls, alive>>
           /\ i[1] \in RM
           /\ inbox[i] # <<>> /\ Head(inbox[i]) \in Request
           /\ inbox' = [inbox EXCEPT ![i] = Tail(@)]
           /\ \E x \in Xa(Head(inbox[i]), branch[Head(inbox[i]).trid][i[1]]) :
                 /\ \A u \in Trid \ {Head(inbox[i]).trid} : branch'[u] = branch[u]
                 /\ \A r \in RM : branch'[Head(inbox[i]).trid][r] =
                        IF r = i[1] THEN x[2] ELSE branch[Head(inbox[i]).trid][r]
                 /\ branch' = [branch EXCEPT ![Head(inbox[i]).trid][i[1]] = x[2]]
                 /\ inbound' = inbound \cup {[op |-> Head(inbox[i]).op, instance |-> i,
                                              trid |-> Head(inbox[i]).trid, state |-> x[1]]}
<1> DEFINE m == Head(inbox[i])
<1>1. i[1] \in RM
    BY DEF Instance
<1>2. inbox[i] # <<>> /\ m # Shutdown /\ inbox' = [inbox EXCEPT ![i] = Tail(@)]
    BY DEF ProxyRequest
<1>3. inbox[i] \in Seq(Request \cup {Shutdown})
    BY DEF TypeOK
<1>4. m \in Request \cup {Shutdown}
    BY <1>2, <1>3
<1>5. m \in Request /\ m.trid \in Trid
    BY <1>2, <1>4 DEF Request
<1>6. PICK x \in Xa(m, branch[m.trid][i[1]]) :
                /\ branch' = [branch EXCEPT ![m.trid][i[1]] = x[2]]
                /\ inbound' = inbound \cup
                      {[op |-> m.op, instance |-> i, trid |-> m.trid, state |-> x[1]]}
    BY DEF ProxyRequest
<1> HIDE DEF m
<1>7. /\ \A u \in Trid \ {m.trid} : branch'[u] = branch[u]
      /\ \A r \in RM : branch'[m.trid][r] = IF r = i[1] THEN x[2] ELSE branch[m.trid][r]
    BY <1>1, <1>5, <1>6 DEF TypeOK
<1>8. UNCHANGED <<transactions, resources, stage, result, pendingRequests, persistentReplies, received, unsent,
                          log, client, sent, own, calls, alive>>
    BY DEF ProxyRequest, transVars, clientVars
<1> QED BY <1>1, <1>2, <1>5, <1>6, <1>7, <1>8 DEF m

\* A proxy calling the xa-switch keeps every transaction in a phase.
LEMMA ProxyRequestPhase ==
    ASSUME TypeOK, \A u \in Trid : Phase(u), PromiseKept, NEW i \in Instance, ProxyRequest(i)
    PROVE  \A u \in Trid : Phase(u)'
<1>0. PICK m \in Request : m = Head(inbox[i])
    BY ProxyRequestMoves
<1> DEFINE t == m.trid
           r == i[1]
           b == branch[t][r]
<1>1. PICK x \in Xa(m, b) :
          /\ \A u \in Trid \ {t} : branch'[u] = branch[u]
          /\ \A q \in RM : branch'[t][q] = IF q = r THEN x[2] ELSE branch[t][q]
          /\ inbound' = inbound \cup {[op |-> m.op, instance |-> i, trid |-> t, state |-> x[1]]}
    BY <1>0, ProxyRequestMoves
<1> DEFINE a == [op |-> m.op, instance |-> i, trid |-> t, state |-> x[1]]
<1>2. /\ UNCHANGED <<transactions, resources, stage, result, pendingRequests, persistentReplies, received, unsent,
                     log, client, sent, own, calls, alive>>
      /\ r \in RM /\ inbox[i] # <<>> 
      /\ inbox' = [inbox EXCEPT ![i] = Tail(@)]
    BY <1>0, ProxyRequestMoves
<1>3. t \in Trid
    BY <1>2 DEF Request
<1>4. \A u \in Trid : SendsNothing(u) /\ TellsNothing(u)
    BY <1>2, TailSends, NoReplyTells
<1>5. /\ Holds(Scheduling, m, r)
      /\ AtMostOne(Scheduling, t, r) => \A n \in Request : n.trid = t => ~ Holds(Scheduling, n, r)'
    BY <1>0, <1>2, <1>3, TailSends
<1>6. a.op = m.op /\ a.instance[1] = r /\ a.state = x[1] /\ a.trid = t
    OBVIOUS
<1>7. inbound' = inbound \cup {a}
    BY <1>1
<1> HIDE DEF t, r, a
<1>8. Answers(t)' \subseteq Answers(t) \cup {a} /\ \A u \in Trid \ {t} : Answers(u)' \subseteq Answers(u)
    BY <1>6, <1>7 DEF Answers
<1>9. Alone(t)
    BY <1>1, <1>2, <1>4, <1>8 DEF Alone, Untouched
<1>10. \/ /\ m.op = "prepare" /\ b = "active"
          /\ x[2] \in {"prepared", "ended", "rolledback", b}
          /\ x[1] = cXA_OK => x[2] = "prepared"
          /\ x[1] = cXA_RDONLY => x[2] = "ended"
       \/ /\ m.op = "commit" /\ m.onephase /\ b = "active"
          /\ x[1] \in CommitResults
          /\ x[2] \in {"committed", "rolledback", b}
          /\ x[1] = cXA_OK => x[2] = "committed"
       \/ /\ m.op = "commit" /\ ~ m.onephase /\ b = "prepared"
          /\ x[1] \in CommitResults \ {cXA_RBROLLBACK}
          /\ x[2] \in {"committed", b}
          /\ x[1] = cXA_OK => x[2] = "committed"
       \/ m.op = "rollback" /\ b \in {"active", "prepared"} /\ x[2] \in {"rolledback", b}
       \/ /\ x[1] = cXAER_NOTA /\ x[2] = b
          /\ m.op = "commit" => b # IF m.onephase THEN "active" ELSE "prepared"
    BY <1>1, <1>2, XaOutcomes
<1>11. branch'[t][r] = x[2] /\ \A q \in RM \ {r} : branch'[t][q] = branch[t][q]
    BY <1>1, <1>2
<1>12. t = m.trid
    BY DEF t
<1> SUFFICES Phase(t)'
    BY <1>3, <1>9, OthersFramed
<1>13. CASE Fresh(t)
    BY <1>2, <1>5, <1>12, <1>13 DEF Fresh
<1>14. CASE OnePhase(t)
    <2>1. m.op = "commit" /\ m.onephase /\ \A q \in RM \ {r} : branch[t][q] = "none"
        BY <1>2, <1>5, <1>12, <1>14 DEF OnePhase
    <2>2. b \in {"none", "active", "committed", "rolledback"}
        BY <1>2, <1>14 DEF OnePhase
    <2>3. x[2] \in {"none", "active", "committed", "rolledback"} /\ (b = "none" => x[2] = "none")
        BY <1>10, <2>1, <2>2
    <2>5. \A q \in RM \ {r} : branch'[t][q] = "none"
        BY <1>11, <2>1
    <2>6. \A q \in RM : branch'[t][q] \in {"none", "active", "committed", "rolledback"}
        BY <1>2, <1>11, <2>3, <2>5
    <2>7. \A q, p \in RM : branch'[t][q] # "none" /\ branch'[t][p] # "none" => q = p
        BY <2>5
    <2>8. \A n \in Request, q \in RM : n.trid = t /\ Holds(Scheduling, n, q)' =>
             n.op = "commit" /\ n.onephase /\ \A p \in RM \ {q} : branch'[t][p] = "none"
        <3> SUFFICES ASSUME NEW n \in Request, NEW q \in RM, n.trid = t, Holds(Scheduling, n, q)'
                     PROVE  n.op = "commit" /\ n.onephase /\ \A p \in RM \ {q} : branch'[t][p] = "none"
            OBVIOUS
        <3>1. n.op = "commit" /\ n.onephase /\ \A p \in RM \ {q} : branch[t][p] = "none"
            BY <1>3, <1>4, <1>14 DEF OnePhase, SendsNothing
        <3>2. q # r => branch'[t][r] = "none"
            BY <1>2, <1>11, <2>3, <3>1
        <3> QED BY <2>5, <3>1, <3>2
    <2>9. \A c \in Answers(t)' : c.op = "commit"
        BY <1>6, <1>8, <1>14, <2>1 DEF OnePhase
    <2>10. \A n \in Reply : n.trid = t /\ Told(n)' =>
             n.stage # "prepare" /\ n.state \in {cXA_OK, cXA_RDONLY}
        BY <1>3, <1>4, <1>14 DEF OnePhase, TellsNothing
    <2>11. /\ t \notin log' /\ EndRequested(t)' /\ client'[t] \in {"commit", "done"} /\ AllOk(t)'
           /\ \A q \in resources'[t] : stage'[t][q] # cInvolved
        BY <1>2, <1>14 DEF OnePhase, EndRequested, AllOk
    <2>12. OnePhase(t)'
        BY <2>6, <2>7, <2>8, <2>9, <2>10, <2>11 DEF OnePhase
    <2> QED BY <2>12 DEF Phase
<1>15. CASE Aborting(t)
    <2>1. m.op = "rollback" /\ b # "committed"
        BY <1>2, <1>5, <1>12, <1>15 DEF Aborting
    <2>2. x[2] # "committed"
        BY <1>10, <2>1
    <2>4. \A q \in RM : branch'[t][q] # "committed"
        BY <1>2, <1>11, <1>15, <2>2 DEF Aborting
    <2>5. \A c \in Answers(t)' : c.op = "rollback"
        BY <1>6, <1>8, <1>15, <2>1 DEF Aborting
    <2>3. Aborting(t)'
        BY <1>2, <1>3, <1>4, <1>15, <2>4, <2>5 DEF Aborting, AllOk, SendsNothing, TellsNothing
    <2> QED BY <2>3 DEF Phase
<1>16. CASE Voting(t)
    <2>1. m.op = "prepare" /\ r \in resources[t] /\ stage[t][r] = cPrepareRequested /\ AtMostOne(Scheduling, t, r)
        BY <1>2, <1>5, <1>12, <1>16 DEF Voting
    <2>2. b \notin {"none", "committed"}
        BY <1>16, <2>1 DEF Voting, Vote
    <2>3. /\ x[1] = cXA_OK => x[2] = "prepared"
          /\ x[1] = cXA_RDONLY => x[2] = "ended"
          /\ x[2] \notin {"none", "committed"}
        BY <1>10, <2>1, <2>2 DEF cXA_OK, cXA_RDONLY, cXAER_NOTA
    <2>4. \A q \in resources'[t] : Vote(t, q)'
        <3> SUFFICES ASSUME NEW q \in resources[t] PROVE Vote(t, q)'
            BY <1>2
        <3>1. Vote(t, q) /\ q \in RM
            BY <1>3, <1>16 DEF Voting, TypeOK
        <3>2. CASE q = r
            BY <1>2, <1>11, <2>1, <2>3, <3>2
               DEF Vote, cPrepareRequested, cPrepareReplied, cNotInvolved
        <3>3. CASE q # r
            BY <1>2, <1>11, <3>1, <3>3 DEF Vote
        <3> QED BY <3>2, <3>3
    <2>5. \A n \in Request, q \in RM : n.trid = t /\ Holds(Scheduling, n, q)' =>
             n.op = "prepare" /\ q \in resources[t] /\ stage[t][q] = cPrepareRequested
        BY <1>3, <1>4, <1>16 DEF Voting, SendsNothing
    <2>6. \A q \in RM : AtMostOne(Scheduling, t, q)'
        BY <1>3, <1>4, <1>16 DEF Voting, SendsNothing
    <2>7. \A c \in Answers(t) : c.instance[1] # r /\ c.instance[1] \in RM
        <3> SUFFICES ASSUME NEW c \in Answers(t) PROVE c.instance[1] # r /\ c.instance[1] \in RM
            OBVIOUS
        <3>1. VoteUnderWay(t, c)
            BY <1>16 DEF Voting
        <3> QED BY <1>2, <1>3, <1>5, <1>12, <3>1 DEF VoteUnderWay, TypeOK
    <2>8. ASSUME NEW c \in Answers(t)' PROVE VoteUnderWay(t, c)'
        <3>1. CASE c = a
            <4>1. \A n \in Request : n.trid = t => ~ Holds(Scheduling, n, r)'
                BY <1>5, <2>1
            <4>2. \A d \in Answers(t)' : d.instance[1] = r => d = a
                BY <1>8, <2>7
            <4> QED BY <1>2, <1>6, <1>11, <2>1, <2>3, <3>1, <4>1, <4>2 DEF VoteUnderWay
        <3>2. CASE c # a
            <4>1. c \in Answers(t) /\ VoteUnderWay(t, c)
                BY <1>8, <1>16, <3>2 DEF Voting
            <4>2. c.instance[1] # r /\ c.instance[1] \in RM
                BY <2>7, <4>1
            <4>3. \A n \in Request : n.trid = t => ~ Holds(Scheduling, n, c.instance[1])'
                BY <1>3, <1>4, <4>1, <4>2 DEF VoteUnderWay, SendsNothing
            <4>4. \A d \in Answers(t)' : d.instance[1] = c.instance[1] => d = c
                BY <1>6, <1>8, <4>1, <4>2 DEF VoteUnderWay
            <4> QED BY <1>2, <1>11, <4>1, <4>2, <4>3, <4>4 DEF VoteUnderWay
        <3> QED BY <3>1, <3>2
    <2>9. \A q \in RM \ resources'[t] : branch'[t][q] = "none"
        BY <1>2, <1>11, <1>16, <2>1 DEF Voting
    <2>10. Voting(t)'
        BY <1>2, <1>3, <1>4, <1>16, <2>4, <2>5, <2>6, <2>8, <2>9
           DEF Voting, EndRequested, TellsNothing
    <2> QED BY <2>10 DEF Phase
<1>17. CASE Committing(t)
    <2>1. m.op = "commit" /\ ~ m.onephase /\ r \in resources[t]
        BY <1>2, <1>5, <1>12, <1>17 DEF Committing
    <2>2. b \in {"prepared", "ended", "committed"}
        BY <1>17, <2>1 DEF Committing
    <2>3. x[2] \in {"ended", "committed"}
        BY <1>10, <2>1, <2>2 DEF PromiseKept
    <2>4. /\ \A q \in resources'[t] :
                 /\ branch'[t][q] \in {"prepared", "ended", "committed"}
                 /\ stage'[t][q] # cPrepareRequested => branch'[t][q] # "prepared"
          /\ \A q \in RM \ resources'[t] : branch'[t][q] = "none"
        BY <1>2, <1>3, <1>11, <1>17, <2>1, <2>3 DEF Committing, TypeOK
    <2>5. \A c \in Answers(t)' :
              c.op = "commit" /\ c.instance[1] \in resources'[t] /\ branch'[t][c.instance[1]] # "prepared"
        <3> SUFFICES ASSUME NEW c \in Answers(t)'
                     PROVE  c.op = "commit" /\ c.instance[1] \in resources[t] /\ branch'[t][c.instance[1]] # "prepared"
            BY <1>2
        <3>1. CASE c = a
            BY <1>6, <1>11, <2>1, <2>3, <3>1
        <3>2. CASE c # a
            <4>1. c.op = "commit" /\ c.instance[1] \in resources[t] /\ branch[t][c.instance[1]] # "prepared"
                BY <1>8, <1>17, <3>2 DEF Committing
            <4>2. c.instance[1] \in RM
                BY <1>3, <4>1 DEF TypeOK
            <4> QED BY <1>11, <2>3, <4>1, <4>2
        <3> QED BY <3>1, <3>2
    <2>6. Committing(t)'
        BY <1>2, <1>3, <1>4, <1>17, <2>4, <2>5
           DEF Committing, EndRequested, SendsNothing, TellsNothing
    <2> QED BY <2>6 DEF Phase
<1>18. CASE Settled(t)
    <2>1. b \in {"none", "ended", "committed"}
        BY <1>2, <1>18 DEF Settled
    <2>2. x[2] = b /\ x[1] = cXAER_NOTA
        BY <1>10, <2>1
    <2>3. \A q \in RM : branch'[t][q] = branch[t][q]
        BY <1>11, <2>2
    <2>4. Settled(t)'
        BY <1>2, <1>3, <1>6, <1>8, <1>18, <2>2, <2>3 DEF Settled, EndRequested, TypeOK
    <2> QED BY <2>4 DEF Phase
<1> QED BY <1>3, <1>13, <1>14, <1>15, <1>16, <1>17, <1>18 DEF Phase

-----------------------------------------------------------------------------
(* What the handlers of the answers do.                                    *)

\* The stages of t when resource r has answered x in the first phase.
Voted(t, r, x) ==
    [stage[t] EXCEPT ![r] = IF x = cXA_RDONLY THEN cNotInvolved ELSE cPrepareReplied]

\* The manager's state of the other transactions stays.
Others(t) ==
    \A u \in Trid \ {t} :
        /\ u \in transactions' <=> u \in transactions
        /\ u \in log' <=> u \in log
        /\ resources'[u] = resources[u] /\ stage'[u] = stage[u] /\ result'[u] = result[u]
        /\ SendsNothing(u) /\ TellsNothing(u)

\* basic_prepare waits for more votes, or logs the decision and asks the resources that
\* have prepared to commit, or asks those that answered to roll back.
LEMMA PrepareMoves ==
    ASSUME TypeOK, NEW m \in ResourceReply, NEW s, Follows(s), NEW t \in Trid, NEW r \in RM, r \in resources[t],
           PrepareReply(m, s, t, r), UNCHANGED unsent
    PROVE  /\ UNCHANGED <<transactions, resources>>
           /\ Others(t)
           /\ result'[t] = [result[t] EXCEPT ![r] = m.state]
           /\ \/ /\ stage'[t] = Voted(t, r, m.state) /\ log' = log
                 /\ SendsNothing(t) /\ TellsNothing(t)
              \/ /\ \A q \in resources[t] :
                       /\ Voted(t, r, m.state)[q] >= cPrepareReplied
                       /\ result'[t][q] \in {cXA_OK, cXA_RDONLY}
                       /\ stage'[t][q] = IF Voted(t, r, m.state)[q] = cPrepareReplied /\ result'[t][q] = cXA_OK
                                         THEN cPrepareRequested ELSE Voted(t, r, m.state)[q]
                 /\ log' = log \cup {t}
                 /\ \A a \in Request, q \in RM : a.trid = t /\ Holds(Scheduling, a, q)' =>
                       Holds(Scheduling, a, q) \/ (a.op = "commit" /\ ~ a.onephase /\ q \in resources[t])
                 /\ \A a \in Reply : a.trid = t /\ Told(a)' => Told(a) \/ a.stage = "prepare"
              \/ /\ \A q \in resources[t] : Voted(t, r, m.state)[q] >= cPrepareReplied
                 /\ log' = log
                 /\ \A a \in Request, q \in RM : a.trid = t /\ Holds(Scheduling, a, q)' =>
                       Holds(Scheduling, a, q) \/ a.op = "rollback"
                 /\ TellsNothing(t)
<1> DEFINE res == [result[t] EXCEPT ![r] = m.state]
           stg == Voted(t, r, m.state)
           prepared == LeastStage(stg, resources[t]) = cPrepareReplied
           code == Results(res, resources[t])
           Ask(to, op, newStage) ==
               /\ stage' = [stage EXCEPT ![t] = [q \in RM |-> IF q \in to THEN newStage ELSE stg[q]]]
               /\ result' = [result EXCEPT ![t] = res]
               /\ Schedule(SendRequest(s, [op |-> op, trid |-> t, onephase |-> FALSE], to))
               /\ UNCHANGED <<transactions, resources, correlation>>
           good == {q \in AtStage(stg, resources[t], cPrepareReplied) : res[q] = cXA_OK}
           answer == CommitReply(t, "prepare", cXA_OK, correlation[t])
<1>1. /\ m.state \in Result /\ resources[t] \in SUBSET RM /\ stage[t] \in [RM -> Stage] /\ result[t] \in [RM -> Result]
      /\ correlation[t] \in 0 .. MaxRequests
    BY DEF TypeOK, ResourceReply
<1>2. res \in [RM -> Result] /\ stg \in [RM -> Stage]
    BY <1>1, StagesTyped DEF Voted
<1>3. \/ /\ ~ prepared /\ stage' = [stage EXCEPT ![t] = stg] /\ result' = [result EXCEPT ![t] = res]
         /\ Schedule(s) /\ UNCHANGED <<transactions, resources, correlation, log>> /\ NoReply
      \/ /\ prepared /\ code = cXA_OK /\ log' = log \cup {t} /\ SendPersistent(answer)
         /\ Ask(good, "commit", cPrepareRequested)
      \/ /\ prepared /\ code \notin {cXA_OK, cXA_RDONLY}
         /\ Ask(AtStage(stg, resources[t], cPrepareReplied), "rollback", cRollbackRequested)
         /\ UNCHANGED log /\ NoReply
    BY Zenon DEF PrepareReply, Voted
<1>4. prepared => \A q \in resources[t] : stg[q] >= cPrepareReplied
    <2>1. \A q \in resources[t] : LeastStage(stg, resources[t]) <= stg[q] /\ stg[q] \in Stage
        BY <1>1, <1>2, StageLeast
    <2> QED BY <2>1 DEF cPrepareReplied, Stage
<1>5. code = cXA_OK => \A q \in resources[t] : res[q] \in {cXA_OK, cXA_RDONLY}
    <2>1. \A q \in resources[t] : code <= res[q] /\ res[q] \in Result
        BY <1>1, <1>2, ResultsLeast
    <2> QED BY <2>1 DEF Result, cXA_OK, cXA_RDONLY
<1>6. answer \in Reply /\ answer.trid = t /\ answer.stage = "prepare"
    BY <1>1, ReplyTypes, StagesTyped DEF CommitReply
<1>7. good \in SUBSET RM /\ good \subseteq resources[t] /\ AtStage(stg, resources[t], cPrepareReplied) \in SUBSET RM
    BY <1>1 DEF AtStage
<1>8. CASE /\ ~ prepared /\ stage' = [stage EXCEPT ![t] = stg] /\ result' = [result EXCEPT ![t] = res]
           /\ Schedule(s) /\ UNCHANGED <<transactions, resources, correlation, log>> /\ NoReply
    <2> HIDE DEF stg, res, prepared, code, good, answer
    <2>1. \A u \in Trid : SendsNothing(u)
        BY <1>8, FollowsSends
    <2>2. \A u \in Trid : TellsNothing(u)
        BY <1>8, NoReplyTells DEF NoReply
    <2>3. stage'[t] = stg /\ result'[t] = res /\ \A u \in Trid \ {t} : stage'[u] = stage[u] /\ result'[u] = result[u]
        BY <1>8 DEF TypeOK
    <2>4. Others(t)
        BY <1>8, <2>1, <2>2, <2>3 DEF Others
    <2> QED BY <1>8, <2>1, <2>2, <2>3, <2>4 DEF stg, res
<1>9. CASE /\ prepared /\ code = cXA_OK /\ log' = log \cup {t} /\ SendPersistent(answer)
           /\ Ask(good, "commit", cPrepareRequested)
    <2> DEFINE a == [op |-> "commit", trid |-> t, onephase |-> FALSE]
    <2>1. /\ \A q \in resources[t] : stg[q] >= cPrepareReplied
          /\ \A q \in resources[t] : res[q] \in {cXA_OK, cXA_RDONLY}
        BY <1>4, <1>5, <1>9
    <2>2. a \in Request /\ a.op = "commit" /\ a.trid = t /\ ~ a.onephase
        BY RequestType
    <2>3. \A q \in resources[t] : q \in good <=> stg[q] = cPrepareReplied /\ res[q] = cXA_OK
        BY DEF AtStage
    <2>4. /\ stage' = [stage EXCEPT ![t] = [q \in RM |-> IF q \in good THEN cPrepareRequested ELSE stg[q]]]
          /\ result' = [result EXCEPT ![t] = res]
          /\ UNCHANGED <<transactions, resources>>
          /\ Schedule(SendRequest(s, a, good))
        BY <1>9
    <2> HIDE DEF stg, res, prepared, code, good, answer, a, Ask
    <2>5. Sends(a, good)
        BY <1>7, <2>2, <2>4, SendRequestSends
    <2>6. Tells(answer)
        BY <1>6, <1>9, TellsOne
    <2>7. /\ result'[t] = res /\ \A u \in Trid \ {t} : stage'[u] = stage[u] /\ result'[u] = result[u]
          /\ \A q \in RM : stage'[t][q] = IF q \in good THEN cPrepareRequested ELSE stg[q]
        BY <2>4 DEF TypeOK
    <2>8. \A u \in Trid \ {t} : SendsNothing(u) /\ TellsNothing(u)
        BY <1>6, <2>2, <2>5, <2>6, SendsOther, TellsOther
    <2>9. Others(t)
        BY <1>9, <2>4, <2>7, <2>8 DEF Others
    <2>10. \A b \in Request, q \in RM : b.trid = t /\ Holds(Scheduling, b, q)' =>
              Holds(Scheduling, b, q) \/ (b.op = "commit" /\ ~ b.onephase /\ q \in resources[t])
        BY <1>7, <2>2, <2>5 DEF Sends
    <2>11. \A b \in Reply : b.trid = t /\ Told(b)' => Told(b) \/ b.stage = "prepare"
        BY <1>6, <2>6 DEF Tells
    <2>12. \A q \in resources[t] :
              /\ stg[q] >= cPrepareReplied
              /\ result'[t][q] \in {cXA_OK, cXA_RDONLY}
              /\ stage'[t][q] = IF stg[q] = cPrepareReplied /\ result'[t][q] = cXA_OK
                                THEN cPrepareRequested ELSE stg[q]
        BY <1>1, <2>1, <2>3, <2>7
    <2> QED BY <1>9, <2>4, <2>7, <2>9, <2>10, <2>11, <2>12 DEF stg, res
<1>10. CASE /\ prepared /\ code \notin {cXA_OK, cXA_RDONLY}
            /\ Ask(AtStage(stg, resources[t], cPrepareReplied), "rollback", cRollbackRequested)
            /\ UNCHANGED log /\ NoReply
    <2> DEFINE a == [op |-> "rollback", trid |-> t, onephase |-> FALSE]
               to == AtStage(stg, resources[t], cPrepareReplied)
    <2>1. \A q \in resources[t] : stg[q] >= cPrepareReplied
        BY <1>4, <1>10
    <2>2. a \in Request /\ a.op = "rollback" /\ a.trid = t
        BY RequestType
    <2>3. to \in SUBSET RM
        BY <1>7
    <2>4. /\ stage' = [stage EXCEPT ![t] = [q \in RM |-> IF q \in to THEN cRollbackRequested ELSE stg[q]]]
          /\ result' = [result EXCEPT ![t] = res]
          /\ UNCHANGED <<transactions, resources, log>> /\ NoReply
          /\ Schedule(SendRequest(s, a, to))
        BY <1>10
    <2> HIDE DEF stg, res, prepared, code, good, answer, a, Ask, to
    <2>5. Sends(a, to)
        BY <2>2, <2>3, <2>4, SendRequestSends
    <2>6. \A u \in Trid : TellsNothing(u)
        BY <2>4, NoReplyTells DEF NoReply
    <2>7. result'[t] = res /\ \A u \in Trid \ {t} : stage'[u] = stage[u] /\ result'[u] = result[u]
        BY <2>4 DEF TypeOK
    <2>8. \A u \in Trid \ {t} : SendsNothing(u)
        BY <2>2, <2>5, SendsOther
    <2>9. Others(t)
        BY <2>4, <2>6, <2>7, <2>8 DEF Others
    <2>10. \A b \in Request, q \in RM : b.trid = t /\ Holds(Scheduling, b, q)' =>
              Holds(Scheduling, b, q) \/ b.op = "rollback"
        BY <2>2, <2>5 DEF Sends
    <2> QED BY <2>1, <2>4, <2>6, <2>7, <2>9, <2>10 DEF stg, res
<1> HIDE DEF Ask, stg, res, prepared, code, good, answer
<1> QED BY <1>3, <1>8, <1>9, <1>10

\* The transaction is gone.
Gone(t) == resources'[t] = {} /\ AllOk(t)' /\ log' = log \ {t}
\* Only the stage of r is new.
Staged(t, r, k) ==
    /\ t \in transactions' <=> t \in transactions
    /\ resources'[t] = resources[t] /\ result'[t] = result[t] /\ log' = log
    /\ stage'[t] = [stage[t] EXCEPT ![r] = k]

\* Erasing a transaction is about that transaction.
LEMMA EraseMoves ==
    ASSUME TypeOK, NEW t \in Trid, Erase(t), log' = log \ {t},
           \A u \in Trid \ {t} : SendsNothing(u) /\ TellsNothing(u)
    PROVE  Gone(t) /\ Others(t)
BY DEF Erase, Gone, Others, AllOk, TypeOK

\* So is storing a stage.
LEMMA StagedMoves ==
    ASSUME TypeOK, NEW t \in Trid, NEW r \in RM, NEW k,
           stage' = [stage EXCEPT ![t] = [stage[t] EXCEPT ![r] = k]],
           UNCHANGED <<transactions, resources, result, correlation, log>>,
           \A u \in Trid \ {t} : SendsNothing(u) /\ TellsNothing(u)
    PROVE  Staged(t, r, k) /\ Others(t)
BY DEF Staged, Others, TypeOK

\* Without errors the results of the resources are XA_OK.
LEMMA CodeOk ==
    ASSUME TypeOK, NEW t \in Trid, NEW r \in resources[t], AllOk(t)
    PROVE  Results(result[t], resources[t]) = cXA_OK
<1>1. result[t] \in [RM -> Result] /\ resources[t] \in SUBSET RM /\ \A q \in RM : result[t][q] = cXA_OK
    BY DEF TypeOK, AllOk
<1>2. /\ Results(result[t], resources[t]) <= cXA_OK
      /\ Results(result[t], resources[t]) = cXA_RDONLY \/ Results(result[t], resources[t]) = cXA_OK
    BY <1>1, ResultsLeast
<1> QED BY <1>2 DEF cXA_OK, cXA_RDONLY

\* basic_commit stores the stage, and when it is the last answer ends the transaction.
LEMMA CommitDoneMoves ==
    ASSUME TypeOK, NEW m, NEW s, Follows(s), NEW t \in Trid, NEW r \in RM, r \in resources[t],
           CommitDone(m, s, t, r), UNCHANGED unsent
    PROVE  /\ Others(t) /\ SendsNothing(t)
           /\ \/ Staged(t, r, cCommitReplied) /\ TellsNothing(t)
              \/ /\ Gone(t)
                 /\ \A q \in resources[t] : [stage[t] EXCEPT ![r] = cCommitReplied][q] >= cCommitReplied
                 /\ \A a \in Reply : a.trid = t /\ Told(a)' => Told(a) \/ (a.stage = "commit" /\ a.state = cXA_OK)
              \/ /\ Staged(t, r, cCommitReplied) /\ ~ AllOk(t)
                 /\ \A a \in Reply : a.trid = t /\ Told(a)' => Told(a) \/ (a.stage = "commit" /\ a.state # cXA_OK)
<1> DEFINE stg == [stage[t] EXCEPT ![r] = cCommitReplied]
           code == Results(result[t], resources[t])
           answer == CommitReply(t, "commit", code, correlation[t])
<1>1. /\ resources[t] \in SUBSET RM /\ stage[t] \in [RM -> Stage] /\ result[t] \in [RM -> Result]
      /\ correlation[t] \in 0 .. MaxRequests
    BY DEF TypeOK
<1>2. stg \in [RM -> Stage] /\ code \in Result
    BY <1>1, StagesTyped, ResultsLeast
<1>3. answer \in Reply /\ answer.trid = t /\ answer.stage = "commit" /\ answer.state = code
    BY <1>1, <1>2, ReplyTypes DEF CommitReply
<1>4. \A u \in Trid : SendsNothing(u)
    BY FollowsSends DEF CommitDone
<1>5. LeastStage(stg, resources[t]) = cCommitReplied => \A q \in resources[t] : stg[q] >= cCommitReplied
    <2>1. \A q \in resources[t] : LeastStage(stg, resources[t]) <= stg[q] /\ stg[q] \in Stage
        BY <1>1, <1>2, StageLeast
    <2> QED BY <2>1 DEF cCommitReplied, Stage
<1>6. AllOk(t) => code = cXA_OK
    BY CodeOk
<1>7. \/ /\ stage' = [stage EXCEPT ![t] = stg] /\ UNCHANGED <<transactions, resources, result, correlation, log>>
         /\ NoReply
      \/ /\ LeastStage(stg, resources[t]) = cCommitReplied /\ code = cXA_OK /\ Erase(t) /\ log' = log \ {t}
         /\ SendReply(answer) \/ SendPersistent(answer)
      \/ /\ code # cXA_OK
         /\ stage' = [stage EXCEPT ![t] = stg] /\ UNCHANGED <<transactions, resources, result, correlation, log>>
         /\ SendPersistent(answer)
    BY Zenon DEF CommitDone
<1> HIDE DEF code, answer
<1>8. CASE /\ stage' = [stage EXCEPT ![t] = stg] /\ UNCHANGED <<transactions, resources, result, correlation, log>>
           /\ NoReply
    <2>1. \A u \in Trid : TellsNothing(u)
        BY <1>8, NoReplyTells DEF NoReply
    <2>2. Staged(t, r, cCommitReplied) /\ Others(t)
        BY <1>4, <1>8, <2>1, StagedMoves
    <2> QED BY <1>4, <2>1, <2>2
<1>9. CASE /\ LeastStage(stg, resources[t]) = cCommitReplied /\ code = cXA_OK /\ Erase(t) /\ log' = log \ {t}
           /\ SendReply(answer) \/ SendPersistent(answer)
    <2>1. Tells(answer)
        BY <1>3, <1>9, TellsOne
    <2>2. \A u \in Trid \ {t} : TellsNothing(u)
        BY <1>3, <2>1, TellsOther
    <2>3. Gone(t) /\ Others(t)
        BY <1>4, <1>9, <2>2, EraseMoves
    <2>4. \A a \in Reply : a.trid = t /\ Told(a)' => Told(a) \/ (a.stage = "commit" /\ a.state = cXA_OK)
        BY <1>3, <1>9, <2>1 DEF Tells
    <2> QED BY <1>4, <1>5, <1>9, <2>3, <2>4
<1>10. CASE /\ code # cXA_OK
            /\ stage' = [stage EXCEPT ![t] = stg] /\ UNCHANGED <<transactions, resources, result, correlation, log>>
            /\ SendPersistent(answer)
    <2>1. Tells(answer)
        BY <1>3, <1>10, TellsOne
    <2>2. \A u \in Trid \ {t} : TellsNothing(u)
        BY <1>3, <2>1, TellsOther
    <2>3. Staged(t, r, cCommitReplied) /\ Others(t)
        BY <1>4, <1>10, <2>2, StagedMoves
    <2>4. \A a \in Reply : a.trid = t /\ Told(a)' => Told(a) \/ (a.stage = "commit" /\ a.state # cXA_OK)
        BY <1>3, <1>10, <2>1 DEF Tells
    <2> QED BY <1>4, <1>6, <1>10, <2>3, <2>4
<1> QED BY <1>7, <1>8, <1>9, <1>10

\* basic_rollback's reply handler stores the stage, and at the last answer ends it.
LEMMA RollbackDoneMoves ==
    ASSUME TypeOK, NEW m, NEW s, Follows(s), NEW t \in Trid, NEW r \in RM, r \in resources[t],
           RollbackDone(m, s, t, r), UNCHANGED unsent
    PROVE  /\ Others(t) /\ SendsNothing(t)
           /\ \/ Staged(t, r, cRollbackReplied) /\ TellsNothing(t)
              \/ /\ Gone(t)
                 /\ \A a \in Reply : a.trid = t /\ Told(a)' =>
                       Told(a) \/ (a.type = "rollback" /\ a.stage = "rollback" /\ a.state = cXA_OK)
              \/ /\ Staged(t, r, cRollbackReplied) /\ ~ AllOk(t)
                 /\ \A a \in Reply : a.trid = t /\ Told(a)' =>
                       Told(a) \/ (a.type = "rollback" /\ a.stage = "rollback")
<1> DEFINE stg == [stage[t] EXCEPT ![r] = cRollbackReplied]
           code == Results(result[t], resources[t])
           answer == RollbackReply(t, "rollback", cXA_OK, correlation[t])
           failed == RollbackReply(t, "rollback", code, correlation[t])
<1>1. /\ resources[t] \in SUBSET RM /\ result[t] \in [RM -> Result] /\ correlation[t] \in 0 .. MaxRequests
    BY DEF TypeOK
<1>2. code \in Result
    BY <1>1, ResultsLeast
<1>3. /\ answer \in Reply /\ answer.trid = t /\ answer.type = "rollback" /\ answer.stage = "rollback" /\ answer.state = cXA_OK
      /\ failed \in Reply /\ failed.trid = t /\ failed.type = "rollback" /\ failed.stage = "rollback"
    BY <1>1, <1>2, ReplyTypes, StagesTyped DEF RollbackReply
<1>4. \A u \in Trid : SendsNothing(u)
    BY FollowsSends DEF RollbackDone
<1>6. AllOk(t) => code = cXA_OK
    BY CodeOk
<1>7. \/ /\ stage' = [stage EXCEPT ![t] = stg] /\ UNCHANGED <<transactions, resources, result, correlation, log>>
         /\ NoReply
      \/ Erase(t) /\ log' = log \ {t} /\ SendReply(answer)
      \/ /\ code # cXA_OK
         /\ stage' = [stage EXCEPT ![t] = stg] /\ UNCHANGED <<transactions, resources, result, correlation, log>>
         /\ SendPersistent(failed)
    BY Zenon DEF RollbackDone
<1> HIDE DEF code, answer, failed
<1>8. CASE /\ stage' = [stage EXCEPT ![t] = stg] /\ UNCHANGED <<transactions, resources, result, correlation, log>>
           /\ NoReply
    <2>1. \A u \in Trid : TellsNothing(u)
        BY <1>8, NoReplyTells DEF NoReply
    <2>2. Staged(t, r, cRollbackReplied) /\ Others(t)
        BY <1>4, <1>8, <2>1, StagedMoves
    <2> QED BY <1>4, <2>1, <2>2
<1>9. CASE Erase(t) /\ log' = log \ {t} /\ SendReply(answer)
    <2>1. Tells(answer)
        BY <1>3, <1>9, TellsOne
    <2>2. \A u \in Trid \ {t} : TellsNothing(u)
        BY <1>3, <2>1, TellsOther
    <2>3. Gone(t) /\ Others(t)
        BY <1>4, <1>9, <2>2, EraseMoves
    <2>4. \A a \in Reply : a.trid = t /\ Told(a)' =>
              Told(a) \/ (a.type = "rollback" /\ a.stage = "rollback" /\ a.state = cXA_OK)
        BY <1>3, <2>1 DEF Tells
    <2> QED BY <1>4, <2>3, <2>4
<1>10. CASE /\ code # cXA_OK
            /\ stage' = [stage EXCEPT ![t] = stg] /\ UNCHANGED <<transactions, resources, result, correlation, log>>
            /\ SendPersistent(failed)
    <2>1. Tells(failed)
        BY <1>3, <1>10, TellsOne
    <2>2. \A u \in Trid \ {t} : TellsNothing(u)
        BY <1>3, <2>1, TellsOther
    <2>3. Staged(t, r, cRollbackReplied) /\ Others(t)
        BY <1>4, <1>10, <2>2, StagedMoves
    <2>4. \A a \in Reply : a.trid = t /\ Told(a)' => Told(a) \/ (a.type = "rollback" /\ a.stage = "rollback")
        BY <1>3, <2>1 DEF Tells
    <2> QED BY <1>4, <1>6, <1>10, <2>3, <2>4
<1> QED BY <1>7, <1>8, <1>9, <1>10

-----------------------------------------------------------------------------
(* The phases after an answer.                                             *)

\* The manager takes answer m.
Takes(m) ==
    /\ UNCHANGED <<branch, client, sent, own, calls, alive>>
    /\ inbound' = inbound \ {m}

\* One answer less is on its way.
LEMMA TakesAnswers ==
    ASSUME NEW m, Takes(m), NEW t \in Trid
    PROVE  Answers(t)' = Answers(t) \ {m}
BY DEF Takes, Answers

\* basic_prepare ends the first phase with the decision to commit or with a rollback.
LEMMA PreparePhase ==
    ASSUME TypeOK, NEW m \in ResourceReply, NEW s, Follows(s), NEW t \in Trid, NEW r \in RM, r \in resources[t],
           m \in Answers(t), m.op = "prepare", m.instance[1] = r, t \in transactions,
           PrepareReply(m, s, t, r), UNCHANGED unsent, Takes(m), Phase(t)
    PROVE  Phase(t)'
<1> DEFINE stg == Voted(t, r, m.state)
<1>1. /\ UNCHANGED <<transactions, resources>>
      /\ result'[t] = [result[t] EXCEPT ![r] = m.state]
      /\ \/ /\ stage'[t] = stg /\ log' = log
            /\ SendsNothing(t) /\ TellsNothing(t)
         \/ /\ \A q \in resources[t] :
                  /\ stg[q] >= cPrepareReplied
                  /\ result'[t][q] \in {cXA_OK, cXA_RDONLY}
                  /\ stage'[t][q] = IF stg[q] = cPrepareReplied /\ result'[t][q] = cXA_OK
                                    THEN cPrepareRequested ELSE stg[q]
            /\ log' = log \cup {t}
            /\ \A a \in Request, q \in RM : a.trid = t /\ Holds(Scheduling, a, q)' =>
                  Holds(Scheduling, a, q) \/ (a.op = "commit" /\ ~ a.onephase /\ q \in resources[t])
            /\ \A a \in Reply : a.trid = t /\ Told(a)' => Told(a) \/ a.stage = "prepare"
         \/ /\ \A q \in resources[t] : stg[q] >= cPrepareReplied
            /\ log' = log
            /\ \A a \in Request, q \in RM : a.trid = t /\ Holds(Scheduling, a, q)' =>
                  Holds(Scheduling, a, q) \/ a.op = "rollback"
            /\ TellsNothing(t)
    BY PrepareMoves
<1>2. Answers(t)' = Answers(t) \ {m}
    BY TakesAnswers
<1>3. /\ resources[t] \in SUBSET RM /\ stage[t] \in [RM -> Stage] /\ result[t] \in [RM -> Result]
      /\ m.state \in Result
    BY DEF TypeOK, ResourceReply
<1>4. UNCHANGED <<branch, client, sent, own, calls, alive>>
    BY DEF Takes
<1>5. \A q \in RM : stg[q] = IF q = r THEN IF m.state = cXA_RDONLY THEN cNotInvolved ELSE cPrepareReplied
                             ELSE stage[t][q]
    BY <1>3 DEF Voted
<1>6. \A q \in RM : result'[t][q] = IF q = r THEN m.state ELSE result[t][q]
    BY <1>1, <1>3
<1> HIDE DEF stg
<1>7. CASE Voting(t)
    <2>1. /\ stage[t][r] = cPrepareRequested
          /\ m.state = cXA_OK => branch[t][r] = "prepared"
          /\ m.state = cXA_RDONLY => branch[t][r] = "ended"
          /\ \A n \in Request : n.trid = t => ~ Holds(Scheduling, n, r)
          /\ \A b \in Answers(t) : b.instance[1] = r => b = m
        BY <1>7 DEF Voting, VoteUnderWay
    <2>2. \A q \in resources[t] : /\ stg[q] \in {cPrepareRequested, cPrepareReplied, cNotInvolved}
                                  /\ stg[q] = cPrepareReplied =>
                                        /\ result'[t][q] # cXA_RDONLY
                                        /\ result'[t][q] = cXA_OK => branch[t][q] = "prepared"
                                  /\ stg[q] = cNotInvolved => branch[t][q] = "ended"
                                  /\ branch[t][q] \notin {"none", "committed"}
        <3> SUFFICES ASSUME NEW q \in resources[t]
                     PROVE  /\ stg[q] \in {cPrepareRequested, cPrepareReplied, cNotInvolved}
                            /\ stg[q] = cPrepareReplied =>
                                        /\ result'[t][q] # cXA_RDONLY
                                        /\ result'[t][q] = cXA_OK => branch[t][q] = "prepared"
                            /\ stg[q] = cNotInvolved => branch[t][q] = "ended"
                            /\ branch[t][q] \notin {"none", "committed"}
            OBVIOUS
        <3>1. Vote(t, q) /\ q \in RM
            BY <1>3, <1>7 DEF Voting
        <3>2. CASE q = r
            BY <1>5, <1>6, <2>1, <3>1, <3>2 DEF Vote, cPrepareReplied, cNotInvolved
        <3>3. CASE q # r
            BY <1>5, <1>6, <3>1, <3>3 DEF Vote
        <3> QED BY <3>2, <3>3
    <2>3. ASSUME \A q \in resources[t] : stg[q] >= cPrepareReplied
          PROVE  /\ \A n \in Request, q \in RM : n.trid = t => ~ Holds(Scheduling, n, q)
                 /\ Answers(t)' = {}
        <3>1. \A q \in resources[t] : q # r => stage[t][q] # cPrepareRequested
            BY <1>3, <1>5, <2>3 DEF cPrepareReplied, cPrepareRequested
        <3>2. \A n \in Request, q \in RM : n.trid = t => ~ Holds(Scheduling, n, q)
            BY <1>7, <2>1, <3>1 DEF Voting
        <3>3. \A a \in Answers(t) : a.instance[1] = r
            BY <1>7, <3>1 DEF Voting, VoteUnderWay
        <3> QED BY <1>2, <2>1, <3>2, <3>3
    <2>4. CASE stage'[t] = stg /\ log' = log /\ SendsNothing(t) /\ TellsNothing(t)
        <3>1. \A q \in resources'[t] : Vote(t, q)'
            BY <1>1, <1>4, <2>2, <2>4 DEF Vote
        <3>2. \A n \in Request, q \in RM : n.trid = t /\ Holds(Scheduling, n, q)' =>
                 n.op = "prepare" /\ q \in resources'[t] /\ stage'[t][q] = cPrepareRequested
            BY <1>1, <1>5, <1>7, <2>1, <2>4 DEF Voting, SendsNothing
        <3>3. ASSUME NEW a \in Answers(t)' PROVE VoteUnderWay(t, a)'
            <4>1. a \in Answers(t) /\ a # m /\ VoteUnderWay(t, a)
                BY <1>2, <1>7 DEF Voting
            <4>2. a.instance[1] # r /\ a.instance[1] \in RM
                BY <1>3, <2>1, <4>1 DEF VoteUnderWay
            <4>3. \A n \in Request : n.trid = t => ~ Holds(Scheduling, n, a.instance[1])'
                BY <2>4, <4>1, <4>2 DEF SendsNothing, VoteUnderWay
            <4>4. stage'[t][a.instance[1]] = cPrepareRequested
                BY <1>5, <2>4, <4>1, <4>2 DEF VoteUnderWay
            <4> QED BY <1>1, <1>2, <1>4, <4>1, <4>3, <4>4 DEF VoteUnderWay
        <3>4. \A q \in RM : AtMostOne(Scheduling, t, q)'
            BY <1>7, <2>4 DEF Voting, SendsNothing
        <3>5. Voting(t)'
            BY <1>1, <1>4, <1>7, <2>4, <3>1, <3>2, <3>3, <3>4
               DEF Voting, EndRequested, TellsNothing
        <3> QED BY <3>5 DEF Phase
    <2>5. CASE /\ \A q \in resources[t] :
                  /\ stg[q] >= cPrepareReplied
                  /\ result'[t][q] \in {cXA_OK, cXA_RDONLY}
                  /\ stage'[t][q] = IF stg[q] = cPrepareReplied /\ result'[t][q] = cXA_OK
                                    THEN cPrepareRequested ELSE stg[q]
               /\ log' = log \cup {t}
               /\ \A a \in Request, q \in RM : a.trid = t /\ Holds(Scheduling, a, q)' =>
                  Holds(Scheduling, a, q) \/ (a.op = "commit" /\ ~ a.onephase /\ q \in resources[t])
               /\ \A a \in Reply : a.trid = t /\ Told(a)' => Told(a) \/ a.stage = "prepare"
        <3>1. /\ \A n \in Request, q \in RM : n.trid = t => ~ Holds(Scheduling, n, q)
              /\ Answers(t)' = {}
            BY <2>3, <2>5
        <3>2. \A q \in resources'[t] :
                  /\ branch'[t][q] \in {"prepared", "ended", "committed"}
                  /\ stage'[t][q] \in {cPrepareRequested, cCommitReplied, cNotInvolved}
                  /\ stage'[t][q] # cPrepareRequested => branch'[t][q] # "prepared"
            <4> SUFFICES ASSUME NEW q \in resources[t]
                         PROVE  /\ branch[t][q] \in {"prepared", "ended", "committed"}
                                /\ stage'[t][q] \in {cPrepareRequested, cCommitReplied, cNotInvolved}
                                /\ stage'[t][q] # cPrepareRequested => branch[t][q] # "prepared"
                BY <1>1, <1>4
            <4>1. /\ stg[q] >= cPrepareReplied
                  /\ result'[t][q] \in {cXA_OK, cXA_RDONLY}
                  /\ stage'[t][q] = IF stg[q] = cPrepareReplied /\ result'[t][q] = cXA_OK
                                    THEN cPrepareRequested ELSE stg[q]
                BY <2>5
            <4>2. stg[q] \in {cPrepareReplied, cNotInvolved}
                BY <2>2, <4>1 DEF cPrepareRequested, cPrepareReplied
            <4>3. CASE stg[q] = cPrepareReplied
                BY <2>2, <4>1, <4>3
            <4>4. CASE stg[q] = cNotInvolved
                BY <2>2, <4>1, <4>4 DEF cNotInvolved, cPrepareReplied
            <4> QED BY <4>2, <4>3, <4>4
        <3>4. Committing(t)'
            BY <1>1, <1>4, <1>7, <2>5, <3>1, <3>2 DEF Voting, Committing, EndRequested
        <3> QED BY <3>4 DEF Phase
    <2>6. CASE /\ \A q \in resources[t] : stg[q] >= cPrepareReplied
               /\ log' = log
               /\ \A a \in Request, q \in RM : a.trid = t /\ Holds(Scheduling, a, q)' =>
                  Holds(Scheduling, a, q) \/ a.op = "rollback"
               /\ TellsNothing(t)
        <3>1. /\ \A n \in Request, q \in RM : n.trid = t => ~ Holds(Scheduling, n, q)
              /\ Answers(t)' = {}
            BY <2>3, <2>6
        <3>2. \A q \in RM : branch'[t][q] # "committed"
            BY <1>4, <1>7, <2>2 DEF Voting
        <3>3. Aborting(t)'
            BY <1>4, <1>7, <2>6, <3>1, <3>2 DEF Voting, Aborting, TellsNothing
        <3> QED BY <3>3 DEF Phase
    <2> QED BY <1>1, <2>4, <2>5, <2>6
<1>8. CASE Settled(t)
    <2>1. m.state = cXAER_NOTA
        BY <1>8 DEF Settled
    <2>2. result'[t][r] \notin {cXA_OK, cXA_RDONLY}
        BY <1>6, <2>1 DEF cXA_OK, cXA_RDONLY, cXAER_NOTA
    <2>3. log' = log
        BY <1>1, <2>2
    <2>4. Settled(t)'
        BY <1>1, <1>2, <1>4, <1>8, <2>3 DEF Settled, EndRequested
    <2> QED BY <2>4 DEF Phase
<1> QED BY <1>7, <1>8 DEF Phase, Fresh, OnePhase, Aborting, Committing

\* The last answer to a commit settles the transaction.
LEMMA CommitDonePhase ==
    ASSUME TypeOK, NEW m \in ResourceReply, NEW s, Follows(s), NEW t \in Trid, NEW r \in RM, r \in resources[t],
           m \in Answers(t), m.op = "commit", m.instance[1] = r, t \in transactions,
           CommitDone(m, s, t, r), UNCHANGED unsent, Takes(m), Phase(t)
    PROVE  Phase(t)'
<1>1. /\ SendsNothing(t)
      /\ \/ Staged(t, r, cCommitReplied) /\ TellsNothing(t)
         \/ /\ Gone(t)
            /\ \A q \in resources[t] : [stage[t] EXCEPT ![r] = cCommitReplied][q] >= cCommitReplied
            /\ \A a \in Reply : a.trid = t /\ Told(a)' => Told(a) \/ (a.stage = "commit" /\ a.state = cXA_OK)
         \/ /\ Staged(t, r, cCommitReplied) /\ ~ AllOk(t)
            /\ \A a \in Reply : a.trid = t /\ Told(a)' => Told(a) \/ (a.stage = "commit" /\ a.state # cXA_OK)
    BY CommitDoneMoves
<1>2. Answers(t)' = Answers(t) \ {m}
    BY TakesAnswers
<1>3. /\ resources[t] \in SUBSET RM /\ stage[t] \in [RM -> Stage]
    BY DEF TypeOK
<1>4. UNCHANGED <<branch, client, sent, own, calls, alive>>
    BY DEF Takes
<1>5. CASE OnePhase(t)
    <2>2. AllOk(t)
        BY <1>5 DEF OnePhase
    <2>3. \A a \in Reply : a.trid = t /\ Told(a)' => Told(a) \/ (a.stage = "commit" /\ a.state = cXA_OK)
        BY <1>1, <2>2 DEF TellsNothing
    <2>4. \A a \in Reply : a.trid = t /\ Told(a)' =>
             a.stage # "prepare" /\ a.state \in {cXA_OK, cXA_RDONLY}
        BY <1>4, <1>5, <2>3 DEF OnePhase
    <2>5. t \notin log' /\ AllOk(t)' /\ \A q \in resources'[t] : stage'[t][q] # cInvolved
        <3>1. CASE Staged(t, r, cCommitReplied)
            BY <1>3, <1>5, <3>1 DEF OnePhase, Staged, AllOk, cInvolved, cCommitReplied
        <3>2. CASE Gone(t)
            BY <3>2 DEF Gone
        <3> QED BY <1>1, <3>1, <3>2
    <2>6. OnePhase(t)'
        BY <1>1, <1>2, <1>4, <1>5, <2>4, <2>5
           DEF OnePhase, EndRequested, SendsNothing
    <2> QED BY <2>6 DEF Phase
<1>6. CASE Committing(t)
    <2>1. branch[t][r] # "prepared"
        BY <1>6 DEF Committing
    <2>2. ASSUME Staged(t, r, cCommitReplied),
                 \A a \in Reply : a.trid = t /\ Told(a)' => Told(a) \/ (a.stage = "commit" /\ a.state # cXA_OK)
          PROVE  Phase(t)'
        <3>1. \A q \in resources'[t] :
                  /\ branch'[t][q] \in {"prepared", "ended", "committed"}
                  /\ stage'[t][q] \in {cPrepareRequested, cCommitReplied, cNotInvolved}
                  /\ stage'[t][q] # cPrepareRequested => branch'[t][q] # "prepared"
            BY <1>3, <1>4, <1>6, <2>1, <2>2 DEF Committing, Staged
        <3>3. Committing(t)'
            BY <1>1, <1>2, <1>4, <1>6, <2>2, <3>1
               DEF Committing, EndRequested, SendsNothing, Staged
        <3> QED BY <3>3 DEF Phase
    <2>3. CASE /\ Gone(t)
               /\ \A q \in resources[t] : [stage[t] EXCEPT ![r] = cCommitReplied][q] >= cCommitReplied
        <3>1. \A q \in resources[t] : branch[t][q] \in {"ended", "committed"}
            <4> SUFFICES ASSUME NEW q \in resources[t] PROVE branch[t][q] \in {"ended", "committed"}
                OBVIOUS
            <4>1. q # r => stage[t][q] # cPrepareRequested
                <5>1. q \in RM /\ [stage[t] EXCEPT ![r] = cCommitReplied][q] >= cCommitReplied
                    BY <1>3, <2>3
                <5> QED BY <1>3, <5>1 DEF cCommitReplied, cPrepareRequested
            <4> QED BY <1>6, <2>1, <4>1 DEF Committing
        <3>2. Settled(t)'
            BY <1>2, <1>3, <1>4, <1>6, <2>3, <3>1
               DEF Committing, Settled, EndRequested, Gone, TypeOK
        <3> QED BY <3>2 DEF Phase
    <2> QED BY <1>1, <2>2, <2>3 DEF TellsNothing
<1>7. CASE Settled(t)
    <2>1. Settled(t)'
        BY <1>1, <1>2, <1>4, <1>7 DEF Settled, EndRequested, Gone, Staged
    <2> QED BY <2>1 DEF Phase
<1> QED BY <1>5, <1>6, <1>7 DEF Phase, Fresh, Aborting, Voting, VoteUnderWay

\* The answers to a rollback leave the transaction aborting.
LEMMA RollbackDonePhase ==
    ASSUME TypeOK, NEW m \in ResourceReply, NEW s, Follows(s), NEW t \in Trid, NEW r \in RM, r \in resources[t],
           m \in Answers(t), m.op = "rollback", m.instance[1] = r, t \in transactions,
           RollbackDone(m, s, t, r), UNCHANGED unsent, Takes(m), Phase(t)
    PROVE  Phase(t)'
<1>1. /\ SendsNothing(t)
      /\ \/ Staged(t, r, cRollbackReplied) /\ TellsNothing(t)
         \/ /\ Gone(t)
            /\ \A a \in Reply : a.trid = t /\ Told(a)' =>
                  Told(a) \/ (a.type = "rollback" /\ a.stage = "rollback" /\ a.state = cXA_OK)
         \/ /\ Staged(t, r, cRollbackReplied) /\ ~ AllOk(t)
            /\ \A a \in Reply : a.trid = t /\ Told(a)' =>
                  Told(a) \/ (a.type = "rollback" /\ a.stage = "rollback")
    BY RollbackDoneMoves
<1>2. Answers(t)' = Answers(t) \ {m}
    BY TakesAnswers
<1>4. UNCHANGED <<branch, client, sent, own, calls, alive>>
    BY DEF Takes
<1>5. CASE Aborting(t)
    <2>1. \A a \in Reply : a.trid = t /\ Told(a)' =>
             /\ a.type = "rollback" /\ a.stage # "prepare"
             /\ client'[t] = "rollback" => a.state \in {cXA_OK, cXA_RDONLY}
        BY <1>1, <1>4, <1>5 DEF Aborting, TellsNothing
    <2>2. t \notin log' /\ (client'[t] = "rollback" => AllOk(t)')
        BY <1>1, <1>4, <1>5 DEF Aborting, AllOk, Gone, Staged
    <2>3. Aborting(t)'
        BY <1>1, <1>2, <1>4, <1>5, <2>1, <2>2 DEF Aborting, SendsNothing
    <2> QED BY <2>3 DEF Phase
<1>6. CASE Settled(t)
    <2>1. Settled(t)'
        BY <1>1, <1>2, <1>4, <1>6 DEF Settled, EndRequested, Gone, Staged
    <2> QED BY <2>1 DEF Phase
<1> QED BY <1>5, <1>6 DEF Phase, Fresh, OnePhase, Voting, VoteUnderWay, Committing

\* The handlers of the proxies' answers keep every transaction in a phase.
LEMMA ReplyWrapperPhase ==
    ASSUME TypeOK, \A u \in Trid : Phase(u), NEW m \in inbound, ReplyWrapper(m)
    PROVE  \A u \in Trid : Phase(u)'
<1> DEFINE s == Done(Scheduling, m.instance)
           t == m.trid
           r == m.instance[1]
<1>1. m \in ResourceReply /\ m.op # "connect"
    BY DEF ReplyWrapper, TypeOK, ConnectReply
<1>2. m.instance \in Instance /\ t \in Trid /\ r \in RM
    BY <1>1 DEF ResourceReply, Instance
<1>3. Follows(s)
    BY <1>2, DoneFollows
<1>4. m \in Answers(t)
    BY <1>1 DEF Answers
<1>5. Takes(m) /\ UNCHANGED unsent
    BY DEF ReplyWrapper, Takes, clientVars
<1>6. \/ DiscardReply(s)
      \/ t \in transactions /\ r \in resources[t] /\ m.op = "prepare" /\ PrepareReply(m, s, t, r)
      \/ t \in transactions /\ r \in resources[t] /\ m.op = "commit" /\ CommitDone(m, s, t, r)
      \/ t \in transactions /\ r \in resources[t] /\ m.op = "rollback" /\ RollbackDone(m, s, t, r)
    BY DEF ReplyWrapper
<1> HIDE DEF s, t, r
<1>7. \A u \in Trid : Answers(u)' \subseteq Answers(u)
    BY <1>5, TakesAnswers
<1>8. CASE DiscardReply(s)
    <2>1. StateKept
        BY <1>5, <1>8 DEF StateKept, Takes, DiscardReply, transVars
    <2>2. \A u \in Trid : SendsNothing(u) /\ TellsNothing(u)
        BY <1>3, <1>5, <1>8, FollowsSends, NoReplyTells DEF DiscardReply, NoReply
    <2> QED BY <1>7, <2>1, <2>2, KeptPhase
<1>9. CASE ~ DiscardReply(s)
    <2>1. Others(t)
        BY <1>1, <1>2, <1>3, <1>5, <1>6, <1>9, PrepareMoves, CommitDoneMoves, RollbackDoneMoves
    <2>2. Alone(t)
        BY <1>5, <1>7, <2>1 DEF Alone, Others, Untouched, Takes
    <2>3. Phase(t)'
        BY <1>1, <1>2, <1>3, <1>4, <1>5, <1>6, <1>9, PreparePhase, CommitDonePhase,
           RollbackDonePhase DEF r
    <2> QED BY <1>2, <2>2, <2>3, OthersFramed
<1> QED BY <1>8, <1>9

-----------------------------------------------------------------------------
(* What is told to whom, and when.                                         *)

\* The decision to commit t has been told to its owner.
Promised(t) == \E n \in DOMAIN received[t] : received[t][n].stage = "prepare"

\* Replies come to the owners they are for, no decision is told, and what waits for a
\* write goes on waiting.
Delivered ==
    /\ Addressed'
    /\ \A t \in Trid : Promised(t)' => Promised(t)
    /\ persistentReplies # <<>> => persistentReplies' # <<>>

\* A pushed reply comes to the owner of its transaction.
LEMMA PushDelivers ==
    ASSUME TypeOK, Addressed, NEW m \in Reply, NEW ok \in BOOLEAN, Push(m, ok)
    PROVE  Addressed' /\ (m.stage # "prepare" => \A t \in Trid : Promised(t)' => Promised(t))
<1>1. \/ received' = received
      \/ received' = [received EXCEPT ![m.trid] = Append(received[m.trid], m)]
    BY Zenon DEF Push
<1>2. m.trid \in Trid /\ received[m.trid] \in Seq(Reply) /\ received \in [Trid -> Seq(Reply)]
    BY DEF Reply, TypeOK
<1>3. CASE received' = received
    BY <1>3 DEF Addressed, Promised
<1>4. CASE received' = [received EXCEPT ![m.trid] = Append(received[m.trid], m)]
    <2>1. received'[m.trid] = Append(received[m.trid], m) /\ \A t \in Trid \ {m.trid} : received'[t] = received[t]
        BY <1>2, <1>4
    <2>2. \A n \in DOMAIN received'[m.trid] :
              \/ n \in DOMAIN received[m.trid] /\ received'[m.trid][n] = received[m.trid][n]
              \/ received'[m.trid][n] = m
        BY <1>2, <2>1
    <2>3. \A t \in Trid : \A n \in DOMAIN received'[t] :
              \/ n \in DOMAIN received[t] /\ received'[t][n] = received[t][n]
              \/ t = m.trid /\ received'[t][n] = m
        BY <2>1, <2>2, Zenon
    <2>4. Addressed'
        BY <2>3 DEF Addressed
    <2>5. m.stage # "prepare" => \A t \in Trid : Promised(t)' => Promised(t)
        BY <2>3 DEF Promised
    <2> QED BY <2>4, <2>5
<1> QED BY <1>1, <1>3, <1>4

\* A step without replies delivers what it should.
LEMMA NoReplyDelivers ==
    ASSUME Addressed, UNCHANGED <<persistentReplies, received>>
    PROVE  Delivered
<1>1. persistentReplies' = persistentReplies /\ received' = received
    OBVIOUS
<1>2. Addressed'
    BY <1>1 DEF Addressed
<1>3. \A t \in Trid : Promised(t)' => Promised(t)
    BY <1>1 DEF Promised
<1> QED BY <1>1, <1>2, <1>3 DEF Delivered

\* A reply sent at once tells no decision; one that waits for the write waits.
LEMMA SendDelivers ==
    ASSUME TypeOK, Addressed, NEW m \in Reply,
           (m.stage # "prepare" /\ SendReply(m)) \/ SendPersistent(m)
    PROVE  Delivered /\ (SendPersistent(m) => persistentReplies' # <<>>)
<1>1. persistentReplies \in Seq(Reply)
    BY DEF TypeOK
<1>2. Append(persistentReplies, m) # <<>>
    <2>1. Len(Append(persistentReplies, m)) = Len(persistentReplies) + 1 /\ Len(persistentReplies) \in Nat
        BY <1>1
    <2>2. Len(<<>>) = 0
        OBVIOUS
    <2> QED BY <2>1, <2>2
<1>3. CASE m.stage # "prepare" /\ SendReply(m)
    <2>1. persistentReplies' = persistentReplies \/ persistentReplies' = Append(persistentReplies, m)
        BY <1>3, Zenon DEF SendReply
    <2>2. Push(m, TRUE) \/ Push(m, FALSE)
        BY <1>3 DEF SendReply
    <2>3. Addressed' /\ \A t \in Trid : Promised(t)' => Promised(t)
        BY <1>3, <2>2, PushDelivers
    <2> QED BY <1>2, <2>1, <2>3 DEF Delivered, SendPersistent
<1>4. CASE SendPersistent(m)
    <2>1. persistentReplies' = Append(persistentReplies, m) /\ received' = received
        BY <1>4 DEF SendPersistent
    <2>2. Addressed' /\ \A t \in Trid : Promised(t)' => Promised(t)
        BY <2>1 DEF Addressed, Promised
    <2> QED BY <1>2, <2>1, <2>2 DEF Delivered
<1> QED BY <1>3, <1>4

\* handle::Commit and handle::Rollback tell no decision.
LEMMA CommitDelivers ==
    ASSUME TypeOK, Addressed, NEW t \in Trid, Commit(t) \/ Rollback(t)
    PROVE  Delivered
<1>1. CASE Commit(t)
    <2> DEFINE rs == Involve(t, own[t])
               refused == CommitReply(t, "error", cXAER_PROTO, sent'[t])
               empty == CommitReply(t, "commit", cXA_RDONLY, sent'[t])
    <2>1. sent'[t] \in 0 .. MaxRequests
        BY <1>1, AsksMoves DEF Commit
    <2>2. refused \in Reply /\ refused.stage = "error" /\ empty \in Reply /\ empty.stage = "commit"
        BY <2>1, ReplyTypes, StagesTyped DEF CommitReply
    <2>3. SendReply(refused) \/ SendReply(empty) \/ NoReply
        BY <1>1 DEF Commit, CommitRefused, CommitEmpty, CommitResources
    <2> HIDE DEF refused, empty
    <2> QED BY <2>2, <2>3, SendDelivers, NoReplyDelivers DEF NoReply
<1>2. CASE Rollback(t)
    <2> DEFINE m == RollbackReply(t, "rollback", cXA_OK, sent'[t])
    <2>1. sent'[t] \in 0 .. MaxRequests
        BY <1>2, AsksMoves DEF Rollback
    <2>2. m \in Reply /\ m.stage = "rollback"
        BY <2>1, ReplyTypes, StagesTyped DEF RollbackReply
    <2>3. SendReply(m) \/ NoReply
        BY <1>2 DEF Rollback
    <2> HIDE DEF m
    <2> QED BY <2>2, <2>3, SendDelivers, NoReplyDelivers DEF NoReply
<1> QED BY <1>1, <1>2

\* The log and the replies that wait for it.
Logs ==
    /\ \A t \in log' \ log : Voting(t)
    /\ log \subseteq log' \/ persistentReplies' # <<>>

\* The handlers of the answers tell no decision before it is written, log only decided
\* transactions and remove a row of the log with a reply that waits for the write.
LEMMA ReplyWrapperDelivers ==
    ASSUME TypeOK, Addressed, \A u \in Trid : Phase(u), NEW m \in inbound, ReplyWrapper(m)
    PROVE  Delivered /\ Logs
<1> DEFINE s == Done(Scheduling, m.instance)
           t == m.trid
           r == m.instance[1]
<1>1. m \in ResourceReply /\ m.op # "connect"
    BY DEF ReplyWrapper, TypeOK, ConnectReply
<1>2. t \in Trid /\ r \in RM
    BY <1>1 DEF ResourceReply, Instance
<1>3. m \in Answers(t)
    BY <1>1 DEF Answers
<1>4. \/ DiscardReply(s)
      \/ t \in transactions /\ r \in resources[t] /\ m.op = "prepare" /\ PrepareReply(m, s, t, r)
      \/ t \in transactions /\ r \in resources[t] /\ m.op = "commit" /\ CommitDone(m, s, t, r)
      \/ t \in transactions /\ r \in resources[t] /\ m.op = "rollback" /\ RollbackDone(m, s, t, r)
    BY DEF ReplyWrapper
<1>5. /\ resources[t] \in SUBSET RM /\ stage[t] \in [RM -> Stage] /\ result[t] \in [RM -> Result]
      /\ correlation[t] \in 0 .. MaxRequests /\ m.state \in Result
    BY <1>1, <1>2 DEF TypeOK, ResourceReply
<1> HIDE DEF s, t, r
<1>6. CASE DiscardReply(s)
    BY <1>6, NoReplyDelivers DEF DiscardReply, NoReply, Logs
<1>7. CASE r \in resources[t] /\ m.op = "prepare" /\ PrepareReply(m, s, t, r)
    <2> DEFINE answer == CommitReply(t, "prepare", cXA_OK, correlation[t])
    <2>1. answer \in Reply
        BY <1>2, <1>5, ReplyTypes, StagesTyped
    <2>2. \/ NoReply /\ log' = log
          \/ SendPersistent(answer) /\ log' = log \cup {t} /\ Results([result[t] EXCEPT ![r] = m.state], resources[t]) = cXA_OK
        BY <1>7 DEF PrepareReply
    <2> HIDE DEF answer
    <2>3. Delivered
        BY <2>1, <2>2, SendDelivers, NoReplyDelivers DEF NoReply
    <2>4. ASSUME Results([result[t] EXCEPT ![r] = m.state], resources[t]) = cXA_OK
          PROVE  Voting(t)
        <3>1. Voting(t) \/ m.state = cXAER_NOTA
            BY <1>2, <1>3, <1>7 DEF Phase, Fresh, OnePhase, Aborting, Committing, Settled
        <3>2. cXA_OK <= [result[t] EXCEPT ![r] = m.state][r]
            BY <1>2, <1>5, <1>7, <2>4, ResultsLeast
        <3>3. m.state # cXAER_NOTA
            BY <1>2, <1>5, <3>2 DEF cXA_OK, cXAER_NOTA
        <3> QED BY <3>1, <3>3
    <2> QED BY <2>2, <2>3, <2>4 DEF Logs
<1>8. CASE r \in resources[t] /\ m.op = "commit" /\ CommitDone(m, s, t, r)
    <2> DEFINE code == Results(result[t], resources[t])
               answer == CommitReply(t, "commit", code, correlation[t])
    <2>1. code \in Result
        BY <1>5, ResultsLeast
    <2>2. answer \in Reply /\ answer.stage = "commit"
        BY <1>2, <1>5, <2>1, ReplyTypes DEF CommitReply
    <2>3. \/ NoReply /\ log' = log
          \/ SendPersistent(answer) /\ (log' = log \/ log' = log \ {t})
          \/ SendReply(answer) /\ log' = log \ {t} /\ Cardinality(resources[t]) <= 1
        BY <1>8, Zenon DEF CommitDone
    <2> HIDE DEF code, answer
    <2>4. Delivered /\ (SendPersistent(answer) => persistentReplies' # <<>>)
        BY <2>2, <2>3, SendDelivers, NoReplyDelivers DEF NoReply
    <2>5. ASSUME Cardinality(resources[t]) <= 1 PROVE t \notin log
        <3>1. IsFiniteSet(resources[t])
            BY <1>5, FiniteAssumption, FS_Subset
        <3>2. Cardinality(resources[t]) \in Nat
            BY <3>1, FS_CardinalityType
        <3>3. Cardinality(resources[t]) = 1
            BY <1>8, <2>5, <3>1, <3>2, FS_EmptySet
        <3>4. \E q : resources[t] = {q}
            BY <3>1, <3>3, FS_Singleton
        <3> QED BY <1>2, <3>4 DEF Phase, Fresh, OnePhase, Aborting, Committing, Settled, Voting
    <2> QED BY <2>3, <2>4, <2>5 DEF Logs
<1>9. CASE r \in resources[t] /\ m.op = "rollback" /\ RollbackDone(m, s, t, r)
    <2> DEFINE code == Results(result[t], resources[t])
               answer == RollbackReply(t, "rollback", cXA_OK, correlation[t])
               failed == RollbackReply(t, "rollback", code, correlation[t])
    <2>1. code \in Result
        BY <1>5, ResultsLeast
    <2>2. answer \in Reply /\ answer.stage = "rollback" /\ failed \in Reply /\ failed.stage = "rollback"
        BY <1>2, <1>5, <2>1, ReplyTypes, StagesTyped DEF RollbackReply
    <2>3. \/ NoReply /\ log' = log
          \/ SendReply(answer) /\ log' = log \ {t}
          \/ SendPersistent(failed) /\ log' = log
        BY <1>9, Zenon DEF RollbackDone
    <2> HIDE DEF code, answer, failed
    <2>4. Delivered
        BY <2>2, <2>3, SendDelivers, NoReplyDelivers DEF NoReply
    <2>5. t \notin log
        BY <1>2, <1>3, <1>9 DEF Phase, Fresh, OnePhase, Aborting, Committing, Settled, Voting
    <2> QED BY <2>3, <2>4, <2>5 DEF Logs
<1> QED BY <1>4, <1>6, <1>7, <1>8, <1>9

\* The replies that waited come to the owners they are for.
LEMMA SendBatchAddressed ==
    ASSUME TypeOK, Addressed, SendBatch
    PROVE  Addressed'
<1> DEFINE n == Len(persistentReplies)
           m == IF pc = "left" THEN Head(persistentReplies) ELSE persistentReplies[n]
<1>1. persistentReplies \in Seq(Reply) /\ persistentReplies # <<>>
    BY DEF SendBatch, TypeOK
<1>2. m \in Reply
    BY <1>1
<1>3. Push(m, TRUE) \/ Push(m, FALSE)
    BY DEF SendBatch
<1> HIDE DEF m
<1> QED BY <1>2, <1>3, PushDelivers

-----------------------------------------------------------------------------
(* The inductive invariant.                                                *)

\* A transaction that is being rolled back for its owner has none any more.
Dead ==
    /\ \A t \in exiting : Owner[t] \notin alive
    /\ deaths \cap alive = {}

\* The rows on disk and in the open sqlite transaction.
Durable ==
    /\ pc \in {"left", "right"} => durable = log
    /\ pc \in {"boot", "handle"} => durable \subseteq log \/ persistentReplies # <<>>
    /\ \A t \in log : Promised(t) => t \in durable

\* The inductive invariant.
IInv ==
    /\ Dead
    /\ Addressed
    /\ Durable
    /\ \A t \in Trid : Phase(t)

\* The constructor establishes it: every transaction is fresh.
LEMMA InitIInv ==
    ASSUME Init
    PROVE  IInv
<1>1. Dead /\ Addressed /\ Durable
    BY DEF Init, Dead, Addressed, Durable
<1>2. ASSUME NEW t \in Trid PROVE Fresh(t)
    <2>1. /\ Answers(t) = {} /\ AllOk(t) /\ \A m \in Reply : m.trid = t => ~ Told(m)
        BY DEF Init, Answers, AllOk, Told, Reply
    <2>2. \A m \in Request, r \in RM : ~ Holds(Scheduling, m, r)
        BY DEF Init, Holds, Scheduling, Waits, Queued
    <2> QED BY <2>1, <2>2 DEF Init, Fresh
<1> QED BY <1>1, <1>2 DEF IInv, Phase

\* handle::process::Exit rolls back the transactions of dead owners only.
LEMMA DeadKept ==
    ASSUME TypeOK, Dead, Next
    PROVE  Dead'
<1> USE DEF Dead
<1>1. ASSUME NEW p \in Process, Exit(p) PROVE Dead'
    BY <1>1 DEF Exit, TypeOK
<1>2. ASSUME NEW p \in Process, Ends(p) PROVE Dead'
    BY <1>2 DEF Ends
<1>3. ASSUME NEW t \in Trid, ExitRollback(t) PROVE Dead'
    BY <1>3 DEF ExitRollback, clientVars
<1>4. ASSUME UNCHANGED <<exiting, alive, deaths>> PROVE Dead'
    BY <1>4
<1>5. \/ \E p \in Process : Exit(p) \/ Ends(p)
      \/ \E t \in Trid : ExitRollback(t)
      \/ UNCHANGED <<exiting, alive, deaths>>
    BY NextSteps DEF Steps, Commit, Rollback, Involved, Receive, GiveUp, ReplyWrapper, Connect, PumpFails,
           Instances, WriteBatch, SendBatch, EndBatch, ProxyOpen, ProxyRequest, ProxyShutdown,
           clientVars
<1> QED BY <1>1, <1>2, <1>3, <1>4, <1>5

\* A step of the handlers that leaves the log alone.
LEMMA DeliveredDurable ==
    ASSUME Durable, Delivered, UNCHANGED <<log, durable>>, log \subseteq Trid,
           \/ pc' = pc \/ pc' = "down"
           \/ pc = "boot" /\ pc' = "handle"
    PROVE  Durable'
<1>1. \A t \in log' : Promised(t)' => t \in durable'
    BY DEF Durable, Delivered
<1> QED BY <1>1 DEF Durable, Delivered

\* A decision that was told is on disk and stays there while it is in the log.
LEMMA ReplyWrapperDurable ==
    ASSUME TypeOK, IInv, NEW m \in inbound, ReplyWrapper(m)
    PROVE  Addressed' /\ Durable'
<1>1. Delivered /\ Logs
    BY ReplyWrapperDelivers DEF IInv
<1>2. pc = "handle" /\ pc' = pc /\ durable' = durable /\ log \subseteq Trid
    BY DEF ReplyWrapper, Handling, TypeOK
<1>3. ASSUME NEW t \in log' \ log, t \in Trid PROVE ~ Promised(t)
    <2>1. \A n \in Reply : n.trid = t => ~ Told(n)
        BY <1>1, <1>3 DEF Logs, Voting
    <2>2. \A n \in DOMAIN received[t] : received[t][n] \in Reply /\ received[t][n].trid = t
        BY <1>3 DEF IInv, Addressed, TypeOK
    <2> QED BY <2>1, <2>2 DEF Told, Promised
<1>4. log' \subseteq Trid
    BY <1>1, <1>2 DEF Logs, Voting, TypeOK
<1>5. \A t \in log' : Promised(t)' => t \in durable'
    BY <1>1, <1>2, <1>3, <1>4 DEF Delivered, IInv, Durable
<1>6. durable' \subseteq log' \/ persistentReplies' # <<>>
    BY <1>1, <1>2 DEF Delivered, Logs, IInv, Durable
<1> QED BY <1>1, <1>2, <1>5, <1>6 DEF Durable, Delivered

\* Reading a reply leaves the log alone.
LEMMA ReceiveDurable ==
    ASSUME TypeOK, IInv, NEW t \in Trid, Receive(t)
    PROVE  Addressed' /\ Durable'
<1>1. /\ Addressed'
      /\ \A u \in Trid : \A k \in DOMAIN received'[u] :
            \E l \in DOMAIN received[u] : received'[u][k] = received[u][l]
    BY ReceiveMoves DEF IInv
<1>2. \A u \in Trid : Promised(u)' => Promised(u)
    BY <1>1 DEF Promised
<1>3. UNCHANGED <<log, durable, pc, persistentReplies>> /\ log \subseteq Trid
    BY DEF Receive, TypeOK
<1>4. Durable
    BY DEF IInv
<1> QED BY <1>1, <1>2, <1>3, <1>4 DEF Durable

\* message::pump writes the log before it sends the replies that waited for it.
LEMMA BatchDurable ==
    ASSUME TypeOK, IInv, WriteBatch \/ SendBatch \/ EndBatch
    PROVE  Addressed' /\ Durable'
<1>1. Addressed /\ Durable
    BY DEF IInv
<1>2. CASE WriteBatch
    <2>1. received' = received /\ log' = log /\ durable' = log /\ pc' = "left"
        BY <1>2 DEF WriteBatch
    <2> QED BY <1>1, <2>1 DEF Addressed, Durable
<1>3. CASE SendBatch
    <2>1. log' = log /\ durable' = durable /\ pc' \in {"left", "right"} /\ durable = log
        BY <1>1, <1>3 DEF SendBatch, Durable
    <2>2. Addressed'
        BY <1>1, <1>3, SendBatchAddressed
    <2> QED BY <2>1, <2>2 DEF Durable
<1>4. CASE EndBatch
    <2>1. received' = received /\ log' = log /\ durable' = durable /\ pc' = "handle" /\ durable = log
        BY <1>1, <1>4 DEF EndBatch, Durable
    <2> QED BY <1>1, <2>1 DEF Addressed, Durable
<1> QED BY <1>2, <1>3, <1>4

\* What was delivered stays addressed, and what was promised is on disk.
LEMMA DurableKept ==
    ASSUME TypeOK, IInv, Next
    PROVE  Addressed' /\ Durable'
<1>0. Addressed /\ Durable /\ log \subseteq Trid
    BY DEF IInv, TypeOK
<1>1. ASSUME NEW t \in Trid, Commit(t) \/ Rollback(t) PROVE Addressed' /\ Durable'
    <2>1. Delivered
        BY <1>0, <1>1, CommitDelivers
    <2>2. UNCHANGED <<log, durable, pc>>
        BY <1>1 DEF Commit, Rollback
    <2> QED BY <1>0, <2>1, <2>2, DeliveredDurable DEF Delivered
<1>2. ASSUME NEW m \in inbound, ReplyWrapper(m) PROVE Addressed' /\ Durable'
    BY <1>2, ReplyWrapperDurable
<1>3. ASSUME NEW t \in Trid, Receive(t) PROVE Addressed' /\ Durable'
    BY <1>3, ReceiveDurable
<1>4. CASE WriteBatch \/ SendBatch \/ EndBatch
    BY <1>4, BatchDurable
<1>5. ASSUME UNCHANGED <<log, durable, persistentReplies, received>>,
             \/ pc' = pc \/ pc' = "down"
             \/ pc = "boot" /\ pc' = "handle"
      PROVE  Addressed' /\ Durable'
    <2>1. Delivered
        BY <1>0, <1>5, NoReplyDelivers
    <2> QED BY <1>0, <1>5, <2>1, DeliveredDurable DEF Delivered
<1>6. ASSUME NEW m \in inbound, Connect(m) \/ PumpFails(m) PROVE Addressed' /\ Durable'
    <2>1. UNCHANGED <<log, durable, persistentReplies, received>>
        BY <1>6 DEF Connect, PumpFails
    <2>2. \/ pc' = pc \/ pc' = "down"
          \/ pc = "boot" /\ pc' = "handle"
        BY <1>6, Zenon DEF Connect, PumpFails
    <2> QED BY <1>5, <2>1, <2>2
<1>7. ASSUME NEW t \in Trid, ExitRollback(t) \/ GiveUp(t) PROVE Addressed' /\ Durable'
    BY <1>5, <1>7 DEF ExitRollback, GiveUp
<1>8. ASSUME NEW t \in Trid, NEW id \in ResourceId, Involved(t, id) PROVE Addressed' /\ Durable'
    BY <1>5, <1>8 DEF Involved
<1>9. ASSUME NEW p \in Process, Exit(p) \/ Ends(p) PROVE Addressed' /\ Durable'
    BY <1>5, <1>9 DEF Exit, Ends
<1>10. ASSUME NEW r \in RM, NEW n \in 0 .. MaxInstances, Instances(r, n) PROVE Addressed' /\ Durable'
    BY <1>5, <1>10 DEF Instances
<1>11. ASSUME NEW i \in Instance, ProxyOpen(i) \/ ProxyRequest(i) \/ ProxyShutdown(i)
       PROVE  Addressed' /\ Durable'
    BY <1>5, <1>11 DEF ProxyOpen, ProxyRequest, ProxyShutdown
<1> QED BY <1>1, <1>2, <1>3, <1>4, <1>6, <1>7, <1>8, <1>9, <1>10, <1>11, NextSteps DEF Steps

\* Every step keeps every transaction in a phase.
LEMMA PhaseKept ==
    ASSUME TypeOK, IInv, PromiseKept, Next
    PROVE  \A u \in Trid : Phase(u)'
<1>0. Addressed /\ Dead /\ \A u \in Trid : Phase(u)
    BY DEF IInv
<1>1. ASSUME NEW t \in Trid, Commit(t) PROVE \A u \in Trid : Phase(u)'
    BY <1>0, <1>1, CommitPhase
<1>2. ASSUME NEW t \in Trid, Rollback(t) PROVE \A u \in Trid : Phase(u)'
    BY <1>0, <1>2, RollbackPhase
<1>3. ASSUME NEW t \in Trid, NEW id \in ResourceId, Involved(t, id) PROVE \A u \in Trid : Phase(u)'
    BY <1>0, <1>3, InvolvedPhase
<1>4. ASSUME NEW t \in Trid, ExitRollback(t) PROVE \A u \in Trid : Phase(u)'
    <2>1. Owner[t] \notin alive
        BY <1>0, <1>4 DEF Dead, ExitRollback
    <2> QED BY <1>0, <1>4, <2>1, ExitRollbackPhase
<1>5. ASSUME NEW t \in Trid, Receive(t) PROVE \A u \in Trid : Phase(u)'
    BY <1>0, <1>5, ReceivePhase
<1>6. ASSUME NEW t \in Trid, GiveUp(t) PROVE \A u \in Trid : Phase(u)'
    BY <1>0, <1>6, GiveUpPhase
<1>7. ASSUME NEW m \in inbound, ReplyWrapper(m) PROVE \A u \in Trid : Phase(u)'
    BY <1>0, <1>7, ReplyWrapperPhase
<1>8. ASSUME \/ \E p \in Process : Exit(p) \/ Ends(p)
             \/ \E m \in inbound : Connect(m) \/ PumpFails(m)
             \/ \E r \in RM, n \in 0 .. MaxInstances : Instances(r, n)
      PROVE  \A u \in Trid : Phase(u)'
    BY <1>0, <1>8, PumpPhase
<1>9. CASE WriteBatch \/ SendBatch \/ EndBatch
    BY <1>0, <1>9, BatchPhase
<1>10. ASSUME NEW i \in Instance, ProxyOpen(i) \/ ProxyShutdown(i) PROVE \A u \in Trid : Phase(u)'
    BY <1>0, <1>10, ProxyPhase
<1>11. ASSUME NEW i \in Instance, ProxyRequest(i) PROVE \A u \in Trid : Phase(u)'
    BY <1>0, <1>11, ProxyRequestPhase
<1> QED BY <1>1, <1>2, <1>3, <1>4, <1>5, <1>6, <1>7, <1>8, <1>9, <1>10, <1>11, NextSteps DEF Steps

\* A step that changes nothing keeps the invariant.
LEMMA StutterIInv ==
    ASSUME TypeOK, IInv, UNCHANGED vars
    PROVE  IInv'
<1>0. Addressed /\ Dead /\ Durable /\ \A u \in Trid : Phase(u)
    BY DEF IInv
<1>1. Addressed' /\ Dead' /\ Durable'
    BY <1>0 DEF vars, Addressed, Dead, Durable, Promised
<1>2. ASSUME NEW t \in Trid PROVE Phase(t)'
    <2>1. Phase(t)
        BY <1>0
    <2>2. Untouched(t)
        BY DEF vars, Untouched
    <2>3. Answers(t)' \subseteq Answers(t)
        BY DEF vars, Answers
    <2>4. TellsNothing(t)
        BY DEF vars, TellsNothing, Told
    <2>5. SendsNothing(t)
        BY DEF vars, SendsNothing, Holds, AtMostOne, Scheduling, Waits, Queued
    <2> QED BY <2>1, <2>2, <2>3, <2>4, <2>5, Framed
<1> QED BY <1>1, <1>2 DEF IInv

\* Every transaction is always in one of the phases, replies come to the right owners and
\* the log is on disk when it must be.
THEOREM PhasesCorrect ==
    ASSUME PromiseKept
    PROVE  Spec => []IInv
<1>1. Init => IInv
    BY InitIInv
<1>2. TypeOK /\ IInv /\ [Next]_vars => IInv'
    <2> SUFFICES ASSUME TypeOK, IInv, [Next]_vars PROVE IInv'
        OBVIOUS
    <2>1. CASE Next
        <3>1. Dead'
            BY <2>1, DeadKept DEF IInv
        <3>2. Addressed' /\ Durable'
            BY <2>1, DurableKept
        <3>3. \A u \in Trid : Phase(u)'
            BY <2>1, PhaseKept
        <3> QED BY <3>1, <3>2, <3>3 DEF IInv
    <2>2. CASE UNCHANGED vars
        BY <2>2, StutterIInv
    <2> QED BY <2>1, <2>2
<1> QED BY <1>1, <1>2, TypeCorrect, PTL DEF Spec

-----------------------------------------------------------------------------
(* The theorems.                                                           *)

\* A transaction is never committed at one resource and rolled back at another: whatever
\* the resources vote, whoever dies and however the messages interleave (handle.cpp).
THEOREM AtomicityHolds ==
    ASSUME PromiseKept
    PROVE  Spec => []Atomicity
<1>1. IInv => Atomicity
    BY DEF IInv, Phase, Fresh, OnePhase, Aborting, Voting, Vote, Committing, Settled, Atomicity
<1> QED BY <1>1, PhasesCorrect, PTL

\* A second-phase commit is asked only when every resource of the transaction has prepared
\* or had nothing to do (basic_prepare).
THEOREM CommitsPrepared ==
    ASSUME PromiseKept
    PROVE  Spec => []CommitOnlyPrepared
<1>1. TypeOK /\ IInv => CommitOnlyPrepared
    <2> SUFFICES ASSUME TypeOK, IInv, NEW i \in Instance, NEW n \in DOMAIN inbox[i],
                        inbox[i][n] # Shutdown, inbox[i][n].op = "commit", ~ inbox[i][n].onephase,
                        NEW r \in resources[inbox[i][n].trid]
                 PROVE  branch[inbox[i][n].trid][r] \in {"prepared", "ended", "committed"}
        BY DEF CommitOnlyPrepared
    <2>1. PICK m \in Request : m = inbox[i][n]
        <3>1. inbox[i] \in Seq(Request \cup {Shutdown})
            BY DEF TypeOK
        <3> QED BY <3>1
    <2>2. i[1] \in RM /\ Holds(Scheduling, m, i[1])
        BY <2>1 DEF Instance, Holds, Scheduling
    <2>3. m.trid \in Trid /\ m.op = "commit" /\ ~ m.onephase /\ r \in resources[m.trid]
        BY <2>1 DEF Request
    <2>4. Phase(m.trid) /\ resources[m.trid] \subseteq RM
        BY <2>3 DEF IInv, TypeOK
    <2>5. branch[m.trid][r] \in {"prepared", "ended", "committed"}
        BY <2>2, <2>3, <2>4 DEF Phase, Fresh, OnePhase, Aborting, Voting, Committing, Settled
    <2> QED BY <2>1, <2>5
<1> QED BY <1>1, TypeCorrect, PhasesCorrect, PTL

\* While an owner has been told that the decision is logged and a prepared resource has yet
\* to answer its commit, the decision is on disk (send::persistent::reply, message::pump).
THEOREM DecisionsDurable ==
    ASSUME PromiseKept
    PROVE  Spec => []DecisionDurable
<1>1. TypeOK /\ IInv => DecisionDurable
    <2> SUFFICES ASSUME TypeOK, IInv, NEW t \in Trid,
                        NEW n \in DOMAIN received[t], received[t][n].stage = "prepare",
                        NEW r \in RM, branch[t][r] = "prepared"
                 PROVE  t \in durable
        BY DEF DecisionDurable
    <2>1. PICK m \in Reply : m = received[t][n] /\ m.trid = t /\ Told(m)
        BY DEF IInv, Addressed, TypeOK, Told
    <2>2. Phase(t) /\ Durable
        BY DEF IInv
    <2>3. t \in log
        BY <2>1, <2>2 DEF Phase, Fresh, OnePhase, Aborting, Voting, Committing, Settled
    <2> QED BY <2>2, <2>3 DEF Durable, Promised
<1> QED BY <1>1, TypeCorrect, PhasesCorrect, PTL

\* When nothing waits for a write, the rows on disk are those of unfinished transactions
\* (log.remove in the reply handlers, persistent writes of message::pump).
THEOREM RowsRemoved ==
    ASSUME PromiseKept
    PROVE  Spec => []NoStaleRows
<1>1. TypeOK /\ IInv => NoStaleRows
    <2> SUFFICES ASSUME TypeOK, IInv, Handling, persistentReplies = <<>>, NEW t \in durable
                 PROVE  t \in transactions
        BY DEF NoStaleRows
    <2>1. t \in log /\ t \in Trid
        BY DEF IInv, Durable, Handling, TypeOK
    <2>2. Phase(t)
        BY <2>1 DEF IInv
    <2> QED BY <2>1, <2>2 DEF Phase, Fresh, OnePhase, Aborting, Voting, Committing, Settled
<1> QED BY <1>1, TypeCorrect, PhasesCorrect, PTL

\* Work at the resources is Work of AtomicCommit.
LEMMA WorkStep ==
    ASSUME NEW t \in Trid, NEW rs, branch' = Worked(branch, t, rs)
    PROVE  AC!Next
<1> DEFINE us == rs \cap RM
<1>1. us \in SUBSET RM
    OBVIOUS
<1>2. AC!Work(t, us)
    BY DEF AC!Work, Worked
<1> QED BY <1>1, <1>2 DEF AC!Next

\* A call of the xa-switch is a step that AtomicCommit allows in the transaction's phase.
LEMMA ProxyStep ==
    ASSUME TypeOK, IInv, NEW i \in Instance, ProxyRequest(i)
    PROVE  AC!Next \/ UNCHANGED branch
<1>0. PICK m \in Request : m = Head(inbox[i])
    BY ProxyRequestMoves
<1> DEFINE t == m.trid
           r == i[1]
           b == branch[t][r]
<1>1. PICK x \in Xa(m, b) : branch' = [branch EXCEPT ![t][r] = x[2]]
    BY <1>0, ProxyRequestMoves
<1>2. r \in RM /\ inbox[i] # <<>> /\ inbox' = [inbox EXCEPT ![i] = Tail(@)]
      /\ UNCHANGED pendingRequests
    BY <1>0, ProxyRequestMoves
<1>3. t \in Trid
    BY DEF Request
<1>4. Holds(Scheduling, m, r)
    BY <1>0, <1>2, <1>3, TailSends
<1>5. Phase(t) /\ branch \in [Trid -> [RM -> AC!Branch]]
    BY <1>3 DEF IInv, TypeOK, AC!Branch
<1>11. \A y : x[2] = y => branch' = [branch EXCEPT ![t][r] = y]
    BY <1>1
<1>6. CASE x[2] = b
    BY <1>1, <1>2, <1>3, <1>5, <1>6
<1>7. CASE m.op = "prepare" /\ b = "active" /\ x[2] \in {"prepared", "ended", "rolledback"}
    <2>1. \A q \in RM : branch[t][q] # "committed"
        BY <1>2, <1>3, <1>4, <1>5, <1>7
           DEF Phase, Fresh, OnePhase, Aborting, Voting, Vote, Committing, Settled
    <2>2. AC!Prepare(t, r) \/ AC!Rollback(t, r)
        BY <1>11, <1>7, <2>1, Zenon DEF AC!Prepare, AC!Rollback, AC!Become
    <2> QED BY <1>2, <1>3, <2>2 DEF AC!Next
<1>8. CASE m.op = "commit" /\ m.onephase /\ b = "active" /\ x[2] \in {"committed", "rolledback"}
    <2>1. \A q \in RM \ {r} : branch[t][q] = "none"
        BY <1>2, <1>3, <1>4, <1>5, <1>8
           DEF Phase, Fresh, OnePhase, Aborting, Voting, Committing, Settled
    <2>2. AC!CommitOnePhase(t, r) \/ AC!Rollback(t, r)
        BY <1>11, <1>8, <2>1, Zenon DEF AC!CommitOnePhase, AC!Rollback, AC!Become
    <2> QED BY <1>2, <1>3, <2>2 DEF AC!Next
<1>9. CASE m.op = "commit" /\ ~ m.onephase /\ b = "prepared" /\ x[2] = "committed"
    <2>1. \A q \in RM : branch[t][q] \in {"none", "prepared", "ended", "committed"}
        BY <1>2, <1>3, <1>4, <1>5, <1>9
           DEF Phase, Fresh, OnePhase, Aborting, Voting, Committing, Settled
    <2>2. AC!Commit(t, r)
        BY <1>11, <1>9, <2>1, Zenon DEF AC!Commit, AC!Become
    <2> QED BY <1>2, <1>3, <2>2 DEF AC!Next
<1>10. CASE m.op = "rollback" /\ b \in {"active", "prepared"} /\ x[2] = "rolledback"
    <2>1. \A q \in RM : branch[t][q] # "committed"
        BY <1>2, <1>3, <1>4, <1>5, <1>10
           DEF Phase, Fresh, OnePhase, Aborting, Voting, Committing, Settled
    <2>2. AC!Rollback(t, r)
        BY <1>11, <1>10, <2>1, Zenon DEF AC!Rollback, AC!Become
    <2> QED BY <1>2, <1>3, <2>2 DEF AC!Next
<1> HIDE DEF t, r, b
<1> QED BY <1>6, <1>7, <1>8, <1>9, <1>10, XaOutcomes

\* The manager, the proxies and the owners together implement AtomicCommit: every step is
\* one it allows, or changes no branch.
THEOREM ManagerImplementsAtomicCommit ==
    ASSUME PromiseKept
    PROVE  Spec => ImplementsAtomicCommit
<1>1. Init => AC!Init
    BY DEF Init, AC!Init
<1>2. TypeOK /\ IInv /\ [Next]_vars => [AC!Next]_branch
    <2> SUFFICES ASSUME TypeOK, IInv, [Next]_vars PROVE AC!Next \/ UNCHANGED branch
        OBVIOUS
    <2>1. ASSUME NEW t \in Trid, Commit(t) \/ Rollback(t) PROVE AC!Next \/ UNCHANGED branch
        <3>1. branch' = Worked(branch, t, own[t]) \/ branch' = branch
            BY <2>1, Zenon DEF Commit, Rollback, Asks
        <3> QED BY <3>1, WorkStep
    <2>2. ASSUME NEW t \in Trid, NEW id \in ResourceId, Involved(t, id) PROVE AC!Next
        <3>1. branch' = Worked(branch, t, {id})
            BY <2>2 DEF Involved
        <3> QED BY <3>1, WorkStep
    <2>3. ASSUME NEW i \in Instance, ProxyRequest(i) PROVE AC!Next \/ UNCHANGED branch
        BY <2>3, ProxyStep
    <2>4. \/ \E t \in Trid : Commit(t) \/ Rollback(t)
          \/ \E t \in Trid, id \in ResourceId : Involved(t, id)
          \/ \E i \in Instance : ProxyRequest(i)
          \/ UNCHANGED branch
        BY NextSteps DEF Steps, Exit, Ends, ExitRollback, Receive, GiveUp, ReplyWrapper, Connect, PumpFails,
               Instances, WriteBatch, SendBatch, EndBatch, ProxyOpen, ProxyShutdown, proxyVars, vars
    <2> QED BY <2>1, <2>2, <2>3, <2>4
<1> QED BY <1>1, <1>2, TypeCorrect, PhasesCorrect, PTL DEF Spec, ImplementsAtomicCommit, AC!Spec

-----------------------------------------------------------------------------
(* The course of the requests of a transaction, while no instance has been *)
(* told to go.                                                             *)

\* No instance has been told to shut down.
NoneRetired == \A i \in Instance : instance[i] # "shutdown"

\* What is asked of each resource in transaction t.
Way(t, r) == Asked(Scheduling, inbound, t, r)

\* Some resource is asked to prepare or to commit.
Deciding(t) == \E r \in RM : Way(t, r) \cap {"prepare", "commit"} # {}

\* The owner's own resources are known, no server will get involved and each resource has
\* been asked for the end.
Closed(t) ==
    /\ calls[t] = {} /\ own[t] \cap RM \subseteq resources[t]
    /\ \A r \in resources[t] : stage[t][r] # cInvolved

Orphaned(t) == Owner[t] \notin alive

\* Nothing has been asked for yet.
Unasked(t) ==
    /\ client[t] = "active" /\ AllOk(t)
    /\ \A r \in RM : Way(t, r) = {}
    /\ \A m \in Reply : m.trid = t => ~ Told(m)

\* The owner has asked for a rollback and will not hear of a failure.
Mild(t) ==
    /\ client[t] \in {"rollback", "done"} /\ AllOk(t)
    /\ \A m \in Reply : m.trid = t /\ Told(m) =>
          m.type = "rollback" /\ m.stage # "prepare" /\ m.state \in {cXA_OK, cXA_RDONLY}
Leaving(t) == Mild(t) /\ ~ Deciding(t)

\* What is asked agrees with the stages; only a transaction that is closed is decided, and
\* servers get involved only before the end is asked for, or when it is a rollback.
Course(t) ==
    /\ \A r \in RM : Requested(t, r) <=> Way(t, r) # {}
    /\ \A r \in RM \ resources[t] : stage[t][r] = cInvolved
    /\ resources[t] # {} => t \in transactions
    /\ \A r \in RM : "prepare" \in Way(t, r) => stage[t][r] = cPrepareRequested
    /\ \A r, q \in RM : "prepare" \in Way(t, r) => "commit" \notin Way(t, q)
    /\ Deciding(t) => Closed(t) /\ \A r \in resources[t] : stage[t][r] # cRollbackRequested
    /\ (\E r \in resources[t] : stage[t][r] = cRollbackRequested)
          => Closed(t) \/ Leaving(t) \/ Orphaned(t)
    /\ calls[t] # {} => Unasked(t) \/ Leaving(t) \/ Orphaned(t)

Coursed == Singles(Scheduling, inbound) /\ \A t \in Trid : Course(t)

\* A step that changes nothing of t but what is asked of its resources.
Calm(t) ==
    /\ t \in transactions => t \in transactions'
    /\ resources'[t] = resources[t] /\ stage'[t] = stage[t] /\ result'[t] = result[t]
    /\ client'[t] = client[t] /\ own'[t] = own[t] /\ calls'[t] = calls[t]
    /\ alive' \subseteq alive
    /\ TellsNothing(t)

\* A step that asks nothing for t keeps its course.
LEMMA CourseKept ==
    ASSUME NEW t \in Trid, Course(t), Calm(t), \A r \in RM : Way(t, r)' = Way(t, r)
    PROVE  Course(t)'
<1>1. /\ Deciding(t)' <=> Deciding(t)
      /\ Closed(t)' <=> Closed(t)
      /\ Orphaned(t) => Orphaned(t)'
    BY DEF Deciding, Closed, Orphaned, Calm
<1>2. AllOk(t)' <=> AllOk(t)
    BY DEF Calm, AllOk
<1>3. Unasked(t) => Unasked(t)'
    BY <1>2 DEF Unasked, Calm, TellsNothing
<1>4. Mild(t) => Mild(t)'
    BY <1>2 DEF Mild, Calm, TellsNothing
<1>5. Leaving(t) => Leaving(t)'
    BY <1>1, <1>4 DEF Leaving
<1>6. \A r \in RM : Requested(t, r)' <=> Requested(t, r)
    BY DEF Requested, Calm
<1> QED BY <1>1, <1>3, <1>5, <1>6 DEF Course, Calm

\* What is asked depends on the queues only.
LEMMA SameQueues ==
    ASSUME NEW s, NEW new, new.inbox = s.inbox, new.pending = s.pending, NEW ib
    PROVE  /\ \A t \in Trid, r \in RM : Asked(new, ib, t, r) = Asked(s, ib, t, r)
           /\ Singles(s, ib) => Singles(new, ib)
<1>1. \A m, r : Holds(new, m, r) <=> Holds(s, m, r)
    BY DEF Holds
<1>2. \A t, r : AtMostOne(new, t, r) <=> AtMostOne(s, t, r)
    BY DEF AtMostOne, Waits, Queued
<1> QED BY <1>1, <1>2 DEF Asked, Singles, Single

\* A step that asks nothing of anyone.
LEMMA KeptCoursed ==
    ASSUME Coursed, \A t \in Trid : Calm(t), Singles(Scheduling', inbound'),
           \A t \in Trid, r \in RM : Asked(Scheduling', inbound', t, r) = Asked(Scheduling, inbound, t, r)
    PROVE  Coursed'
<1>1. \A t \in Trid, r \in RM : Way(t, r)' = Way(t, r)
    BY DEF Way
<1> QED BY <1>1, CourseKept DEF Coursed

\* A step about t.
LEMMA OthersCoursed ==
    ASSUME Coursed, NEW t \in Trid, \A u \in Trid \ {t} : Calm(u) /\ \A r \in RM : Way(u, r)' = Way(u, r),
           Singles(Scheduling', inbound'), Course(t)'
    PROVE  Coursed'
<1>1. \A u \in Trid \ {t} : Course(u)'
    BY CourseKept DEF Coursed
<1> QED BY <1>1 DEF Coursed

\* What a handler asks of the resources rs of t comes on top of what is asked in s.
LEMMA AsksWays ==
    ASSUME TypeOK', NEW s \in SchedulingType, Singles(s, inbound'), NEW t \in Trid, NEW op \in {"prepare", "commit", "rollback"},
           NEW onephase \in BOOLEAN, NEW rs \in SUBSET RM,
           Free(s, inbound', t, rs),
           Schedule(SendRequest(s, [op |-> op, trid |-> t, onephase |-> onephase], rs))
    PROVE  /\ Singles(Scheduling', inbound')
           /\ \A u \in Trid, r \in RM : Way(u, r)' =
                 IF u = t /\ r \in rs THEN {op} ELSE Asked(s, inbound', u, r)
<1> DEFINE m == [op |-> op, trid |-> t, onephase |-> onephase]
           ib == inbound'
<1>1. m \in Request /\ m.op = op /\ m.trid = t
    BY RequestType
<1>2. Schedule(SendRequest(s, m, rs))
    OBVIOUS
<1>3. Unread(ib)
    BY DEF TypeOK, Unread
<1>4. Free(s, ib, m.trid, rs) /\ Singles(s, ib)
    BY <1>1
<1> HIDE DEF m, ib
<1>5. SendRequest(s, m, rs) \in SchedulingType
    BY <1>1, SendRequestType
<1>6. Scheduling' = SendRequest(s, m, rs)
    BY <1>2, <1>5, ScheduleIs
<1>7. /\ Singles(SendRequest(s, m, rs), ib)
      /\ \A u \in Trid, r \in RM : Asked(SendRequest(s, m, rs), ib, u, r) =
            IF u = m.trid /\ r \in rs THEN {m.op} ELSE Asked(s, ib, u, r)
    BY <1>1, <1>3, <1>4, SendRequestAsks
<1> QED BY <1>1, <1>6, <1>7 DEF Way, ib

-----------------------------------------------------------------------------
(* What the owners ask for.                                                *)

\* A transaction that is gone has nothing left to ask.
LEMMA ErasedCourse ==
    ASSUME NEW t \in Trid, resources'[t] = {}, stage'[t] = [r \in RM |-> cInvolved],
           \A r \in RM : Way(t, r)' = {}, calls'[t] = {} \/ Leaving(t)' \/ Orphaned(t)'
    PROVE  Course(t)'
BY DEF Course, Requested, Deciding

\* A transaction that is closed, with requests that agree with the stages.
LEMMA ClosedCourse ==
    ASSUME NEW t \in Trid, Closed(t)', t \in transactions',
           \A r \in RM : Requested(t, r)' <=> Way(t, r)' # {},
           \A r \in RM \ resources'[t] : stage'[t][r] = cInvolved,
           \A r \in RM : "prepare" \in Way(t, r)' => stage'[t][r] = cPrepareRequested,
           \A r, q \in RM : "prepare" \in Way(t, r)' => "commit" \notin Way(t, q)',
           Deciding(t)' => \A r \in resources'[t] : stage'[t][r] # cRollbackRequested
    PROVE  Course(t)'
BY DEF Course, Closed

\* handle::Commit asks each resource of the transaction once, and no more once it is asked.
LEMMA CommitCoursed ==
    ASSUME TypeOK, TypeOK', Coursed, NEW t \in Trid, Commit(t)
    PROVE  Coursed'
<1> DEFINE rs == Involve(t, own[t])
<1>1. rs \in SUBSET RM /\ rs = resources[t] \cup (own[t] \cap RM)
    BY DEF TypeOK, Involve
<1>2. UNCHANGED <<unsent, inbound, own, calls, alive>> /\ calls[t] = {}
    BY DEF Commit
<1>3. CommitRefused(t, rs) \/ CommitEmpty(t, rs) \/ CommitResources(t, rs)
    BY DEF Commit
<1>4. client[t] = "active" /\ Owner[t] \in alive
    BY AsksMoves DEF Commit
<1>5. \A u \in Trid \ {t} : Calm(u)
    BY CommitAlone DEF Alone, Untouched, Calm
<1>6. Singles(Scheduling, inbound) /\ Course(t)
    BY DEF Coursed
<1>7. stage[t] \in [RM -> Stage] /\ resources[t] \in SUBSET RM
    BY DEF TypeOK
<1> HIDE DEF rs
<1>8. CASE CommitRefused(t, rs) \/ CommitEmpty(t, rs)
    <2>1. UNCHANGED <<inbox, pendingRequests>>
        BY <1>8 DEF CommitRefused, CommitEmpty
    <2>2. /\ \A u \in Trid, r \in RM : Asked(Scheduling', inbound', u, r) = Asked(Scheduling, inbound, u, r)
          /\ Singles(Scheduling', inbound')
        <3>1. Scheduling'.inbox = Scheduling.inbox /\ Scheduling'.pending = Scheduling.pending
            BY <2>1 DEF Scheduling
        <3> QED BY <1>2, <1>6, <3>1, SameQueues
    <2>3. \A u \in Trid, r \in RM : Way(u, r)' = Way(u, r)
        BY <2>2 DEF Way
    <2>4. Course(t)'
        <3>1. CASE CommitEmpty(t, rs)
            <4>1. rs = {} /\ resources'[t] = {} /\ stage'[t] = [r \in RM |-> cInvolved]
                BY <1>8, <3>1 DEF CommitEmpty, Erase, TypeOK
            <4>2. \A r \in RM : Way(t, r)' = {}
                BY <1>1, <1>6, <2>3, <4>1 DEF Course, Requested
            <4> QED BY <1>2, <4>1, <4>2, ErasedCourse
        <3>2. CASE CommitRefused(t, rs)
            <4>1. /\ t \in transactions' /\ resources'[t] = rs /\ stage' = stage
                  /\ LeastStage(stage[t], rs) \notin {cInvolved, cNotInvolved}
                BY <3>2 DEF CommitRefused, TypeOK
            <4>2. \A r \in rs : stage[t][r] # cInvolved
                BY <1>1, <1>7, <4>1, StageLeast DEF Stage, cInvolved
            <4>3. Closed(t)'
                BY <1>1, <1>2, <4>1, <4>2 DEF Closed
            <4>4. \A r \in RM : Requested(t, r)' <=> Requested(t, r)
                BY <1>1, <1>6, <4>1, <4>2
                   DEF Requested, Course, cInvolved, cPrepareRequested, cCommitRequested, cRollbackRequested
            <4>5. \A r \in RM \ resources'[t] : stage'[t][r] = cInvolved
                BY <1>1, <1>6, <4>1 DEF Course
            <4>6. Deciding(t)' => \A r \in resources'[t] : stage'[t][r] # cRollbackRequested
                BY <1>1, <1>6, <2>3, <4>1 DEF Course, Deciding, Closed
            <4> QED BY <1>6, <2>3, <4>1, <4>3, <4>4, <4>5, <4>6, ClosedCourse DEF Course
        <3> QED BY <1>8, <3>1, <3>2
    <2> QED BY <1>5, <2>2, <2>3, <2>4, OthersCoursed
<1>9. CASE CommitResources(t, rs)
    <2> DEFINE to == AtStage(stage[t], rs, cInvolved)
               one == Cardinality(rs) = 1
               op == IF one THEN "commit" ELSE "prepare"
               newStage == IF one THEN cCommitRequested ELSE cPrepareRequested
    <2>1. /\ t \in transactions' /\ resources'[t] = rs
          /\ RequestResources(Scheduling, t, to, op, one, newStage)
        BY <1>9 DEF CommitResources, TypeOK
    <2>2. /\ \A r \in RM : stage'[t][r] = IF r \in to THEN newStage ELSE stage[t][r]
          /\ Schedule(SendRequest(Scheduling, [op |-> op, trid |-> t, onephase |-> one], to))
        BY <2>1 DEF RequestResources, TypeOK
    <2>3. to \subseteq rs /\ \A r \in rs : r \in to <=> stage[t][r] = cInvolved
        BY DEF AtStage
    <2>4. /\ op \in {"prepare", "commit"} /\ one \in BOOLEAN
          /\ op = "prepare" => newStage = cPrepareRequested
          /\ op = "commit" => newStage = cCommitRequested /\ \E r : rs = {r}
          /\ newStage \in {cCommitRequested, cPrepareRequested}
        BY <1>1, <1>9, OneOrTwo DEF CommitResources
    <2> HIDE DEF to, one, op, newStage
    <2>5. \A r \in to : Way(t, r) = {}
        BY <1>1, <1>6, <2>3
           DEF Course, Requested, cInvolved, cPrepareRequested, cCommitRequested, cRollbackRequested
    <2>6. to # {} => ~ Closed(t)
        BY <1>1, <2>3 DEF Closed
    <2>7. /\ Singles(Scheduling', inbound')
          /\ \A u \in Trid \ {t}, r \in RM : Way(u, r)' = Way(u, r)
          /\ \A r \in RM : Way(t, r)' = IF r \in to THEN {op} ELSE Way(t, r)
        <3>1. /\ Scheduling \in SchedulingType
              /\ Singles(Scheduling, inbound') /\ to \in SUBSET RM /\ op \in {"prepare", "commit", "rollback"}
            BY <1>1, <1>2, <1>6, <2>3, <2>4, SchedulingOK
        <3>2. Free(Scheduling, inbound', t, to)
            BY <1>2, <2>5 DEF Way, Free
        <3>3. /\ Singles(Scheduling', inbound')
              /\ \A u \in Trid, r \in RM : Way(u, r)' =
                    IF u = t /\ r \in to THEN {op} ELSE Asked(Scheduling, inbound', u, r)
            BY <2>2, <2>4, <3>1, <3>2, AsksWays
        <3> QED BY <1>2, <3>3 DEF Way
    <2>8. Closed(t)'
        BY <1>1, <1>2, <2>1, <2>2, <2>3, <2>4
           DEF Closed, cInvolved, cPrepareRequested, cCommitRequested
    <2>9. ASSUME NEW r \in RM PROVE Requested(t, r)' <=> Way(t, r)' # {}
        BY <1>1, <1>6, <2>1, <2>2, <2>3, <2>4, <2>7
           DEF Course, Requested, cInvolved, cPrepareRequested, cCommitRequested, cRollbackRequested
    <2>10. \A r \in RM \ resources'[t] : stage'[t][r] = cInvolved
        BY <1>1, <1>6, <2>1, <2>2, <2>3 DEF Course
    <2>11. CASE to = {}
        <3>1. \A r \in RM : Way(t, r)' = Way(t, r) /\ stage'[t][r] = stage[t][r]
            BY <2>2, <2>7, <2>11
        <3>2. Deciding(t)' => \A r \in resources'[t] : stage'[t][r] # cRollbackRequested
            BY <1>1, <1>6, <2>1, <3>1 DEF Course, Deciding, Closed
        <3>3. Course(t)'
            BY <1>6, <2>1, <2>8, <2>9, <2>10, <3>1, <3>2, ClosedCourse DEF Course
        <3> QED BY <1>5, <2>7, <3>3, OthersCoursed
    <2>12. CASE to # {}
        <3>1. ~ Deciding(t) /\ \A r \in resources[t] : stage[t][r] # cRollbackRequested
            BY <1>4, <1>6, <2>6, <2>12 DEF Course, Leaving, Mild, Orphaned
        <3>2. \A r \in RM \ to : "prepare" \notin Way(t, r)' /\ "commit" \notin Way(t, r)'
            BY <2>7, <3>1 DEF Deciding
        <3>3. \A r \in RM : "prepare" \in Way(t, r)' => stage'[t][r] = cPrepareRequested
            BY <2>2, <2>4, <2>7, <3>2
        <3>4. \A r, q \in RM : "prepare" \in Way(t, r)' => "commit" \notin Way(t, q)'
            BY <2>4, <2>7, <3>2
        <3>5. \A r \in resources'[t] : stage'[t][r] # cRollbackRequested
            BY <1>1, <1>6, <2>1, <2>2, <2>3, <2>4, <3>1
               DEF Course, cInvolved, cPrepareRequested, cCommitRequested, cRollbackRequested
        <3>6. Course(t)'
            BY <2>1, <2>8, <2>9, <2>10, <3>3, <3>4, <3>5, ClosedCourse
        <3> QED BY <1>5, <2>7, <3>6, OthersCoursed
    <2> QED BY <2>11, <2>12
<1> QED BY <1>3, <1>8, <1>9

\* basic_rollback asks each resource that has not been asked yet, and no more once all are.
LEMMA RollCoursed ==
    ASSUME TypeOK, TypeOK', Coursed, NEW t \in Trid, NEW rs \in SUBSET RM, NEW c, Roll(t, rs, c),
           resources[t] \subseteq rs, rs \subseteq resources[t] \cup own[t],
           UNCHANGED <<inbound, own, calls, alive>>, \A u \in Trid \ {t} : Calm(u),
           (calls[t] = {} /\ own[t] \cap RM \subseteq rs) \/ Orphaned(t) \/ Mild(t)'
    PROVE  Coursed'
<1>1. Singles(Scheduling, inbound) /\ Course(t)
    BY DEF Coursed
<1>2. stage[t] \in [RM -> Stage] /\ resources[t] \in SUBSET RM
    BY DEF TypeOK
<1>3. Orphaned(t)' <=> Orphaned(t)
    BY DEF Orphaned
<1>4. CASE rs = {}
    <2>1. /\ resources'[t] = {} /\ stage'[t] = [r \in RM |-> cInvolved]
          /\ UNCHANGED <<inbox, pendingRequests>>
        BY <1>4 DEF Roll, Erase, TypeOK
    <2>2. /\ \A u \in Trid, r \in RM : Asked(Scheduling', inbound', u, r) = Asked(Scheduling, inbound, u, r)
          /\ Singles(Scheduling', inbound')
        <3>1. Scheduling'.inbox = Scheduling.inbox /\ Scheduling'.pending = Scheduling.pending
            BY <2>1 DEF Scheduling
        <3> QED BY <1>1, <3>1, SameQueues
    <2>3. \A u \in Trid, r \in RM : Way(u, r)' = Way(u, r)
        BY <2>2 DEF Way
    <2>4. \A r \in RM : Way(t, r)' = {}
        BY <1>1, <1>4, <2>3 DEF Course, Requested
    <2>5. ~ Deciding(t)'
        BY <2>4 DEF Deciding
    <2>6. Course(t)'
        BY <1>3, <2>1, <2>4, <2>5, ErasedCourse DEF Leaving
    <2> QED BY <2>2, <2>3, <2>6, OthersCoursed
<1>5. CASE rs # {}
    <2> DEFINE to == AtStage(stage[t], rs, cInvolved)
               op == "rollback"
               one == FALSE
    <2>1. /\ t \in transactions' /\ resources'[t] = rs
          /\ RequestResources(Scheduling, t, to, "rollback", FALSE, cRollbackRequested)
        BY <1>5 DEF Roll, TypeOK
    <2>2. /\ \A r \in RM : stage'[t][r] = IF r \in to THEN cRollbackRequested ELSE stage[t][r]
          /\ Schedule(SendRequest(Scheduling, [op |-> op, trid |-> t, onephase |-> one], to))
        BY <2>1 DEF RequestResources, TypeOK
    <2>3. to \subseteq rs /\ \A r \in rs : r \in to <=> stage[t][r] = cInvolved
        BY DEF AtStage
    <2>0. op \in {"prepare", "commit", "rollback"} /\ one \in BOOLEAN /\ op = "rollback"
        OBVIOUS
    <2> HIDE DEF to, op, one
    <2>4. \A r \in to : Way(t, r) = {}
        BY <1>1, <2>3
           DEF Course, Requested, cInvolved, cPrepareRequested, cCommitRequested, cRollbackRequested
    <2>5. to # {} => ~ Closed(t)
        BY <2>3 DEF Closed
    <2>6. /\ Singles(Scheduling', inbound')
          /\ \A u \in Trid \ {t}, r \in RM : Way(u, r)' = Way(u, r)
          /\ \A r \in RM : Way(t, r)' = IF r \in to THEN {"rollback"} ELSE Way(t, r)
        <3>1. /\ Scheduling \in SchedulingType
              /\ Singles(Scheduling, inbound') /\ to \in SUBSET RM
            BY <1>1, <2>3, SchedulingOK
        <3>2. Free(Scheduling, inbound', t, to)
            BY <2>4 DEF Way, Free
        <3>3. /\ Singles(Scheduling', inbound')
              /\ \A u \in Trid, r \in RM : Way(u, r)' =
                    IF u = t /\ r \in to THEN {op} ELSE Asked(Scheduling, inbound', u, r)
            BY <2>0, <2>2, <3>1, <3>2, AsksWays
        <3> QED BY <2>0, <3>3 DEF Way
    <2>7. \A r \in resources'[t] : stage'[t][r] # cInvolved
        BY <2>1, <2>2, <2>3 DEF cInvolved, cRollbackRequested
    <2>8. Closed(t)' \/ Orphaned(t)' \/ Mild(t)'
        BY <1>3, <2>1, <2>7 DEF Closed
    <2>9. Deciding(t)' => Deciding(t) /\ to = {}
        <3>1. Deciding(t)' => Deciding(t)
            BY <2>6 DEF Deciding
        <3>2. Deciding(t) => Closed(t)
            BY <1>1 DEF Course
        <3> QED BY <2>5, <3>1, <3>2
    <2>10. Deciding(t)' => Closed(t)' /\ \A r \in resources'[t] : stage'[t][r] # cRollbackRequested
        <3>1. to = {} => \A r \in rs : r \in resources[t]
            BY <1>1, <2>3 DEF Course
        <3> QED BY <1>1, <2>1, <2>2, <2>7, <2>9, <3>1 DEF Course, Closed
    <2>11. \A r \in RM : Requested(t, r)' <=> Way(t, r)' # {}
        BY <1>1, <2>1, <2>2, <2>3, <2>6
           DEF Course, Requested, cInvolved, cPrepareRequested, cCommitRequested, cRollbackRequested
    <2>12. \A r \in RM \ resources'[t] : stage'[t][r] = cInvolved
        BY <1>1, <2>1, <2>2, <2>3 DEF Course
    <2>13. \A r \in RM : "prepare" \in Way(t, r)' => stage'[t][r] = cPrepareRequested
        BY <1>1, <2>2, <2>6 DEF Course
    <2>14. \A r, q \in RM : "prepare" \in Way(t, r)' => "commit" \notin Way(t, q)'
        BY <1>1, <2>6 DEF Course
    <2>15. Closed(t)' \/ Leaving(t)' \/ Orphaned(t)'
        BY <2>8, <2>10 DEF Leaving
    <2>16. Closed(t)' => calls'[t] = {}
        BY DEF Closed
    <2>17. Course(t)'
        BY <2>1, <2>10, <2>11, <2>12, <2>13, <2>14, <2>15, <2>16 DEF Course
    <2> QED BY <2>6, <2>17, OthersCoursed
<1> QED BY <1>4, <1>5

\* handle::Rollback, also while servers of the transaction are still at work.
LEMMA RollbackCoursed ==
    ASSUME TypeOK, TypeOK', Coursed, NEW t \in Trid, Rollback(t)
    PROVE  Coursed'
<1> DEFINE rs == Involve(t, own[t])
<1>1. rs \in SUBSET RM /\ rs = resources[t] \cup (own[t] \cap RM)
    BY DEF TypeOK, Involve
<1>2. UNCHANGED <<unsent, log, inbound, own, calls, alive>> /\ Roll(t, rs, sent'[t])
    BY DEF Rollback
<1>3. /\ client[t] = "active" /\ Owner[t] \in alive
      /\ client'[t] = "rollback" /\ sent'[t] \in 0 .. MaxRequests
      /\ \A u \in Trid \ {t} : client'[u] = client[u]
    BY AsksMoves DEF Rollback
<1> DEFINE n == RollbackReply(t, "rollback", cXA_OK, sent'[t])
<1>4. (rs = {} /\ Tells(n)) \/ NoReply
    <2>1. n \in Reply
        BY <1>3, ReplyTypes, StagesTyped
    <2>2. CASE rs = {}
        <3>1. SendReply(n)
            BY <2>2 DEF Rollback
        <3> QED BY <1>2, <2>1, <2>2, <3>1, TellsOne
    <2> QED BY <2>2 DEF Rollback
<1>5. n.trid = t /\ n.type = "rollback" /\ n.stage = "rollback" /\ n.state = cXA_OK
    BY DEF RollbackReply
<1> HIDE DEF n, rs
<1>6. ASSUME NEW a \in Reply, Told(a)' PROVE Told(a) \/ (rs = {} /\ a = n)
    BY <1>2, <1>4, <1>6 DEF Tells, NoReply, Told
<1>7. /\ result'[t] = result[t] \/ AllOk(t)'
      /\ \A u \in Trid \ {t} :
            /\ u \in transactions' <=> u \in transactions
            /\ resources'[u] = resources[u] /\ stage'[u] = stage[u] /\ result'[u] = result[u]
    BY <1>1, <1>2, RollMoves
<1>8. \A u \in Trid \ {t} : Calm(u)
    <2>1. \A u \in Trid \ {t} : TellsNothing(u)
        BY <1>5, <1>6 DEF TellsNothing
    <2> QED BY <1>2, <1>3, <1>7, <2>1 DEF Calm
<1>9. (calls[t] = {} /\ own[t] \cap RM \subseteq rs) \/ Mild(t)'
    <2>1. CASE calls[t] # {}
        <3>1. Unasked(t)
            BY <1>3, <2>1 DEF Coursed, Course, Leaving, Mild, Orphaned
        <3>2. AllOk(t)'
            BY <1>7, <3>1 DEF Unasked, AllOk
        <3>3. ASSUME NEW a \in Reply, a.trid = t, Told(a)' PROVE a = n
            BY <1>6, <3>1, <3>3 DEF Unasked
        <3>4. Mild(t)'
            BY <1>3, <1>5, <3>2, <3>3 DEF Mild
        <3> QED BY <3>4
    <2> QED BY <1>1, <2>1
<1> QED BY <1>1, <1>2, <1>8, <1>9, RollCoursed

\* The rollback that handle::process::Exit starts for a dead owner.
LEMMA ExitRollbackCoursed ==
    ASSUME TypeOK, TypeOK', Coursed, NEW t \in Trid, Owner[t] \notin alive, ExitRollback(t)
    PROVE  Coursed'
<1>1. /\ UNCHANGED <<persistentReplies, received, unsent, log, inbound, branch, client, sent, own, calls, alive>>
      /\ Roll(t, resources[t], 0) /\ resources[t] \in SUBSET RM
    BY DEF ExitRollback, clientVars, TypeOK
<1>2. \A u \in Trid \ {t} :
            /\ u \in transactions' <=> u \in transactions
            /\ resources'[u] = resources[u] /\ stage'[u] = stage[u] /\ result'[u] = result[u]
    BY <1>1, RollMoves
<1>3. \A u \in Trid : TellsNothing(u)
    BY <1>1, NoReplyTells
<1>4. \A u \in Trid \ {t} : Calm(u)
    BY <1>1, <1>2, <1>3 DEF Calm
<1>5. Orphaned(t)
    BY DEF Orphaned
<1> QED BY <1>1, <1>4, <1>5, RollCoursed

-----------------------------------------------------------------------------
(* The servers, the owners and the pump.                                   *)

\* A step that leaves the queues of the requests and the answers alone asks nothing.
LEMMA QueuesKeptWays ==
    ASSUME Coursed, QueuesKept, UNCHANGED inbound
    PROVE  /\ Singles(Scheduling', inbound')
           /\ \A u \in Trid, r \in RM : Asked(Scheduling', inbound', u, r) = Asked(Scheduling, inbound, u, r)
           /\ \A u \in Trid, r \in RM : Way(u, r)' = Way(u, r)
<1>1. Scheduling'.inbox = Scheduling.inbox /\ Scheduling'.pending = Scheduling.pending
    BY DEF QueuesKept, Scheduling
<1>2. Singles(Scheduling, inbound)
    BY DEF Coursed
<1>3. /\ Singles(Scheduling', inbound)
      /\ \A u \in Trid, r \in RM : Asked(Scheduling', inbound, u, r) = Asked(Scheduling, inbound, u, r)
    BY <1>1, <1>2, SameQueues
<1> QED BY <1>3 DEF Way

\* A step that leaves the transactions alone and tells nothing is calm.
LEMMA StateKeptCalm ==
    ASSUME StateKept, \A u \in Trid : TellsNothing(u)
    PROVE  \A u \in Trid : Calm(u)
BY DEF StateKept, Calm

\* handle::resource::Involved comes before the end is asked for, or in a rollback.
LEMMA InvolvedCoursed ==
    ASSUME TypeOK, Coursed, NEW t \in Trid, NEW id \in ResourceId, Involved(t, id)
    PROVE  Coursed'
<1>1. /\ UNCHANGED <<stage, result, inbox, pendingRequests, persistentReplies, received, unsent, inbound,
                     client, own, alive>>
      /\ calls[t] # {} /\ calls'[t] \subseteq calls[t]
      /\ t \in transactions' /\ resources'[t] = resources[t] \cup ({id} \cap RM)
      /\ \A u \in Trid \ {t} : /\ u \in transactions' <=> u \in transactions
                               /\ resources'[u] = resources[u] /\ calls'[u] = calls[u]
    BY DEF Involved, Involve, TypeOK
<1>2. \A u \in Trid : TellsNothing(u)
    BY <1>1, NoReplyTells
<1>3. \A u \in Trid \ {t} : Calm(u)
    BY <1>1, <1>2 DEF Calm
<1>4. /\ Singles(Scheduling', inbound')
      /\ \A u \in Trid, r \in RM : Way(u, r)' = Way(u, r)
    BY <1>1, QueuesKeptWays DEF QueuesKept
<1>5. Course(t) /\ ~ Closed(t) /\ ~ Deciding(t)
    BY <1>1 DEF Coursed, Course, Closed
<1>6. ~ Deciding(t)'
    BY <1>4, <1>5 DEF Deciding
<1>7. Orphaned(t)' <=> Orphaned(t)
    BY <1>1 DEF Orphaned
<1>8. Unasked(t) => Unasked(t)'
    BY <1>1, <1>2, <1>4 DEF Unasked, AllOk, TellsNothing
<1>9. Mild(t) => Mild(t)'
    BY <1>1, <1>2 DEF Mild, AllOk, TellsNothing
<1>10. Leaving(t) => Leaving(t)'
    BY <1>6, <1>9 DEF Leaving
<1>11. \A r \in RM \ resources[t] : stage[t][r] = cInvolved
    BY <1>5 DEF Course
<1>12. \A r \in RM : Requested(t, r)' <=> Requested(t, r)
    BY <1>1, <1>11 DEF Requested, cInvolved, cPrepareRequested, cCommitRequested, cRollbackRequested
<1>13. (\E r \in resources'[t] : stage'[t][r] = cRollbackRequested)
          => \E r \in resources[t] : stage[t][r] = cRollbackRequested
    BY <1>1, <1>11 DEF cInvolved, cRollbackRequested
<1>14. (\E r \in resources[t] : stage[t][r] = cRollbackRequested) => Leaving(t)' \/ Orphaned(t)'
    BY <1>5, <1>7, <1>10 DEF Course
<1>15. Unasked(t)' \/ Leaving(t)' \/ Orphaned(t)'
    BY <1>1, <1>5, <1>7, <1>8, <1>10 DEF Course
<1>16. Course(t)'
    BY <1>1, <1>4, <1>5, <1>6, <1>11, <1>12, <1>13, <1>14, <1>15 DEF Course
<1> QED BY <1>3, <1>4, <1>16, OthersCoursed

\* An owner that reads a reply has asked for the end.
LEMMA ReceiveCoursed ==
    ASSUME TypeOK, Addressed, Coursed, NEW t \in Trid, Receive(t)
    PROVE  Coursed'
<1>1. UNCHANGED <<transactions, resources, stage, result, inbox, pendingRequests, inbound, own, calls, alive>>
    BY DEF Receive, transVars, proxyVars
<1>2. /\ \A u \in Trid : TellsNothing(u)
      /\ Owner[t] \in alive
      /\ client[t] \in Waiting
      /\ \A u \in Trid \ {t} : client'[u] = client[u]
    BY ReceiveMoves
<1>3. PICK m \in Reply : /\ m.trid = t /\ Told(m)
                         /\ m.type = client[t] \/ client[t] = "logged"
                         /\ m.stage # "prepare" /\ m.state \in {cXA_OK, cXA_RDONLY} => client'[t] = "done"
    BY ReceiveMoves
<1>4. \A u \in Trid \ {t} : Calm(u)
    BY <1>1, <1>2 DEF Calm
<1>5. /\ Singles(Scheduling', inbound')
      /\ \A u \in Trid, r \in RM : Way(u, r)' = Way(u, r)
    BY <1>1, QueuesKeptWays DEF QueuesKept
<1>6. Course(t) /\ ~ Unasked(t) /\ ~ Orphaned(t)
    BY <1>2, <1>3 DEF Coursed, Unasked, Orphaned
<1>7. (Deciding(t)' <=> Deciding(t)) /\ (Closed(t)' <=> Closed(t))
    BY <1>1, <1>5 DEF Deciding, Closed
<1>8. Leaving(t) => Leaving(t)'
    <2>1. Mild(t) => Mild(t)'
        BY <1>1, <1>2, <1>3 DEF Mild, AllOk, TellsNothing, Waiting
    <2> QED BY <1>7, <2>1 DEF Leaving
<1>9. \A r \in RM : Requested(t, r)' <=> Requested(t, r)
    BY <1>1 DEF Requested
<1>10. Course(t)'
    BY <1>1, <1>5, <1>6, <1>7, <1>8, <1>9 DEF Course
<1> QED BY <1>4, <1>5, <1>10, OthersCoursed

\* An owner that gives up has asked for a commit.
LEMMA GiveUpCoursed ==
    ASSUME TypeOK, Coursed, NEW t \in Trid, GiveUp(t)
    PROVE  Coursed'
<1>1. /\ UNCHANGED <<transactions, resources, stage, result, inbox, pendingRequests, inbound, own, calls, alive>>
      /\ UNCHANGED <<persistentReplies, received, unsent>>
      /\ client[t] = "logged" /\ Owner[t] \in alive
      /\ \A u \in Trid \ {t} : client'[u] = client[u]
    BY DEF GiveUp, transVars, proxyVars, TypeOK
<1>2. \A u \in Trid : TellsNothing(u)
    BY <1>1, NoReplyTells
<1>3. \A u \in Trid \ {t} : Calm(u)
    BY <1>1, <1>2 DEF Calm
<1>4. /\ Singles(Scheduling', inbound')
      /\ \A u \in Trid, r \in RM : Way(u, r)' = Way(u, r)
    BY <1>1, QueuesKeptWays DEF QueuesKept
<1>5. Course(t) /\ ~ Unasked(t) /\ ~ Leaving(t) /\ ~ Orphaned(t)
    BY <1>1 DEF Coursed, Unasked, Leaving, Mild, Orphaned
<1>6. (Deciding(t)' <=> Deciding(t)) /\ (Closed(t)' <=> Closed(t))
    BY <1>1, <1>4 DEF Deciding, Closed
<1>7. \A r \in RM : Requested(t, r)' <=> Requested(t, r)
    BY <1>1 DEF Requested
<1>8. Course(t)'
    BY <1>1, <1>4, <1>5, <1>6, <1>7 DEF Course
<1> QED BY <1>3, <1>4, <1>8, OthersCoursed

\* Deaths, the write of the log and the replies that waited for it ask nothing.
LEMMA BatchCoursed ==
    ASSUME TypeOK, Coursed,
           (\E p \in Process : Exit(p) \/ Ends(p)) \/ WriteBatch \/ SendBatch \/ EndBatch
    PROVE  Coursed'
<1>1. StateKept /\ QueuesKept /\ UNCHANGED inbound
    BY DEF StateKept, QueuesKept, Exit, Ends, WriteBatch, SendBatch, EndBatch, transVars, proxyVars, clientVars
<1>2. \A u \in Trid : TellsNothing(u)
    <2>1. CASE (\E p \in Process : Exit(p) \/ Ends(p)) \/ WriteBatch
        <3>1. UNCHANGED <<persistentReplies, received, unsent>>
            BY <2>1 DEF WriteBatch, Exit, Ends
        <3> QED BY <3>1, NoReplyTells
    <2>2. CASE SendBatch
        BY <2>2, SendBatchTells
    <2>3. CASE EndBatch
        BY <2>3 DEF EndBatch, TellsNothing, Told
    <2> QED BY <2>1, <2>2, <2>3
<1> QED BY <1>1, <1>2, StateKeptCalm, QueuesKeptWays, KeptCoursed

\* reply::Connect reads no answer; a pending request goes to the new instance.
LEMMA ConnectCoursed ==
    ASSUME TypeOK, Coursed, NEW m \in inbound, Connect(m)
    PROVE  Coursed'
<1> DEFINE s == Done(Scheduling, m.instance)
<1>1. /\ StateKept /\ RepliesKept
      /\ m.op = "connect" /\ inbound' = inbound \ {m} /\ m.instance \in Instance
    BY DEF StateKept, RepliesKept, Connect, transVars, proxyVars, clientVars, TypeOK, ConnectReply, ResourceReply
<1>2. \A u \in Trid : Calm(u)
    BY <1>1, NoReplyTells, StateKeptCalm DEF RepliesKept
<1>3. Singles(Scheduling, inbound) /\ Scheduling \in SchedulingType
    BY SchedulingOK DEF Coursed
<1>4. /\ Singles(Scheduling', inbound)
      /\ \A u \in Trid, r \in RM : Asked(Scheduling', inbound, u, r) = Asked(Scheduling, inbound, u, r)
    <2>1. CASE m.state = cXA_OK
        <3>1. Schedule(s)
            BY <2>1 DEF Connect
        <3>2. Scheduling' = s
            BY <1>1, <1>3, <3>1, DoneType, ScheduleIs
        <3> QED BY <1>1, <1>3, <3>2, DoneAsks
    <2>2. CASE m.state # cXA_OK
        <3>1. UNCHANGED <<inbox, pendingRequests>>
            BY <2>2 DEF Connect, Schedule, Scheduling
        <3>2. Scheduling'.inbox = Scheduling.inbox /\ Scheduling'.pending = Scheduling.pending
            BY <3>1 DEF Scheduling
        <3> QED BY <1>3, <3>2, SameQueues
    <2> QED BY <2>1, <2>2
<1>5. /\ Singles(Scheduling', inbound')
      /\ \A u \in Trid, r \in RM : Asked(Scheduling', inbound', u, r) = Asked(Scheduling', inbound, u, r)
    <2> DEFINE new == Scheduling'
               rest == inbound'
    <2>1. \A a : a \in rest /\ a.op # "connect" <=> a \in inbound /\ a.op # "connect"
        BY <1>1
    <2>2. Singles(new, inbound)
        BY <1>4
    <2> HIDE DEF new, rest
    <2>3. Singles(new, rest) /\ \A u, r : Asked(new, rest, u, r) = Asked(new, inbound, u, r)
        BY <2>1, <2>2, SameAnswersAsk
    <2> QED BY <2>3 DEF new, rest
<1> QED BY <1>2, <1>4, <1>5, KeptCoursed

\* basic_open answers no request.
LEMMA ProxyOpenCoursed ==
    ASSUME TypeOK, Coursed, NEW i \in Instance, ProxyOpen(i)
    PROVE  Coursed'
<1>1. StateKept /\ RepliesKept /\ QueuesKept
    BY DEF StateKept, RepliesKept, QueuesKept, ProxyOpen, transVars, clientVars
<1>2. \A u \in Trid : Calm(u)
    BY <1>1, NoReplyTells, StateKeptCalm DEF RepliesKept
<1>3. PICK x \in OpenResults : inbound' = inbound \cup {[op |-> "connect", instance |-> i, state |-> x]}
    BY DEF ProxyOpen
<1>4. Singles(Scheduling, inbound)
    BY DEF Coursed
<1>5. /\ Singles(Scheduling', inbound)
      /\ \A u \in Trid, r \in RM : Asked(Scheduling', inbound, u, r) = Asked(Scheduling, inbound, u, r)
    <2>1. Scheduling'.inbox = Scheduling.inbox /\ Scheduling'.pending = Scheduling.pending
        BY <1>1 DEF QueuesKept, Scheduling
    <2> QED BY <1>4, <2>1, SameQueues
<1>6. /\ Singles(Scheduling', inbound')
      /\ \A u \in Trid, r \in RM : Asked(Scheduling', inbound', u, r) = Asked(Scheduling', inbound, u, r)
    <2> DEFINE new == Scheduling'
               rest == inbound'
    <2>1. \A a : a \in rest /\ a.op # "connect" <=> a \in inbound /\ a.op # "connect"
        BY <1>3
    <2>2. Singles(new, inbound)
        BY <1>5
    <2> HIDE DEF new, rest
    <2>3. Singles(new, rest) /\ \A u, r : Asked(new, rest, u, r) = Asked(new, inbound, u, r)
        BY <2>1, <2>2, SameAnswersAsk
    <2> QED BY <2>3 DEF new, rest
<1> QED BY <1>2, <1>5, <1>6, KeptCoursed

\* A proxy turns a request into an answer.
LEMMA ProxyRequestCoursed ==
    ASSUME TypeOK, TypeOK', Coursed, NEW i \in Instance, ProxyRequest(i)
    PROVE  Coursed'
<1>1. /\ UNCHANGED <<transactions, resources, stage, result, log, client, sent, own, calls, alive>>
      /\ UNCHANGED <<persistentReplies, received, unsent>>
    BY ProxyRequestMoves
<1>2. \A u \in Trid : TellsNothing(u)
    BY <1>1, NoReplyTells
<1>3. \A u \in Trid : Calm(u)
    BY <1>1, <1>2 DEF Calm
<1>4. Singles(Scheduling, inbound)
    BY DEF Coursed
<1> QED BY <1>3, <1>4, AnswerAsks, KeptCoursed

-----------------------------------------------------------------------------
(* The answers.                                                            *)

\* Reading an answer: it is the only thing asked of its resource, which is one that was
\* requested, and instance::done asks nothing new.
LEMMA ReadWays ==
    ASSUME TypeOK, Coursed, NEW m \in inbound, m.op # "connect", inbound' = inbound \ {m},
           NEW s, s = Done(Scheduling, m.instance)
    PROVE  /\ m \in ResourceReply /\ m.trid \in Trid /\ m.instance \in Instance /\ m.instance[1] \in RM
           /\ s \in SchedulingType /\ Follows(s)
           /\ Singles(s, inbound')
           /\ \A u \in Trid, q \in RM : Asked(s, inbound', u, q) =
                 IF u = m.trid /\ q = m.instance[1] THEN {} ELSE Way(u, q)
           /\ m.op \in Way(m.trid, m.instance[1])
           /\ m.trid \in transactions /\ m.instance[1] \in resources[m.trid]
<1> DEFINE t == m.trid
           r == m.instance[1]
<1>1. m \in ResourceReply /\ t \in Trid /\ m.instance \in Instance /\ r \in RM
    BY DEF TypeOK, ConnectReply, ResourceReply, Instance
<1>2. s \in SchedulingType /\ Follows(s)
    BY <1>1, SchedulingOK, DoneType, DoneFollows
<1>3. Singles(Scheduling, inbound) /\ \A u \in Trid : Course(u)
    BY DEF Coursed
<1>4. Singles(s, inbound) /\ \A u \in Trid, q \in RM : Asked(s, inbound, u, q) = Way(u, q)
    BY <1>1, <1>3, SchedulingOK, DoneAsks DEF Way
<1>5. Unread(inbound)
    BY DEF TypeOK, Unread
<1>6. /\ Singles(s, inbound \ {m})
      /\ \A u \in Trid, q \in RM : Asked(s, inbound \ {m}, u, q) =
            IF u = m.trid /\ q = m.instance[1] THEN {} ELSE Asked(s, inbound, u, q)
      /\ m.op \in Asked(s, inbound, m.trid, m.instance[1])
    <2>1. m \in inbound /\ m.op # "connect" /\ Singles(s, inbound)
        BY <1>4
    <2> QED BY ONLY <1>5, <2>1, ReadAsks
<1>7. m.op \in Way(t, r)
    BY <1>1, <1>4, <1>6
<1>8. t \in transactions /\ r \in resources[t]
    BY <1>1, <1>3, <1>7 DEF Course, Requested
<1> HIDE DEF t, r
<1>9. \A u \in Trid, q \in RM : Asked(s, inbound \ {m}, u, q) =
            IF u = m.trid /\ q = m.instance[1] THEN {} ELSE Way(u, q)
    BY <1>4, <1>6
<1> QED BY <1>1, <1>2, <1>6, <1>7, <1>8, <1>9 DEF t, r

\* The transactions that the answer is not about.
LEMMA OthersCalm ==
    ASSUME NEW t \in Trid, NEW m, Others(t), Takes(m)
    PROVE  \A u \in Trid \ {t} : Calm(u)
BY DEF Others, Takes, Calm

\* A handler that asks nothing more.
LEMMA ScheduleWays ==
    ASSUME NEW s \in SchedulingType, Schedule(s), Singles(s, inbound')
    PROVE  /\ Singles(Scheduling', inbound')
           /\ \A u \in Trid, q \in RM : Way(u, q)' = Asked(s, inbound', u, q)
<1>1. Scheduling' = s
    BY ScheduleIs
<1> QED BY <1>1 DEF Way

\* basic_prepare: the transaction is closed; the commit or the rollback is asked of the
\* resources that have answered, when none is still asked to prepare.
LEMMA PrepareCoursed ==
    ASSUME TypeOK, TypeOK', Coursed, NEW s \in SchedulingType, Follows(s), Singles(s, inbound'),
           NEW m \in ResourceReply, m.op = "prepare",
           NEW t \in Trid, t \in transactions, NEW r \in RM, r \in resources[t], "prepare" \in Way(t, r),
           \A u \in Trid, q \in RM : Asked(s, inbound', u, q) = IF u = t /\ q = r THEN {} ELSE Way(u, q),
           PrepareReply(m, s, t, r), UNCHANGED unsent, Takes(m)
    PROVE  Coursed'
<1> DEFINE res == [result[t] EXCEPT ![r] = m.state]
           stg == [stage[t] EXCEPT ![r] = IF m.state = cXA_RDONLY THEN cNotInvolved ELSE cPrepareReplied]
           prepared == LeastStage(stg, resources[t]) = cPrepareReplied
<1>1. /\ Course(t) /\ stage[t] \in [RM -> Stage] /\ resources[t] \in SUBSET RM
      /\ UNCHANGED <<own, calls>>
    BY DEF Coursed, TypeOK, Takes
<1>2. UNCHANGED <<transactions, resources>> /\ Others(t)
    BY PrepareMoves
<1>3. \A u \in Trid \ {t} : Calm(u)
    BY <1>2, OthersCalm
<1>4. /\ Closed(t) /\ \A q \in resources[t] : stage[t][q] # cRollbackRequested
      /\ \A q \in RM : "commit" \notin Way(t, q)
      /\ \A q \in RM : "prepare" \in Way(t, q) => stage[t][q] = cPrepareRequested
      /\ \A q \in RM \ resources[t] : stage[t][q] = cInvolved
      /\ \A q \in RM : Requested(t, q) <=> Way(t, q) # {}
    BY <1>1 DEF Course, Deciding
<1>5. /\ stg[r] \in {cNotInvolved, cPrepareReplied}
      /\ \A q \in RM \ {r} : stg[q] = stage[t][q]
      /\ stg \in [RM -> Stage]
    BY <1>1, StagesTyped
<1> HIDE DEF res, stg
<1>6. prepared =>
         /\ \A q \in resources[t] : stg[q] # cPrepareRequested
         /\ \E q \in resources[t] : stg[q] = cPrepareReplied
    BY <1>1, <1>5, StageLeast DEF Stage, cPrepareRequested, cPrepareReplied, cNotInvolved
<1>7. prepared => \A q \in RM \ {r} : "prepare" \notin Way(t, q)
    BY <1>4, <1>5, <1>6 DEF Requested
<1>8. CASE ~ prepared
    <2>1. stage'[t] = stg /\ Schedule(s)
        BY <1>8 DEF PrepareReply, TypeOK, stg
    <2>2. /\ Singles(Scheduling', inbound')
          /\ \A u \in Trid, q \in RM : Way(u, q)' = IF u = t /\ q = r THEN {} ELSE Way(u, q)
        BY <2>1, ScheduleWays
    <2>3. \A q \in RM : Requested(t, q)' <=> Way(t, q)' # {}
        BY <1>2, <1>4, <1>5, <2>1, <2>2
           DEF Requested, cPrepareRequested, cCommitRequested, cRollbackRequested, cNotInvolved, cPrepareReplied
    <2>4. Closed(t)'
        BY <1>1, <1>2, <1>4, <1>5, <2>1 DEF Closed, cInvolved, cNotInvolved, cPrepareReplied
    <2>5. \A q \in RM \ resources'[t] : stage'[t][q] = cInvolved
        BY <1>2, <1>4, <1>5, <2>1
    <2>6. \A q \in RM : "prepare" \in Way(t, q)' => stage'[t][q] = cPrepareRequested
        BY <1>4, <1>5, <2>1, <2>2
    <2>7. \A q \in RM : "commit" \notin Way(t, q)'
        BY <1>4, <2>2
    <2>8. \A q \in resources'[t] : stage'[t][q] # cRollbackRequested
        BY <1>1, <1>2, <1>4, <1>5, <2>1 DEF cRollbackRequested, cNotInvolved, cPrepareReplied
    <2>9. Course(t)'
        BY <1>2, <2>3, <2>4, <2>5, <2>6, <2>7, <2>8, ClosedCourse
    <2> QED BY <1>3, <2>2, <2>9, OthersCoursed
<1>9. ASSUME prepared, NEW to \in SUBSET resources[t], \A q \in to : stg[q] = cPrepareReplied,
             NEW op, NEW newStage, NEW one \in BOOLEAN,
             (op = "commit" /\ newStage = cPrepareRequested) \/ (op = "rollback" /\ newStage = cRollbackRequested),
             stage' = [stage EXCEPT ![t] = [q \in RM |-> IF q \in to THEN newStage ELSE stg[q]]],
             Schedule(SendRequest(s, [op |-> op, trid |-> t, onephase |-> one], to))
      PROVE  Coursed'
    <2>1. op \in {"prepare", "commit", "rollback"} /\ to \in SUBSET RM
        BY <1>1, <1>9
    <2>2. Free(s, inbound', t, to)
        <3>1. ASSUME NEW q \in to, q # r PROVE Way(t, q) = {}
            <4>1. q \in RM /\ stage[t][q] = cPrepareReplied
                BY <1>1, <1>5, <1>9, <3>1
            <4>2. ~ Requested(t, q)
                BY <4>1 DEF Requested, cPrepareRequested, cCommitRequested, cRollbackRequested, cPrepareReplied
            <4> QED BY <1>4, <4>1, <4>2
        <3> QED BY <2>1, <3>1 DEF Free
    <2>3. /\ Singles(Scheduling', inbound')
          /\ \A u \in Trid, q \in RM : Way(u, q)' =
                IF u = t /\ q \in to THEN {op} ELSE Asked(s, inbound', u, q)
        BY <1>9, <2>1, <2>2, AsksWays
    <2>4. \A u \in Trid, q \in RM : Way(u, q)' =
                IF u = t /\ q \in to THEN {op} ELSE IF u = t /\ q = r THEN {} ELSE Way(u, q)
        BY <2>3
    <2>5. \A q \in RM : stage'[t][q] = IF q \in to THEN newStage ELSE stg[q]
        BY <1>9 DEF TypeOK
    <2>6. \A q \in RM : Requested(t, q)' <=> Way(t, q)' # {}
        <3>1. newStage \in {cPrepareRequested, cCommitRequested, cRollbackRequested}
            BY <1>9
        <3>2. ASSUME NEW q \in to PROVE Requested(t, q)' /\ Way(t, q)' # {}
            BY <1>2, <2>1, <2>4, <2>5, <3>1 DEF Requested
        <3>3. ASSUME NEW q \in RM \ to, q # r PROVE (Requested(t, q)' <=> Requested(t, q)) /\ Way(t, q)' = Way(t, q)
            BY <1>2, <1>5, <2>4, <2>5, <3>3 DEF Requested
        <3>4. r \notin to => ~ Requested(t, r)' /\ Way(t, r)' = {}
            BY <1>2, <1>5, <2>4, <2>5
               DEF Requested, cPrepareRequested, cCommitRequested, cRollbackRequested, cNotInvolved, cPrepareReplied
        <3> QED BY <1>4, <3>2, <3>3, <3>4
    <2>7. newStage # cInvolved
        BY <1>9 DEF cInvolved, cPrepareRequested, cRollbackRequested
    <2>8. Closed(t)'
        BY <1>1, <1>2, <1>4, <1>5, <2>5, <2>7 DEF Closed, cInvolved, cNotInvolved, cPrepareReplied
    <2>9. \A q \in RM \ resources'[t] : stage'[t][q] = cInvolved
        BY <1>2, <1>4, <1>5, <2>5
    <2>10. \A q \in RM : "prepare" \notin Way(t, q)'
        BY <1>7, <1>9, <2>4
    <2>11. Deciding(t)' => \A q \in resources'[t] : stage'[t][q] # cRollbackRequested
        <3>1. CASE op = "commit" /\ newStage = cPrepareRequested
            BY <1>1, <1>2, <1>4, <1>5, <2>5, <3>1
               DEF cRollbackRequested, cPrepareRequested, cNotInvolved, cPrepareReplied
        <3>2. CASE op = "rollback" /\ newStage = cRollbackRequested
            BY <1>4, <2>4, <2>10, <3>2 DEF Deciding
        <3> QED BY <1>9, <3>1, <3>2
    <2>12. Course(t)'
        BY <1>2, <2>6, <2>8, <2>9, <2>10, <2>11, ClosedCourse
    <2> QED BY <1>3, <2>3, <2>12, OthersCoursed
<1>10. CASE prepared /\ Results(res, resources[t]) = cXA_OK
    <2> DEFINE to == {q \in AtStage(stg, resources[t], cPrepareReplied) : res[q] = cXA_OK}
    <2>1. /\ stage' = [stage EXCEPT ![t] = [q \in RM |-> IF q \in to THEN cPrepareRequested ELSE stg[q]]]
          /\ Schedule(SendRequest(s, [op |-> "commit", trid |-> t, onephase |-> FALSE], to))
        BY <1>10 DEF PrepareReply, stg, res
    <2>2. to \subseteq resources[t] /\ \A q \in to : stg[q] = cPrepareReplied
        BY DEF AtStage
    <2> HIDE DEF to
    <2> QED BY <1>9, <1>10, <2>1, <2>2
<1>11. CASE prepared /\ Results(res, resources[t]) # cXA_OK
    <2> DEFINE to == AtStage(stg, resources[t], cPrepareReplied)
    <2>1. /\ stage' = [stage EXCEPT ![t] = [q \in RM |-> IF q \in to THEN cRollbackRequested ELSE stg[q]]]
          /\ Schedule(SendRequest(s, [op |-> "rollback", trid |-> t, onephase |-> FALSE], to))
        BY <1>11 DEF PrepareReply, stg, res
    <2>2. to \subseteq resources[t] /\ \A q \in to : stg[q] = cPrepareReplied
        BY DEF AtStage
    <2> HIDE DEF to
    <2> QED BY <1>9, <1>11, <2>1, <2>2
<1> QED BY <1>8, <1>10, <1>11

\* basic_commit: one resource less is asked; the last answer leaves nothing to ask.
LEMMA CommitDoneCoursed ==
    ASSUME TypeOK, Coursed, NEW s \in SchedulingType, Follows(s), Singles(s, inbound'),
           NEW m \in ResourceReply,
           NEW t \in Trid, t \in transactions, NEW r \in RM, r \in resources[t], "commit" \in Way(t, r),
           \A u \in Trid, q \in RM : Asked(s, inbound', u, q) = IF u = t /\ q = r THEN {} ELSE Way(u, q),
           CommitDone(m, s, t, r), UNCHANGED unsent, Takes(m)
    PROVE  Coursed'
<1> DEFINE stg == [stage[t] EXCEPT ![r] = cCommitReplied]
<1>1. /\ Course(t) /\ stage[t] \in [RM -> Stage] /\ resources[t] \in SUBSET RM
      /\ UNCHANGED <<own, calls>>
    BY DEF Coursed, TypeOK, Takes
<1>2. \A u \in Trid \ {t} : Calm(u)
    BY CommitDoneMoves, OthersCalm
<1>3. /\ Closed(t) /\ \A q \in resources[t] : stage[t][q] # cRollbackRequested
      /\ \A q \in RM : "prepare" \in Way(t, q) => stage[t][q] = cPrepareRequested
      /\ \A q \in RM : "prepare" \notin Way(t, q)
      /\ \A q \in RM \ resources[t] : stage[t][q] = cInvolved
      /\ \A q \in RM : Requested(t, q) <=> Way(t, q) # {}
    BY <1>1 DEF Course, Deciding
<1>4. /\ Singles(Scheduling', inbound')
      /\ \A u \in Trid, q \in RM : Way(u, q)' = IF u = t /\ q = r THEN {} ELSE Way(u, q)
    BY ScheduleWays DEF CommitDone
<1>5. /\ stg[r] = cCommitReplied
      /\ \A q \in RM \ {r} : stg[q] = stage[t][q]
      /\ stg \in [RM -> Stage]
    BY <1>1, StagesTyped
<1> HIDE DEF stg
<1>6. CASE stage' = [stage EXCEPT ![t] = stg] /\ UNCHANGED <<transactions, resources>>
    <2>1. stage'[t] = stg
        BY <1>6 DEF TypeOK
    <2>2. \A q \in RM : Requested(t, q)' <=> Way(t, q)' # {}
        BY <1>3, <1>4, <1>5, <1>6, <2>1
           DEF Requested, cPrepareRequested, cCommitRequested, cRollbackRequested, cCommitReplied
    <2>3. Closed(t)'
        BY <1>1, <1>3, <1>5, <1>6, <2>1 DEF Closed, cInvolved, cCommitReplied
    <2>4. \A q \in RM \ resources'[t] : stage'[t][q] = cInvolved
        BY <1>3, <1>5, <1>6, <2>1
    <2>5. \A q \in RM : "prepare" \notin Way(t, q)'
        BY <1>3, <1>4
    <2>6. \A q \in resources'[t] : stage'[t][q] # cRollbackRequested
        BY <1>1, <1>3, <1>5, <1>6, <2>1 DEF cRollbackRequested, cCommitReplied
    <2>7. Course(t)'
        BY <1>6, <2>2, <2>3, <2>4, <2>5, <2>6, ClosedCourse
    <2> QED BY <1>2, <1>4, <2>7, OthersCoursed
<1>7. CASE Erase(t) /\ LeastStage(stg, resources[t]) = cCommitReplied
    <2>1. resources'[t] = {} /\ stage'[t] = [q \in RM |-> cInvolved]
        BY <1>7 DEF Erase, TypeOK
    <2>2. \A q \in resources[t] : stg[q] >= cCommitReplied
        BY <1>1, <1>5, <1>7, StageLeast
    <2>3. ASSUME NEW q \in RM, q # r PROVE Way(t, q) = {}
        <3>1. q \in resources[t] => stage[t][q] \in Stage /\ stage[t][q] >= cCommitReplied /\ stage[t][q] # cRollbackRequested
            BY <1>1, <1>3, <1>5, <2>2, <2>3
        <3>2. ~ Requested(t, q)
            BY <3>1 DEF Requested, Stage, cPrepareRequested, cCommitRequested, cCommitReplied
        <3> QED BY <1>3, <3>2
    <2>4. \A q \in RM : Way(t, q)' = {}
        BY <1>4, <2>3
    <2>5. calls'[t] = {}
        BY <1>1, <1>3 DEF Closed
    <2>6. Course(t)'
        BY <2>1, <2>4, <2>5, ErasedCourse
    <2> QED BY <1>2, <1>4, <2>6, OthersCoursed
<1>8. \/ stage' = [stage EXCEPT ![t] = stg] /\ UNCHANGED <<transactions, resources>>
      \/ Erase(t) /\ LeastStage(stg, resources[t]) = cCommitReplied
    BY DEF CommitDone, stg
<1> QED BY <1>6, <1>7, <1>8

\* basic_rollback's reply handler: a failure is told only of a transaction whose owner may
\* have asked for the commit.
LEMMA RollbackDoneCoursed ==
    ASSUME TypeOK, Coursed, NEW s \in SchedulingType, Follows(s), Singles(s, inbound'),
           NEW m \in ResourceReply,
           NEW t \in Trid, t \in transactions, NEW r \in RM, r \in resources[t], "rollback" \in Way(t, r),
           \A u \in Trid, q \in RM : Asked(s, inbound', u, q) = IF u = t /\ q = r THEN {} ELSE Way(u, q),
           RollbackDone(m, s, t, r), UNCHANGED unsent, Takes(m)
    PROVE  Coursed'
<1> DEFINE stg == [stage[t] EXCEPT ![r] = cRollbackReplied]
<1>1. /\ Course(t) /\ stage[t] \in [RM -> Stage] /\ resources[t] \in SUBSET RM
      /\ UNCHANGED <<client, own, calls, alive>>
    BY DEF Coursed, TypeOK, Takes
<1>2. \A u \in Trid \ {t} : Calm(u)
    BY RollbackDoneMoves, OthersCalm
<1>3. /\ \A q \in RM : "prepare" \in Way(t, q) => stage[t][q] = cPrepareRequested
      /\ \A q, p \in RM : "prepare" \in Way(t, q) => "commit" \notin Way(t, p)
      /\ \A q \in RM \ resources[t] : stage[t][q] = cInvolved
      /\ \A q \in RM : Requested(t, q) <=> Way(t, q) # {}
    BY <1>1 DEF Course
<1>4. /\ Singles(Scheduling', inbound')
      /\ \A u \in Trid, q \in RM : Way(u, q)' = IF u = t /\ q = r THEN {} ELSE Way(u, q)
    BY ScheduleWays DEF RollbackDone
<1>5. /\ stg[r] = cRollbackReplied
      /\ \A q \in RM \ {r} : stg[q] = stage[t][q]
      /\ stg \in [RM -> Stage]
    BY <1>1, StagesTyped
<1>6. /\ Deciding(t)' => Deciding(t)
      /\ Orphaned(t) => Orphaned(t)'
      /\ ~ Unasked(t)
    BY <1>1, <1>4 DEF Deciding, Orphaned, Unasked
<1>7. Leaving(t) => Leaving(t)'
    <2>1. ASSUME Mild(t) PROVE Mild(t)'
        <3>1. AllOk(t)'
            <4>1. \/ Gone(t)
                  \/ Staged(t, r, cRollbackReplied)
                BY RollbackDoneMoves
            <4> QED BY <2>1, <4>1 DEF Gone, Staged, Mild, AllOk
        <3>2. \A a \in Reply : a.trid = t /\ Told(a)' =>
                    Told(a) \/ (a.type = "rollback" /\ a.stage = "rollback" /\ a.state = cXA_OK)
            <4>1. AllOk(t)
                BY <2>1 DEF Mild
            <4>2. \/ TellsNothing(t)
                  \/ \A a \in Reply : a.trid = t /\ Told(a)' =>
                        Told(a) \/ (a.type = "rollback" /\ a.stage = "rollback" /\ a.state = cXA_OK)
                BY <4>1, RollbackDoneMoves
            <4> QED BY <4>2 DEF TellsNothing
        <3> QED BY <1>1, <2>1, <3>1, <3>2 DEF Mild
    <2> QED BY <1>6, <2>1 DEF Leaving
<1>8. (\E q \in resources[t] : stage[t][q] = cRollbackRequested) => Closed(t) \/ Leaving(t)' \/ Orphaned(t)'
    BY <1>1, <1>6, <1>7 DEF Course
<1>9. calls'[t] # {} => Leaving(t)' \/ Orphaned(t)'
    BY <1>1, <1>6, <1>7 DEF Course
<1> HIDE DEF stg
<1>10. CASE stage' = [stage EXCEPT ![t] = stg] /\ UNCHANGED <<transactions, resources>>
    <2>1. stage'[t] = stg
        BY <1>10 DEF TypeOK
    <2>2. \A q \in RM : Requested(t, q)' <=> Way(t, q)' # {}
        BY <1>3, <1>4, <1>5, <1>10, <2>1
           DEF Requested, cPrepareRequested, cCommitRequested, cRollbackRequested, cRollbackReplied
    <2>3. Closed(t) => Closed(t)'
        BY <1>1, <1>5, <1>10, <2>1 DEF Closed, cInvolved, cRollbackReplied
    <2>4. \A q \in RM \ resources'[t] : stage'[t][q] = cInvolved
        BY <1>3, <1>5, <1>10, <2>1
    <2>5. \A q \in RM : "prepare" \in Way(t, q)' => stage'[t][q] = cPrepareRequested
        BY <1>3, <1>4, <1>5, <2>1
    <2>6. \A q, p \in RM : "prepare" \in Way(t, q)' => "commit" \notin Way(t, p)'
        BY <1>3, <1>4
    <2>7. (\E q \in resources'[t] : stage'[t][q] = cRollbackRequested)
             => \E q \in resources[t] : stage[t][q] = cRollbackRequested
        BY <1>1, <1>5, <1>10, <2>1 DEF cRollbackRequested, cRollbackReplied
    <2>8. Deciding(t)' => Closed(t)' /\ \A q \in resources'[t] : stage'[t][q] # cRollbackRequested
        BY <1>1, <1>6, <2>3, <2>7 DEF Course
    <2>9. Course(t)'
        BY <1>8, <1>9, <1>10, <2>2, <2>3, <2>4, <2>5, <2>6, <2>7, <2>8 DEF Course
    <2> QED BY <1>2, <1>4, <2>9, OthersCoursed
<1>11. CASE Erase(t) /\ LeastStage(stg, resources[t]) = cRollbackReplied
    <2>1. resources'[t] = {} /\ stage'[t] = [q \in RM |-> cInvolved]
        BY <1>11 DEF Erase, TypeOK
    <2>2. \A q \in resources[t] : stg[q] >= cRollbackReplied
        BY <1>1, <1>5, <1>11, StageLeast
    <2>3. ASSUME NEW q \in RM, q # r PROVE Way(t, q) = {}
        <3>1. q \in resources[t] => stage[t][q] \in Stage /\ stage[t][q] >= cRollbackReplied
            BY <1>1, <1>5, <2>2, <2>3
        <3>2. ~ Requested(t, q)
            BY <3>1 DEF Requested, Stage, cPrepareRequested, cCommitRequested, cRollbackRequested, cRollbackReplied
        <3> QED BY <1>3, <3>2
    <2>4. \A q \in RM : Way(t, q)' = {}
        BY <1>4, <2>3
    <2>5. Course(t)'
        BY <1>9, <2>1, <2>4, ErasedCourse
    <2> QED BY <1>2, <1>4, <2>5, OthersCoursed
<1>12. \/ stage' = [stage EXCEPT ![t] = stg] /\ UNCHANGED <<transactions, resources>>
       \/ Erase(t) /\ LeastStage(stg, resources[t]) = cRollbackReplied
    BY DEF RollbackDone, stg
<1> QED BY <1>10, <1>11, <1>12

\* The handlers of the answers: no answer is for a transaction or a resource the manager
\* does not know.
LEMMA ReplyWrapperCoursed ==
    ASSUME TypeOK, TypeOK', Coursed, NEW m \in inbound, ReplyWrapper(m)
    PROVE  Coursed'
<1> DEFINE s == Done(Scheduling, m.instance)
           t == m.trid
           r == m.instance[1]
<1>1. /\ m.op # "connect" /\ inbound' = inbound \ {m} /\ UNCHANGED unsent /\ Takes(m)
    BY DEF ReplyWrapper, Takes, clientVars
<1>2. /\ m \in ResourceReply /\ t \in Trid /\ r \in RM
      /\ s \in SchedulingType /\ Follows(s) /\ Singles(s, inbound')
      /\ \A u \in Trid, q \in RM : Asked(s, inbound', u, q) = IF u = t /\ q = r THEN {} ELSE Way(u, q)
      /\ m.op \in Way(t, r)
      /\ t \in transactions /\ r \in resources[t]
    BY <1>1, ReadWays
<1>3. \/ m.op = "prepare" /\ PrepareReply(m, s, t, r)
      \/ m.op = "commit" /\ CommitDone(m, s, t, r)
      \/ m.op = "rollback" /\ RollbackDone(m, s, t, r)
    BY <1>2 DEF ReplyWrapper
<1> HIDE DEF s, t, r
<1>4. CASE m.op = "prepare" /\ PrepareReply(m, s, t, r)
    BY <1>1, <1>2, <1>4, PrepareCoursed
<1>5. CASE m.op = "commit" /\ CommitDone(m, s, t, r)
    BY <1>1, <1>2, <1>5, CommitDoneCoursed
<1>6. CASE m.op = "rollback" /\ RollbackDone(m, s, t, r)
    BY <1>1, <1>2, <1>6, RollbackDoneCoursed
<1> QED BY <1>3, <1>4, <1>5, <1>6

-----------------------------------------------------------------------------
(* The instances: none that was told to go comes back, and without one no  *)
(* queue is lost.                                                          *)

\* No instance has been told to go in scheduling state s.
Staying(s) == \A i \in Instance : s.instance[i] # "shutdown"

\* action::resource::request and instance::done bring no instance back.
LEMMA SchedulingStays ==
    ASSUME NEW s \in SchedulingType
    PROVE  /\ \A m \in Request, rs \in SUBSET RM : Staying(SendRequest(s, m, rs)) => Staying(s)
           /\ \A i \in Instance : Staying(Done(s, i)) => Staying(s)
<1>1. ASSUME NEW m \in Request, NEW rs \in SUBSET RM, NEW j \in Instance, s.instance[j] = "shutdown"
      PROVE  SendRequest(s, m, rs).instance[j] = "shutdown"
    BY <1>1 DEF SendRequest, NewState
<1>2. ASSUME NEW i \in Instance, NEW j \in Instance, s.instance[j] = "shutdown"
      PROVE  Done(s, i).instance[j] = "shutdown"
    <2>1. \/ Done(s, i).instance = [s.instance EXCEPT ![i] = NewState(@, "idle")]
          \/ Done(s, i).instance = [s.instance EXCEPT ![i] = NewState(@, "busy")]
        BY DEF Done, SchedulingType
    <2> QED BY <1>2, <2>1 DEF NewState, SchedulingType
<1> QED BY <1>1, <1>2 DEF Staying

\* The handlers of the answers bring no instance back.
LEMMA ReplyHandlersStay ==
    ASSUME NEW s \in SchedulingType, NEW m, NEW t \in Trid, NEW r \in RM, resources[t] \in SUBSET RM,
           \/ DiscardReply(s)
           \/ PrepareReply(m, s, t, r)
           \/ CommitDone(m, s, t, r)
           \/ RollbackDone(m, s, t, r),
           NoneRetired'
    PROVE  Staying(s)
<1>1. CASE instance' = s.instance
    BY <1>1 DEF NoneRetired, Staying
<1>2. ASSUME NEW op \in {"prepare", "commit", "rollback"}, NEW rs \in SUBSET RM,
             instance' = SendRequest(s, [op |-> op, trid |-> t, onephase |-> FALSE], rs).instance
      PROVE  Staying(s)
    <2> DEFINE a == [op |-> op, trid |-> t, onephase |-> FALSE]
    <2>1. a \in Request
        BY RequestType
    <2>2. Staying(SendRequest(s, a, rs))
        BY <1>2 DEF NoneRetired, Staying
    <2> HIDE DEF a
    <2> QED BY <2>1, <2>2, SchedulingStays
<1>3. ASSUME PrepareReply(m, s, t, r)
      PROVE  Staying(s)
    <2> DEFINE stg == [stage[t] EXCEPT ![r] = IF m.state = cXA_RDONLY THEN cNotInvolved
                                                                      ELSE cPrepareReplied]
               res == [result[t] EXCEPT ![r] = m.state]
               replied == AtStage(stg, resources[t], cPrepareReplied)
               good == {q \in replied : res[q] = cXA_OK}
    <2>1. replied \in SUBSET RM /\ good \in SUBSET RM
        BY DEF AtStage
    <2>2. \/ Schedule(s)
          \/ Schedule(SendRequest(s, [op |-> "commit", trid |-> t, onephase |-> FALSE], good))
          \/ Schedule(SendRequest(s, [op |-> "rollback", trid |-> t, onephase |-> FALSE], replied))
        BY <1>3 DEF PrepareReply
    <2> HIDE DEF stg, res, replied, good
    <2> QED BY <1>1, <1>2, <2>1, <2>2 DEF Schedule
<1>4. ASSUME DiscardReply(s) \/ CommitDone(m, s, t, r) \/ RollbackDone(m, s, t, r)
      PROVE  Staying(s)
    BY <1>1, <1>4 DEF DiscardReply, CommitDone, RollbackDone, Schedule
<1> QED BY <1>1, <1>2, <1>3, <1>4

\* The requests of an owner and of handle::process::Exit bring no instance back.
LEMMA RequestsStay ==
    ASSUME TypeOK, NEW t \in Trid, Commit(t) \/ Rollback(t) \/ ExitRollback(t), NoneRetired'
    PROVE  NoneRetired
<1>1. Scheduling \in SchedulingType /\ stage[t] \in [RM -> Stage]
    BY SchedulingOK DEF TypeOK
<1>2. Involve(t, own[t]) \in SUBSET RM /\ resources[t] \in SUBSET RM
    BY DEF Involve, TypeOK
<1>3. ASSUME NEW rs \in SUBSET RM, NEW op \in {"prepare", "commit", "rollback"}, NEW one \in BOOLEAN,
             NEW k, RequestResources(Scheduling, t, rs, op, one, k)
      PROVE  NoneRetired
    <2> DEFINE a == [op |-> op, trid |-> t, onephase |-> one]
    <2>1. a \in Request
        BY RequestType
    <2>2. instance' = SendRequest(Scheduling, a, rs).instance
        BY <1>3 DEF RequestResources, Schedule
    <2>3. Staying(SendRequest(Scheduling, a, rs))
        BY <2>2 DEF NoneRetired, Staying
    <2> HIDE DEF a
    <2>4. Staying(Scheduling)
        BY <1>1, <2>1, <2>3, SchedulingStays
    <2> QED BY <2>4 DEF NoneRetired, Staying, Scheduling
<1>4. CASE instance' = instance
    BY <1>4 DEF NoneRetired
<1>5. ASSUME NEW rs \in SUBSET RM, CommitRefused(t, rs) \/ CommitEmpty(t, rs) \/ CommitResources(t, rs)
      PROVE  NoneRetired
    <2> DEFINE to == AtStage(stage[t], rs, cInvolved)
    <2>1. to \in SUBSET RM
        BY DEF AtStage
    <2>2. \/ instance' = instance
          \/ RequestResources(Scheduling, t, to, "commit", TRUE, cCommitRequested)
          \/ RequestResources(Scheduling, t, to, "prepare", FALSE, cPrepareRequested)
        BY <1>5, Zenon DEF CommitRefused, CommitEmpty, CommitResources
    <2> HIDE DEF to
    <2> QED BY <1>3, <1>4, <2>1, <2>2
<1>6. ASSUME NEW rs \in SUBSET RM, NEW c, Roll(t, rs, c)
      PROVE  NoneRetired
    <2> DEFINE to == AtStage(stage[t], rs, cInvolved)
    <2>1. to \in SUBSET RM
        BY DEF AtStage
    <2>2. \/ instance' = instance
          \/ RequestResources(Scheduling, t, to, "rollback", FALSE, cRollbackRequested)
        BY <1>6, Zenon DEF Roll
    <2> HIDE DEF to
    <2> QED BY <1>3, <1>4, <2>1, <2>2
<1> QED BY <1>2, <1>5, <1>6 DEF Commit, Rollback, ExitRollback

\* action::resource::Instances brings no instance back either.
LEMMA InstancesStay ==
    ASSUME TypeOK, Placed(Scheduling, inbound, proxy), NEW r \in RM, NEW n \in 0 .. MaxInstances,
           Instances(r, n), NoneRetired'
    PROVE  NoneRetired /\ UNCHANGED inbox
<1>1. /\ Size(r) \in 0 .. MaxInstances
      /\ \A k \in 1 .. MaxInstances : instance[<<r, k>>] # "absent" <=> k <= Size(r)
    BY SizeIs DEF Placed
<1>2. \A i \in Instance : i = <<i[1], i[2]>> /\ i[1] \in RM /\ i[2] \in 1 .. MaxInstances
    BY DEF Instance
<1>3. CASE Spawn(r, n)
    <2> DEFINE new == {i \in Instance : i[1] = r /\ i[2] \in Size(r) + 1 .. n}
    <2>1. /\ instance' = [i \in Instance |-> IF i \in new THEN "started" ELSE instance[i]]
          /\ inbox' = inbox
        BY <1>3 DEF Spawn
    <2>2. \A i \in new : instance[i] = "absent"
        BY <1>1, <1>2, InstanceAssumption
    <2> HIDE DEF new
    <2> QED BY <2>1, <2>2 DEF NoneRetired
<1>4. CASE Retire(r, n)
    <2> DEFINE last == {i \in Instance : i[1] = r /\ i[2] \in n + 1 .. Size(r)}
               old == {i \in last : \A j \in last : j[2] < i[2] => instance[j] # "startupError"}
    <2>1. /\ instance' = [i \in Instance |-> IF i \in old THEN "shutdown" ELSE instance[i]]
          /\ inbox' = [i \in Instance |-> IF i \in old /\ instance[i] \in {"idle", "busy"}
                                          THEN Append(inbox[i], Shutdown) ELSE inbox[i]]
        BY <1>4 DEF Retire
    <2> HIDE DEF old
    <2>2. \A i \in Instance : i \notin old /\ instance'[i] = instance[i]
        BY <2>1 DEF NoneRetired
    <2>3. inbox' = [i \in Instance |-> inbox[i]]
        BY <2>1, <2>2
    <2>4. inbox' = inbox
        BY <2>3 DEF TypeOK
    <2> QED BY <2>2, <2>4 DEF NoneRetired
<1> QED BY <1>3, <1>4 DEF Instances

\* Only a proxy that was told to go ends, and only for it does the pump fail.
LEMMA OnlyRetiredEnd ==
    ASSUME TypeOK, Placed(Scheduling, inbound, proxy),
           (\E i \in Instance : ProxyShutdown(i)) \/ (\E m \in inbound : PumpFails(m))
    PROVE  ~ NoneRetired
<1>1. ASSUME NEW i \in Instance, ProxyShutdown(i) PROVE ~ NoneRetired
    <2>1. proxy[i] = "running" /\ inbox[i] # <<>> /\ Head(inbox[i]) = Shutdown
        BY <1>1 DEF ProxyShutdown
    <2>2. InstancePlaced(Scheduling, inbound, proxy, i) /\ instance[i] \in InstanceState
        BY DEF Placed, TypeOK
    <2>3. \A q \in Request : <<q>> # <<>> /\ Head(<<q>>) # Shutdown
        BY DEF Request, Shutdown
    <2>4. instance[i] = "shutdown"
        BY <2>1, <2>2, <2>3 DEF InstancePlaced, Scheduling, InstanceState
    <2> QED BY <2>4 DEF NoneRetired
<1>2. ASSUME NEW m \in inbound, PumpFails(m) PROVE ~ NoneRetired
    <2> DEFINE i == m.instance
    <2>1. i \in Instance
        BY DEF TypeOK, ConnectReply, ResourceReply
    <2>2. /\ m.op = "connect" => m.state = cXA_OK
          /\ proxy[i] = "exited"
        BY <1>2 DEF PumpFails, Unavailable
    <2>3. m \in Says(inbound, i)
        BY DEF Says
    <2> HIDE DEF i
    <2>4. InstancePlaced(Scheduling, inbound, proxy, i) /\ instance[i] \in InstanceState
        BY <2>1 DEF Placed, TypeOK
    <2>5. instance[i] = "shutdown"
        BY <2>2, <2>3, <2>4 DEF InstancePlaced, Scheduling, InstanceState
    <2> QED BY <2>1, <2>5 DEF NoneRetired
<1> QED BY <1>1, <1>2

\* Proxy::Instance::state: no step brings back an instance that was told to go.
LEMMA RetiredStays ==
    ASSUME TypeOK, Placed(Scheduling, inbound, proxy), Next, NoneRetired'
    PROVE  NoneRetired
<1>0. Scheduling \in SchedulingType /\ Scheduling.instance = instance
    BY SchedulingOK DEF Scheduling
<1>1. ASSUME NEW t \in Trid, Commit(t) \/ Rollback(t) \/ ExitRollback(t) PROVE NoneRetired
    BY <1>1, RequestsStay
<1>2. ASSUME NEW m \in inbound, ReplyWrapper(m) PROVE NoneRetired
    <2> DEFINE s == Done(Scheduling, m.instance)
               t == m.trid
               r == m.instance[1]
    <2>1. m \in ResourceReply
        BY <1>2 DEF ReplyWrapper, TypeOK, ConnectReply
    <2>2. t \in Trid /\ m.instance \in Instance /\ r \in RM
        BY <2>1 DEF ResourceReply, Instance
    <2>3. s \in SchedulingType /\ (Staying(s) => Staying(Scheduling))
        BY <1>0, <2>2, DoneType, SchedulingStays
    <2>4. \/ DiscardReply(s)
          \/ PrepareReply(m, s, t, r)
          \/ CommitDone(m, s, t, r)
          \/ RollbackDone(m, s, t, r)
        BY <1>2 DEF ReplyWrapper
    <2> HIDE DEF s, t, r
    <2>5. resources[t] \in SUBSET RM
        BY <2>2 DEF TypeOK
    <2>6. Staying(s)
        BY <2>2, <2>3, <2>4, <2>5, ReplyHandlersStay
    <2> QED BY <1>0, <2>3, <2>6 DEF NoneRetired, Staying
<1>3. ASSUME NEW m \in inbound, Connect(m) PROVE NoneRetired
    <2>1. m.instance \in Instance
        BY DEF TypeOK, ConnectReply, ResourceReply
    <2>2. CASE m.state = cXA_OK
        <3>1. instance' = Done(Scheduling, m.instance).instance
            BY <1>3, <2>2 DEF Connect, Schedule
        <3>2. Staying(Done(Scheduling, m.instance))
            BY <3>1 DEF NoneRetired, Staying
        <3>3. Staying(Scheduling)
            BY <1>0, <2>1, <3>2, SchedulingStays
        <3> QED BY <1>0, <3>3 DEF NoneRetired, Staying
    <2>3. CASE m.state # cXA_OK
        <3>1. instance' = [instance EXCEPT ![m.instance] = NewState(@, "startupError")]
            BY <1>3, <2>3 DEF Connect, Schedule, Scheduling
        <3> QED BY <2>1, <3>1 DEF NoneRetired, NewState, TypeOK
    <2> QED BY <2>2, <2>3
<1>4. ASSUME NEW r \in RM, NEW n \in 0 .. MaxInstances, Instances(r, n) PROVE NoneRetired
    BY <1>4, InstancesStay
<1>5. CASE instance' = instance
    BY <1>5 DEF NoneRetired
<1>6. ASSUME \/ \E t \in Trid, id \in ResourceId : Involved(t, id)
             \/ \E p \in Process : Exit(p) \/ Ends(p)
             \/ \E t \in Trid : Receive(t) \/ GiveUp(t)
             \/ \E m \in inbound : PumpFails(m)
             \/ WriteBatch \/ SendBatch \/ EndBatch
             \/ \E i \in Instance : ProxyOpen(i) \/ ProxyRequest(i) \/ ProxyShutdown(i)
      PROVE  instance' = instance
    BY <1>6 DEF Involved, Exit, Ends, Receive, GiveUp, PumpFails, WriteBatch, SendBatch, EndBatch,
                ProxyOpen, ProxyRequest, ProxyShutdown
<1> QED BY <1>1, <1>2, <1>3, <1>4, <1>5, <1>6, NextSteps DEF Steps

\* While no instance is told to go, adding instances asks nothing of the resources.
LEMMA InstancesCoursed ==
    ASSUME TypeOK, Placed(Scheduling, inbound, proxy), Coursed, NEW r \in RM, NEW n \in 0 .. MaxInstances,
           Instances(r, n), NoneRetired'
    PROVE  Coursed'
<1>1. /\ StateKept /\ UNCHANGED <<pendingRequests, inbound>>
      /\ UNCHANGED <<persistentReplies, received, unsent>>
    BY DEF Instances, StateKept, transVars, clientVars
<1>2. QueuesKept
    BY <1>1, InstancesStay DEF QueuesKept
<1>3. \A u \in Trid : TellsNothing(u)
    BY <1>1, NoReplyTells
<1> QED BY <1>1, <1>2, <1>3, StateKeptCalm, QueuesKeptWays, KeptCoursed

\* The handlers of the answers reply to the owner of the transaction only.
LEMMA ReplyWrapperAddressed ==
    ASSUME TypeOK, Addressed, NEW m \in inbound, ReplyWrapper(m)
    PROVE  Addressed'
<1> DEFINE s == Done(Scheduling, m.instance)
           t == m.trid
           r == m.instance[1]
           code == Results(result[t], resources[t])
           logged == CommitReply(t, "prepare", cXA_OK, correlation[t])
           committed == CommitReply(t, "commit", code, correlation[t])
           rolledback == RollbackReply(t, "rollback", cXA_OK, correlation[t])
           failed == RollbackReply(t, "rollback", code, correlation[t])
<1>1. m \in ResourceReply
    BY DEF ReplyWrapper, TypeOK, ConnectReply
<1>2. t \in Trid
    BY <1>1 DEF ResourceReply
<1>3. resources[t] \in SUBSET RM /\ result[t] \in [RM -> Result] /\ correlation[t] \in 0 .. MaxRequests
    BY <1>2 DEF TypeOK
<1>4. code \in Result
    BY <1>3, ResultsLeast
<1>5. /\ logged \in Reply /\ committed \in Reply /\ rolledback \in Reply /\ failed \in Reply
      /\ committed.stage # "prepare" /\ rolledback.stage # "prepare"
    BY <1>2, <1>3, <1>4, ReplyTypes, StagesTyped DEF CommitReply, RollbackReply
<1>6. DiscardReply(s) \/ PrepareReply(m, s, t, r) \/ CommitDone(m, s, t, r) \/ RollbackDone(m, s, t, r)
    BY DEF ReplyWrapper
<1>7. \/ NoReply
      \/ SendPersistent(logged) \/ SendPersistent(committed) \/ SendPersistent(failed)
      \/ SendReply(committed) \/ SendReply(rolledback)
    <2>1. DiscardReply(s) => NoReply
        BY DEF DiscardReply
    <2>2. PrepareReply(m, s, t, r) => NoReply \/ SendPersistent(logged)
        BY DEF PrepareReply
    <2>3. CommitDone(m, s, t, r) => NoReply \/ SendPersistent(committed) \/ SendReply(committed)
        BY Zenon DEF CommitDone
    <2>4. RollbackDone(m, s, t, r) => NoReply \/ SendPersistent(failed) \/ SendReply(rolledback)
        BY Zenon DEF RollbackDone
    <2> QED BY <1>6, <2>1, <2>2, <2>3, <2>4
<1> HIDE DEF s, t, r, code, logged, committed, rolledback, failed
<1>8. NoReply => Delivered
    BY NoReplyDelivers DEF NoReply
<1>9. \A a \in Reply : (a.stage # "prepare" /\ SendReply(a)) \/ SendPersistent(a) => Delivered
    BY SendDelivers
<1> QED BY <1>5, <1>7, <1>8, <1>9 DEF Delivered

\* Every reply comes to the owner of its transaction.
LEMMA AddressedKept ==
    ASSUME TypeOK, Addressed, Next
    PROVE  Addressed'
<1>1. ASSUME NEW t \in Trid, Commit(t) \/ Rollback(t) PROVE Addressed'
    BY <1>1, CommitDelivers DEF Delivered
<1>2. ASSUME NEW m \in inbound, ReplyWrapper(m) PROVE Addressed'
    BY <1>2, ReplyWrapperAddressed
<1>3. ASSUME NEW t \in Trid, Receive(t) PROVE Addressed'
    BY <1>3, ReceiveMoves
<1>4. CASE SendBatch
    BY <1>4, SendBatchAddressed
<1>5. CASE received' = received
    BY <1>5 DEF Addressed
<1>6. ASSUME \/ \E t \in Trid, id \in ResourceId : Involved(t, id)
             \/ \E p \in Process : Exit(p) \/ Ends(p)
             \/ \E t \in Trid : ExitRollback(t) \/ GiveUp(t)
             \/ \E m \in inbound : Connect(m) \/ PumpFails(m)
             \/ \E r \in RM, n \in 0 .. MaxInstances : Instances(r, n)
             \/ WriteBatch \/ EndBatch
             \/ \E i \in Instance : ProxyOpen(i) \/ ProxyRequest(i) \/ ProxyShutdown(i)
      PROVE  received' = received
    BY <1>6 DEF Involved, Exit, Ends, ExitRollback, GiveUp, Connect, PumpFails, Instances, WriteBatch,
                EndBatch, ProxyOpen, ProxyRequest, ProxyShutdown
<1> QED BY <1>1, <1>2, <1>3, <1>4, <1>5, <1>6, NextSteps DEF Steps

-----------------------------------------------------------------------------
(* The inductive invariant of the requests.                                *)

\* Owners that are dead stay so, replies come to the right owners and, while no instance
\* has been told to go, every transaction is on its course.
RInv == Dead /\ Addressed /\ (NoneRetired => Coursed)

\* At the start nothing has been asked for.
LEMMA InitRInv ==
    ASSUME Init
    PROVE  RInv
<1>1. Dead /\ Addressed
    BY InitIInv DEF IInv
<1>2. \A m \in Request, r \in RM : ~ Holds(Scheduling, m, r)
    BY DEF Init, Holds, Scheduling, Waits, Queued
<1>3. \A t \in Trid, r \in RM : Replied(inbound, t, r) = {}
    BY DEF Init, Replied
<1>4. \A t \in Trid, r \in RM : Way(t, r) = {}
    BY <1>2, <1>3 DEF Way, Asked
<1>5. \A t \in Trid, r \in RM : AtMostOne(Scheduling, t, r)
    BY DEF Init, AtMostOne, Scheduling, Waits, Queued
<1>6. Singles(Scheduling, inbound)
    BY <1>2, <1>3, <1>5 DEF Singles, Single
<1>7. ASSUME NEW t \in Trid PROVE Course(t)
    <2>1. /\ resources[t] = {} /\ \A r \in RM : stage[t][r] = cInvolved
          /\ client[t] = "active" /\ AllOk(t) /\ \A m \in Reply : ~ Told(m)
        BY DEF Init, AllOk, Told, Reply
    <2>2. ~ Deciding(t) /\ Unasked(t)
        BY <1>4, <2>1 DEF Deciding, Unasked
    <2> QED BY <1>4, <2>1, <2>2 DEF Course, Requested
<1> QED BY <1>1, <1>6, <1>7 DEF RInv, Coursed

\* Every step keeps the transactions on their course, while no instance is told to go.
LEMMA CoursedKept ==
    ASSUME TypeOK, TypeOK', Placed(Scheduling, inbound, proxy), Dead, Addressed, Coursed,
           NoneRetired, NoneRetired', Next
    PROVE  Coursed'
<1>1. ASSUME NEW t \in Trid, Commit(t) PROVE Coursed'
    BY <1>1, CommitCoursed
<1>2. ASSUME NEW t \in Trid, Rollback(t) PROVE Coursed'
    BY <1>2, RollbackCoursed
<1>3. ASSUME NEW t \in Trid, NEW id \in ResourceId, Involved(t, id) PROVE Coursed'
    BY <1>3, InvolvedCoursed
<1>4. ASSUME NEW t \in Trid, ExitRollback(t) PROVE Coursed'
    <2>1. Owner[t] \notin alive
        BY <1>4 DEF Dead, ExitRollback
    <2> QED BY <1>4, <2>1, ExitRollbackCoursed
<1>5. ASSUME NEW t \in Trid, Receive(t) PROVE Coursed'
    BY <1>5, ReceiveCoursed
<1>6. ASSUME NEW t \in Trid, GiveUp(t) PROVE Coursed'
    BY <1>6, GiveUpCoursed
<1>7. CASE (\E p \in Process : Exit(p) \/ Ends(p)) \/ WriteBatch \/ SendBatch \/ EndBatch
    BY <1>7, BatchCoursed
<1>8. ASSUME NEW m \in inbound, ReplyWrapper(m) PROVE Coursed'
    BY <1>8, ReplyWrapperCoursed
<1>9. ASSUME NEW m \in inbound, Connect(m) PROVE Coursed'
    BY <1>9, ConnectCoursed
<1>10. CASE (\E i \in Instance : ProxyShutdown(i)) \/ (\E m \in inbound : PumpFails(m))
    BY <1>10, OnlyRetiredEnd
<1>11. ASSUME NEW r \in RM, NEW n \in 0 .. MaxInstances, Instances(r, n) PROVE Coursed'
    BY <1>11, InstancesCoursed
<1>12. ASSUME NEW i \in Instance, ProxyOpen(i) PROVE Coursed'
    BY <1>12, ProxyOpenCoursed
<1>13. ASSUME NEW i \in Instance, ProxyRequest(i) PROVE Coursed'
    BY <1>13, ProxyRequestCoursed
<1> QED BY <1>1, <1>2, <1>3, <1>4, <1>5, <1>6, <1>7, <1>8, <1>9, <1>10, <1>11, <1>12, <1>13, NextSteps DEF Steps

\* On its course, a transaction has one request on its way for each resource that is at a
\* 'requested' stage, and none for the others.
LEMMA CoursedAccounted ==
    ASSUME TypeOK, Coursed
    PROVE  /\ RequestAccounted
           /\ \A t \in Trid, r \in RM : Requested(t, r) <=> Outstanding(t, r) # {}
<1> SUFFICES ASSUME NEW t \in Trid, NEW r \in RM
             PROVE  /\ Cardinality(Outstanding(t, r)) = IF Requested(t, r) THEN 1 ELSE 0
                    /\ Requested(t, r) <=> Outstanding(t, r) # {}
    BY DEF RequestAccounted
<1>1. /\ AtMostOne(Scheduling, t, r)
      /\ \A a, b \in Replied(inbound, t, r) : a = b
      /\ Replied(inbound, t, r) # {} => \A m \in Request : m.trid = t => ~ Holds(Scheduling, m, r)
      /\ Requested(t, r) <=> Way(t, r) # {}
    BY DEF Coursed, Course, Singles, Single
<1>2. /\ pendingRequests \in Seq(PendingRequest) /\ inbound \subseteq ConnectReply \cup ResourceReply
      /\ inbox \in [Instance -> Seq(Request \cup {Shutdown})]
    BY DEF TypeOK
<1> DEFINE P == {n \in DOMAIN pendingRequests :
                    pendingRequests[n].message.trid = t /\ r \in pendingRequests[n].resources}
           Q(i) == {n \in DOMAIN inbox[i] : inbox[i][n] # Shutdown /\ inbox[i][n].trid = t}
           I == {i \in Instance : i[1] = r}
           A == {m \in inbound : m.op # "connect" /\ m.trid = t /\ m.instance[1] = r}
           X == {<<"pending", n>> : n \in P}
           Queues == {{<<"inbox", i, n>> : n \in Q(i)} : i \in I}
           Y == UNION Queues
           Z == {<<"inbound", m>> : m \in A}
           O == X \cup Y \cup Z
<1>3. Outstanding(t, r) = O /\ A = Replied(inbound, t, r)
    BY DEF Outstanding, Replied
<1>4. ASSUME NEW n \in P
      PROVE  Waits(Scheduling, t, r, n) /\ n \in DOMAIN pendingRequests
             /\ \E m \in Request : m.trid = t /\ Holds(Scheduling, m, r)
    <2>0. /\ n \in DOMAIN pendingRequests /\ pendingRequests[n].message.trid = t
          /\ r \in pendingRequests[n].resources
        OBVIOUS
    <2> HIDE DEF P
    <2>1. pendingRequests[n].message \in Request
        <3>1. pendingRequests[n] \in PendingRequest
            BY ONLY <1>2, <2>0
        <3> QED BY <3>1 DEF PendingRequest
    <2>2. Holds(Scheduling, pendingRequests[n].message, r)
        BY <2>0 DEF Holds, Scheduling
    <2>3. Waits(Scheduling, t, r, n)
        BY <2>0 DEF Waits, Scheduling
    <2> QED BY <2>0, <2>1, <2>2, <2>3
<1>5. ASSUME NEW i \in I, NEW n \in Q(i)
      PROVE  Queued(Scheduling, t, r, i, n) /\ n \in DOMAIN inbox[i]
             /\ \E m \in Request : m.trid = t /\ Holds(Scheduling, m, r)
    <2>1. inbox[i][n] \in Request
        BY <1>2
    <2> QED BY <2>1 DEF Queued, Holds, Scheduling
<1>6. ASSUME NEW m \in Request, m.trid = t, Holds(Scheduling, m, r)
      PROVE  P # {} \/ \E i \in I : Q(i) # {}
    <2>1. m # Shutdown
        BY DEF Request, Shutdown
    <2> QED BY <1>6, <2>1 DEF Holds, Scheduling
<1>7. Way(t, r) # {} <=> A # {} \/ \E m \in Request : m.trid = t /\ Holds(Scheduling, m, r)
    BY <1>2, <1>3, NothingAsked DEF Way, Unread
<1> HIDE DEF P, Q, I, A
<1> DEFINE Pending(x) == \E n \in P : x = <<"pending", n>>
           Queueing(x) == \E i \in I : \E n \in Q(i) : x = <<"inbox", i, n>>
           Answer(x) == \E m \in A : x = <<"inbound", m>>
<1>70. \A x : x \in O <=> Pending(x) \/ Queueing(x) \/ Answer(x)
    <2>1. \A x : x \in {<<"pending", n>> : n \in P} <=> Pending(x)
        BY Zenon
    <2>2. \A x : x \in UNION Queues <=> Queueing(x)
        <3>1. \A i \in I : {<<"inbox", i, n>> : n \in Q(i)} \in Queues
            OBVIOUS
        <3>2. \A q \in Queues : \E i \in I : q = {<<"inbox", i, n>> : n \in Q(i)}
            OBVIOUS
        <3> HIDE DEF Queues
        <3>3. ASSUME NEW x \in UNION Queues PROVE Queueing(x)
            <4>1. PICK q \in Queues : x \in q
                OBVIOUS
            <4>2. PICK i \in I : q = {<<"inbox", i, n>> : n \in Q(i)}
                BY <3>2
            <4> QED BY <4>1, <4>2
        <3>4. ASSUME NEW x, Queueing(x) PROVE x \in UNION Queues
            <4>1. PICK i \in I : \E n \in Q(i) : x = <<"inbox", i, n>>
                BY <3>4
            <4>2. x \in {<<"inbox", i, n>> : n \in Q(i)}
                BY <4>1
            <4> QED BY <3>1, <4>1, <4>2
        <3> QED BY <3>3, <3>4
    <2>3. \A x : x \in {<<"inbound", m>> : m \in A} <=> Answer(x)
        BY Zenon
    <2>4. \A x : (x \in X <=> Pending(x)) /\ (x \in Y <=> Queueing(x)) /\ (x \in Z <=> Answer(x))
        BY <2>1, <2>2, <2>3
    <2> HIDE DEF Pending, Queueing, Answer, X, Y, Z, Queues
    <2> QED BY <2>4
<1> HIDE DEF O
<1>8. Requested(t, r) <=> O # {}
    <2>1. ASSUME NEW x \in O PROVE P # {} \/ A # {} \/ \E i \in I : Q(i) # {}
        BY <1>70, <2>1
    <2>2. ASSUME P # {} \/ A # {} \/ \E i \in I : Q(i) # {} PROVE O # {}
        <3>1. ASSUME NEW n \in P PROVE O # {}
            BY <1>70, <3>1
        <3>2. ASSUME NEW i \in I, NEW n \in Q(i) PROVE O # {}
            BY <1>70, <3>2
        <3>3. ASSUME NEW m \in A PROVE O # {}
            BY <1>70, <3>3
        <3> QED BY <2>2, <3>1, <3>2, <3>3
    <2>3. (\E m \in Request : m.trid = t /\ Holds(Scheduling, m, r))
          <=> P # {} \/ \E i \in I : Q(i) # {}
        BY <1>4, <1>5, <1>6, Zenon
    <2> QED BY <1>1, <1>7, <2>1, <2>2, <2>3
<1>9. \A x, y \in O : x = y
    <2>1. \A n, k \in P : n = k
        BY <1>1, <1>4 DEF AtMostOne, Scheduling
    <2>2. ASSUME NEW i \in I, NEW j \in I, NEW n \in Q(i), NEW k \in Q(j) PROVE i = j /\ n = k
        <3>1. i \in Instance /\ j \in Instance
            BY DEF I
        <3> QED BY <1>1, <1>5, <3>1 DEF AtMostOne, Scheduling
    <2>3. ASSUME NEW n \in P, NEW i \in I, NEW k \in Q(i) PROVE FALSE
        <3>1. i \in Instance
            BY DEF I
        <3> QED BY <1>1, <1>4, <1>5, <3>1 DEF AtMostOne, Scheduling
    <2>4. A # {} => P = {} /\ \A i \in I : Q(i) = {}
        BY <1>1, <1>3, <1>4, <1>5
    <2>5. \A a, b \in A : a = b
        BY <1>1, <1>3
    <2>6. ASSUME NEW x \in O, NEW y \in O PROVE x = y
        <3>1. Pending(x) \/ Queueing(x) \/ Answer(x)
            BY <1>70
        <3>2. Pending(y) \/ Queueing(y) \/ Answer(y)
            BY <1>70
        <3>3. CASE A # {}
            BY <2>4, <2>5, <3>1, <3>2, <3>3, Zenon
        <3>4. CASE A = {}
            BY <2>1, <2>2, <2>3, <3>1, <3>2, <3>4, Zenon
        <3> QED BY <3>3, <3>4
    <2> QED BY <2>6
<1>10. CASE O = {}
    BY <1>3, <1>8, <1>10, FS_EmptySet
<1>11. CASE O # {}
    <2>1. PICK x \in O : O = {x}
        BY <1>9, <1>11
    <2> QED BY <1>3, <1>8, <1>11, <2>1, FS_Singleton
<1> QED BY <1>10, <1>11

\* Every step keeps the invariant of the requests.
LEMMA RInvKept ==
    ASSUME TypeOK, TypeOK', Placed(Scheduling, inbound, proxy), RInv, [Next]_vars
    PROVE  RInv'
<1>1. Dead /\ Addressed /\ (NoneRetired => Coursed)
    BY DEF RInv
<1>2. CASE Next
    <2>1. Dead' /\ Addressed'
        BY <1>1, <1>2, DeadKept, AddressedKept
    <2>2. ASSUME NoneRetired' PROVE Coursed'
        <3>1. NoneRetired
            BY <1>2, <2>2, RetiredStays
        <3> QED BY <1>1, <1>2, <2>2, <3>1, CoursedKept
    <2> QED BY <2>1, <2>2 DEF RInv
<1>3. CASE UNCHANGED vars
    <2>1. Dead' /\ Addressed' /\ (NoneRetired' => NoneRetired)
        BY <1>1, <1>3 DEF vars, Dead, Addressed, NoneRetired
    <2>2. ASSUME Coursed PROVE Coursed'
        <3>1. StateKept /\ QueuesKept /\ UNCHANGED inbound
            BY <1>3 DEF vars, StateKept, QueuesKept
        <3>2. \A u \in Trid : TellsNothing(u)
            BY <1>3 DEF vars, TellsNothing, Told
        <3> QED BY <2>2, <3>1, <3>2, StateKeptCalm, QueuesKeptWays, KeptCoursed
    <2> QED BY <1>1, <2>1, <2>2 DEF RInv
<1> QED BY <1>2, <1>3

\* RequestAccounted holds as long as no instance has been told to go: no request is lost
\* between pendingRequests, the proxies' queues and the replies, and none is sent twice,
\* whatever the resources answer, whoever dies and whatever the owners ask. (The queue of an
\* instance that was told to go is lost with what waits in it.)
THEOREM RequestsAccounted == Spec => [](NoneRetired => RequestAccounted)
<1>1. Init => RInv
    BY InitRInv
<1>2. TypeOK /\ TypeOK' /\ Placed(Scheduling, inbound, proxy) /\ RInv /\ [Next]_vars => RInv'
    BY RInvKept
<1>3. TypeOK /\ RInv => (NoneRetired => RequestAccounted)
    BY CoursedAccounted DEF RInv
<1> QED BY <1>1, <1>2, <1>3, TypeCorrect, InstancesAlwaysPlaced, PTL DEF Spec

-----------------------------------------------------------------------------
(* The last reply is the last act.                                         *)

\* No resource of t has a request to answer.
Quiet(t) == \A r \in RM : ~ Requested(t, r)

\* Reply m ends the request that the owner of t, who is alive, has made last.
Last(m, t) == Owner[t] \in alive /\ m.correlation = sent[t] /\ m.stage \in {"commit", "rollback"}

\* No correlation is ahead of the owner's requests, and a last reply finds t quiet.
Ended(t) ==
    /\ correlation[t] <= sent[t]
    /\ \A m \in Reply : m.trid = t /\ Told(m) => m.correlation <= sent[t] /\ (Last(m, t) => Quiet(t))

\* A step that says nothing of t, asks nothing and hears no request of its owner.
LEMMA EndedKept ==
    ASSUME TypeOK, NEW t \in Trid, Ended(t), TellsNothing(t), alive' \subseteq alive, sent'[t] = sent[t],
           correlation'[t] \in {correlation[t], 0},
           Quiet(t) => Quiet(t)' \/ Owner[t] \notin alive
    PROVE  Ended(t)'
<1>1. sent[t] \in Nat
    BY BoundAssumption DEF TypeOK
<1>2. correlation'[t] <= sent'[t]
    BY <1>1 DEF Ended
<1>3. ASSUME NEW m \in Reply, m.trid = t, Told(m)'
      PROVE  m.correlation <= sent'[t] /\ (Last(m, t)' => Quiet(t)')
    <2>1. m.correlation <= sent[t] /\ (Last(m, t) => Quiet(t))
        BY <1>3 DEF Ended, TellsNothing
    <2>2. Last(m, t)' => Last(m, t) /\ Owner[t] \in alive
        BY DEF Last
    <2> QED BY <2>1, <2>2
<1> QED BY <1>2, <1>3 DEF Ended

\* The transactions a step leaves alone are as quiet as before.
LEMMA EndedOthers ==
    ASSUME TypeOK, NEW t \in Trid, Ended(t), TellsNothing(t), alive' \subseteq alive,
           sent'[t] = sent[t], correlation'[t] = correlation[t],
           resources'[t] = resources[t], stage'[t] = stage[t]
    PROVE  Ended(t)'
<1>1. Quiet(t) => Quiet(t)'
    BY DEF Quiet, Requested
<1> QED BY <1>1, EndedKept

\* A request of the owner is newer than all that was told; what is told at once finds no
\* resource.
LEMMA EndedAsked ==
    ASSUME TypeOK, NEW t \in Trid, Ended(t), sent'[t] = sent[t] + 1,
           correlation'[t] \in {correlation[t], sent'[t], 0},
           \A a \in Reply : a.trid = t /\ Told(a)' =>
               \/ Told(a)
               \/ a.correlation = sent'[t] /\ (a.stage \in {"commit", "rollback"} => Quiet(t)')
    PROVE  Ended(t)'
<1>1. sent[t] \in Nat /\ correlation[t] \in Nat
    BY BoundAssumption DEF TypeOK
<1>2. correlation'[t] <= sent'[t]
    BY <1>1 DEF Ended
<1>3. ASSUME NEW m \in Reply, m.trid = t, Told(m)'
      PROVE  m.correlation <= sent'[t] /\ (Last(m, t)' => Quiet(t)')
    <2>1. m.correlation \in Nat
        BY BoundAssumption DEF Reply
    <2>2. CASE Told(m)
        <3>1. m.correlation <= sent[t]
            BY <1>3, <2>2 DEF Ended
        <3>2. m.correlation # sent'[t] /\ m.correlation <= sent'[t]
            BY <1>1, <2>1, <3>1
        <3> QED BY <3>2 DEF Last
    <2>3. CASE ~ Told(m)
        <3>1. m.correlation = sent'[t] /\ (m.stage \in {"commit", "rollback"} => Quiet(t)')
            BY <1>3, <2>3
        <3> QED BY <1>1, <3>1 DEF Last
    <2> QED BY <2>2, <2>3
<1> QED BY <1>2, <1>3 DEF Ended

\* The answer of a proxy ends the wait for it: nothing was told as the last reply before,
\* and what is told now finds t quiet if it is the last.
LEMMA EndedAnswered ==
    ASSUME TypeOK, NEW t \in Trid, Ended(t), ~ Quiet(t), alive' = alive, sent'[t] = sent[t],
           correlation'[t] \in {correlation[t], 0},
           \A a \in Reply : a.trid = t /\ Told(a)' =>
               \/ Told(a)
               \/ a.correlation = correlation[t] /\ (a.stage \in {"commit", "rollback"} => Quiet(t)')
    PROVE  Ended(t)'
<1>1. sent[t] \in Nat
    BY BoundAssumption DEF TypeOK
<1>2. correlation'[t] <= sent'[t]
    BY <1>1 DEF Ended
<1>3. ASSUME NEW m \in Reply, m.trid = t, Told(m)'
      PROVE  m.correlation <= sent'[t] /\ (Last(m, t)' => Quiet(t)')
    <2>1. CASE Told(m)
        <3>1. m.correlation <= sent[t] /\ ~ Last(m, t)
            BY <1>3, <2>1 DEF Ended
        <3> QED BY <3>1 DEF Last
    <2>2. CASE ~ Told(m)
        <3>1. m.correlation = correlation[t] /\ (m.stage \in {"commit", "rollback"} => Quiet(t)')
            BY <1>3, <2>2
        <3> QED BY <3>1 DEF Ended, Last
    <2> QED BY <2>1, <2>2
<1> QED BY <1>2, <1>3 DEF Ended

\* What handle::Commit answers at once is an error, or finds nothing left to do.
LEMMA CommitEnded ==
    ASSUME TypeOK, \A u \in Trid : Ended(u), NEW t \in Trid, Commit(t)
    PROVE  \A u \in Trid : Ended(u)'
<1> DEFINE rs == Involve(t, own[t])
           refused == CommitReply(t, "error", cXAER_PROTO, sent'[t])
           empty == CommitReply(t, "commit", cXA_RDONLY, sent'[t])
<1>1. /\ alive' = alive /\ unsent' = unsent /\ sent'[t] = sent[t] + 1 /\ sent'[t] \in 0 .. MaxRequests
      /\ \A u \in Trid \ {t} : sent'[u] = sent[u]
    <2>1. sent' = [sent EXCEPT ![t] = @ + 1] /\ alive' = alive /\ unsent' = unsent
        BY DEF Commit, Asks
    <2> QED BY <2>1, AsksMoves DEF Commit, TypeOK
<1>2. CommitRefused(t, rs) \/ CommitEmpty(t, rs) \/ CommitResources(t, rs)
    BY DEF Commit
<1>3. /\ refused \in Reply /\ refused.correlation = sent'[t] /\ refused.stage = "error"
      /\ empty \in Reply /\ empty.correlation = sent'[t]
    BY <1>1, ReplyTypes, StagesTyped DEF CommitReply
<1> HIDE DEF refused, empty, rs
<1>4. /\ correlation'[t] \in {correlation[t], sent'[t], 0}
      /\ \A u \in Trid \ {t} : correlation'[u] = correlation[u]
    BY <1>2 DEF CommitRefused, CommitEmpty, CommitResources, Erase, TypeOK
<1>5. \A a \in Reply : a.trid = t /\ Told(a)' =>
         \/ Told(a)
         \/ a.correlation = sent'[t] /\ (a.stage \in {"commit", "rollback"} => Quiet(t)')
    <2>1. CASE CommitRefused(t, rs)
        <3>1. Tells(refused)
            BY <1>1, <1>3, <2>1, TellsOne DEF CommitRefused, refused
        <3> QED BY <1>3, <3>1 DEF Tells
    <2>2. CASE CommitEmpty(t, rs)
        <3>1. Tells(empty)
            BY <1>1, <1>3, <2>2, TellsOne DEF CommitEmpty, empty
        <3>2. resources'[t] = {}
            BY <2>2 DEF CommitEmpty, Erase, TypeOK
        <3>3. Quiet(t)'
            BY <3>2 DEF Quiet, Requested
        <3> QED BY <1>3, <3>1, <3>3 DEF Tells
    <2>3. CASE CommitResources(t, rs)
        <3>1. UNCHANGED <<persistentReplies, received, unsent>>
            BY <1>1, <2>3 DEF CommitResources, NoReply
        <3> QED BY <3>1, NoReplyTells DEF TellsNothing
    <2> QED BY <1>2, <2>1, <2>2, <2>3
<1>6. Ended(t)'
    BY <1>1, <1>4, <1>5, EndedAsked
<1>7. ASSUME NEW u \in Trid \ {t} PROVE Ended(u)'
    <2>1. resources'[u] = resources[u] /\ stage'[u] = stage[u] /\ TellsNothing(u)
        BY <1>7, CommitAlone DEF Alone, Untouched
    <2> QED BY <1>1, <1>4, <1>7, <2>1, EndedOthers
<1> QED BY <1>6, <1>7

\* handle::Rollback answers at once only when there is nothing to roll back.
LEMMA RollbackEnded ==
    ASSUME TypeOK, \A u \in Trid : Ended(u), NEW t \in Trid, Rollback(t)
    PROVE  \A u \in Trid : Ended(u)'
<1> DEFINE rs == Involve(t, own[t])
           n == RollbackReply(t, "rollback", cXA_OK, sent'[t])
<1>1. /\ alive' = alive /\ unsent' = unsent /\ sent'[t] = sent[t] + 1 /\ sent'[t] \in 0 .. MaxRequests
      /\ \A u \in Trid \ {t} : sent'[u] = sent[u]
    <2>1. sent' = [sent EXCEPT ![t] = @ + 1] /\ alive' = alive /\ unsent' = unsent
        BY DEF Rollback, Asks
    <2> QED BY <2>1, AsksMoves DEF Rollback, TypeOK
<1>2. /\ rs \in SUBSET RM /\ Roll(t, rs, sent'[t])
      /\ (rs = {} /\ SendReply(n)) \/ NoReply
    BY DEF Rollback, Involve, TypeOK
<1>3. n \in Reply /\ n.correlation = sent'[t] /\ n.trid = t
    BY <1>1, ReplyTypes, StagesTyped DEF RollbackReply
<1> HIDE DEF n, rs
<1>4. /\ correlation'[t] \in {correlation[t], sent'[t], 0}
      /\ \A u \in Trid \ {t} : correlation'[u] = correlation[u]
    BY <1>2 DEF Roll, Erase, TypeOK
<1>5. (rs = {} /\ Tells(n)) \/ UNCHANGED <<persistentReplies, received, unsent>>
    BY <1>1, <1>2, <1>3, TellsOne DEF NoReply
<1>6. \A a \in Reply : a.trid = t /\ Told(a)' =>
         \/ Told(a)
         \/ a.correlation = sent'[t] /\ (a.stage \in {"commit", "rollback"} => Quiet(t)')
    <2>1. CASE rs = {} /\ Tells(n)
        <3>1. resources'[t] = {}
            BY <1>2, <2>1, RollMoves
        <3>2. Quiet(t)'
            BY <3>1 DEF Quiet, Requested
        <3> QED BY <1>3, <2>1, <3>2 DEF Tells
    <2>2. CASE UNCHANGED <<persistentReplies, received, unsent>>
        BY <2>2, NoReplyTells DEF TellsNothing
    <2> QED BY <1>5, <2>1, <2>2
<1>7. Ended(t)'
    BY <1>1, <1>4, <1>6, EndedAsked
<1>8. ASSUME NEW u \in Trid \ {t} PROVE Ended(u)'
    <2>1. resources'[u] = resources[u] /\ stage'[u] = stage[u]
        BY <1>2, <1>8, RollMoves
    <2>2. TellsNothing(u)
        <3>1. CASE Tells(n)
            BY <1>3, <1>8, <3>1, TellsOther
        <3>2. CASE UNCHANGED <<persistentReplies, received, unsent>>
            BY <1>8, <3>2, NoReplyTells
        <3> QED BY <1>5, <3>1, <3>2
    <2> QED BY <1>1, <1>4, <1>8, <2>1, <2>2, EndedOthers
<1> QED BY <1>7, <1>8

\* The rollback of process::Exit: no one is left to hear.
LEMMA ExitRollbackEnded ==
    ASSUME TypeOK, Dead, \A u \in Trid : Ended(u), NEW t \in Trid, ExitRollback(t)
    PROVE  \A u \in Trid : Ended(u)'
<1>1. /\ UNCHANGED <<persistentReplies, received, unsent, sent, alive>>
      /\ Roll(t, resources[t], 0) /\ resources[t] \in SUBSET RM /\ Owner[t] \notin alive
    BY DEF ExitRollback, clientVars, TypeOK, Dead
<1>2. \A u \in Trid : TellsNothing(u)
    BY <1>1, NoReplyTells
<1>3. correlation'[t] = 0 /\ \A u \in Trid \ {t} : correlation'[u] = correlation[u]
    BY <1>1 DEF Roll, Erase, TypeOK
<1>4. Ended(t)'
    BY <1>1, <1>2, <1>3, EndedKept
<1>5. ASSUME NEW u \in Trid \ {t} PROVE Ended(u)'
    <2>1. resources'[u] = resources[u] /\ stage'[u] = stage[u]
        BY <1>1, <1>5, RollMoves
    <2> QED BY <1>1, <1>2, <1>3, <1>5, <2>1, EndedOthers
<1> QED BY <1>4, <1>5

\* A resource that gets involved has been asked nothing.
LEMMA InvolvedEnded ==
    ASSUME TypeOK, Coursed, \A u \in Trid : Ended(u), NEW t \in Trid, NEW id \in ResourceId, Involved(t, id)
    PROVE  \A u \in Trid : Ended(u)'
<1>1. /\ UNCHANGED <<stage, correlation, sent, alive, persistentReplies, received, unsent>>
      /\ resources'[t] = resources[t] \cup ({id} \cap RM)
      /\ \A u \in Trid \ {t} : resources'[u] = resources[u]
    BY DEF Involved, Involve, TypeOK
<1>2. \A u \in Trid : TellsNothing(u)
    BY <1>1, NoReplyTells
<1>3. \A r \in RM \ resources[t] : stage[t][r] = cInvolved
    BY DEF Coursed, Course
<1>4. Quiet(t) => Quiet(t)'
    BY <1>1, <1>3 DEF Quiet, Requested, cInvolved, cPrepareRequested, cCommitRequested, cRollbackRequested
<1>5. Ended(t)'
    BY <1>1, <1>2, <1>4, EndedKept
<1>6. ASSUME NEW u \in Trid \ {t} PROVE Ended(u)'
    BY <1>1, <1>2, <1>6, EndedOthers
<1> QED BY <1>5, <1>6

\* The handlers of the answers tell the last reply when no resource has a request left.
LEMMA ReplyWrapperEnded ==
    ASSUME TypeOK, Coursed, \A u \in Trid : Ended(u), NEW m \in inbound, ReplyWrapper(m)
    PROVE  \A u \in Trid : Ended(u)'
<1> DEFINE s == Done(Scheduling, m.instance)
           t == m.trid
           r == m.instance[1]
           code == Results(result[t], resources[t])
           c == correlation[t]
           logged == CommitReply(t, "prepare", cXA_OK, c)
           committed == CommitReply(t, "commit", code, c)
           rolledback == RollbackReply(t, "rollback", cXA_OK, c)
           failed == RollbackReply(t, "rollback", code, c)
           stgC == [stage[t] EXCEPT ![r] = cCommitReplied]
           stgR == [stage[t] EXCEPT ![r] = cRollbackReplied]
<1>1. /\ m.op # "connect" /\ inbound' = inbound \ {m} /\ UNCHANGED <<unsent, sent, alive>> /\ Takes(m)
    BY DEF ReplyWrapper, Takes, clientVars
<1>2. /\ m \in ResourceReply /\ t \in Trid /\ r \in RM /\ r \in resources[t] /\ t \in transactions
      /\ s \in SchedulingType /\ Follows(s) /\ m.op \in Way(t, r)
    BY <1>1, ReadWays
<1>3. \/ m.op = "prepare" /\ PrepareReply(m, s, t, r)
      \/ m.op = "commit" /\ CommitDone(m, s, t, r)
      \/ m.op = "rollback" /\ RollbackDone(m, s, t, r)
    BY <1>2 DEF ReplyWrapper
<1>4. /\ resources[t] \in SUBSET RM /\ stage[t] \in [RM -> Stage] /\ result[t] \in [RM -> Result]
      /\ c \in 0 .. MaxRequests
    BY <1>2 DEF TypeOK
<1>5. code \in Result
    BY <1>4, ResultsLeast
<1>6. /\ {logged, committed, rolledback, failed} \subseteq Reply
      /\ \A a \in {logged, committed, rolledback, failed} : a.correlation = c /\ a.trid = t
      /\ logged.stage = "prepare"
    <2>1. {logged, committed, rolledback, failed} \subseteq Reply
        <3> HIDE DEF t, c, code
        <3> QED BY <1>2, <1>4, <1>5, ReplyTypes, StagesTyped
    <2>2. logged.correlation = c /\ logged.trid = t /\ logged.stage = "prepare"
        BY DEF CommitReply
    <2>3. /\ committed.correlation = c /\ committed.trid = t
          /\ rolledback.correlation = c /\ rolledback.trid = t
          /\ failed.correlation = c /\ failed.trid = t
        BY DEF CommitReply, RollbackReply
    <2> QED BY <2>1, <2>2, <2>3
<1>7. Course(t)
    BY <1>2 DEF Coursed
<1>8. ~ Quiet(t)
    BY <1>2, <1>7 DEF Course, Quiet
<1>9. /\ stgC \in [RM -> Stage] /\ stgR \in [RM -> Stage]
      /\ \A q \in RM \ {r} : stgC[q] = stage[t][q]
      /\ stgC[r] = cCommitReplied
    BY <1>2, <1>4, StagesTyped
<1>10. \/ m.op = "prepare" /\ UNCHANGED correlation /\ (NoReply \/ SendPersistent(logged))
       \/ /\ m.op = "commit" /\ (UNCHANGED correlation \/ Erase(t))
          /\ \/ NoReply
             \/ /\ SendReply(committed) \/ SendPersistent(committed)
                /\ LeastStage(stgC, resources[t]) = cCommitReplied
                /\ Erase(t) \/ (stage' = [stage EXCEPT ![t] = stgC] /\ UNCHANGED resources)
       \/ /\ m.op = "rollback" /\ (UNCHANGED correlation \/ Erase(t))
          /\ \/ NoReply
             \/ /\ SendReply(rolledback) \/ SendPersistent(failed)
                /\ LeastStage(stgR, resources[t]) = cRollbackReplied
                /\ Erase(t) \/ (stage' = [stage EXCEPT ![t] = stgR] /\ UNCHANGED resources)
    <2>1. PrepareReply(m, s, t, r) => UNCHANGED correlation /\ (NoReply \/ SendPersistent(logged))
        BY Zenon DEF PrepareReply
    <2>2. CommitDone(m, s, t, r) =>
          /\ UNCHANGED correlation \/ Erase(t)
          /\ \/ NoReply
             \/ /\ SendReply(committed) \/ SendPersistent(committed)
                /\ LeastStage(stgC, resources[t]) = cCommitReplied
                /\ Erase(t) \/ (stage' = [stage EXCEPT ![t] = stgC] /\ UNCHANGED resources)
        BY Zenon DEF CommitDone
    <2>3. RollbackDone(m, s, t, r) =>
          /\ UNCHANGED correlation \/ Erase(t)
          /\ \/ NoReply
             \/ /\ SendReply(rolledback) \/ SendPersistent(failed)
                /\ LeastStage(stgR, resources[t]) = cRollbackReplied
                /\ Erase(t) \/ (stage' = [stage EXCEPT ![t] = stgR] /\ UNCHANGED resources)
        BY Zenon DEF RollbackDone
    <2> QED BY <1>3, <2>1, <2>2, <2>3
<1> HIDE DEF s, t, r, code, c, logged, committed, rolledback, failed, stgC, stgR
<1>11. \A u \in Trid \ {t} : Calm(u) /\ correlation'[u] = correlation[u]
    <2>1. Others(t)
        <3>1. m.op = "prepare" /\ PrepareReply(m, s, t, r) => Others(t)
            BY <1>1, <1>2, PrepareMoves
        <3>2. CommitDone(m, s, t, r) => Others(t)
            BY <1>1, <1>2, CommitDoneMoves
        <3>3. RollbackDone(m, s, t, r) => Others(t)
            BY <1>1, <1>2, RollbackDoneMoves
        <3> QED BY <1>3, <3>1, <3>2, <3>3
    <2>2. UNCHANGED correlation \/ Erase(t)
        BY <1>10
    <2>3. \A u \in Trid \ {t} : correlation'[u] = correlation[u]
        BY <2>2 DEF Erase, TypeOK
    <2> QED BY <1>1, <1>2, <2>1, <2>3, OthersCalm
<1>12. correlation'[t] \in {correlation[t], 0}
    BY <1>2, <1>10 DEF Erase, TypeOK
<1>13. Erase(t) => Quiet(t)'
    BY <1>2 DEF Erase, TypeOK, Quiet, Requested
<1>14. ASSUME m.op = "commit", LeastStage(stgC, resources[t]) = cCommitReplied,
              stage' = [stage EXCEPT ![t] = stgC], UNCHANGED resources
       PROVE  Quiet(t)'
    <2>1. \A q \in resources[t] : stgC[q] \in Stage /\ stgC[q] >= cCommitReplied
        BY <1>4, <1>9, <1>14, StageLeast
    <2>2. \A q \in resources[t] : stage[t][q] # cRollbackRequested
        BY <1>2, <1>7, <1>14 DEF Course, Deciding
    <2>3. \A q \in resources[t] : stgC[q] # cRollbackRequested
        BY <1>4, <1>9, <2>2 DEF cCommitReplied, cRollbackRequested
    <2>4. stage'[t] = stgC
        BY <1>2, <1>14 DEF TypeOK
    <2> QED BY <1>14, <2>1, <2>3, <2>4
            DEF Quiet, Requested, Stage, cPrepareRequested, cCommitRequested, cCommitReplied
<1>15. ASSUME LeastStage(stgR, resources[t]) = cRollbackReplied,
              stage' = [stage EXCEPT ![t] = stgR], UNCHANGED resources
       PROVE  Quiet(t)'
    <2>1. \A q \in resources[t] : stgR[q] \in Stage /\ stgR[q] >= cRollbackReplied
        BY <1>4, <1>9, <1>15, StageLeast
    <2>2. stage'[t] = stgR
        BY <1>2, <1>15 DEF TypeOK
    <2> QED BY <1>15, <2>1, <2>2
            DEF Quiet, Requested, Stage, cPrepareRequested, cCommitRequested, cRollbackRequested, cRollbackReplied
<1>16. \/ \A u \in Trid : TellsNothing(u)
       \/ Tells(logged)
       \/ (Tells(committed) \/ Tells(rolledback) \/ Tells(failed)) /\ Quiet(t)'
    <2>1. NoReply => \A u \in Trid : TellsNothing(u)
        BY <1>1, NoReplyTells DEF NoReply
    <2>2. \A a \in Reply : SendReply(a) \/ SendPersistent(a) => Tells(a)
        BY <1>1, TellsOne
    <2> QED BY <1>6, <1>10, <1>13, <1>14, <1>15, <2>1, <2>2
<1>17. \A a \in Reply : a.trid = t /\ Told(a)' =>
          \/ Told(a)
          \/ a.correlation = c /\ (a.stage \in {"commit", "rollback"} => Quiet(t)')
    BY <1>2, <1>6, <1>16 DEF Tells, TellsNothing
<1>18. Ended(t)'
    BY <1>1, <1>2, <1>8, <1>12, <1>17, EndedAnswered DEF c
<1>19. ASSUME NEW u \in Trid \ {t} PROVE Ended(u)'
    BY <1>1, <1>11, <1>19, EndedOthers DEF Calm
<1> QED BY <1>18, <1>19

\* Every step keeps the last reply the last act, while no instance is told to go.
LEMMA EndedSteps ==
    ASSUME TypeOK, Dead, Addressed, Coursed, \A u \in Trid : Ended(u), Next
    PROVE  \A u \in Trid : Ended(u)'
<1>1. ASSUME NEW t \in Trid, Commit(t) PROVE \A u \in Trid : Ended(u)'
    BY <1>1, CommitEnded
<1>2. ASSUME NEW t \in Trid, Rollback(t) PROVE \A u \in Trid : Ended(u)'
    BY <1>2, RollbackEnded
<1>3. ASSUME NEW t \in Trid, NEW id \in ResourceId, Involved(t, id) PROVE \A u \in Trid : Ended(u)'
    BY <1>3, InvolvedEnded
<1>4. ASSUME NEW t \in Trid, ExitRollback(t) PROVE \A u \in Trid : Ended(u)'
    BY <1>4, ExitRollbackEnded
<1>5. ASSUME NEW m \in inbound, ReplyWrapper(m) PROVE \A u \in Trid : Ended(u)'
    BY <1>5, ReplyWrapperEnded
<1>6. ASSUME UNCHANGED <<resources, stage, correlation, sent>>, alive' \subseteq alive,
             \A u \in Trid : TellsNothing(u)
      PROVE  \A u \in Trid : Ended(u)'
    BY <1>6, EndedOthers
<1>7. CASE \/ \E p \in Process : Exit(p) \/ Ends(p)
           \/ \E t \in Trid : GiveUp(t)
           \/ \E m \in inbound : Connect(m) \/ PumpFails(m)
           \/ \E r \in RM, n \in 0 .. MaxInstances : Instances(r, n)
           \/ WriteBatch
           \/ \E i \in Instance : ProxyOpen(i) \/ ProxyRequest(i) \/ ProxyShutdown(i)
    <2>1. UNCHANGED <<resources, stage, correlation, sent, persistentReplies, received, unsent>> /\ alive' \subseteq alive
        BY <1>7 DEF Exit, Ends, GiveUp, Connect, PumpFails, Instances, WriteBatch, ProxyOpen, ProxyRequest,
                    ProxyShutdown, transVars, proxyVars, clientVars
    <2> QED BY <1>6, <2>1, NoReplyTells
<1>8. ASSUME NEW t \in Trid, Receive(t) PROVE \A u \in Trid : Ended(u)'
    <2>1. UNCHANGED <<resources, stage, correlation, sent, alive>>
        BY <1>8 DEF Receive, transVars
    <2> QED BY <1>6, <1>8, <2>1, ReceiveMoves
<1>9. CASE SendBatch
    <2>1. UNCHANGED <<resources, stage, correlation, sent, alive>>
        BY <1>9 DEF SendBatch, transVars, clientVars
    <2> QED BY <1>6, <1>9, <2>1, SendBatchTells
<1>10. CASE EndBatch
    <2>1. UNCHANGED <<resources, stage, correlation, sent, alive>>
        BY <1>10 DEF EndBatch, transVars, clientVars
    <2>2. \A u \in Trid : TellsNothing(u)
        BY <1>10 DEF EndBatch, TellsNothing, Told
    <2> QED BY <1>6, <2>1, <2>2
<1> QED BY <1>1, <1>2, <1>3, <1>4, <1>5, <1>7, <1>8, <1>9, <1>10, NextSteps DEF Steps

\* FinalReply holds as long as no instance has been told to go: whatever the resources
\* answer, the last reply of a commit or a rollback finds nothing of the transaction waiting,
\* in the queue of a proxy or answered and unread.
THEOREM FinalReplies == Spec => [](NoneRetired => FinalReply)
<1> DEFINE Inv == RInv /\ (NoneRetired => \A t \in Trid : Ended(t))
<1>1. Init => Inv
    <2> SUFFICES ASSUME Init PROVE Inv
        OBVIOUS
    <2>1. \A t \in Trid : correlation[t] <= sent[t] /\ \A m \in Reply : ~ Told(m)
        BY DEF Init, Told, Reply
    <2> QED BY <2>1, InitRInv DEF Ended
<1>2. TypeOK /\ TypeOK' /\ Placed(Scheduling, inbound, proxy) /\ Inv /\ [Next]_vars => Inv'
    <2> SUFFICES ASSUME TypeOK, TypeOK', Placed(Scheduling, inbound, proxy), Inv, [Next]_vars
                 PROVE  Inv'
        OBVIOUS
    <2>1. RInv'
        BY RInvKept
    <2>2. ASSUME NoneRetired' PROVE \A t \in Trid : Ended(t)'
        <3>1. CASE Next
            <4>1. NoneRetired
                BY <2>2, <3>1, RetiredStays
            <4>2. Dead /\ Addressed /\ Coursed /\ \A t \in Trid : Ended(t)
                BY <4>1 DEF RInv
            <4> QED BY <3>1, <4>2, EndedSteps
        <3>2. CASE UNCHANGED vars
            <4>1. NoneRetired
                BY <2>2, <3>2 DEF vars, NoneRetired
            <4>2. UNCHANGED <<persistentReplies, received, unsent, resources, stage, correlation, sent, alive>>
                BY <3>2 DEF vars
            <4>3. \A t \in Trid : TellsNothing(t)
                BY <4>2, NoReplyTells
            <4> QED BY <4>1, <4>2, <4>3, EndedOthers
        <3> QED BY <3>1, <3>2
    <2> QED BY <2>1, <2>2
<1>3. TypeOK /\ Inv => (NoneRetired => FinalReply)
    <2> SUFFICES ASSUME TypeOK, Inv, NoneRetired, NEW t \in Trid, Owner[t] \in alive,
                        NEW n \in Expected(t), received[t][n].stage \in {"commit", "rollback"}, NEW r \in RM
                 PROVE  Outstanding(t, r) = {}
        BY DEF FinalReply
    <2> DEFINE m == received[t][n]
    <2>1. n \in DOMAIN received[t] /\ m.correlation = sent[t] /\ received[t] \in Seq(Reply)
        BY DEF Expected, TypeOK
    <2>2. m \in Reply /\ m.trid = t /\ Told(m)
        BY <2>1 DEF RInv, Addressed, Told
    <2>3. Last(m, t)
        BY <2>1 DEF Last
    <2>4. Quiet(t)
        BY <2>2, <2>3 DEF Ended
    <2> QED BY <2>4, CoursedAccounted DEF Quiet, RInv
<1> HIDE DEF Inv
<1> QED BY <1>1, <1>2, <1>3, TypeCorrect, InstancesAlwaysPlaced, PTL DEF Spec
=============================================================================

---------------------- MODULE TransactionManagerProofs ----------------------
(***************************************************************************)
(* Proofs about TransactionManager, for any sets of transactions, resources*)
(* and processes, any bounds and anything the resource managers answer.    *)
(***************************************************************************)
EXTENDS TransactionManager, TLAPS, FiniteSetTheorems, WellFoundedInduction

-----------------------------------------------------------------------------
(* Lemmas about the operators.                                             *)

\* Every non-empty set of natural numbers has a least one.
LEMMA LeastNatural ==
    ASSUME NEW T \in SUBSET Nat, T # {}
    PROVE  \E x \in T : \A y \in T : x <= y
<1> DEFINE R == {ss \in Nat \X Nat : ss[1] < ss[2]}
<1>1. IsWellFoundedOn(R, Nat)
    BY NatLessThanWellFounded, Zenon DEF OpToRel
<1>2. \E x \in T : \A y \in T : ~ (<<y, x>> \in R)
    <2> HIDE DEF R
    <2> QED BY <1>1, WFMin, Zenon
<1>3. PICK x \in T : \A y \in T : ~ (<<y, x>> \in R)
    BY <1>2
<1>4. ASSUME NEW y \in T PROVE x <= y
    <2>1. <<y, x>> \notin R /\ x \in Nat /\ y \in Nat
        BY <1>3
    <2>2. ~ (y < x)
        BY <2>1
    <2> QED BY <2>1, <2>2
<1> QED BY <1>4

\* Transaction::results() is a result, no resource's is more severe, and it is cXA_RDONLY
\* or the result of some resource.
LEMMA ResultsLeast ==
    ASSUME NEW res \in [RM -> Result], NEW rs \in SUBSET RM
    PROVE  /\ Results(res, rs) \in Result
           /\ \A r \in rs : Results(res, rs) <= res[r]
           /\ Results(res, rs) = cXA_RDONLY \/ \E r \in rs : res[r] = Results(res, rs)
<1> DEFINE S == {cXA_RDONLY} \cup {res[r] : r \in rs}
<1>1. S \subseteq Result /\ S # {}
    BY DEF Result, cXA_RDONLY
<1>2. PICK k \in S : \A j \in S : k <= j
    <2>1. S \in SUBSET Nat
        BY <1>1 DEF Result
    <2> HIDE DEF S
    <2> QED BY <1>1, <2>1, LeastNatural
<1>3. \E x \in Result : /\ x = cXA_RDONLY \/ \E r \in rs : res[r] = x
                        /\ \A r \in rs : x <= res[r]
    BY <1>1, <1>2
<1> QED BY <1>3 DEF Results

\* Transaction::stage() is a stage, no resource is at an earlier one, and it is
\* cNotInvolved or the stage of some resource.
LEMMA StageLeast ==
    ASSUME NEW stg \in [RM -> Stage], NEW rs \in SUBSET RM
    PROVE  /\ LeastStage(stg, rs) \in Stage
           /\ \A r \in rs : LeastStage(stg, rs) <= stg[r]
           /\ LeastStage(stg, rs) = cNotInvolved \/ \E r \in rs : stg[r] = LeastStage(stg, rs)
<1> DEFINE S == {cNotInvolved} \cup {stg[r] : r \in rs}
<1>1. S \subseteq Stage /\ S # {}
    BY DEF Stage, cNotInvolved
<1>2. PICK k \in S : \A j \in S : k <= j
    <2>1. S \in SUBSET Nat
        BY <1>1 DEF Stage
    <2> HIDE DEF S
    <2> QED BY <1>1, <2>1, LeastNatural
<1>3. \E x \in Stage : /\ x = cNotInvolved \/ \E r \in rs : stg[r] = x
                       /\ \A r \in rs : x <= stg[r]
    BY <1>1, <1>2
<1> QED BY <1>3 DEF LeastStage

\* The triples the scheduling operators work on.
SchedulingType ==
    [instance : [Instance -> InstanceState],
     inbox : [Instance -> Seq(Request \cup {Shutdown})],
     pending : Seq(PendingRequest)]

\* action::resource::request keeps the types of the scheduling state.
LEMMA SendRequestType ==
    ASSUME NEW s \in SchedulingType, NEW m \in Request, NEW rs \in SUBSET RM
    PROVE  SendRequest(s, m, rs) \in SchedulingType
<1> DEFINE idle == IdleInstances(s.instance, rs)
           left == {r \in rs : \A i \in idle : i[1] # r}
<1>1. [i \in Instance |-> IF i \in idle THEN NewState(s.instance[i], "busy") ELSE s.instance[i]]
        \in [Instance -> InstanceState]
    BY DEF SchedulingType, NewState, InstanceState
<1>2. [i \in Instance |-> IF i \in idle THEN Append(s.inbox[i], m) ELSE s.inbox[i]]
        \in [Instance -> Seq(Request \cup {Shutdown})]
    BY DEF SchedulingType
<1>3. [message |-> m, resources |-> left] \in PendingRequest
    BY DEF PendingRequest
<1>4. s.pending \in Seq(PendingRequest)
    BY DEF SchedulingType
<1> HIDE DEF idle
<1>5. (IF left = {} THEN s.pending ELSE Append(s.pending, [message |-> m, resources |-> left]))
        \in Seq(PendingRequest)
    BY <1>3, <1>4
<1> QED BY <1>1, <1>2, <1>5 DEF SendRequest, SchedulingType, idle

\* Taking a resource from a pending request keeps the type of pendingRequests.
LEMMA WithoutResourceType ==
    ASSUME NEW p \in Seq(PendingRequest), NEW n \in DOMAIN p, NEW r \in RM
    PROVE  WithoutResource(p, n, r) \in Seq(PendingRequest)
<1>1. n \in 1 .. Len(p) /\ p[n] \in PendingRequest
    OBVIOUS
<1>2. SubSeq(p, 1, n - 1) \in Seq(PendingRequest) /\ SubSeq(p, n + 1, Len(p)) \in Seq(PendingRequest)
    BY <1>1
<1>3. [p[n] EXCEPT !.resources = @ \ {r}] \in PendingRequest
    BY <1>1 DEF PendingRequest
<1>4. [p EXCEPT ![n].resources = @ \ {r}] = [p EXCEPT ![n] = [p[n] EXCEPT !.resources = @ \ {r}]]
    BY <1>1
<1>5. [p EXCEPT ![n].resources = @ \ {r}] \in Seq(PendingRequest)
    BY <1>1, <1>3, <1>4
<1> QED BY <1>2, <1>5 DEF WithoutResource

\* instance::done keeps the types of the scheduling state.
LEMMA DoneType ==
    ASSUME NEW s \in SchedulingType, NEW i \in Instance
    PROVE  Done(s, i) \in SchedulingType
<1> DEFINE found == PendingFor(s, i[1])
           n == CHOOSE n \in found : TRUE
<1>1. i[1] \in RM
    BY DEF Instance
<1>2. CASE found = {}
    BY <1>2 DEF Done, SchedulingType, NewState, InstanceState
<1>3. CASE found # {}
    <2>1. n \in DOMAIN s.pending
        BY <1>3 DEF PendingFor
    <2>2. s.pending \in Seq(PendingRequest) /\ s.pending[n] \in PendingRequest
        BY <2>1 DEF SchedulingType
    <2>3. s.pending[n].message \in Request \cup {Shutdown}
        BY <2>2 DEF PendingRequest
    <2>4. WithoutResource(s.pending, n, i[1]) \in Seq(PendingRequest)
        BY <1>1, <2>1, <2>2, WithoutResourceType
    <2>5. [s.instance EXCEPT ![i] = NewState(@, "busy")] \in [Instance -> InstanceState]
        BY DEF SchedulingType, NewState, InstanceState
    <2>6. [s.inbox EXCEPT ![i] = Append(@, s.pending[n].message)]
            \in [Instance -> Seq(Request \cup {Shutdown})]
        BY <2>3 DEF SchedulingType
    <2> HIDE DEF n
    <2>7. Done(s, i) = [instance |-> [s.instance EXCEPT ![i] = NewState(@, "busy")],
                        inbox |-> [s.inbox EXCEPT ![i] = Append(@, s.pending[n].message)],
                        pending |-> WithoutResource(s.pending, n, i[1])]
        BY <1>3 DEF Done, n
    <2> QED BY <2>4, <2>5, <2>6, <2>7 DEF SchedulingType
<1> QED BY <1>2, <1>3

-----------------------------------------------------------------------------
(* Type correctness.                                                       *)

\* The scheduling part of a typed state is typed.
LEMMA SchedulingOK ==
    ASSUME TypeOK
    PROVE  Scheduling \in SchedulingType
BY DEF TypeOK, Scheduling, SchedulingType

\* Storing a typed scheduling state keeps the types of its three variables.
LEMMA ScheduleOK ==
    ASSUME NEW s \in SchedulingType, Schedule(s)
    PROVE  /\ instance' \in [Instance -> InstanceState]
           /\ inbox' \in [Instance -> Seq(Request \cup {Shutdown})]
           /\ pendingRequests' \in Seq(PendingRequest)
BY DEF Schedule, SchedulingType

\* The types of State::transactions.
TransOK ==
    /\ transactions \subseteq Trid
    /\ resources \in [Trid -> SUBSET RM]
    /\ stage \in [Trid -> [RM -> Stage]]
    /\ result \in [Trid -> [RM -> Result]]
    /\ correlation \in [Trid -> 0 .. MaxRequests]

\* Removing a transaction keeps the types of State::transactions.
LEMMA EraseOK ==
    ASSUME TransOK, NEW t \in Trid, Erase(t)
    PROVE  TransOK'
BY BoundAssumption DEF TransOK, Erase, Stage, Result, cInvolved, cXA_OK

\* The types of the replies that wait and of those sent.
RepliesOK ==
    /\ persistentReplies \in Seq(Reply)
    /\ received \in [Trid -> Seq(Reply)]

\* A reply that is sent, or found impossible to send, keeps the type of the queues.
LEMMA PushOK ==
    ASSUME RepliesOK, NEW m \in Reply, NEW ok \in BOOLEAN, Push(m, ok)
    PROVE  received' \in [Trid -> Seq(Reply)]
<1>1. m.trid \in Trid
    BY DEF Reply
<1>2. \/ received' = received
      \/ received' = [received EXCEPT ![m.trid] = Append(received[m.trid], m)]
    BY Zenon DEF Push
<1>3. [received EXCEPT ![m.trid] = Append(received[m.trid], m)] \in [Trid -> Seq(Reply)]
    BY <1>1 DEF RepliesOK
<1> QED BY <1>2, <1>3 DEF RepliesOK

\* send::reply keeps the types of the replies.
LEMMA SendReplyOK ==
    ASSUME RepliesOK, NEW m \in Reply, SendReply(m)
    PROVE  RepliesOK'
<1>1. received' \in [Trid -> Seq(Reply)]
    BY PushOK DEF SendReply
<1>2. persistentReplies' = persistentReplies \/ persistentReplies' = Append(persistentReplies, m)
    BY Zenon DEF SendReply
<1>3. Append(persistentReplies, m) \in Seq(Reply)
    BY DEF RepliesOK
<1> QED BY <1>1, <1>2, <1>3 DEF RepliesOK

\* send::persistent::reply keeps the types of the replies.
LEMMA SendPersistentOK ==
    ASSUME RepliesOK, NEW m \in Reply, SendPersistent(m)
    PROVE  RepliesOK'
BY DEF RepliesOK, SendPersistent

\* A handler without a reply keeps the types of the replies.
LEMMA NoReplyOK ==
    ASSUME RepliesOK, NoReply
    PROVE  RepliesOK'
BY DEF RepliesOK, NoReply

\* The replies the handlers build are replies.
LEMMA ReplyTypes ==
    ASSUME NEW t \in Trid, NEW code \in Result, NEW c \in 0 .. MaxRequests
    PROVE  /\ \A stg \in {"prepare", "commit", "error"} : CommitReply(t, stg, code, c) \in Reply
           /\ RollbackReply(t, "rollback", code, c) \in Reply
BY DEF CommitReply, RollbackReply, Reply

\* The requests the handlers build are requests.
LEMMA RequestType ==
    ASSUME NEW t \in Trid, NEW op \in {"prepare", "commit", "rollback"}, NEW onephase \in BOOLEAN
    PROVE  [op |-> op, trid |-> t, onephase |-> onephase] \in Request
BY DEF Request

\* send::resource::request keeps the types of the stages and of the scheduling state.
LEMMA RequestResourcesOK ==
    ASSUME stage \in [Trid -> [RM -> Stage]], NEW s \in SchedulingType, NEW t \in Trid,
           NEW rs \in SUBSET RM, NEW op \in {"prepare", "commit", "rollback"},
           NEW onephase \in BOOLEAN, NEW newStage \in Stage,
           RequestResources(s, t, rs, op, onephase, newStage)
    PROVE  /\ stage' \in [Trid -> [RM -> Stage]]
           /\ instance' \in [Instance -> InstanceState]
           /\ inbox' \in [Instance -> Seq(Request \cup {Shutdown})]
           /\ pendingRequests' \in Seq(PendingRequest)
<1> DEFINE m == [op |-> op, trid |-> t, onephase |-> onephase]
<1>1. m \in Request
    BY RequestType
<1>2. SendRequest(s, m, rs) \in SchedulingType
    BY <1>1, SendRequestType
<1>3. Schedule(SendRequest(s, m, rs))
    BY DEF RequestResources
<1>4. stage' \in [Trid -> [RM -> Stage]]
    BY DEF RequestResources
<1> HIDE DEF m
<1> QED BY <1>2, <1>3, <1>4, ScheduleOK

\* What the owner's side of a request leaves in the client variables.
LEMMA AsksOK ==
    ASSUME TypeOK, NEW t \in Trid, NEW type \in {"commit", "rollback"}, Asks(t, type)
    PROVE  /\ client' \in [Trid -> {"active", "commit", "logged", "rollback", "done"}]
           /\ sent' \in [Trid -> 0 .. MaxRequests]
           /\ sent'[t] \in 0 .. MaxRequests
           /\ branch' \in [Trid -> [RM -> {"none", "active", "prepared", "ended", "committed", "rolledback"}]]
<1>1. client' \in [Trid -> {"active", "commit", "logged", "rollback", "done"}]
    BY DEF TypeOK, Asks
<1>2. sent' \in [Trid -> 0 .. MaxRequests] /\ sent'[t] \in 0 .. MaxRequests
    BY BoundAssumption DEF TypeOK, Asks
<1>3. branch' \in [Trid -> [RM -> {"none", "active", "prepared", "ended", "committed", "rolledback"}]]
    BY DEF TypeOK, Asks, Worked
<1> QED BY <1>1, <1>2, <1>3

\* The enumerators the handlers assign are within the types.
LEMMA StagesTyped ==
    /\ {cInvolved, cPrepareRequested, cPrepareReplied, cCommitRequested, cCommitReplied,
        cRollbackRequested, cRollbackReplied, cNotInvolved} \subseteq Stage
    /\ {cXAER_PROTO, cXAER_NOTA, cXA_OK, cXA_RDONLY} \subseteq Result
BY DEF Stage, Result, cInvolved, cPrepareRequested, cPrepareReplied, cCommitRequested,
       cCommitReplied, cRollbackRequested, cRollbackReplied, cNotInvolved, cXAER_PROTO,
       cXAER_NOTA, cXA_OK, cXA_RDONLY

\* basic_rollback keeps the types, whoever asked for it.
LEMMA RollOK ==
    ASSUME TypeOK, NEW t \in Trid, NEW rs \in SUBSET RM, NEW c \in 0 .. MaxRequests,
           Roll(t, rs, c)
    PROVE  /\ TransOK'
           /\ instance' \in [Instance -> InstanceState]
           /\ inbox' \in [Instance -> Seq(Request \cup {Shutdown})]
           /\ pendingRequests' \in Seq(PendingRequest)
<1>1. TransOK
    BY DEF TypeOK, TransOK
<1>2. CASE rs = {}
    <2>1. Erase(t) /\ UNCHANGED <<instance, inbox, pendingRequests>>
        BY <1>2 DEF Roll
    <2> QED BY <1>1, <2>1, EraseOK DEF TypeOK
<1>3. CASE rs # {}
    <2>1. RequestResources(Scheduling, t, AtStage(stage[t], rs, cInvolved), "rollback", FALSE,
                           cRollbackRequested)
        BY <1>3 DEF Roll
    <2>2. AtStage(stage[t], rs, cInvolved) \in SUBSET RM
        BY DEF AtStage
    <2>3. /\ stage' \in [Trid -> [RM -> Stage]]
          /\ instance' \in [Instance -> InstanceState]
          /\ inbox' \in [Instance -> Seq(Request \cup {Shutdown})]
          /\ pendingRequests' \in Seq(PendingRequest)
        BY <1>1, <2>1, <2>2, SchedulingOK, RequestResourcesOK, StagesTyped DEF TransOK
    <2>4. /\ transactions' \subseteq Trid
          /\ resources' \in [Trid -> SUBSET RM]
          /\ result' \in [Trid -> [RM -> Result]]
          /\ correlation' \in [Trid -> 0 .. MaxRequests]
        BY <1>1, <1>3 DEF TransOK, Roll
    <2> QED BY <2>3, <2>4 DEF TransOK
<1> QED BY <1>2, <1>3

\* Every branch of handle::Commit keeps the types.
LEMMA CommitBranchesOK ==
    ASSUME TypeOK, NEW t \in Trid, NEW rs \in SUBSET RM, sent'[t] \in 0 .. MaxRequests,
           CommitRefused(t, rs) \/ CommitEmpty(t, rs) \/ CommitResources(t, rs)
    PROVE  /\ TransOK'
           /\ RepliesOK'
           /\ instance' \in [Instance -> InstanceState]
           /\ inbox' \in [Instance -> Seq(Request \cup {Shutdown})]
           /\ pendingRequests' \in Seq(PendingRequest)
<1>1. TransOK /\ RepliesOK
    BY DEF TypeOK, TransOK, RepliesOK
<1>2. CASE CommitRefused(t, rs)
    <2>1. TransOK'
        BY <1>1, <1>2 DEF CommitRefused, TransOK
    <2>2. CommitReply(t, "error", cXAER_PROTO, sent'[t]) \in Reply
        BY ReplyTypes, StagesTyped
    <2>3. RepliesOK'
        BY <1>1, <1>2, <2>2, SendReplyOK DEF CommitRefused
    <2> QED BY <1>2, <2>1, <2>3 DEF CommitRefused, TypeOK
<1>3. CASE CommitEmpty(t, rs)
    <2>1. TransOK'
        BY <1>1, <1>3, EraseOK DEF CommitEmpty
    <2>2. CommitReply(t, "commit", cXA_RDONLY, sent'[t]) \in Reply
        BY ReplyTypes, StagesTyped
    <2>3. RepliesOK'
        BY <1>1, <1>3, <2>2, SendReplyOK DEF CommitEmpty
    <2> QED BY <1>3, <2>1, <2>3 DEF CommitEmpty, TypeOK
<1>4. CASE CommitResources(t, rs)
    <2> DEFINE to == AtStage(stage[t], rs, cInvolved)
    <2>1. to \in SUBSET RM
        BY DEF AtStage
    <2>2. \/ RequestResources(Scheduling, t, to, "commit", TRUE, cCommitRequested)
          \/ RequestResources(Scheduling, t, to, "prepare", FALSE, cPrepareRequested)
        BY <1>4 DEF CommitResources
    <2>3. /\ stage' \in [Trid -> [RM -> Stage]]
          /\ instance' \in [Instance -> InstanceState]
          /\ inbox' \in [Instance -> Seq(Request \cup {Shutdown})]
          /\ pendingRequests' \in Seq(PendingRequest)
        BY <1>1, <2>1, <2>2, SchedulingOK, RequestResourcesOK, StagesTyped DEF TransOK
    <2>4. /\ transactions' \subseteq Trid
          /\ resources' \in [Trid -> SUBSET RM]
          /\ result' \in [Trid -> [RM -> Result]]
          /\ correlation' \in [Trid -> 0 .. MaxRequests]
        BY <1>1, <1>4 DEF TransOK, CommitResources
    <2>5. RepliesOK'
        BY <1>1, <1>4, NoReplyOK DEF CommitResources
    <2> QED BY <2>3, <2>4, <2>5 DEF TransOK
<1> QED BY <1>2, <1>3, <1>4

\* Every resource reply handler keeps the types.
LEMMA ReplyHandlersOK ==
    ASSUME TypeOK, NEW m \in ResourceReply, NEW s \in SchedulingType, NEW t \in Trid, NEW r \in RM,
           \/ DiscardReply(s)
           \/ PrepareReply(m, s, t, r)
           \/ CommitDone(m, s, t, r)
           \/ RollbackDone(m, s, t, r)
    PROVE  /\ TransOK'
           /\ RepliesOK'
           /\ log' \subseteq Trid
           /\ instance' \in [Instance -> InstanceState]
           /\ inbox' \in [Instance -> Seq(Request \cup {Shutdown})]
           /\ pendingRequests' \in Seq(PendingRequest)
<1>1. TransOK /\ RepliesOK /\ log \subseteq Trid
    BY DEF TypeOK, TransOK, RepliesOK
<1>2. CASE DiscardReply(s)
    <2>1. TransOK' /\ log' \subseteq Trid
        BY <1>1, <1>2 DEF DiscardReply, transVars, TransOK
    <2> QED BY <1>1, <1>2, <2>1, NoReplyOK, ScheduleOK DEF DiscardReply
<1>3. CASE PrepareReply(m, s, t, r)
    <2> DEFINE res == [result[t] EXCEPT ![r] = m.state]
               stg == [stage[t] EXCEPT ![r] = IF m.state = cXA_RDONLY THEN cNotInvolved
                                                                      ELSE cPrepareReplied]
               prepared == LeastStage(stg, resources[t]) = cPrepareReplied
               code == Results(res, resources[t])
               good == {q \in AtStage(stg, resources[t], cPrepareReplied) : res[q] = cXA_OK}
               bad == AtStage(stg, resources[t], cPrepareReplied)
    <2>1. res \in [RM -> Result] /\ stg \in [RM -> Stage]
        BY <1>1, StagesTyped DEF TransOK, ResourceReply
    <2>2. good \in SUBSET RM /\ bad \in SUBSET RM
        BY <1>1 DEF AtStage, TransOK
    <2> HIDE DEF res, stg
    <2>3. CASE /\ ~ prepared
               /\ stage' = [stage EXCEPT ![t] = stg]
               /\ result' = [result EXCEPT ![t] = res]
               /\ Schedule(s)
               /\ UNCHANGED <<transactions, resources, correlation, log>>
               /\ NoReply
        BY <1>1, <2>1, <2>3, ScheduleOK, NoReplyOK DEF TransOK
    <2>4. ASSUME NEW to \in SUBSET RM, NEW op \in {"prepare", "commit", "rollback"}, NEW k \in Stage,
                 /\ stage' = [stage EXCEPT ![t] = [q \in RM |-> IF q \in to THEN k ELSE stg[q]]]
                 /\ result' = [result EXCEPT ![t] = res]
                 /\ Schedule(SendRequest(s, [op |-> op, trid |-> t, onephase |-> FALSE], to))
                 /\ UNCHANGED <<transactions, resources, correlation>>
          PROVE  /\ TransOK'
                 /\ instance' \in [Instance -> InstanceState]
                 /\ inbox' \in [Instance -> Seq(Request \cup {Shutdown})]
                 /\ pendingRequests' \in Seq(PendingRequest)
        <3>1. [op |-> op, trid |-> t, onephase |-> FALSE] \in Request
            BY RequestType
        <3>2. SendRequest(s, [op |-> op, trid |-> t, onephase |-> FALSE], to) \in SchedulingType
            BY <3>1, SendRequestType
        <3>3. TransOK'
            BY <1>1, <2>1, <2>4 DEF TransOK
        <3> QED BY <2>4, <3>2, <3>3, ScheduleOK
    <2>5. CASE /\ log' = log \cup {t}
               /\ SendPersistent(CommitReply(t, "prepare", cXA_OK, correlation[t]))
               /\ stage' = [stage EXCEPT ![t] = [q \in RM |-> IF q \in good THEN cPrepareRequested ELSE stg[q]]]
               /\ result' = [result EXCEPT ![t] = res]
               /\ Schedule(SendRequest(s, [op |-> "commit", trid |-> t, onephase |-> FALSE], good))
               /\ UNCHANGED <<transactions, resources, correlation>>
        <3>1. CommitReply(t, "prepare", cXA_OK, correlation[t]) \in Reply
            BY <1>1, ReplyTypes, StagesTyped DEF TransOK
        <3>2. RepliesOK' /\ log' \subseteq Trid
            BY <1>1, <2>5, <3>1, SendPersistentOK
        <3> QED BY <2>2, <2>4, <2>5, <3>2, StagesTyped
    <2>6. CASE /\ stage' = [stage EXCEPT ![t] = [q \in RM |-> IF q \in bad THEN cRollbackRequested ELSE stg[q]]]
               /\ result' = [result EXCEPT ![t] = res]
               /\ Schedule(SendRequest(s, [op |-> "rollback", trid |-> t, onephase |-> FALSE], bad))
               /\ UNCHANGED <<transactions, resources, correlation>>
               /\ UNCHANGED log
               /\ NoReply
        <3>2. RepliesOK' /\ log' \subseteq Trid
            BY <1>1, <2>6, NoReplyOK
        <3> QED BY <2>2, <2>4, <2>6, <3>2, StagesTyped
    <2> QED BY <1>3, <2>3, <2>5, <2>6 DEF PrepareReply, res, stg
<1>4. CASE CommitDone(m, s, t, r)
    <2> DEFINE stg == [stage[t] EXCEPT ![r] = cCommitReplied]
               code == Results(result[t], resources[t])
               answer == CommitReply(t, "commit", code, correlation[t])
    <2>1. answer \in Reply
        BY <1>1, ResultsLeast, ReplyTypes DEF TransOK
    <2>2. stg \in [RM -> Stage]
        BY <1>1, StagesTyped DEF TransOK
    <2> HIDE DEF answer, stg
    <2>3. Schedule(s)
        BY <1>4 DEF CommitDone
    <2>4. \/ /\ stage' = [stage EXCEPT ![t] = stg]
             /\ UNCHANGED <<transactions, resources, result, correlation, log>>
          \/ Erase(t) /\ log' = log \ {t}
        BY <1>4 DEF CommitDone, stg
    <2>5. NoReply \/ SendReply(answer) \/ SendPersistent(answer)
        BY <1>4 DEF CommitDone, answer
    <2>6. TransOK' /\ log' \subseteq Trid
        <3>1. CASE /\ stage' = [stage EXCEPT ![t] = stg]
                   /\ UNCHANGED <<transactions, resources, result, correlation, log>>
            BY <1>1, <2>2, <3>1 DEF TransOK
        <3>2. CASE Erase(t) /\ log' = log \ {t}
            BY <1>1, <3>2, EraseOK
        <3> QED BY <2>4, <3>1, <3>2
    <2> QED BY <1>1, <2>1, <2>3, <2>5, <2>6, ScheduleOK, NoReplyOK, SendReplyOK, SendPersistentOK
<1>5. CASE RollbackDone(m, s, t, r)
    <2> DEFINE stg == [stage[t] EXCEPT ![r] = cRollbackReplied]
               code == Results(result[t], resources[t])
               good == RollbackReply(t, "rollback", cXA_OK, correlation[t])
               bad == RollbackReply(t, "rollback", code, correlation[t])
    <2>1. good \in Reply /\ bad \in Reply
        BY <1>1, ResultsLeast, ReplyTypes, StagesTyped DEF TransOK
    <2>2. stg \in [RM -> Stage]
        BY <1>1, StagesTyped DEF TransOK
    <2> HIDE DEF good, bad, stg
    <2>3. Schedule(s)
        BY <1>5 DEF RollbackDone
    <2>4. \/ /\ stage' = [stage EXCEPT ![t] = stg]
             /\ UNCHANGED <<transactions, resources, result, correlation, log>>
          \/ Erase(t) /\ log' = log \ {t}
        BY <1>5 DEF RollbackDone, stg
    <2>5. NoReply \/ SendReply(good) \/ SendPersistent(bad)
        BY <1>5 DEF RollbackDone, good, bad
    <2>6. TransOK' /\ log' \subseteq Trid
        <3>1. CASE /\ stage' = [stage EXCEPT ![t] = stg]
                   /\ UNCHANGED <<transactions, resources, result, correlation, log>>
            BY <1>1, <2>2, <3>1 DEF TransOK
        <3>2. CASE Erase(t) /\ log' = log \ {t}
            BY <1>1, <3>2, EraseOK
        <3> QED BY <2>4, <3>1, <3>2
    <2> QED BY <1>1, <2>1, <2>3, <2>5, <2>6, ScheduleOK, NoReplyOK, SendReplyOK, SendPersistentOK
<1> QED BY <1>2, <1>3, <1>4, <1>5

\* The steps of Next, with the ways in which a client process ends taken together.
Steps ==
    \/ \E t \in Trid : Commit(t) \/ Rollback(t)
    \/ \E t \in Trid, id \in ResourceId : Involved(t, id)
    \/ \E p \in Process : Exit(p) \/ Ends(p)
    \/ \E t \in Trid : ExitRollback(t) \/ Receive(t) \/ GiveUp(t)
    \/ \E m \in inbound : ReplyWrapper(m) \/ Connect(m) \/ PumpFails(m)
    \/ \E r \in RM, n \in 0 .. MaxInstances : Instances(r, n)
    \/ WriteBatch \/ SendBatch \/ EndBatch
    \/ \E i \in Instance : ProxyOpen(i) \/ ProxyRequest(i) \/ ProxyShutdown(i)

\* A process dies or aborts: for the manager its end is the same.
LEMMA NextSteps == ASSUME Next PROVE Steps
<1>1. ASSUME NEW t \in Trid, Abort(t) PROVE \E p \in Process : Ends(p)
    BY <1>1, OwnerAssumption DEF Abort
<1>2. ASSUME NEW p \in Process, Die(p) PROVE Ends(p)
    BY <1>2 DEF Die
<1> QED BY <1>1, <1>2 DEF Next, Steps

\* TypeOK holds in every state the program can reach.
THEOREM TypeCorrect == Spec => []TypeOK
<1>1. Init => TypeOK
    <2> SUFFICES ASSUME Init PROVE TypeOK
        OBVIOUS
    <2>1. TransOK
        BY BoundAssumption, StagesTyped DEF Init, TransOK
    <2>2. RepliesOK
        BY DEF Init, RepliesOK
    <2>3. /\ instance \in [Instance -> InstanceState]
          /\ proxy \in [Instance -> {"none", "starting", "running", "exited"}]
          /\ inbox \in [Instance -> Seq(Request \cup {Shutdown})]
          /\ pendingRequests \in Seq(PendingRequest)
        BY DEF Init, InstanceState
    <2>4. /\ unsent \in Seq(Reply)
          /\ inbound \subseteq ConnectReply \cup ResourceReply
          /\ branch \in [Trid -> [RM -> {"none", "active", "prepared", "ended", "committed", "rolledback"}]]
          /\ sent \in [Trid -> 0 .. MaxRequests]
        BY BoundAssumption DEF Init
    <2> QED BY <2>1, <2>2, <2>3, <2>4 DEF Init, TypeOK, TransOK, RepliesOK
<1>2. TypeOK /\ [Next]_vars => TypeOK'
    <2> SUFFICES ASSUME TypeOK, [Next]_vars PROVE TypeOK'
        OBVIOUS
    <2>0. TransOK /\ RepliesOK
        BY DEF TypeOK, TransOK, RepliesOK
    <2>1. ASSUME NEW t \in Trid, Commit(t) PROVE TypeOK'
        <3> DEFINE rs == Involve(t, own[t])
        <3>1. rs \in SUBSET RM
            BY <2>0 DEF Involve, TransOK
        <3>2. CommitRefused(t, rs) \/ CommitEmpty(t, rs) \/ CommitResources(t, rs)
            BY <2>1 DEF Commit
        <3> HIDE DEF rs
        <3>3. Asks(t, "commit")
            BY <2>1 DEF Commit
        <3> QED BY <2>1, <3>1, <3>2, <3>3, AsksOK, CommitBranchesOK
                DEF Commit, TypeOK, TransOK, RepliesOK
    <2>2. ASSUME NEW t \in Trid, Rollback(t) PROVE TypeOK'
        <3> DEFINE rs == Involve(t, own[t])
        <3>1. rs \in SUBSET RM
            BY <2>0 DEF Involve, TransOK
        <3>2. /\ Asks(t, "rollback")
              /\ Roll(t, rs, sent'[t])
              /\ SendReply(RollbackReply(t, "rollback", cXA_OK, sent'[t])) \/ NoReply
            BY <2>2 DEF Rollback
        <3> HIDE DEF rs
        <3>3. sent'[t] \in 0 .. MaxRequests
            BY <3>2, AsksOK
        <3>4. RepliesOK'
            BY <2>0, <3>2, <3>3, ReplyTypes, StagesTyped, SendReplyOK, NoReplyOK
        <3> QED BY <2>2, <3>1, <3>2, <3>3, <3>4, AsksOK, RollOK
                DEF Rollback, TypeOK, TransOK, RepliesOK
    <2>3. ASSUME NEW t \in Trid, NEW id \in ResourceId, Involved(t, id) PROVE TypeOK'
        <3>1. resources' \in [Trid -> SUBSET RM]
            BY <2>0, <2>3 DEF Involved, Involve, TransOK
        <3>2. branch' \in [Trid -> [RM -> {"none", "active", "prepared", "ended", "committed", "rolledback"}]]
            BY <2>3 DEF Involved, Worked, TypeOK
        <3> QED BY <2>3, <3>1, <3>2 DEF Involved, TypeOK
    <2>4. ASSUME NEW p \in Process, Exit(p) PROVE TypeOK'
        BY <2>4 DEF Exit, TypeOK, transVars
    <2>5. ASSUME NEW p \in Process, Ends(p) PROVE TypeOK'
        BY <2>5 DEF Ends, TypeOK, transVars, proxyVars
    <2>6. ASSUME NEW t \in Trid, ExitRollback(t) PROVE TypeOK'
        <3>1. resources[t] \in SUBSET RM /\ 0 \in 0 .. MaxRequests
            BY <2>0, BoundAssumption DEF TransOK
        <3>2. Roll(t, resources[t], 0)
            BY <2>6 DEF ExitRollback
        <3> QED BY <2>6, <3>1, <3>2, RollOK DEF ExitRollback, clientVars, TypeOK, TransOK
    <2>7. ASSUME NEW t \in Trid, Receive(t) PROVE TypeOK'
        <3>1. PICK n \in Expected(t) :
                 received' = [received EXCEPT ![t] = SubSeq(received[t], 1, n - 1)
                                                    \o SubSeq(received[t], n + 1, Len(received[t]))]
            BY <2>7 DEF Receive
        <3>2. client' \in [Trid -> {"active", "commit", "logged", "rollback", "done"}]
            BY <2>7 DEF Receive, TypeOK
        <3>3. n \in DOMAIN received[t]
            BY DEF Expected
        <3>4. SubSeq(received[t], 1, n - 1) \o SubSeq(received[t], n + 1, Len(received[t])) \in Seq(Reply)
            BY <3>3 DEF TypeOK
        <3>5. received' \in [Trid -> Seq(Reply)]
            BY <3>1, <3>4 DEF TypeOK
        <3> QED BY <2>7, <3>2, <3>5 DEF Receive, TypeOK, transVars, proxyVars
    <2>8. ASSUME NEW t \in Trid, GiveUp(t) PROVE TypeOK'
        BY <2>8 DEF GiveUp, TypeOK, transVars, proxyVars
    <2>9. ASSUME NEW m \in inbound, ReplyWrapper(m) PROVE TypeOK'
        <3> DEFINE s == Done(Scheduling, m.instance)
        <3>1. m \in ResourceReply
            BY <2>9 DEF ReplyWrapper, TypeOK, ConnectReply
        <3>2. m.instance \in Instance /\ m.trid \in Trid /\ m.instance[1] \in RM
            BY <3>1 DEF ResourceReply, Instance
        <3>3. s \in SchedulingType
            BY <3>2, SchedulingOK, DoneType
        <3>4. \/ DiscardReply(s)
              \/ PrepareReply(m, s, m.trid, m.instance[1])
              \/ CommitDone(m, s, m.trid, m.instance[1])
              \/ RollbackDone(m, s, m.trid, m.instance[1])
            BY <2>9 DEF ReplyWrapper
        <3> HIDE DEF s
        <3>5. /\ TransOK'
              /\ RepliesOK'
              /\ log' \subseteq Trid
              /\ instance' \in [Instance -> InstanceState]
              /\ inbox' \in [Instance -> Seq(Request \cup {Shutdown})]
              /\ pendingRequests' \in Seq(PendingRequest)
            BY <3>1, <3>2, <3>3, <3>4, ReplyHandlersOK
        <3> QED BY <2>9, <3>5 DEF ReplyWrapper, TypeOK, TransOK, RepliesOK, clientVars
    <2>10. ASSUME NEW m \in inbound, Connect(m) PROVE TypeOK'
        <3>1. m.instance \in Instance
            BY DEF TypeOK, ConnectReply, ResourceReply
        <3> DEFINE s == IF m.state = cXA_OK
                        THEN Done(Scheduling, m.instance)
                        ELSE [Scheduling EXCEPT !.instance[m.instance] = NewState(@, "startupError")]
        <3>2. [Scheduling EXCEPT !.instance[m.instance] = NewState(@, "startupError")] \in SchedulingType
            BY <3>1, SchedulingOK DEF SchedulingType, NewState, InstanceState
        <3>3. s \in SchedulingType
            BY <3>1, <3>2, SchedulingOK, DoneType
        <3>4. Schedule(s)
            BY <2>10 DEF Connect
        <3> HIDE DEF s
        <3>5. /\ instance' \in [Instance -> InstanceState]
              /\ inbox' \in [Instance -> Seq(Request \cup {Shutdown})]
              /\ pendingRequests' \in Seq(PendingRequest)
            BY <3>3, <3>4, ScheduleOK
        <3> QED BY <2>10, <3>5 DEF Connect, TypeOK, transVars, clientVars
    <2>11. ASSUME NEW m \in inbound, PumpFails(m) PROVE TypeOK'
        BY <2>11 DEF PumpFails, TypeOK, transVars, clientVars
    <2>12. ASSUME NEW r \in RM, NEW k \in 0 .. MaxInstances, Instances(r, k) PROVE TypeOK'
        <3>1. instance' \in [Instance -> InstanceState]
            BY <2>12 DEF Instances, Spawn, Retire, TypeOK, InstanceState
        <3>2. proxy' \in [Instance -> {"none", "starting", "running", "exited"}]
            BY <2>12 DEF Instances, Spawn, Retire, TypeOK
        <3>3. inbox' \in [Instance -> Seq(Request \cup {Shutdown})]
            <4>1. CASE Spawn(r, k)
                BY <4>1 DEF Spawn, TypeOK
            <4>2. CASE Retire(r, k)
                BY <4>2 DEF Retire, TypeOK
            <4> QED BY <2>12, <4>1, <4>2 DEF Instances
        <3> QED BY <2>12, <3>1, <3>2, <3>3 DEF Instances, TypeOK, transVars, clientVars
    <2>13. CASE WriteBatch
        BY <2>13 DEF WriteBatch, TypeOK, transVars, proxyVars, clientVars
    <2>14. CASE SendBatch
        <3> DEFINE n == Len(persistentReplies)
                   m == IF pc = "left" THEN Head(persistentReplies) ELSE persistentReplies[n]
                   rest == IF pc = "left" THEN Tail(persistentReplies)
                           ELSE SubSeq(persistentReplies, 1, n - 1)
        <3>1. m \in Reply /\ rest \in Seq(Reply)
            BY <2>14 DEF SendBatch, TypeOK
        <3> HIDE DEF m
        <3>2. \/ Push(m, TRUE) /\ pc' = "right" /\ UNCHANGED unsent
              \/ Push(m, FALSE) /\ pc' = "left" /\ unsent' = Append(unsent, m)
            BY <2>14 DEF SendBatch, m
        <3>3. received' \in [Trid -> Seq(Reply)]
            BY <2>0, <3>1, <3>2, PushOK
        <3>4. pc' \in {"left", "right"} /\ unsent' \in Seq(Reply)
            <4>1. Append(unsent, m) \in Seq(Reply) /\ unsent \in Seq(Reply)
                BY <3>1 DEF TypeOK
            <4> QED BY <3>2, <4>1, Zenon
        <3>5. persistentReplies' \in Seq(Reply)
            BY <2>14, <3>1 DEF SendBatch
        <3> QED BY <2>14, <3>3, <3>4, <3>5 DEF SendBatch, TypeOK, transVars, proxyVars, clientVars
    <2>15. CASE EndBatch
        BY <2>15 DEF EndBatch, TypeOK, transVars, proxyVars, clientVars
    <2>16. ASSUME NEW i \in Instance, ProxyOpen(i) PROVE TypeOK'
        <3>1. inbound' \subseteq ConnectReply \cup ResourceReply
            BY <2>16, ResultAssumption DEF ProxyOpen, TypeOK, ConnectReply
        <3>2. proxy' \in [Instance -> {"none", "starting", "running", "exited"}]
            BY <2>16 DEF ProxyOpen, TypeOK
        <3> QED BY <2>16, <3>1, <3>2 DEF ProxyOpen, TypeOK, transVars, clientVars
    <2>17. ASSUME NEW i \in Instance, ProxyRequest(i) PROVE TypeOK'
        <3> DEFINE m == Head(inbox[i])
        <3>1. m \in Request /\ i[1] \in RM
            BY <2>17 DEF ProxyRequest, TypeOK, Instance
        <3>2. m.trid \in Trid /\ m.op \in {"prepare", "commit", "rollback"}
            BY <3>1 DEF Request
        <3>3. PICK x \in Xa(m, branch[m.trid][i[1]]) :
                 /\ branch' = [branch EXCEPT ![m.trid][i[1]] = x[2]]
                 /\ inbound' = inbound \cup
                       {[op |-> m.op, instance |-> i, trid |-> m.trid, state |-> x[1]]}
            BY <2>17 DEF ProxyRequest
        <3> HIDE DEF m
        <3>4. /\ x[1] \in Result
              /\ x[2] \in {"none", "active", "prepared", "ended", "committed", "rolledback"}
            <4>1. branch[m.trid][i[1]] \in {"none", "active", "prepared", "ended", "committed", "rolledback"}
                BY <3>1, <3>2 DEF TypeOK
            <4> QED BY <3>3, <4>1, ResultAssumption, StagesTyped DEF Xa
        <3>5. branch' \in [Trid -> [RM -> {"none", "active", "prepared", "ended", "committed", "rolledback"}]]
            BY <3>1, <3>2, <3>3, <3>4 DEF TypeOK
        <3>6. inbound' \subseteq ConnectReply \cup ResourceReply
            BY <3>2, <3>3, <3>4 DEF TypeOK, ResourceReply
        <3>7. inbox' \in [Instance -> Seq(Request \cup {Shutdown})]
            BY <2>17 DEF ProxyRequest, TypeOK
        <3> QED BY <2>17, <3>5, <3>6, <3>7 DEF ProxyRequest, TypeOK, transVars, clientVars
    <2>18. ASSUME NEW i \in Instance, ProxyShutdown(i) PROVE TypeOK'
        BY <2>18 DEF ProxyShutdown, TypeOK, transVars, clientVars
    <2>19. CASE UNCHANGED vars
        BY <2>19 DEF vars, TypeOK
    <2> QED BY <2>1, <2>2, <2>3, <2>4, <2>5, <2>6, <2>7, <2>8, <2>9, <2>10, <2>11, <2>12, <2>13,
               <2>14, <2>15, <2>16, <2>17, <2>18, <2>19, NextSteps DEF Steps
<1> QED BY <1>1, <1>2, PTL DEF Spec

-----------------------------------------------------------------------------
(* No request waits while an instance that could take it is idle.          *)

\* PendingOnlyWhenBusy of a scheduling state.
NoneIdle(s) ==
    \A n \in DOMAIN s.pending : \A i \in Instance :
        i[1] \in s.pending[n].resources => s.instance[i] # "idle"

\* State::idle_instance finds an idle instance of a resource if there is one.
LEMMA IdleFound ==
    ASSUME NEW inst \in [Instance -> InstanceState], NEW rs \in SUBSET RM,
           NEW j \in Instance, j[1] \in rs, inst[j] = "idle"
    PROVE  \E i \in IdleInstances(inst, rs) : i[1] = j[1]
<1> DEFINE S == {k \in 1 .. MaxInstances : inst[<<j[1], k>>] = "idle"}
<1>1. j = <<j[1], j[2]>> /\ j[1] \in RM /\ j[2] \in 1 .. MaxInstances
    BY DEF Instance
<1>2. S \in SUBSET Nat /\ j[2] \in S
    BY <1>1, InstanceAssumption
<1>3. PICK k \in S : \A l \in S : k <= l
    BY <1>2, LeastNatural
<1>4. <<j[1], k>> \in Instance
    BY <1>1, <1>3 DEF Instance
<1>5. ASSUME NEW l \in 1 .. k - 1 PROVE inst[<<j[1], l>>] # "idle"
    BY <1>3, <1>5, InstanceAssumption
<1> QED BY <1>3, <1>4, <1>5 DEF IdleInstances

\* The search of instance::done finds a request of a resource if there is one.
LEMMA PendingFound ==
    ASSUME NEW s \in SchedulingType, NEW r \in RM, NEW n \in DOMAIN s.pending,
           r \in s.pending[n].resources
    PROVE  PendingFor(s, r) # {}
<1> DEFINE S == {k \in DOMAIN s.pending : r \in s.pending[k].resources}
<1>1. DOMAIN s.pending = 1 .. Len(s.pending) /\ Len(s.pending) \in Nat
    BY DEF SchedulingType
<1>2. S \in SUBSET Nat /\ n \in S
    BY <1>1
<1>3. PICK k \in S : \A l \in S : k <= l
    BY <1>2, LeastNatural
<1>4. ASSUME NEW l \in 1 .. k - 1 PROVE r \notin s.pending[l].resources
    BY <1>1, <1>3, <1>4
<1> QED BY <1>3, <1>4 DEF PendingFor

\* action::resource::request leaves a request pending only where no instance is idle.
LEMMA SendRequestNoneIdle ==
    ASSUME NEW s \in SchedulingType, NoneIdle(s), NEW m \in Request, NEW rs \in SUBSET RM
    PROVE  NoneIdle(SendRequest(s, m, rs))
<1> DEFINE idle == IdleInstances(s.instance, rs)
           left == {r \in rs : \A i \in idle : i[1] # r}
           new == SendRequest(s, m, rs)
<1>1. \A i \in Instance : new.instance[i] = "idle" => s.instance[i] = "idle"
    BY DEF SendRequest, NewState
<1>2. \A i \in Instance : i[1] \in left => s.instance[i] # "idle"
    <2> SUFFICES ASSUME NEW i \in Instance, i[1] \in left, s.instance[i] = "idle" PROVE FALSE
        OBVIOUS
    <2>1. s.instance \in [Instance -> InstanceState] /\ i[1] \in rs
        BY DEF SchedulingType
    <2>2. \E j \in idle : j[1] = i[1]
        BY <2>1, IdleFound
    <2> QED BY <2>2
<1>3. s.pending \in Seq(PendingRequest)
    BY DEF SchedulingType
<1>4. new.pending = IF left = {} THEN s.pending
                    ELSE Append(s.pending, [message |-> m, resources |-> left])
    BY DEF SendRequest
<1> HIDE DEF new, left
<1>5. ASSUME NEW n \in DOMAIN new.pending
      PROVE  \/ n \in DOMAIN s.pending /\ new.pending[n] = s.pending[n]
             \/ new.pending[n].resources = left
    BY <1>3, <1>4
<1>6. ASSUME NEW n \in DOMAIN new.pending, NEW i \in Instance,
             i[1] \in new.pending[n].resources
      PROVE  new.instance[i] # "idle"
    BY <1>1, <1>2, <1>5, <1>6 DEF NoneIdle
<1> QED BY <1>6 DEF NoneIdle, new

\* Taking a resource from a pending request adds none to any.
LEMMA WithoutResourceLess ==
    ASSUME NEW p \in Seq(PendingRequest), NEW n \in DOMAIN p, NEW r \in RM,
           NEW k \in DOMAIN WithoutResource(p, n, r)
    PROVE  \E l \in DOMAIN p : WithoutResource(p, n, r)[k].resources \subseteq p[l].resources
<1>1. n \in 1 .. Len(p) /\ Len(p) \in Nat /\ p[n] \in PendingRequest
    OBVIOUS
<1>2. CASE p[n].resources = {r}
    <2> DEFINE a == SubSeq(p, 1, n - 1)
               b == SubSeq(p, n + 1, Len(p))
    <2>1. /\ a \in Seq(PendingRequest) /\ Len(a) = n - 1
          /\ \A l \in 1 .. n - 1 : a[l] = p[l]
        BY <1>1
    <2>2. /\ b \in Seq(PendingRequest) /\ Len(b) = Len(p) - n
          /\ \A l \in 1 .. Len(p) - n : b[l] = p[n + l]
        BY <1>1
    <2>3. WithoutResource(p, n, r) = a \o b
        BY <1>2 DEF WithoutResource
    <2> HIDE DEF a, b
    <2>4. k \in 1 .. Len(p) - 1
        BY <1>1, <2>1, <2>2, <2>3
    <2>5. CASE k <= n - 1
        <3>1. (a \o b)[k] = p[k] /\ k \in DOMAIN p
            BY <1>1, <2>1, <2>2, <2>4, <2>5
        <3> QED BY <2>3, <3>1
    <2>6. CASE k > n - 1
        <3>1. (a \o b)[k] = b[k - (n - 1)] /\ k - (n - 1) \in 1 .. Len(p) - n
            BY <1>1, <2>1, <2>2, <2>4, <2>6
        <3>2. n + (k - (n - 1)) = k + 1 /\ k + 1 \in DOMAIN p
            BY <1>1, <2>4, <2>6
        <3>3. (a \o b)[k] = p[k + 1]
            BY <2>2, <3>1, <3>2
        <3> QED BY <2>3, <3>2, <3>3
    <2> QED BY <1>1, <2>4, <2>5, <2>6
<1>3. CASE p[n].resources # {r}
    <2>1. WithoutResource(p, n, r) = [p EXCEPT ![n] = [p[n] EXCEPT !.resources = @ \ {r}]]
        BY <1>1, <1>3 DEF WithoutResource
    <2>2. [p[n] EXCEPT !.resources = @ \ {r}].resources \subseteq p[n].resources
        BY <1>1 DEF PendingRequest
    <2>3. k \in DOMAIN p
        BY <2>1
    <2> QED BY <2>1, <2>2, <2>3
<1> QED BY <1>2, <1>3

\* instance::done makes an instance idle only when nothing waits for its resource.
LEMMA DoneNoneIdle ==
    ASSUME NEW s \in SchedulingType, NoneIdle(s), NEW i \in Instance
    PROVE  NoneIdle(Done(s, i))
<1> DEFINE found == PendingFor(s, i[1])
           n == CHOOSE n \in found : TRUE
           new == Done(s, i)
<1>1. i[1] \in RM /\ s.pending \in Seq(PendingRequest)
    BY DEF Instance, SchedulingType
<1>2. CASE found = {}
    <2>1. \A k \in DOMAIN s.pending : i[1] \notin s.pending[k].resources
        BY <1>1, <1>2, PendingFound
    <2>2. new.pending = s.pending
        BY <1>2 DEF Done
    <2>3. \A j \in Instance : j # i => new.instance[j] = s.instance[j]
        BY <1>2 DEF Done, SchedulingType
    <2> QED BY <2>1, <2>2, <2>3 DEF NoneIdle
<1>3. CASE found # {}
    <2>1. n \in DOMAIN s.pending
        BY <1>3 DEF PendingFor
    <2>2. new.pending = WithoutResource(s.pending, n, i[1])
        BY <1>3 DEF Done
    <2>3. \A j \in Instance : new.instance[j] = "idle" => s.instance[j] = "idle"
        BY <1>3 DEF Done, SchedulingType, NewState
    <2> HIDE DEF n, new
    <2>4. \A k \in DOMAIN new.pending :
              \E l \in DOMAIN s.pending : new.pending[k].resources \subseteq s.pending[l].resources
        BY <1>1, <2>1, <2>2, WithoutResourceLess
    <2> QED BY <2>3, <2>4 DEF NoneIdle, new
<1> QED BY <1>2, <1>3

\* Storing a scheduling state in which none is idle that should not be.
LEMMA ScheduleNoneIdle ==
    ASSUME NEW s, NoneIdle(s), Schedule(s)
    PROVE  PendingOnlyWhenBusy'
BY DEF NoneIdle, Schedule, PendingOnlyWhenBusy

\* send::resource::request leaves a request pending only where no instance is idle.
LEMMA RequestResourcesNoneIdle ==
    ASSUME NEW s \in SchedulingType, NoneIdle(s), NEW t \in Trid, NEW rs \in SUBSET RM,
           NEW op \in {"prepare", "commit", "rollback"}, NEW onephase \in BOOLEAN, NEW newStage,
           RequestResources(s, t, rs, op, onephase, newStage)
    PROVE  PendingOnlyWhenBusy'
<1> DEFINE m == [op |-> op, trid |-> t, onephase |-> onephase]
<1>1. m \in Request
    BY RequestType
<1>2. Schedule(SendRequest(s, m, rs))
    BY DEF RequestResources
<1> HIDE DEF m
<1> QED BY <1>1, <1>2, SendRequestNoneIdle, ScheduleNoneIdle

\* Every resource reply handler leaves a request pending only where no instance is idle.
LEMMA ReplyHandlersNoneIdle ==
    ASSUME TypeOK, NEW m \in ResourceReply, NEW s \in SchedulingType, NoneIdle(s),
           NEW t \in Trid, NEW r \in RM,
           \/ DiscardReply(s)
           \/ PrepareReply(m, s, t, r)
           \/ CommitDone(m, s, t, r)
           \/ RollbackDone(m, s, t, r)
    PROVE  PendingOnlyWhenBusy'
<1>1. CASE DiscardReply(s) \/ CommitDone(m, s, t, r) \/ RollbackDone(m, s, t, r)
    <2>1. Schedule(s)
        BY <1>1 DEF DiscardReply, CommitDone, RollbackDone
    <2> QED BY <2>1, ScheduleNoneIdle
<1>2. CASE PrepareReply(m, s, t, r)
    <2>1. \/ Schedule(s)
          \/ \E to \in SUBSET RM, op \in {"commit", "rollback"} :
                Schedule(SendRequest(s, [op |-> op, trid |-> t, onephase |-> FALSE], to))
        <3> DEFINE res == [result[t] EXCEPT ![r] = m.state]
                   stg == [stage[t] EXCEPT ![r] = IF m.state = cXA_RDONLY THEN cNotInvolved
                                                                          ELSE cPrepareReplied]
                   all == AtStage(stg, resources[t], cPrepareReplied)
                   good == {q \in all : res[q] = cXA_OK}
        <3>1. all \in SUBSET RM /\ good \in SUBSET RM
            BY DEF TypeOK, AtStage
        <3>2. \/ Schedule(s)
              \/ Schedule(SendRequest(s, [op |-> "commit", trid |-> t, onephase |-> FALSE], good))
              \/ Schedule(SendRequest(s, [op |-> "rollback", trid |-> t, onephase |-> FALSE], all))
            BY <1>2, Zenon DEF PrepareReply
        <3> HIDE DEF all, good
        <3> QED BY <3>1, <3>2
    <2>2. ASSUME NEW to \in SUBSET RM, NEW op \in {"commit", "rollback"},
                 Schedule(SendRequest(s, [op |-> op, trid |-> t, onephase |-> FALSE], to))
          PROVE  PendingOnlyWhenBusy'
        <3>1. [op |-> op, trid |-> t, onephase |-> FALSE] \in Request
            BY RequestType
        <3> QED BY <2>2, <3>1, SendRequestNoneIdle, ScheduleNoneIdle
    <2> QED BY <2>1, <2>2, ScheduleNoneIdle
<1> QED BY <1>1, <1>2

\* PendingOnlyWhenBusy holds in every state the program can reach: no request is left
\* waiting in pendingRequests beside an idle instance that could take it.
THEOREM RequestsScheduled == Spec => []PendingOnlyWhenBusy
<1>1. Init => PendingOnlyWhenBusy
    BY DEF Init, PendingOnlyWhenBusy
<1>2. TypeOK /\ PendingOnlyWhenBusy /\ [Next]_vars => PendingOnlyWhenBusy'
    <2> SUFFICES ASSUME TypeOK, PendingOnlyWhenBusy, [Next]_vars PROVE PendingOnlyWhenBusy'
        OBVIOUS
    <2>0. Scheduling \in SchedulingType /\ NoneIdle(Scheduling)
        BY SchedulingOK DEF NoneIdle, Scheduling, PendingOnlyWhenBusy
    <2>u. ASSUME UNCHANGED <<instance, pendingRequests>> PROVE PendingOnlyWhenBusy'
        BY <2>u DEF PendingOnlyWhenBusy
    <2>1. ASSUME NEW t \in Trid, NEW rs \in SUBSET RM,
                 CommitRefused(t, rs) \/ CommitEmpty(t, rs) \/ CommitResources(t, rs)
          PROVE  PendingOnlyWhenBusy'
        <3>1. CASE CommitRefused(t, rs) \/ CommitEmpty(t, rs)
            BY <3>1, <2>u DEF CommitRefused, CommitEmpty
        <3>2. CASE CommitResources(t, rs)
            <4>1. AtStage(stage[t], rs, cInvolved) \in SUBSET RM
                BY DEF AtStage
            <4>2. \E to \in SUBSET RM, op \in {"prepare", "commit", "rollback"},
                     onephase \in BOOLEAN, newStage \in Stage :
                        RequestResources(Scheduling, t, to, op, onephase, newStage)
                BY <3>2, <4>1, StagesTyped DEF CommitResources
            <4> QED BY <2>0, <4>2, RequestResourcesNoneIdle
        <3> QED BY <2>1, <3>1, <3>2
    <2>2. ASSUME NEW t \in Trid, NEW rs \in SUBSET RM, NEW c, Roll(t, rs, c)
          PROVE  PendingOnlyWhenBusy'
        <3>1. CASE rs = {}
            BY <2>2, <3>1, <2>u DEF Roll
        <3>2. CASE rs # {}
            <4>1. AtStage(stage[t], rs, cInvolved) \in SUBSET RM
                BY DEF AtStage
            <4>2. RequestResources(Scheduling, t, AtStage(stage[t], rs, cInvolved), "rollback",
                                   FALSE, cRollbackRequested)
                BY <2>2, <3>2 DEF Roll
            <4> QED BY <2>0, <4>1, <4>2, RequestResourcesNoneIdle
        <3> QED BY <3>1, <3>2
    <2>3. ASSUME NEW t \in Trid, Commit(t) PROVE PendingOnlyWhenBusy'
        <3>1. Involve(t, own[t]) \in SUBSET RM
            BY DEF Involve, TypeOK
        <3> QED BY <2>1, <2>3, <3>1 DEF Commit
    <2>4. ASSUME NEW t \in Trid, Rollback(t) PROVE PendingOnlyWhenBusy'
        <3>1. Involve(t, own[t]) \in SUBSET RM
            BY DEF Involve, TypeOK
        <3> QED BY <2>2, <2>4, <3>1 DEF Rollback
    <2>5. ASSUME NEW t \in Trid, ExitRollback(t) PROVE PendingOnlyWhenBusy'
        <3>1. resources[t] \in SUBSET RM
            BY DEF TypeOK
        <3> QED BY <2>2, <2>5, <3>1 DEF ExitRollback
    <2>6. ASSUME NEW m \in inbound, ReplyWrapper(m) PROVE PendingOnlyWhenBusy'
        <3> DEFINE s == Done(Scheduling, m.instance)
        <3>1. m \in ResourceReply
            BY <2>6 DEF ReplyWrapper, TypeOK, ConnectReply
        <3>2. m.instance \in Instance /\ m.trid \in Trid /\ m.instance[1] \in RM
            BY <3>1 DEF ResourceReply, Instance
        <3>3. s \in SchedulingType /\ NoneIdle(s)
            BY <2>0, <3>2, DoneType, DoneNoneIdle
        <3>4. \/ DiscardReply(s)
              \/ PrepareReply(m, s, m.trid, m.instance[1])
              \/ CommitDone(m, s, m.trid, m.instance[1])
              \/ RollbackDone(m, s, m.trid, m.instance[1])
            BY <2>6 DEF ReplyWrapper
        <3> HIDE DEF s
        <3> QED BY <3>1, <3>2, <3>3, <3>4, ReplyHandlersNoneIdle
    <2>7. ASSUME NEW m \in inbound, Connect(m) PROVE PendingOnlyWhenBusy'
        <3>1. m.instance \in Instance
            BY DEF TypeOK, ConnectReply, ResourceReply
        <3>2. CASE m.state = cXA_OK
            <4>1. Schedule(Done(Scheduling, m.instance))
                BY <2>7, <3>2 DEF Connect
            <4> QED BY <2>0, <3>1, <4>1, DoneNoneIdle, ScheduleNoneIdle
        <3>3. CASE m.state # cXA_OK
            <4> DEFINE s == [Scheduling EXCEPT !.instance[m.instance] = NewState(@, "startupError")]
            <4>1. Schedule(s)
                BY <2>7, <3>3 DEF Connect
            <4>2. s.pending = Scheduling.pending
                BY DEF Scheduling
            <4>3. \A i \in Instance : s.instance[i] = "idle" => Scheduling.instance[i] = "idle"
                BY <2>0, <3>1 DEF SchedulingType, NewState
            <4> HIDE DEF s
            <4>4. NoneIdle(s)
                BY <2>0, <4>2, <4>3 DEF NoneIdle
            <4> QED BY <4>1, <4>4, ScheduleNoneIdle
        <3> QED BY <3>2, <3>3
    <2>8. ASSUME NEW r \in RM, NEW k \in 0 .. MaxInstances, Instances(r, k)
          PROVE  PendingOnlyWhenBusy'
        <3>1. \A i \in Instance : instance'[i] = "idle" => instance[i] = "idle"
            BY <2>8 DEF Instances, Spawn, Retire
        <3>2. pendingRequests' = pendingRequests
            BY <2>8 DEF Instances
        <3> QED BY <3>1, <3>2 DEF PendingOnlyWhenBusy
    <2>9. ASSUME \/ \E t \in Trid, id \in ResourceId : Involved(t, id)
                 \/ \E p \in Process : Exit(p) \/ Ends(p)
                 \/ \E t \in Trid : Receive(t) \/ GiveUp(t)
                 \/ \E m \in inbound : PumpFails(m)
                 \/ WriteBatch \/ SendBatch \/ EndBatch
                 \/ \E i \in Instance : ProxyOpen(i) \/ ProxyRequest(i) \/ ProxyShutdown(i)
                 \/ UNCHANGED vars
          PROVE  PendingOnlyWhenBusy'
        BY <2>9, <2>u DEF Involved, Exit, Ends, Receive, GiveUp, PumpFails, WriteBatch, SendBatch,
                          EndBatch, ProxyOpen, ProxyRequest, ProxyShutdown, vars
    <2> QED BY <2>3, <2>4, <2>5, <2>6, <2>7, <2>8, <2>9, NextSteps DEF Steps
<1> QED BY <1>1, <1>2, TypeCorrect, PTL DEF Spec

-----------------------------------------------------------------------------
(* The phases a transaction goes through, and what the manager's operators *)
(* do to the requests and the replies on their way.                        *)
(*                                                                         *)
(* Each phase ties together what the manager knows of a transaction, what  *)
(* its resources know, what its owner is doing, and every request, answer  *)
(* and reply about it that is on its way.                                  *)

-----------------------------------------------------------------------------
(* The requests on their way.                                              *)

\* Request m for resource r waits for an instance or is in the queue of one.
Holds(s, m, r) ==
    \/ \E n \in DOMAIN s.pending : s.pending[n].message = m /\ r \in s.pending[n].resources
    \/ \E i \in Instance : i[1] = r /\ \E n \in DOMAIN s.inbox[i] : s.inbox[i][n] = m

\* The places of the requests for resource r in transaction t.
Waits(s, t, r, n) ==
    n \in DOMAIN s.pending /\ s.pending[n].message.trid = t /\ r \in s.pending[n].resources
Queued(s, t, r, i, n) ==
    i[1] = r /\ n \in DOMAIN s.inbox[i] /\ s.inbox[i][n] \in Request /\ s.inbox[i][n].trid = t

\* There is at most one.
AtMostOne(s, t, r) ==
    /\ \A n, k \in DOMAIN s.pending : Waits(s, t, r, n) /\ Waits(s, t, r, k) => n = k
    /\ \A i, j \in Instance : \A n \in DOMAIN s.inbox[i], k \in DOMAIN s.inbox[j] :
          Queued(s, t, r, i, n) /\ Queued(s, t, r, j, k) => i = j /\ n = k
    /\ \A n \in DOMAIN s.pending, i \in Instance : \A k \in DOMAIN s.inbox[i] :
          ~ (Waits(s, t, r, n) /\ Queued(s, t, r, i, k))

\* Where action::resource::request puts a message: at the end of the queue of one idle
\* instance for each resource that has one, and once at the end of pendingRequests.
LEMMA SendRequestPlaces ==
    ASSUME NEW s \in SchedulingType, NEW m \in Request, NEW rs \in SUBSET RM
    PROVE  LET new == SendRequest(s, m, rs)
               idle == IdleInstances(s.instance, rs)
               left == {r \in rs : \A i \in idle : i[1] # r}
           IN  /\ \A n \in DOMAIN new.pending :
                     \/ n \in DOMAIN s.pending /\ new.pending[n] = s.pending[n]
                     \/ n = Len(s.pending) + 1 /\ new.pending[n] = [message |-> m, resources |-> left]
               /\ \A i \in Instance : \A n \in DOMAIN new.inbox[i] :
                     \/ n \in DOMAIN s.inbox[i] /\ new.inbox[i][n] = s.inbox[i][n]
                     \/ n = Len(s.inbox[i]) + 1 /\ new.inbox[i][n] = m /\ i \in idle
               /\ \A i, j \in idle : i[1] = j[1] => i = j
               /\ \A i \in idle : i[1] \in rs
<1> DEFINE new == SendRequest(s, m, rs)
           idle == IdleInstances(s.instance, rs)
           left == {r \in rs : \A i \in idle : i[1] # r}
<1>1. s.pending \in Seq(PendingRequest) /\ s.inbox \in [Instance -> Seq(Request \cup {Shutdown})]
    BY DEF SchedulingType
<1>2. new.pending = IF left = {} THEN s.pending
                    ELSE Append(s.pending, [message |-> m, resources |-> left])
    BY DEF SendRequest
<1>3. new.inbox = [i \in Instance |-> IF i \in idle THEN Append(s.inbox[i], m) ELSE s.inbox[i]]
    BY DEF SendRequest
<1>4. ASSUME NEW i \in idle, NEW j \in idle, i[1] = j[1] PROVE i = j
    <2>1. /\ i = <<i[1], i[2]>> /\ j = <<j[1], j[2]>>
          /\ i[2] \in 1 .. MaxInstances /\ j[2] \in 1 .. MaxInstances
          /\ s.instance[i] = "idle" /\ s.instance[j] = "idle"
        BY DEF IdleInstances, Instance
    <2>2. ~ (i[2] < j[2]) /\ ~ (j[2] < i[2])
        BY <1>4, <2>1, InstanceAssumption DEF IdleInstances
    <2> QED BY <1>4, <2>1, <2>2, InstanceAssumption
<1>5. \A i \in idle : i[1] \in rs
    BY DEF IdleInstances
<1> HIDE DEF new, left, idle
<1>6. ASSUME NEW n \in DOMAIN new.pending
      PROVE  \/ n \in DOMAIN s.pending /\ new.pending[n] = s.pending[n]
             \/ n = Len(s.pending) + 1 /\ new.pending[n] = [message |-> m, resources |-> left]
    BY <1>1, <1>2
<1>7. ASSUME NEW i \in Instance, NEW n \in DOMAIN new.inbox[i]
      PROVE  \/ n \in DOMAIN s.inbox[i] /\ new.inbox[i][n] = s.inbox[i][n]
             \/ n = Len(s.inbox[i]) + 1 /\ new.inbox[i][n] = m /\ i \in idle
    BY <1>1, <1>3
<1> QED BY <1>4, <1>5, <1>6, <1>7 DEF new, left, idle

\* action::resource::request asks nothing but its message, of the resources it is for.
LEMMA SendRequestHolds ==
    ASSUME NEW s \in SchedulingType, NEW m \in Request, NEW rs \in SUBSET RM,
           NEW a \in Request, NEW r \in RM, Holds(SendRequest(s, m, rs), a, r)
    PROVE  Holds(s, a, r) \/ (a = m /\ r \in rs)
<1> DEFINE new == SendRequest(s, m, rs)
           idle == IdleInstances(s.instance, rs)
           left == {q \in rs : \A i \in idle : i[1] # q}
<1>1. /\ \A n \in DOMAIN new.pending :
            \/ n \in DOMAIN s.pending /\ new.pending[n] = s.pending[n]
            \/ new.pending[n] = [message |-> m, resources |-> left]
      /\ \A i \in Instance : \A n \in DOMAIN new.inbox[i] :
            \/ n \in DOMAIN s.inbox[i] /\ new.inbox[i][n] = s.inbox[i][n]
            \/ new.inbox[i][n] = m /\ i \in idle
      /\ \A i \in idle : i[1] \in rs
    BY SendRequestPlaces
<1>2. left \subseteq rs
    OBVIOUS
<1> HIDE DEF new, idle, left
<1>3. Holds(new, a, r)
    BY DEF new
<1> QED BY <1>1, <1>2, <1>3 DEF Holds

\* action::resource::request leaves at most one request for a resource in a transaction,
\* if there was none where it sends one.
LEMMA SendRequestAtMostOne ==
    ASSUME NEW s \in SchedulingType, NEW m \in Request, NEW rs \in SUBSET RM,
           NEW t \in Trid, NEW r \in RM, AtMostOne(s, t, r),
           m.trid = t /\ r \in rs => \A a \in Request : a.trid = t => ~ Holds(s, a, r)
    PROVE  AtMostOne(SendRequest(s, m, rs), t, r)
<1> DEFINE new == SendRequest(s, m, rs)
           idle == IdleInstances(s.instance, rs)
           left == {q \in rs : \A i \in idle : i[1] # q}
<1>1. /\ \A n \in DOMAIN new.pending :
            \/ n \in DOMAIN s.pending /\ new.pending[n] = s.pending[n]
            \/ n = Len(s.pending) + 1 /\ new.pending[n] = [message |-> m, resources |-> left]
      /\ \A i \in Instance : \A n \in DOMAIN new.inbox[i] :
            \/ n \in DOMAIN s.inbox[i] /\ new.inbox[i][n] = s.inbox[i][n]
            \/ n = Len(s.inbox[i]) + 1 /\ new.inbox[i][n] = m /\ i \in idle
      /\ \A i, j \in idle : i[1] = j[1] => i = j
      /\ \A i \in idle : i[1] \in rs
    BY SendRequestPlaces
<1>2. left \subseteq rs /\ \A i \in idle : i[1] \notin left
    OBVIOUS
<1>3. s.pending \in Seq(PendingRequest)
    BY DEF SchedulingType
<1>4. ASSUME NEW n \in DOMAIN s.pending PROVE s.pending[n].message \in Request
    <2>1. s.pending[n] \in PendingRequest
        BY <1>3
    <2> QED BY <2>1 DEF PendingRequest
<1> HIDE DEF new, idle, left
<1>5. CASE m.trid = t /\ r \in rs
    <2>1. \A n \in DOMAIN s.pending : ~ Waits(s, t, r, n)
        BY <1>4, <1>5 DEF Waits, Holds
    <2>2. \A i \in Instance : \A n \in DOMAIN s.inbox[i] : ~ Queued(s, t, r, i, n)
        BY <1>5 DEF Queued, Holds
    <2>3. \A n \in DOMAIN new.pending : Waits(new, t, r, n) => n = Len(s.pending) + 1 /\ r \in left
        BY <1>1, <2>1 DEF Waits
    <2>4. \A i \in Instance : \A n \in DOMAIN new.inbox[i] :
              Queued(new, t, r, i, n) => n = Len(s.inbox[i]) + 1 /\ i \in idle /\ i[1] = r
        BY <1>1, <2>2 DEF Queued
    <2> QED BY <1>1, <1>2, <2>3, <2>4 DEF AtMostOne, new
<1>6. CASE ~ (m.trid = t /\ r \in rs)
    <2>1. \A n \in DOMAIN new.pending : Waits(new, t, r, n) => n \in DOMAIN s.pending /\ Waits(s, t, r, n)
        BY <1>1, <1>2, <1>6 DEF Waits
    <2>2. \A i \in Instance : \A n \in DOMAIN new.inbox[i] :
              Queued(new, t, r, i, n) => n \in DOMAIN s.inbox[i] /\ Queued(s, t, r, i, n)
        BY <1>1, <1>6 DEF Queued
    <2> QED BY <2>1, <2>2 DEF AtMostOne, new
<1> QED BY <1>5, <1>6

\* The place in p of what is at place k when resource r is taken out of the request at n.
Before(p, n, r, k) == IF p[n].resources = {r} /\ k >= n THEN k + 1 ELSE k

\* Each request that still waits waited before, and the one at n does not wait for r.
LEMMA WithoutResourceAt ==
    ASSUME NEW p \in Seq(PendingRequest), NEW n \in DOMAIN p, NEW r \in RM,
           NEW k \in DOMAIN WithoutResource(p, n, r)
    PROVE  /\ k \in Nat /\ Before(p, n, r, k) \in DOMAIN p
           /\ WithoutResource(p, n, r)[k].message = p[Before(p, n, r, k)].message
           /\ WithoutResource(p, n, r)[k].resources \subseteq p[Before(p, n, r, k)].resources
           /\ Before(p, n, r, k) = n => r \notin WithoutResource(p, n, r)[k].resources
<1>1. n \in 1 .. Len(p) /\ Len(p) \in Nat /\ p[n] \in PendingRequest
    OBVIOUS
<1>2. CASE p[n].resources = {r}
    <2> DEFINE a == SubSeq(p, 1, n - 1)
               b == SubSeq(p, n + 1, Len(p))
    <2>1. /\ a \in Seq(PendingRequest) /\ Len(a) = n - 1
          /\ \A l \in 1 .. n - 1 : a[l] = p[l]
        BY <1>1
    <2>2. /\ b \in Seq(PendingRequest) /\ Len(b) = Len(p) - n
          /\ \A l \in 1 .. Len(p) - n : b[l] = p[n + l]
        BY <1>1
    <2>3. WithoutResource(p, n, r) = a \o b
        BY <1>2 DEF WithoutResource
    <2> HIDE DEF a, b
    <2>4. k \in 1 .. Len(p) - 1
        BY <1>1, <2>1, <2>2, <2>3
    <2>5. CASE k <= n - 1
        <3>1. (a \o b)[k] = p[k] /\ k \in DOMAIN p
            BY <1>1, <2>1, <2>2, <2>4, <2>5
        <3>2. ~ (k >= n) /\ k # n /\ k \in Nat
            BY <1>1, <2>4, <2>5
        <3> QED BY <2>3, <3>1, <3>2 DEF Before
    <2>6. CASE k > n - 1
        <3>1. (a \o b)[k] = b[k - (n - 1)] /\ k - (n - 1) \in 1 .. Len(p) - n
            BY <1>1, <2>1, <2>2, <2>4, <2>6
        <3>2. n + (k - (n - 1)) = k + 1 /\ k + 1 \in DOMAIN p
            BY <1>1, <2>4, <2>6
        <3>4. (a \o b)[k] = p[k + 1]
            BY <2>2, <3>1, <3>2
        <3>3. k >= n /\ k + 1 # n /\ k \in Nat
            BY <1>1, <2>4, <2>6
        <3> QED BY <1>2, <2>3, <3>2, <3>3, <3>4 DEF Before
    <2> QED BY <1>1, <2>4, <2>5, <2>6
<1>3. CASE p[n].resources # {r}
    <2>1. WithoutResource(p, n, r) = [p EXCEPT ![n] = [p[n] EXCEPT !.resources = @ \ {r}]]
        BY <1>1, <1>3 DEF WithoutResource
    <2>2. /\ [p[n] EXCEPT !.resources = @ \ {r}].resources = p[n].resources \ {r}
          /\ [p[n] EXCEPT !.resources = @ \ {r}].message = p[n].message
        BY <1>1 DEF PendingRequest
    <2>3. k \in DOMAIN p /\ k \in Nat
        BY <2>1
    <2> QED BY <1>3, <2>1, <2>2, <2>3 DEF Before
<1> QED BY <1>2, <1>3

\* instance::done moves the first pending request of the resource to the instance's queue.
LEMMA DonePlaces ==
    ASSUME NEW s \in SchedulingType, NEW i \in Instance
    PROVE  LET new == Done(s, i)
               found == PendingFor(s, i[1])
               n == CHOOSE n \in found : TRUE
           IN  \/ new.pending = s.pending /\ new.inbox = s.inbox
               \/ /\ n \in DOMAIN s.pending /\ i[1] \in s.pending[n].resources
                  /\ new.pending = WithoutResource(s.pending, n, i[1])
                  /\ new.inbox = [s.inbox EXCEPT ![i] = Append(@, s.pending[n].message)]
<1> DEFINE found == PendingFor(s, i[1])
           n == CHOOSE n \in found : TRUE
<1>1. CASE found = {}
    BY <1>1 DEF Done, SchedulingType
<1>2. CASE found # {}
    <2>1. n \in found
        BY <1>2
    <2>2. n \in DOMAIN s.pending /\ i[1] \in s.pending[n].resources
        BY <2>1 DEF PendingFor
    <2> QED BY <1>2, <2>2 DEF Done
<1> QED BY <1>1, <1>2

\* instance::done asks nothing that was not asked.
LEMMA DoneHolds ==
    ASSUME NEW s \in SchedulingType, NEW i \in Instance,
           NEW a \in Request, NEW r \in RM, Holds(Done(s, i), a, r)
    PROVE  Holds(s, a, r)
<1> DEFINE new == Done(s, i)
           n == CHOOSE n \in PendingFor(s, i[1]) : TRUE
<1>1. s.pending \in Seq(PendingRequest) /\ s.inbox \in [Instance -> Seq(Request \cup {Shutdown})] /\ i[1] \in RM
    BY DEF SchedulingType, Instance
<1>2. \/ new.pending = s.pending /\ new.inbox = s.inbox
      \/ /\ n \in DOMAIN s.pending /\ i[1] \in s.pending[n].resources
         /\ new.pending = WithoutResource(s.pending, n, i[1])
         /\ new.inbox = [s.inbox EXCEPT ![i] = Append(@, s.pending[n].message)]
    BY DonePlaces
<1> HIDE DEF new, n
<1>3. Holds(new, a, r)
    BY DEF new
<1>4. CASE new.pending = s.pending /\ new.inbox = s.inbox
    BY <1>3, <1>4 DEF Holds
<1>5. CASE /\ n \in DOMAIN s.pending /\ i[1] \in s.pending[n].resources
           /\ new.pending = WithoutResource(s.pending, n, i[1])
           /\ new.inbox = [s.inbox EXCEPT ![i] = Append(@, s.pending[n].message)]
    <2>1. ASSUME NEW k \in DOMAIN new.pending, new.pending[k].message = a, r \in new.pending[k].resources
          PROVE  Holds(s, a, r)
        <3> DEFINE l == Before(s.pending, n, i[1], k)
        <3>1. /\ l \in DOMAIN s.pending
              /\ new.pending[k].message = s.pending[l].message
              /\ new.pending[k].resources \subseteq s.pending[l].resources
            BY <1>1, <1>5, WithoutResourceAt
        <3> HIDE DEF l
        <3> QED BY <2>1, <3>1 DEF Holds
    <2>2. ASSUME NEW j \in Instance, j[1] = r, NEW k \in DOMAIN new.inbox[j], new.inbox[j][k] = a
          PROVE  Holds(s, a, r)
        <3>1. \/ k \in DOMAIN s.inbox[j] /\ new.inbox[j][k] = s.inbox[j][k]
              \/ j = i /\ new.inbox[j][k] = s.pending[n].message
            BY <1>1, <1>5
        <3> QED BY <1>5, <2>2, <3>1 DEF Holds
    <2> QED BY <1>3, <2>1, <2>2 DEF Holds
<1> QED BY <1>2, <1>4, <1>5

\* instance::done moves a request, it does not copy it.
LEMMA DoneAtMostOne ==
    ASSUME NEW s \in SchedulingType, NEW i \in Instance, NEW t \in Trid, NEW r \in RM,
           AtMostOne(s, t, r)
    PROVE  AtMostOne(Done(s, i), t, r)
<1> DEFINE new == Done(s, i)
           n == CHOOSE n \in PendingFor(s, i[1]) : TRUE
<1>1. s.pending \in Seq(PendingRequest) /\ s.inbox \in [Instance -> Seq(Request \cup {Shutdown})] /\ i[1] \in RM
    BY DEF SchedulingType, Instance
<1>2. \/ new.pending = s.pending /\ new.inbox = s.inbox
      \/ /\ n \in DOMAIN s.pending /\ i[1] \in s.pending[n].resources
         /\ new.pending = WithoutResource(s.pending, n, i[1])
         /\ new.inbox = [s.inbox EXCEPT ![i] = Append(@, s.pending[n].message)]
    BY DonePlaces
<1> HIDE DEF new, n
<1>4. CASE new.pending = s.pending /\ new.inbox = s.inbox
    BY <1>4 DEF AtMostOne, Waits, Queued, new
<1>5. CASE /\ n \in DOMAIN s.pending /\ i[1] \in s.pending[n].resources
           /\ new.pending = WithoutResource(s.pending, n, i[1])
           /\ new.inbox = [s.inbox EXCEPT ![i] = Append(@, s.pending[n].message)]
    <2> DEFINE l(k) == Before(s.pending, n, i[1], k)
    <2>1. ASSUME NEW k \in DOMAIN new.pending, Waits(new, t, r, k)
          PROVE  /\ k \in Nat /\ l(k) \in DOMAIN s.pending
                 /\ Waits(s, t, r, l(k))
                 /\ l(k) = n => r # i[1]
        <3>1. /\ l(k) \in DOMAIN s.pending /\ k \in Nat
              /\ new.pending[k].message = s.pending[l(k)].message
              /\ new.pending[k].resources \subseteq s.pending[l(k)].resources
              /\ l(k) = n => i[1] \notin new.pending[k].resources
            BY <1>1, <1>5, WithoutResourceAt
        <3> HIDE DEF l
        <3> QED BY <2>1, <3>1 DEF Waits
    <2>2. ASSUME NEW j \in Instance, NEW k \in DOMAIN new.inbox[j], Queued(new, t, r, j, k)
          PROVE  \/ k \in DOMAIN s.inbox[j] /\ Queued(s, t, r, j, k)
                 \/ j = i /\ k = Len(s.inbox[i]) + 1 /\ r = i[1] /\ Waits(s, t, r, n)
        <3>1. \/ k \in DOMAIN s.inbox[j] /\ new.inbox[j][k] = s.inbox[j][k]
              \/ j = i /\ k = Len(s.inbox[i]) + 1 /\ new.inbox[j][k] = s.pending[n].message
            BY <1>1, <1>5
        <3> QED BY <1>5, <2>2, <3>1 DEF Queued, Waits
    <2>3. ASSUME NEW k \in DOMAIN new.pending, NEW h \in DOMAIN new.pending,
                 Waits(new, t, r, k), Waits(new, t, r, h)
          PROVE  k = h
        <3>1. k \in Nat /\ h \in Nat /\ l(k) = l(h)
            BY <2>1, <2>3 DEF AtMostOne
        <3>2. n \in Nat
            BY <1>1, <1>5
        <3> QED BY <3>1, <3>2 DEF Before
    <2> HIDE DEF l
    <2>4. ASSUME NEW j \in Instance, NEW q \in Instance, NEW k \in DOMAIN new.inbox[j],
                 NEW h \in DOMAIN new.inbox[q], Queued(new, t, r, j, k), Queued(new, t, r, q, h)
          PROVE  j = q /\ k = h
        BY <1>5, <2>2, <2>4 DEF AtMostOne
    <2>5. ASSUME NEW k \in DOMAIN new.pending, NEW j \in Instance, NEW h \in DOMAIN new.inbox[j],
                 Waits(new, t, r, k), Queued(new, t, r, j, h)
          PROVE  FALSE
        BY <1>5, <2>1, <2>2, <2>5 DEF AtMostOne
    <2> QED BY <2>3, <2>4, <2>5 DEF AtMostOne, new
<1> QED BY <1>2, <1>4, <1>5

-----------------------------------------------------------------------------
(* The phases.                                                             *)

\* The answers of the proxies in transaction t that the manager has not read.
Answers(t) == {a \in inbound : a.op # "connect" /\ a.trid = t}

\* Reply m waits to be sent to an owner, or to be read by it.
Told(m) ==
    \/ \E n \in DOMAIN persistentReplies : persistentReplies[n] = m
    \/ \E n \in DOMAIN unsent : unsent[n] = m
    \/ \E n \in DOMAIN received[m.trid] : received[m.trid][n] = m

\* The owner has asked for the end, and no server will get involved.
EndRequested(t) == calls[t] = {} /\ sent[t] # 0

\* No resource has answered with an error.
AllOk(t) == result[t] = [r \in RM |-> cXA_OK]

\* Nothing has been asked: the work done is in the manager's list of resources.
Fresh(t) ==
    /\ t \notin log /\ sent[t] = 0 /\ client[t] = "active"
    /\ stage[t] = [r \in RM |-> cInvolved] /\ AllOk(t)
    /\ \A r \in RM : /\ branch[t][r] \in {"none", "active"}
                     /\ branch[t][r] = "active" <=> r \in resources[t]
    /\ \A m \in Request, r \in RM : m.trid = t => ~ Holds(Scheduling, m, r)
    /\ Answers(t) = {}
    /\ \A m \in Reply : m.trid = t => ~ Told(m)

\* At most one resource has a branch, the commit is asked of it in one phase.
OnePhase(t) ==
    /\ t \notin log /\ EndRequested(t) /\ client[t] \in {"commit", "done"} /\ AllOk(t)
    /\ \A r, q \in RM : branch[t][r] # "none" /\ branch[t][q] # "none" => r = q
    /\ \A r \in RM : branch[t][r] \in {"none", "active", "committed", "rolledback"}
    /\ \A r \in resources[t] : stage[t][r] # cInvolved
    /\ \A m \in Request, r \in RM : m.trid = t /\ Holds(Scheduling, m, r) =>
          m.op = "commit" /\ m.onephase /\ \A q \in RM \ {r} : branch[t][q] = "none"
    /\ \A a \in Answers(t) : a.op = "commit"
    /\ \A m \in Reply : m.trid = t /\ Told(m) => m.stage # "prepare" /\ m.state \in {cXA_OK, cXA_RDONLY}

\* The transaction is being rolled back, by its owner, after its death or for a vote.
Aborting(t) ==
    /\ t \notin log /\ client[t] # "logged"
    /\ client[t] = "active" => Owner[t] \notin alive
    /\ client[t] = "rollback" => AllOk(t)
    /\ \A r \in RM : branch[t][r] # "committed"
    /\ \A m \in Request, r \in RM : m.trid = t /\ Holds(Scheduling, m, r) => m.op = "rollback"
    /\ \A a \in Answers(t) : a.op = "rollback"
    /\ \A m \in Reply : m.trid = t /\ Told(m) =>
          /\ m.type = "rollback" /\ m.stage # "prepare"
          /\ client[t] = "rollback" => m.state \in {cXA_OK, cXA_RDONLY}

\* What a resource has voted: it can neither have committed nor have no branch.
Vote(t, r) ==
    /\ stage[t][r] \in {cPrepareRequested, cPrepareReplied, cNotInvolved}
    /\ stage[t][r] = cPrepareReplied =>
          result[t][r] # cXA_RDONLY /\ (result[t][r] = cXA_OK => branch[t][r] = "prepared")
    /\ stage[t][r] = cNotInvolved => branch[t][r] = "ended"
    /\ branch[t][r] \notin {"none", "committed"}

\* Answer a of the first phase is on its way, the only one of its resource.
VoteUnderWay(t, a) ==
    /\ a.op = "prepare" /\ a.instance[1] \in resources[t]
    /\ stage[t][a.instance[1]] = cPrepareRequested
    /\ a.state = cXA_OK => branch[t][a.instance[1]] = "prepared"
    /\ a.state = cXA_RDONLY => branch[t][a.instance[1]] = "ended"
    /\ \A m \in Request : m.trid = t => ~ Holds(Scheduling, m, a.instance[1])
    /\ \A b \in Answers(t) : b.instance[1] = a.instance[1] => b = a

\* The first phase: the resources prepare, nothing is decided.
Voting(t) ==
    /\ t \in transactions \ log /\ EndRequested(t) /\ client[t] = "commit"
    /\ own[t] \cap RM \subseteq resources[t]
    /\ \E r, q \in resources[t] : r # q
    /\ \A r \in RM \ resources[t] : branch[t][r] = "none"
    /\ \A r \in resources[t] : Vote(t, r)
    /\ \A m \in Request, r \in RM : m.trid = t /\ Holds(Scheduling, m, r) =>
          m.op = "prepare" /\ r \in resources[t] /\ stage[t][r] = cPrepareRequested
    /\ \A r \in RM : AtMostOne(Scheduling, t, r)
    /\ \A a \in Answers(t) : VoteUnderWay(t, a)
    /\ \A m \in Reply : m.trid = t => ~ Told(m)

\* The decision to commit is in the log: no resource can refuse any more.
Committing(t) ==
    /\ t \in transactions \cap log /\ EndRequested(t)
    /\ own[t] \cap RM \subseteq resources[t]
    /\ \E r, q \in resources[t] : r # q
    /\ \A r \in RM \ resources[t] : branch[t][r] = "none"
    /\ \A r \in resources[t] :
          /\ branch[t][r] \in {"prepared", "ended", "committed"}
          /\ stage[t][r] \in {cPrepareRequested, cCommitReplied, cNotInvolved}
          /\ stage[t][r] # cPrepareRequested => branch[t][r] # "prepared"
    /\ \A m \in Request, r \in RM : m.trid = t /\ Holds(Scheduling, m, r) =>
          m.op = "commit" /\ ~ m.onephase /\ r \in resources[t]
    /\ \A a \in Answers(t) :
          a.op = "commit" /\ a.instance[1] \in resources[t] /\ branch[t][a.instance[1]] # "prepared"

\* The transaction has ended or has nothing left to end: late answers change nothing.
Settled(t) ==
    /\ t \notin log /\ EndRequested(t)
    /\ \A r \in RM : branch[t][r] \in {"none", "ended", "committed"}
    /\ \A r \in resources[t] \cup (own[t] \cap RM) : branch[t][r] # "none"
    /\ \A a \in Answers(t) : a.op = "prepare" => a.state = cXAER_NOTA

\* Every transaction is in one of the phases.
Phase(t) == Fresh(t) \/ OnePhase(t) \/ Aborting(t) \/ Voting(t) \/ Committing(t) \/ Settled(t)

\* A step leaves the state of transaction t alone.
Untouched(t) ==
    /\ t \in log' <=> t \in log
    /\ t \in transactions' <=> t \in transactions
    /\ resources'[t] = resources[t] /\ stage'[t] = stage[t] /\ result'[t] = result[t]
    /\ branch'[t] = branch[t] /\ client'[t] = client[t] /\ sent'[t] = sent[t]
    /\ own'[t] = own[t] /\ calls'[t] = calls[t]
    /\ alive' \subseteq alive

\* A step adds no request for t.
SendsNothing(t) ==
    /\ \A m \in Request, r \in RM : m.trid = t /\ Holds(Scheduling, m, r)' => Holds(Scheduling, m, r)
    /\ \A r \in RM : AtMostOne(Scheduling, t, r) => AtMostOne(Scheduling, t, r)'

\* A step adds no reply for the owner of t.
TellsNothing(t) == \A m \in Reply : m.trid = t /\ Told(m)' => Told(m)

\* A step that leaves t alone leaves it in its phase.
LEMMA Framed ==
    ASSUME TypeOK, NEW t \in Trid, Phase(t), Untouched(t), SendsNothing(t), TellsNothing(t),
           Answers(t)' \subseteq Answers(t)
    PROVE  Phase(t)'
<1>1. CASE Fresh(t)
    BY <1>1 DEF Fresh, AllOk, Phase, Untouched, SendsNothing, TellsNothing
<1>2. CASE OnePhase(t)
    BY <1>2 DEF OnePhase, AllOk, EndRequested, Phase, Untouched, SendsNothing, TellsNothing
<1>3. CASE Aborting(t)
    BY <1>3 DEF Aborting, AllOk, Phase, Untouched, SendsNothing, TellsNothing
<1>4. CASE Voting(t)
    <2>1. \A r \in resources'[t] : Vote(t, r)'
        BY <1>4 DEF Voting, Vote, Untouched
    <2>2. \A a \in Answers(t)' : VoteUnderWay(t, a)'
        <3> SUFFICES ASSUME NEW a \in Answers(t)' PROVE VoteUnderWay(t, a)'
            OBVIOUS
        <3>1. a \in Answers(t) /\ VoteUnderWay(t, a)
            BY <1>4 DEF Voting
        <3>2. a.instance[1] \in RM
            BY <3>1 DEF VoteUnderWay, TypeOK
        <3>3. \A m \in Request : m.trid = t => ~ Holds(Scheduling, m, a.instance[1])'
            BY <3>1, <3>2 DEF VoteUnderWay, SendsNothing
        <3> QED BY <3>1, <3>3 DEF VoteUnderWay, Untouched
    <2> QED BY <1>4, <2>1, <2>2
               DEF Voting, EndRequested, Phase, Untouched, SendsNothing, TellsNothing
<1>5. CASE Committing(t)
    BY <1>5 DEF Committing, EndRequested, Phase, Untouched, SendsNothing, TellsNothing
<1>6. CASE Settled(t)
    BY <1>6 DEF Settled, EndRequested, Phase, Untouched
<1> QED BY <1>1, <1>2, <1>3, <1>4, <1>5, <1>6 DEF Phase

-----------------------------------------------------------------------------
(* What the operators add to the requests and the replies.                 *)

\* The scheduling state changes by request m, sent to the resources rs.
Sends(m, rs) ==
    /\ \A a \in Request, r \in RM :
          Holds(Scheduling, a, r)' => Holds(Scheduling, a, r) \/ (a = m /\ r \in rs)
    /\ \A t \in Trid, r \in RM :
          /\ AtMostOne(Scheduling, t, r)
          /\ m.trid = t /\ r \in rs => \A a \in Request : a.trid = t => ~ Holds(Scheduling, a, r)
          => AtMostOne(Scheduling, t, r)'

\* Reply m is the only one that is new.
Tells(m) == \A a \in Reply : Told(a)' => Told(a) \/ a = m

\* Schedule stores a scheduling state.
LEMMA ScheduleIs ==
    ASSUME NEW s \in SchedulingType, Schedule(s)
    PROVE  Scheduling' = s
BY DEF Schedule, Scheduling, SchedulingType

\* What s asks for is asked for already.
Follows(s) ==
    /\ s \in SchedulingType
    /\ \A a \in Request, r \in RM : Holds(s, a, r) => Holds(Scheduling, a, r)
    /\ \A t \in Trid, r \in RM : AtMostOne(Scheduling, t, r) => AtMostOne(s, t, r)

\* The scheduling state follows itself.
LEMMA SameFollows ==
    ASSUME TypeOK
    PROVE  Follows(Scheduling)
BY SchedulingOK DEF Follows

\* What instance::done makes of the scheduling state asks for nothing new.
LEMMA DoneFollows ==
    ASSUME TypeOK, NEW i \in Instance
    PROVE  Follows(Done(Scheduling, i))
BY SchedulingOK, DoneType, DoneHolds, DoneAtMostOne DEF Follows

\* A handler that ends with action::resource::request adds that request only.
LEMMA SendRequestSends ==
    ASSUME NEW s, Follows(s), NEW m \in Request, NEW rs \in SUBSET RM, Schedule(SendRequest(s, m, rs))
    PROVE  Sends(m, rs)
<1>1. s \in SchedulingType
    BY DEF Follows
<1>4. Scheduling' = SendRequest(s, m, rs)
    BY <1>1, SendRequestType, ScheduleIs
<1>5. ASSUME NEW a \in Request, NEW r \in RM, Holds(Scheduling, a, r)'
      PROVE  Holds(Scheduling, a, r) \/ (a = m /\ r \in rs)
    <2>1. Holds(SendRequest(s, m, rs), a, r)
        BY <1>4, <1>5
    <2>2. Holds(s, a, r) \/ (a = m /\ r \in rs)
        BY <1>1, <2>1, SendRequestHolds
    <2> QED BY <2>2 DEF Follows
<1>6. ASSUME NEW t \in Trid, NEW r \in RM, AtMostOne(Scheduling, t, r),
             m.trid = t /\ r \in rs => \A a \in Request : a.trid = t => ~ Holds(Scheduling, a, r)
      PROVE  AtMostOne(Scheduling, t, r)'
    <2>1. /\ AtMostOne(s, t, r)
          /\ m.trid = t /\ r \in rs => \A a \in Request : a.trid = t => ~ Holds(s, a, r)
        BY <1>6 DEF Follows
    <2>2. AtMostOne(SendRequest(s, m, rs), t, r)
        BY <1>1, <2>1, SendRequestAtMostOne
    <2> QED BY <1>4, <2>2
<1> QED BY <1>5, <1>6 DEF Sends

\* A handler that only calls instance::done adds no request.
LEMMA FollowsSends ==
    ASSUME NEW s, Follows(s), Schedule(s), NEW t \in Trid
    PROVE  SendsNothing(t)
<1>1. Scheduling' = s
    BY ScheduleIs DEF Follows
<1> QED BY <1>1 DEF SendsNothing, Follows

\* Neither does one that leaves the queues alone.
LEMMA SameSends ==
    ASSUME UNCHANGED <<inbox, pendingRequests>>, NEW t \in Trid
    PROVE  SendsNothing(t)
BY DEF SendsNothing, Scheduling, Holds, AtMostOne, Waits, Queued

\* A request for one transaction is none for another.
LEMMA SendsOther ==
    ASSUME NEW m \in Request, NEW rs, Sends(m, rs), NEW t \in Trid, m.trid # t \/ rs = {}
    PROVE  SendsNothing(t)
BY DEF Sends, SendsNothing

\* A proxy takes the first message of its queue.
LEMMA TailSends ==
    ASSUME TypeOK, NEW i \in Instance, inbox[i] # <<>>,
           inbox' = [inbox EXCEPT ![i] = Tail(@)], pendingRequests' = pendingRequests,
           NEW t \in Trid
    PROVE  /\ SendsNothing(t)
           /\ Head(inbox[i]) \in Request => Holds(Scheduling, Head(inbox[i]), i[1])
           /\ Head(inbox[i]) \in Request /\ Head(inbox[i]).trid = t /\ AtMostOne(Scheduling, t, i[1])
                 => \A a \in Request : a.trid = t => ~ Holds(Scheduling, a, i[1])'
<1>1. inbox \in [Instance -> Seq(Request \cup {Shutdown})] /\ inbox[i] \in Seq(Request \cup {Shutdown})
    BY DEF TypeOK
<1>2. /\ 1 \in DOMAIN inbox[i] /\ Head(inbox[i]) = inbox[i][1]
      /\ \A n \in DOMAIN Tail(inbox[i]) : n \in Nat /\ n + 1 # 1 /\ n + 1 \in DOMAIN inbox[i] /\ Tail(inbox[i])[n] = inbox[i][n + 1]
    BY <1>1
<1>3. \A j \in Instance : \A n \in DOMAIN inbox'[j] :
         LET k == IF j = i THEN n + 1 ELSE n
         IN  k \in DOMAIN inbox[j] /\ inbox'[j][n] = inbox[j][k] /\ (j = i => k # 1 /\ n \in Nat)
    BY <1>1, <1>2
<1>4. \A j \in Instance : \A n \in DOMAIN inbox'[j], r \in RM :
         LET k == IF j = i THEN n + 1 ELSE n
         IN  Queued(Scheduling, t, r, j, n)' => Queued(Scheduling, t, r, j, k) /\ k \in DOMAIN inbox[j]
    BY <1>3 DEF Queued, Scheduling
<1>5. \A r \in RM : \A n : Waits(Scheduling, t, r, n)' <=> Waits(Scheduling, t, r, n)
    BY DEF Waits, Scheduling
<1>6. ASSUME NEW m \in Request, NEW r \in RM, m.trid = t, Holds(Scheduling, m, r)'
      PROVE  Holds(Scheduling, m, r)
    BY <1>3, <1>6 DEF Holds, Scheduling
<1>7. ASSUME NEW r \in RM, AtMostOne(Scheduling, t, r)
      PROVE  AtMostOne(Scheduling, t, r)'
    <2>1. \A n, k \in DOMAIN pendingRequests' :
              Waits(Scheduling, t, r, n)' /\ Waits(Scheduling, t, r, k)' => n = k
        BY <1>5, <1>7 DEF AtMostOne, Scheduling
    <2>2. ASSUME NEW j \in Instance, NEW q \in Instance, NEW n \in DOMAIN inbox'[j], NEW k \in DOMAIN inbox'[q],
                 Queued(Scheduling, t, r, j, n)', Queued(Scheduling, t, r, q, k)'
          PROVE  j = q /\ n = k
        <3>1. /\ j = q
              /\ (IF j = i THEN n + 1 ELSE n) = (IF q = i THEN k + 1 ELSE k)
            BY <1>4, <1>7, <2>2 DEF AtMostOne, Scheduling
        <3>2. j = i => n \in Nat /\ k \in Nat
            BY <1>3, <3>1
        <3> QED BY <3>1, <3>2
    <2>3. ASSUME NEW n \in DOMAIN pendingRequests', NEW j \in Instance, NEW k \in DOMAIN inbox'[j],
                 Waits(Scheduling, t, r, n)', Queued(Scheduling, t, r, j, k)'
          PROVE  FALSE
        <3> DEFINE l == IF j = i THEN k + 1 ELSE k
        <3>1. Waits(Scheduling, t, r, n) /\ n \in DOMAIN pendingRequests
            BY <1>5, <2>3
        <3>2. Queued(Scheduling, t, r, j, l) /\ l \in DOMAIN inbox[j]
            BY <1>4, <2>3
        <3> HIDE DEF l
        <3> QED BY <1>7, <3>1, <3>2 DEF AtMostOne, Scheduling
    <2> QED BY <2>1, <2>2, <2>3 DEF AtMostOne, Scheduling
<1>8. ASSUME Head(inbox[i]) \in Request
      PROVE  Holds(Scheduling, Head(inbox[i]), i[1])
    BY <1>2 DEF Holds, Scheduling
<1>9. ASSUME Head(inbox[i]) \in Request, Head(inbox[i]).trid = t, AtMostOne(Scheduling, t, i[1]),
             NEW a \in Request, a.trid = t, Holds(Scheduling, a, i[1])'
      PROVE  FALSE
    <2>1. Queued(Scheduling, t, i[1], i, 1)
        BY <1>2, <1>9 DEF Queued, Scheduling
    <2>2. ASSUME NEW n \in DOMAIN pendingRequests, pendingRequests[n].message = a,
                 i[1] \in pendingRequests[n].resources
          PROVE  FALSE
        BY <1>2, <1>9, <2>1, <2>2 DEF AtMostOne, Waits, Scheduling
    <2>3. ASSUME NEW j \in Instance, j[1] = i[1], NEW n \in DOMAIN inbox'[j], inbox'[j][n] = a
          PROVE  FALSE
        <3> DEFINE k == IF j = i THEN n + 1 ELSE n
        <3>1. k \in DOMAIN inbox[j] /\ inbox[j][k] = a /\ (j = i => k # 1)
            BY <1>3, <2>3
        <3>2. Queued(Scheduling, t, i[1], j, k)
            BY <1>9, <2>3, <3>1 DEF Queued, Scheduling
        <3> HIDE DEF k
        <3> QED BY <1>2, <1>9, <2>1, <3>1, <3>2 DEF AtMostOne, Scheduling
    <2> QED BY <1>9, <2>2, <2>3 DEF Holds, Scheduling
<1> QED BY <1>6, <1>7, <1>8, <1>9 DEF SendsNothing

\* A shutdown request or the loss of a queue adds no request.
LEMMA RetireSends ==
    ASSUME TypeOK, pendingRequests' = pendingRequests, NEW t \in Trid,
           inbox' \in [Instance -> Seq(Request \cup {Shutdown})],
           \A i \in Instance : inbox'[i] \in {inbox[i], Append(inbox[i], Shutdown), <<>>}
    PROVE  SendsNothing(t)
<1>1. Shutdown \notin Request
    BY DEF Shutdown, Request
<1>2. \A i \in Instance : \A n \in DOMAIN inbox'[i] :
         inbox'[i][n] \in Request => n \in DOMAIN inbox[i] /\ inbox[i][n] = inbox'[i][n]
    <2> SUFFICES ASSUME NEW i \in Instance, NEW n \in DOMAIN inbox'[i], inbox'[i][n] \in Request
                 PROVE  n \in DOMAIN inbox[i] /\ inbox[i][n] = inbox'[i][n]
        OBVIOUS
    <2>1. inbox[i] \in Seq(Request \cup {Shutdown})
        BY DEF TypeOK
    <2> QED BY <1>1, <2>1
<1>3. \A i \in Instance : \A n \in DOMAIN inbox'[i], r \in RM :
          Queued(Scheduling, t, r, i, n)' => Queued(Scheduling, t, r, i, n) /\ n \in DOMAIN inbox[i]
    BY <1>2 DEF Queued, Scheduling
<1>4. \A r \in RM : \A n : Waits(Scheduling, t, r, n)' <=> Waits(Scheduling, t, r, n)
    BY DEF Waits, Scheduling
<1>5. \A m \in Request, r \in RM : Holds(Scheduling, m, r)' => Holds(Scheduling, m, r)
    BY <1>2 DEF Holds, Scheduling
<1>6. ASSUME NEW r \in RM, AtMostOne(Scheduling, t, r)
      PROVE  AtMostOne(Scheduling, t, r)'
    <2>1. \A n, k \in DOMAIN pendingRequests' :
              Waits(Scheduling, t, r, n)' /\ Waits(Scheduling, t, r, k)' => n = k
        BY <1>4, <1>6 DEF AtMostOne, Scheduling
    <2>2. \A i, j \in Instance : \A n \in DOMAIN inbox'[i], k \in DOMAIN inbox'[j] :
              Queued(Scheduling, t, r, i, n)' /\ Queued(Scheduling, t, r, j, k)' => i = j /\ n = k
        BY <1>3, <1>6 DEF AtMostOne, Scheduling
    <2>3. ASSUME NEW n \in DOMAIN pendingRequests', NEW i \in Instance, NEW k \in DOMAIN inbox'[i],
                 Waits(Scheduling, t, r, n)', Queued(Scheduling, t, r, i, k)'
          PROVE  FALSE
        <3>1. Waits(Scheduling, t, r, n) /\ n \in DOMAIN pendingRequests
            BY <1>4, <2>3
        <3>2. Queued(Scheduling, t, r, i, k) /\ k \in DOMAIN inbox[i]
            BY <1>3, <2>3
        <3> QED BY <1>6, <3>1, <3>2 DEF AtMostOne, Scheduling
    <2> QED BY <2>1, <2>2, <2>3 DEF AtMostOne, Scheduling
<1> QED BY <1>5, <1>6 DEF SendsNothing

\* A message that is pushed is the only one that is new in a queue.
LEMMA PushTells ==
    ASSUME RepliesOK, NEW m \in Reply, NEW ok \in BOOLEAN, Push(m, ok), NEW a \in Reply,
           NEW n \in DOMAIN received'[a.trid], received'[a.trid][n] = a
    PROVE  (\E k \in DOMAIN received[a.trid] : received[a.trid][k] = a) \/ (a = m /\ ok)
<1>1. \/ received' = received
      \/ ok /\ received' = [received EXCEPT ![m.trid] = Append(received[m.trid], m)]
    BY Zenon DEF Push
<1>2. m.trid \in Trid /\ a.trid \in Trid
    BY DEF Reply
<1>3. received[m.trid] \in Seq(Reply)
    BY <1>2 DEF RepliesOK
<1>4. CASE ok /\ received' = [received EXCEPT ![m.trid] = Append(received[m.trid], m)]
    <2>1. CASE a.trid = m.trid
        <3>1. received'[a.trid] = Append(received[m.trid], m)
            BY <1>2, <1>4, <2>1 DEF RepliesOK
        <3> QED BY <1>3, <1>4, <2>1, <3>1
    <2>2. CASE a.trid # m.trid
        <3>1. received'[a.trid] = received[a.trid]
            BY <1>2, <1>4, <2>2 DEF RepliesOK
        <3> QED BY <3>1
    <2> QED BY <2>1, <2>2
<1> QED BY <1>1, <1>4

\* send::reply and send::persistent::reply add their reply only.
LEMMA SendReplyTells ==
    ASSUME RepliesOK, NEW m \in Reply, SendReply(m) \/ SendPersistent(m), UNCHANGED unsent
    PROVE  Tells(m)
<1> SUFFICES ASSUME NEW a \in Reply, Told(a)' PROVE Told(a) \/ a = m
    BY DEF Tells
<1>1. CASE \E n \in DOMAIN persistentReplies' : persistentReplies'[n] = a
    <2>1. persistentReplies' = persistentReplies \/ persistentReplies' = Append(persistentReplies, m)
        BY Zenon DEF SendReply, SendPersistent
    <2>2. persistentReplies \in Seq(Reply)
        BY DEF RepliesOK
    <2> QED BY <1>1, <2>1, <2>2 DEF Told
<1>2. CASE \E n \in DOMAIN received'[a.trid] : received'[a.trid][n] = a
    <2>1. received' = received \/ Push(m, TRUE) \/ Push(m, FALSE)
        BY DEF SendReply, SendPersistent
    <2> QED BY <1>2, <2>1, PushTells DEF Told
<1>3. CASE \E n \in DOMAIN unsent' : unsent'[n] = a
    BY <1>3 DEF Told
<1> QED BY <1>1, <1>2, <1>3 DEF Told

\* A handler that sends no reply adds none.
LEMMA NoReplyTells ==
    ASSUME UNCHANGED <<persistentReplies, received, unsent>>, NEW t \in Trid
    PROVE  TellsNothing(t)
BY DEF TellsNothing, Told

\* A reply for one transaction is none for another.
LEMMA TellsOther ==
    ASSUME NEW m \in Reply, Tells(m), NEW t \in Trid, m.trid # t
    PROVE  TellsNothing(t)
BY DEF Tells, TellsNothing

-----------------------------------------------------------------------------
(* What the manager believes of an instance agrees with what is in its     *)
(* queue and what it has said.                                             *)

\* What proxy i has said to the manager when ib is unread.
Says(ib, i) == {m \in ib : m.instance = i}

\* The manager's view of instance i in scheduling state s is right, when ib is unread and
\* px are the proxies.
InstancePlaced(s, ib, px, i) ==
    /\ s.instance[i] = "absent" => px[i] = "none" /\ s.inbox[i] = <<>> /\ Says(ib, i) = {}
    /\ s.instance[i] = "started" =>
          /\ s.inbox[i] = <<>>
          /\ px[i] \in {"starting", "running", "exited"}
          /\ px[i] = "starting" => Says(ib, i) = {}
          /\ \A m \in Says(ib, i) :
                m.op = "connect" /\ Says(ib, i) = {m} /\ (m.state = cXA_OK <=> px[i] = "running")
    /\ s.instance[i] = "startupError" =>
          px[i] = "exited" /\ s.inbox[i] = <<>> /\ Says(ib, i) = {}
    /\ s.instance[i] = "idle" => px[i] = "running" /\ s.inbox[i] = <<>> /\ Says(ib, i) = {}
    /\ s.instance[i] = "busy" =>
          /\ px[i] = "running"
          /\ \/ Says(ib, i) = {} /\ \E m \in Request : s.inbox[i] = <<m>>
             \/ s.inbox[i] = <<>> /\ \E m \in ib : m.op # "connect" /\ Says(ib, i) = {m}

\* The instances of a resource are at the first places of its vector.
Vector(s) ==
    \A i \in Instance : s.instance[i] # "absent" =>
        \A k \in 1 .. i[2] : s.instance[<<i[1], k>>] # "absent"

\* Every instance is as the manager believes.
Placed(s, ib, px) ==
    /\ s \in SchedulingType
    /\ Vector(s)
    /\ \A i \in Instance : InstancePlaced(s, ib, px, i)

\* No instance comes or goes between two scheduling states.
LEMMA VectorKept ==
    ASSUME NEW s, NEW new, Vector(s),
           \A i \in Instance : s.instance[i] = "absent" <=> new.instance[i] = "absent"
    PROVE  Vector(new)
<1> SUFFICES ASSUME NEW i \in Instance, new.instance[i] # "absent", NEW k \in 1 .. i[2]
             PROVE  new.instance[<<i[1], k>>] # "absent"
    BY DEF Vector
<1>1. <<i[1], k>> \in Instance
    BY InstanceAssumption DEF Instance
<1> QED BY <1>1 DEF Vector

\* action::resource::request gives its message to instances that are idle, which are busy then.
LEMMA SendRequestPlaced ==
    ASSUME NEW s, NEW ib, NEW px, Placed(s, ib, px), NEW m \in Request, NEW rs \in SUBSET RM
    PROVE  Placed(SendRequest(s, m, rs), ib, px)
<1> DEFINE idle == IdleInstances(s.instance, rs)
           new == SendRequest(s, m, rs)
<1>1. new \in SchedulingType /\ s \in SchedulingType
    BY SendRequestType DEF Placed
<1>2. \A i \in idle : s.instance[i] = "idle" /\ i \in Instance
    BY DEF IdleInstances
<1>3. ASSUME NEW i \in Instance
      PROVE  /\ i \in idle => new.instance[i] = "busy" /\ new.inbox[i] = Append(s.inbox[i], m)
             /\ i \notin idle => new.instance[i] = s.instance[i] /\ new.inbox[i] = s.inbox[i]
    BY <1>2 DEF SendRequest, NewState
<1> HIDE DEF new, idle
<1>4. Vector(new)
    BY <1>2, <1>3, VectorKept DEF Placed
<1>5. ASSUME NEW i \in Instance PROVE InstancePlaced(new, ib, px, i)
    <2>1. InstancePlaced(s, ib, px, i)
        BY DEF Placed
    <2>2. CASE i \in idle
        <3>1. px[i] = "running" /\ s.inbox[i] = <<>> /\ Says(ib, i) = {}
            BY <1>2, <2>1, <2>2 DEF InstancePlaced
        <3>2. new.inbox[i] = <<m>> /\ new.instance[i] = "busy"
            BY <1>3, <2>2, <3>1
        <3> QED BY <3>1, <3>2 DEF InstancePlaced
    <2>3. CASE i \notin idle
        BY <1>3, <2>1, <2>3 DEF InstancePlaced
    <2> QED BY <2>2, <2>3
<1> QED BY <1>1, <1>4, <1>5 DEF Placed, new

\* instance::done, when message m of the instance is read: the instance has nothing to do
\* then, or the one request that was pending.
LEMMA DonePlaced ==
    ASSUME NEW s, NEW ib, NEW px, Placed(s, ib, px), NEW m \in ib, m.instance \in Instance,
           m.op = "connect" => m.state = cXA_OK
    PROVE  Placed(Done(s, m.instance), ib \ {m}, px)
<1> DEFINE i == m.instance
           found == PendingFor(s, i[1])
           n == CHOOSE n \in found : TRUE
           new == Done(s, i)
<1>1. s \in SchedulingType /\ new \in SchedulingType /\ i \in Instance
    BY DoneType DEF Placed
<1>2. InstancePlaced(s, ib, px, i) /\ m \in Says(ib, i)
    BY <1>1 DEF Placed, Says
<1>3. \A j \in Instance \ {i} : new.instance[j] = s.instance[j] /\ new.inbox[j] = s.inbox[j]
    BY <1>1 DEF Done, SchedulingType
<1>4. \/ new.instance[i] = NewState(s.instance[i], "idle") /\ new.inbox[i] = s.inbox[i]
      \/ /\ new.instance[i] = NewState(s.instance[i], "busy")
         /\ \E a \in Request : new.inbox[i] = Append(s.inbox[i], a)
    <2>1. CASE found = {}
        BY <1>1, <2>1 DEF Done, SchedulingType
    <2>2. CASE found # {}
        <3>1. n \in DOMAIN s.pending
            BY <2>2 DEF PendingFor
        <3>2. new = [instance |-> [s.instance EXCEPT ![i] = NewState(@, "busy")],
                     inbox |-> [s.inbox EXCEPT ![i] = Append(@, s.pending[n].message)],
                     pending |-> WithoutResource(s.pending, n, i[1])]
            BY <2>2, Zenon DEF Done
        <3> HIDE DEF n
        <3>3. s.pending[n].message \in Request
            <4>1. s.pending \in Seq(PendingRequest)
                BY <1>1 DEF SchedulingType
            <4>2. s.pending[n] \in PendingRequest
                BY <3>1, <4>1
            <4> QED BY <4>2 DEF PendingRequest
        <3> HIDE DEF new
        <3>4. /\ new.instance[i] = NewState(s.instance[i], "busy")
              /\ new.inbox[i] = Append(s.inbox[i], s.pending[n].message)
            BY <1>1, <3>2 DEF SchedulingType
        <3> QED BY <3>3, <3>4
    <2> QED BY <2>1, <2>2
<1>5. \A j \in Instance \ {i} : Says(ib \ {m}, j) = Says(ib, j)
    BY DEF Says
<1>6. Says(ib \ {m}, i) = Says(ib, i) \ {m}
    BY DEF Says
<1>7. s.instance[i] \in {"started", "busy", "shutdown"}
    BY <1>1, <1>2 DEF InstancePlaced, SchedulingType, InstanceState
<1> HIDE DEF new, i
<1>8. Vector(new)
    <2>1. \A j \in Instance : s.instance[j] = "absent" <=> new.instance[j] = "absent"
        BY <1>3, <1>4, <1>7 DEF NewState
    <2> QED BY <2>1, VectorKept DEF Placed
<1>9. InstancePlaced(new, ib \ {m}, px, i)
    <2>1. CASE s.instance[i] = "shutdown"
        <3>1. new.instance[i] = "shutdown"
            BY <1>4, <2>1 DEF NewState
        <3> QED BY <3>1 DEF InstancePlaced
    <2>2. CASE s.instance[i] \in {"started", "busy"}
        <3>1. s.inbox[i] = <<>> /\ Says(ib, i) = {m} /\ px[i] = "running"
            BY <1>2, <2>2 DEF InstancePlaced, i
        <3>2. Says(ib \ {m}, i) = {}
            BY <1>6, <3>1
        <3>3. CASE new.instance[i] = NewState(s.instance[i], "idle") /\ new.inbox[i] = s.inbox[i]
            <4>1. new.instance[i] = "idle"
                BY <2>2, <3>3 DEF NewState
            <4> QED BY <3>1, <3>2, <3>3, <4>1 DEF InstancePlaced
        <3>4. CASE /\ new.instance[i] = NewState(s.instance[i], "busy")
                   /\ \E a \in Request : new.inbox[i] = Append(s.inbox[i], a)
            <4>1. new.instance[i] = "busy"
                BY <2>2, <3>4 DEF NewState
            <4>2. \E a \in Request : new.inbox[i] = <<a>>
                BY <3>1, <3>4
            <4> QED BY <3>1, <3>2, <4>1, <4>2 DEF InstancePlaced
        <3> QED BY <1>4, <3>3, <3>4
    <2> QED BY <1>7, <2>1, <2>2
<1>10. ASSUME NEW j \in Instance \ {i} PROVE InstancePlaced(new, ib \ {m}, px, j)
    <2>1. InstancePlaced(s, ib, px, j)
        BY DEF Placed
    <2>2. m \notin Says(ib, j)
        BY DEF Says, i
    <2> QED BY <1>3, <1>5, <2>1, <2>2 DEF InstancePlaced
<1> QED BY <1>1, <1>8, <1>9, <1>10 DEF Placed, new, i

\* Storing a scheduling state that is right for the queue and the proxies that follow.
LEMMA SchedulePlaced ==
    ASSUME NEW s, Placed(s, inbound', proxy'), Schedule(s)
    PROVE  Placed(Scheduling', inbound', proxy')
<1>1. s \in SchedulingType
    BY DEF Placed
<1>2. Scheduling' = s
    BY <1>1, ScheduleIs
<1> QED BY <1>2

\* send::resource::request keeps the instances right.
LEMMA RequestResourcesPlaced ==
    ASSUME NEW s, Placed(s, inbound', proxy'), NEW t \in Trid, NEW rs \in SUBSET RM,
           NEW op \in {"prepare", "commit", "rollback"}, NEW onephase \in BOOLEAN, NEW newStage,
           RequestResources(s, t, rs, op, onephase, newStage)
    PROVE  Placed(Scheduling', inbound', proxy')
<1> DEFINE m == [op |-> op, trid |-> t, onephase |-> onephase]
<1>1. m \in Request
    BY RequestType
<1>2. Schedule(SendRequest(s, m, rs))
    BY DEF RequestResources
<1> HIDE DEF m
<1>3. Placed(SendRequest(s, m, rs), inbound', proxy')
    BY <1>1, SendRequestPlaced
<1> QED BY <1>2, <1>3, SchedulePlaced

\* handle::Commit keeps the instances right.
LEMMA CommitPlaced ==
    ASSUME TypeOK, Placed(Scheduling, inbound, proxy), NEW t \in Trid, NEW rs \in SUBSET RM,
           UNCHANGED <<proxy, inbound>>,
           CommitRefused(t, rs) \/ CommitEmpty(t, rs) \/ CommitResources(t, rs)
    PROVE  Placed(Scheduling', inbound', proxy')
<1>1. CASE CommitRefused(t, rs) \/ CommitEmpty(t, rs)
    BY <1>1 DEF CommitRefused, CommitEmpty, Scheduling
<1>2. CASE CommitResources(t, rs)
    <2>1. AtStage(stage[t], rs, cInvolved) \in SUBSET RM
        BY DEF AtStage
    <2>2. \E to \in SUBSET RM, op \in {"prepare", "commit", "rollback"},
             onephase \in BOOLEAN, newStage \in Stage :
                RequestResources(Scheduling, t, to, op, onephase, newStage)
        BY <1>2, <2>1, StagesTyped DEF CommitResources
    <2> QED BY <2>2, RequestResourcesPlaced
<1> QED BY <1>1, <1>2

\* basic_rollback keeps the instances right.
LEMMA RollPlaced ==
    ASSUME TypeOK, Placed(Scheduling, inbound, proxy), NEW t \in Trid, NEW rs \in SUBSET RM, NEW c,
           UNCHANGED <<proxy, inbound>>, Roll(t, rs, c)
    PROVE  Placed(Scheduling', inbound', proxy')
<1>1. CASE rs = {}
    BY <1>1 DEF Roll, Scheduling
<1>2. CASE rs # {}
    <2>1. AtStage(stage[t], rs, cInvolved) \in SUBSET RM
        BY DEF AtStage
    <2>2. RequestResources(Scheduling, t, AtStage(stage[t], rs, cInvolved), "rollback",
                           FALSE, cRollbackRequested)
        BY <1>2 DEF Roll
    <2> QED BY <2>1, <2>2, RequestResourcesPlaced
<1> QED BY <1>1, <1>2

\* Every resource reply handler keeps the instances right.
LEMMA ReplyHandlersPlaced ==
    ASSUME TypeOK, NEW m \in ResourceReply, NEW s, Placed(s, inbound', proxy'),
           NEW t \in Trid, NEW r \in RM,
           \/ DiscardReply(s)
           \/ PrepareReply(m, s, t, r)
           \/ CommitDone(m, s, t, r)
           \/ RollbackDone(m, s, t, r)
    PROVE  Placed(Scheduling', inbound', proxy')
<1>1. CASE DiscardReply(s) \/ CommitDone(m, s, t, r) \/ RollbackDone(m, s, t, r)
    <2>1. Schedule(s)
        BY <1>1 DEF DiscardReply, CommitDone, RollbackDone
    <2> QED BY <2>1, SchedulePlaced
<1>2. CASE PrepareReply(m, s, t, r)
    <2>1. \/ Schedule(s)
          \/ \E to \in SUBSET RM, op \in {"commit", "rollback"} :
                Schedule(SendRequest(s, [op |-> op, trid |-> t, onephase |-> FALSE], to))
        <3> DEFINE res == [result[t] EXCEPT ![r] = m.state]
                   stg == [stage[t] EXCEPT ![r] = IF m.state = cXA_RDONLY THEN cNotInvolved
                                                                          ELSE cPrepareReplied]
                   all == AtStage(stg, resources[t], cPrepareReplied)
                   good == {q \in all : res[q] = cXA_OK}
        <3>1. all \in SUBSET RM /\ good \in SUBSET RM
            BY DEF TypeOK, AtStage
        <3>2. \/ Schedule(s)
              \/ Schedule(SendRequest(s, [op |-> "commit", trid |-> t, onephase |-> FALSE], good))
              \/ Schedule(SendRequest(s, [op |-> "rollback", trid |-> t, onephase |-> FALSE], all))
            BY <1>2, Zenon DEF PrepareReply
        <3> HIDE DEF all, good
        <3> QED BY <3>1, <3>2
    <2>2. ASSUME NEW to \in SUBSET RM, NEW op \in {"commit", "rollback"},
                 Schedule(SendRequest(s, [op |-> op, trid |-> t, onephase |-> FALSE], to))
          PROVE  Placed(Scheduling', inbound', proxy')
        <3>1. [op |-> op, trid |-> t, onephase |-> FALSE] \in Request
            BY RequestType
        <3>2. Placed(SendRequest(s, [op |-> op, trid |-> t, onephase |-> FALSE], to), inbound', proxy')
            BY <3>1, SendRequestPlaced
        <3> QED BY <2>2, <3>2, SchedulePlaced
    <2> QED BY <2>1, <2>2, SchedulePlaced
<1> QED BY <1>1, <1>2

\* reply::Connect for an instance that could not open its resource: it has failed to start.
LEMMA ConnectErrorPlaced ==
    ASSUME NEW s, NEW ib, NEW px, Placed(s, ib, px), NEW m \in ib, m.instance \in Instance,
           m.op = "connect", m.state # cXA_OK
    PROVE  Placed([s EXCEPT !.instance[m.instance] = NewState(@, "startupError")], ib \ {m}, px)
<1> DEFINE new == [s EXCEPT !.instance[m.instance] = NewState(@, "startupError")]
<1>1. s \in SchedulingType
    BY DEF Placed
<1>2. /\ new.instance = [s.instance EXCEPT ![m.instance] = NewState(@, "startupError")]
      /\ new.inbox = s.inbox
      /\ new \in SchedulingType
    BY <1>1 DEF SchedulingType, NewState, InstanceState
<1>3. InstancePlaced(s, ib, px, m.instance) /\ m \in Says(ib, m.instance)
    BY DEF Placed, Says
<1>4. s.instance[m.instance] \in {"started", "shutdown"}
    BY <1>1, <1>3 DEF InstancePlaced, SchedulingType, InstanceState
<1> HIDE DEF new
<1>5. /\ \A j \in Instance \ {m.instance} : new.instance[j] = s.instance[j]
      /\ new.instance[m.instance] = NewState(s.instance[m.instance], "startupError")
    BY <1>1, <1>2 DEF SchedulingType
<1>6. Vector(new)
    <2>1. \A j \in Instance : s.instance[j] = "absent" <=> new.instance[j] = "absent"
        BY <1>4, <1>5 DEF NewState
    <2> QED BY <2>1, VectorKept DEF Placed
<1>7. InstancePlaced(new, ib \ {m}, px, m.instance)
    <2>1. CASE s.instance[m.instance] = "shutdown"
        <3>1. new.instance[m.instance] = "shutdown"
            BY <1>5, <2>1 DEF NewState
        <3> QED BY <3>1 DEF InstancePlaced
    <2>2. CASE s.instance[m.instance] = "started"
        <3>1. /\ new.inbox[m.instance] = <<>> /\ px[m.instance] = "exited"
              /\ Says(ib, m.instance) = {m}
            BY <1>2, <1>3, <2>2 DEF InstancePlaced
        <3>2. Says(ib \ {m}, m.instance) = {}
            BY <3>1 DEF Says
        <3>3. new.instance[m.instance] = "startupError"
            BY <1>5, <2>2 DEF NewState
        <3> QED BY <3>1, <3>2, <3>3 DEF InstancePlaced
    <2> QED BY <1>4, <2>1, <2>2
<1>8. ASSUME NEW j \in Instance \ {m.instance} PROVE InstancePlaced(new, ib \ {m}, px, j)
    <2>1. InstancePlaced(s, ib, px, j)
        BY DEF Placed
    <2>2. Says(ib \ {m}, j) = Says(ib, j) /\ m \notin Says(ib, j)
        BY DEF Says
    <2> QED BY <1>2, <1>5, <2>1, <2>2 DEF InstancePlaced
<1> QED BY <1>2, <1>6, <1>7, <1>8 DEF Placed, new

\* The instances of a resource take the first places, as many as there are.
LEMMA SizeIs ==
    ASSUME Vector(Scheduling), NEW r \in RM
    PROVE  /\ Size(r) \in 0 .. MaxInstances
           /\ \A k \in 1 .. MaxInstances : instance[<<r, k>>] # "absent" <=> k <= Size(r)
<1> DEFINE D == {k \in 1 .. MaxInstances : instance[<<r, k>>] # "absent"}
           T == {k \in 1 .. MaxInstances + 1 : k \notin D}
<1>1. MaxInstances \in Nat
    BY InstanceAssumption
<1>2. T \in SUBSET Nat /\ T # {}
    <2>1. MaxInstances + 1 \in T
        BY <1>1
    <2> QED BY <1>1, <2>1
<1>3. PICK x \in T : \A y \in T : x <= y
    <2> HIDE DEF T
    <2> QED BY <1>2, LeastNatural
<1>4. ASSUME NEW k \in D, NEW j \in 1 .. k PROVE j \in D
    <2>1. <<r, k>> \in Instance /\ instance[<<r, k>>] # "absent"
        BY DEF Instance
    <2>2. instance[<<r, j>>] # "absent"
        BY <2>1 DEF Vector, Scheduling
    <2> QED BY <1>1, <2>2
<1>5. D = 1 .. (x - 1)
    <2>1. ASSUME NEW k \in D PROVE k \in 1 .. (x - 1)
        <3>1. ~ (x <= k)
            BY <1>1, <1>3, <1>4
        <3> QED BY <1>1, <1>3, <3>1
    <2>2. ASSUME NEW k \in 1 .. (x - 1) PROVE k \in D
        <3>1. k \notin T /\ k \in 1 .. MaxInstances + 1
            BY <1>1, <1>3
        <3> QED BY <3>1
    <2> QED BY <2>1, <2>2
<1>6. Cardinality(D) = x - 1 /\ x \in 1 .. MaxInstances + 1
    <2>1. x \in 1 .. MaxInstances + 1
        BY <1>3
    <2>2. Cardinality(1 .. (x - 1)) = IF 1 > x - 1 THEN 0 ELSE (x - 1) - 1 + 1
        BY <1>1, <2>1, FS_Interval
    <2>3. Cardinality(1 .. (x - 1)) = x - 1
        BY <1>1, <2>1, <2>2
    <2> QED BY <1>5, <2>1, <2>3
<1>7. Size(r) = x - 1
    BY <1>6 DEF Size
<1>8. \A k \in 1 .. MaxInstances : instance[<<r, k>>] # "absent" <=> k \in 1 .. (x - 1)
    BY <1>5
<1> HIDE DEF D, T
<1> QED BY <1>1, <1>6, <1>7, <1>8

\* action::resource::Instances keeps the instances right: what is spawned takes the next
\* places of the vector and has nothing to say yet, what is retired is never used again.
LEMMA InstancesPlaced ==
    ASSUME TypeOK, Placed(Scheduling, inbound, proxy), NEW r \in RM, NEW n \in 0 .. MaxInstances,
           Instances(r, n)
    PROVE  Placed(Scheduling', inbound', proxy')
<1>1. /\ Size(r) \in 0 .. MaxInstances
      /\ \A k \in 1 .. MaxInstances : instance[<<r, k>>] # "absent" <=> k <= Size(r)
    BY SizeIs DEF Placed
<1>2. /\ pendingRequests' = pendingRequests /\ inbound' = inbound
      /\ Spawn(r, n) \/ Retire(r, n)
    BY DEF Instances
<1>3. /\ instance \in [Instance -> InstanceState]
      /\ inbox \in [Instance -> Seq(Request \cup {Shutdown})]
      /\ pendingRequests \in Seq(PendingRequest)
      /\ proxy \in [Instance -> {"none", "starting", "running", "exited"}]
    BY DEF TypeOK
<1>4. \A i \in Instance : i = <<i[1], i[2]>> /\ i[1] \in RM /\ i[2] \in 1 .. MaxInstances
    BY DEF Instance
<1>5. CASE Spawn(r, n)
    <2> DEFINE new == {i \in Instance : i[1] = r /\ i[2] \in Size(r) + 1 .. n}
    <2>1. /\ n > Size(r)
          /\ instance' = [i \in Instance |-> IF i \in new THEN "started" ELSE instance[i]]
          /\ proxy' = [i \in Instance |-> IF i \in new THEN "starting" ELSE proxy[i]]
          /\ inbox' = inbox
        BY <1>5 DEF Spawn
    <2>2. \A i \in new : instance[i] = "absent"
        BY <1>1, <1>4, InstanceAssumption
    <2>3. Scheduling' \in SchedulingType
        BY <1>2, <1>3, <2>1 DEF Scheduling, SchedulingType, InstanceState
    <2>4. Vector(Scheduling')
        <3> SUFFICES ASSUME NEW i \in Instance, instance'[i] # "absent", NEW k \in 1 .. i[2],
                            instance'[<<i[1], k>>] = "absent"
                     PROVE  FALSE
            BY DEF Vector, Scheduling
        <3>1. <<i[1], k>> \in Instance /\ k \in 1 .. MaxInstances
            BY <1>4, InstanceAssumption DEF Instance
        <3>2. <<i[1], k>> \notin new /\ instance[<<i[1], k>>] = "absent"
            BY <2>1, <3>1
        <3>3. instance[i] = "absent"
            BY <3>2 DEF Placed, Vector, Scheduling
        <3>4. i \in new
            BY <2>1, <3>3
        <3>5. k > Size(r) /\ k <= n
            BY <1>1, <1>4, <3>1, <3>2, <3>4, InstanceAssumption
        <3> QED BY <1>1, <3>1, <3>2, <3>4, <3>5, InstanceAssumption
    <2>5. ASSUME NEW i \in Instance PROVE InstancePlaced(Scheduling', inbound', proxy', i)
        <3>1. InstancePlaced(Scheduling, inbound, proxy, i)
            BY DEF Placed
        <3>2. CASE i \in new
            <4>1. instance'[i] = "started" /\ proxy'[i] = "starting" /\ inbox'[i] = inbox[i]
                BY <2>1, <3>2
            <4>2. inbox[i] = <<>> /\ Says(inbound, i) = {}
                BY <2>2, <3>1, <3>2 DEF InstancePlaced, Scheduling
            <4> QED BY <1>2, <4>1, <4>2 DEF InstancePlaced, Scheduling
        <3>3. CASE i \notin new
            <4>1. instance'[i] = instance[i] /\ proxy'[i] = proxy[i] /\ inbox'[i] = inbox[i]
                BY <2>1, <3>3
            <4> QED BY <1>2, <3>1, <4>1 DEF InstancePlaced, Scheduling
        <3> QED BY <3>2, <3>3
    <2> QED BY <2>3, <2>4, <2>5 DEF Placed
<1>6. CASE Retire(r, n)
    <2> DEFINE last == {i \in Instance : i[1] = r /\ i[2] \in n + 1 .. Size(r)}
               old == {i \in last : \A j \in last : j[2] < i[2] => instance[j] # "startupError"}
    <2>1. /\ instance' = [i \in Instance |-> IF i \in old THEN "shutdown" ELSE instance[i]]
          /\ inbox' = [i \in Instance |-> IF i \in old /\ instance[i] \in {"idle", "busy"}
                                          THEN Append(inbox[i], Shutdown) ELSE inbox[i]]
          /\ proxy' = [i \in Instance |-> IF i \in old /\ instance[i] = "started"
                                          THEN "exited" ELSE proxy[i]]
        BY <1>6 DEF Retire
    <2>2. \A i \in old : instance[i] # "absent"
        BY <1>1, <1>4, InstanceAssumption
    <2> HIDE DEF old
    <2>3. Scheduling' \in SchedulingType
        BY <1>2, <1>3, <2>1 DEF Scheduling, SchedulingType, InstanceState
    <2>4. Vector(Scheduling')
        <3>1. \A i \in Instance : Scheduling.instance[i] = "absent" <=> Scheduling'.instance[i] = "absent"
            BY <2>1, <2>2 DEF Scheduling
        <3> QED BY <3>1, VectorKept DEF Placed
    <2>5. ASSUME NEW i \in Instance PROVE InstancePlaced(Scheduling', inbound', proxy', i)
        <3>1. InstancePlaced(Scheduling, inbound, proxy, i)
            BY DEF Placed
        <3>2. CASE i \in old
            BY <2>1, <3>2 DEF InstancePlaced, Scheduling
        <3>3. CASE i \notin old
            <4>1. instance'[i] = instance[i] /\ proxy'[i] = proxy[i] /\ inbox'[i] = inbox[i]
                BY <2>1, <3>3
            <4> QED BY <1>2, <3>1, <4>1 DEF InstancePlaced, Scheduling
        <3> QED BY <3>2, <3>3
    <2> QED BY <2>3, <2>4, <2>5 DEF Placed
<1> QED BY <1>2, <1>5, <1>6

\* A step of one proxy keeps the instances right, if it does for this one.
LEMMA ProxyPlaced ==
    ASSUME TypeOK, Placed(Scheduling, inbound, proxy), TypeOK', NEW i \in Instance,
           UNCHANGED <<instance, pendingRequests>>,
           \A j \in Instance \ {i} : /\ inbox'[j] = inbox[j] /\ proxy'[j] = proxy[j]
                                     /\ Says(inbound', j) = Says(inbound, j),
           InstancePlaced(Scheduling', inbound', proxy', i)
    PROVE  Placed(Scheduling', inbound', proxy')
<1>1. Scheduling' \in SchedulingType
    BY DEF TypeOK, Scheduling, SchedulingType
<1>2. Vector(Scheduling')
    BY DEF Placed, Vector, Scheduling
<1>3. ASSUME NEW j \in Instance \ {i} PROVE InstancePlaced(Scheduling', inbound', proxy', j)
    <2>1. InstancePlaced(Scheduling, inbound, proxy, j)
        BY DEF Placed
    <2>2. \A x : x \in Says(inbound, j) => x \in inbound /\ x \in inbound'
        BY DEF Says
    <2>3. inbox'[j] = inbox[j] /\ proxy'[j] = proxy[j] /\ Says(inbound', j) = Says(inbound, j)
        OBVIOUS
    <2>4. ASSUME NEW x \in inbound, x.op # "connect", Says(inbound, j) = {x}
          PROVE  \E y \in inbound' : y.op # "connect" /\ Says(inbound', j) = {y}
        BY <2>2, <2>3, <2>4
    <2> QED BY <2>1, <2>3, <2>4 DEF InstancePlaced, Scheduling
<1> QED BY <1>1, <1>2, <1>3 DEF Placed

\* basic_open: the proxy says once whether it could open the resource.
LEMMA ProxyOpenPlaced ==
    ASSUME TypeOK, Placed(Scheduling, inbound, proxy), TypeOK', NEW i \in Instance, ProxyOpen(i)
    PROVE  Placed(Scheduling', inbound', proxy')
<1>1. PICK x \in OpenResults :
         /\ inbound' = inbound \cup {[op |-> "connect", instance |-> i, state |-> x]}
         /\ proxy' = [proxy EXCEPT ![i] = IF x = cXA_OK THEN "running" ELSE "exited"]
    BY DEF ProxyOpen
<1>2. /\ proxy[i] = "starting"
      /\ UNCHANGED <<instance, pendingRequests, inbox>>
      /\ proxy'[i] = IF x = cXA_OK THEN "running" ELSE "exited"
      /\ \A j \in Instance \ {i} : proxy'[j] = proxy[j]
    BY <1>1 DEF ProxyOpen, TypeOK
<1> DEFINE m == [op |-> "connect", instance |-> i, state |-> x]
<1>3. m.instance = i /\ m.op = "connect" /\ m.state = x
    OBVIOUS
<1> HIDE DEF m
<1>4. /\ Says(inbound', i) = Says(inbound, i) \cup {m}
      /\ \A j \in Instance \ {i} : Says(inbound', j) = Says(inbound, j)
    BY <1>1, <1>3 DEF Says, m
<1>5. InstancePlaced(Scheduling, inbound, proxy, i) /\ instance[i] \in InstanceState
    BY DEF Placed, TypeOK
<1>6. instance[i] \in {"started", "shutdown"}
    BY <1>2, <1>5 DEF InstancePlaced, Scheduling, InstanceState
<1>7. InstancePlaced(Scheduling', inbound', proxy', i)
    <2>1. CASE instance[i] = "shutdown"
        BY <1>2, <2>1 DEF InstancePlaced, Scheduling
    <2>2. CASE instance[i] = "started"
        <3>1. inbox[i] = <<>> /\ Says(inbound, i) = {}
            BY <1>2, <1>5, <2>2 DEF InstancePlaced, Scheduling
        <3>2. Says(inbound', i) = {m}
            BY <1>4, <3>1
        <3> QED BY <1>2, <1>3, <2>2, <3>1, <3>2 DEF InstancePlaced, Scheduling
    <2> QED BY <1>6, <2>1, <2>2
<1> QED BY <1>2, <1>4, <1>7, ProxyPlaced

\* basic_handler: the one request of a busy instance becomes its one answer.
LEMMA ProxyRequestPlaced ==
    ASSUME TypeOK, Placed(Scheduling, inbound, proxy), TypeOK', NEW i \in Instance, ProxyRequest(i)
    PROVE  Placed(Scheduling', inbound', proxy')
<1> DEFINE a == Head(inbox[i])
<1>1. PICK x \in Xa(a, branch[a.trid][i[1]]) :
         inbound' = inbound \cup {[op |-> a.op, instance |-> i, trid |-> a.trid, state |-> x[1]]}
    BY DEF ProxyRequest
<1>2. /\ proxy[i] = "running" /\ inbox[i] # <<>> /\ a # Shutdown
      /\ UNCHANGED <<instance, pendingRequests, proxy>>
      /\ inbox' = [inbox EXCEPT ![i] = Tail(@)]
      /\ inbox \in [Instance -> Seq(Request \cup {Shutdown})]
    BY DEF ProxyRequest, TypeOK
<1>3. a \in Request
    BY <1>2
<1> DEFINE m == [op |-> a.op, instance |-> i, trid |-> a.trid, state |-> x[1]]
<1>4. m.instance = i /\ m.op # "connect" /\ m \in inbound'
    BY <1>1, <1>3 DEF Request
<1> HIDE DEF m
<1>5. /\ Says(inbound', i) = Says(inbound, i) \cup {m}
      /\ \A j \in Instance \ {i} : Says(inbound', j) = Says(inbound, j)
    BY <1>1, <1>4 DEF Says, m
<1> HIDE DEF a
<1>6. InstancePlaced(Scheduling, inbound, proxy, i) /\ instance[i] \in InstanceState
    BY DEF Placed, TypeOK
<1>7. instance[i] \in {"busy", "shutdown"}
    BY <1>2, <1>6 DEF InstancePlaced, Scheduling, InstanceState
<1>8. InstancePlaced(Scheduling', inbound', proxy', i)
    <2>1. CASE instance[i] = "shutdown"
        BY <1>2, <2>1 DEF InstancePlaced, Scheduling
    <2>2. CASE instance[i] = "busy"
        <3>1. (\E q \in Request : inbox[i] = <<q>>) /\ Says(inbound, i) = {}
            BY <1>2, <1>6, <2>2 DEF InstancePlaced, Scheduling
        <3>2. Says(inbound', i) = {m}
            BY <1>5, <3>1
        <3>3. inbox'[i] = <<>>
            BY <1>2, <3>1
        <3> QED BY <1>2, <1>4, <2>2, <3>2, <3>3 DEF InstancePlaced, Scheduling
    <2> QED BY <1>7, <2>1, <2>2
<1>9. \A j \in Instance \ {i} : inbox'[j] = inbox[j]
    BY <1>2
<1> QED BY <1>2, <1>5, <1>8, <1>9, ProxyPlaced

\* handle::Shutdown: only an instance that was told to go has that message in its queue.
LEMMA ProxyShutdownPlaced ==
    ASSUME TypeOK, Placed(Scheduling, inbound, proxy), TypeOK', NEW i \in Instance, ProxyShutdown(i)
    PROVE  Placed(Scheduling', inbound', proxy')
<1>1. /\ proxy[i] = "running" /\ inbox[i] # <<>> /\ Head(inbox[i]) = Shutdown
      /\ UNCHANGED <<instance, pendingRequests, inbound>>
      /\ inbox' = [inbox EXCEPT ![i] = <<>>] /\ proxy' = [proxy EXCEPT ![i] = "exited"]
    BY DEF ProxyShutdown
<1>2. \A j \in Instance \ {i} : inbox'[j] = inbox[j] /\ proxy'[j] = proxy[j]
    BY <1>1 DEF TypeOK
<1>3. InstancePlaced(Scheduling, inbound, proxy, i) /\ instance[i] \in InstanceState
    BY DEF Placed, TypeOK
<1>4. \A q \in Request : <<q>> # <<>> /\ Head(<<q>>) # Shutdown
    BY DEF Request, Shutdown
<1>5. instance[i] = "shutdown"
    BY <1>1, <1>3, <1>4 DEF InstancePlaced, Scheduling, InstanceState
<1>6. InstancePlaced(Scheduling', inbound', proxy', i)
    BY <1>1, <1>5 DEF InstancePlaced, Scheduling
<1> QED BY <1>1, <1>2, <1>6, ProxyPlaced

\* The push that ends the process was to an instance that had been told to go.
LEMMA PumpFailsPlaced ==
    ASSUME TypeOK, Placed(Scheduling, inbound, proxy), TypeOK', NEW m \in inbound, PumpFails(m)
    PROVE  Placed(Scheduling', inbound', proxy')
<1> DEFINE i == m.instance
<1>0. i \in Instance
    BY DEF TypeOK, ConnectReply, ResourceReply
<1>1. /\ m.op = "connect" => m.state = cXA_OK
      /\ proxy[i] = "exited" /\ inbound' = inbound \ {m}
      /\ UNCHANGED <<instance, pendingRequests, inbox, proxy>>
    BY DEF PumpFails, Unavailable
<1>2. m \in Says(inbound, i) /\ \A j \in Instance \ {i} : Says(inbound', j) = Says(inbound, j)
    BY <1>1 DEF Says
<1> HIDE DEF i
<1>3. InstancePlaced(Scheduling, inbound, proxy, i) /\ instance[i] \in InstanceState
    BY <1>0 DEF Placed, TypeOK
<1>4. instance[i] = "shutdown"
    BY <1>1, <1>2, <1>3 DEF InstancePlaced, Scheduling, InstanceState
<1>5. InstancePlaced(Scheduling', inbound', proxy', i)
    BY <1>1, <1>4 DEF InstancePlaced, Scheduling
<1> QED BY <1>0, <1>1, <1>2, <1>5, ProxyPlaced

\* In every state the program can reach, every instance is as the manager believes.
THEOREM InstancesAlwaysPlaced == Spec => []Placed(Scheduling, inbound, proxy)
<1>1. Init => Placed(Scheduling, inbound, proxy)
    <2> SUFFICES ASSUME Init PROVE Placed(Scheduling, inbound, proxy)
        OBVIOUS
    <2>1. Scheduling \in SchedulingType
        BY InstanceAssumption DEF Init, Scheduling, SchedulingType, InstanceState, Instance
    <2>2. /\ \A i \in Instance : /\ instance[i] = IF i[2] <= Concurrency[i[1]] THEN "started" ELSE "absent"
                                 /\ proxy[i] = IF i[2] <= Concurrency[i[1]] THEN "starting" ELSE "none"
                                 /\ inbox[i] = <<>>
          /\ inbound = {}
        BY DEF Init
    <2>3. ASSUME NEW i \in Instance, instance[i] # "absent", NEW k \in 1 .. i[2]
          PROVE  instance[<<i[1], k>>] # "absent"
        <3>1. <<i[1], k>> \in Instance /\ i[1] \in RM /\ i[2] \in 1 .. MaxInstances
            BY InstanceAssumption DEF Instance
        <3>2. i[2] <= Concurrency[i[1]] /\ Concurrency[i[1]] \in Nat
            BY <2>2, <2>3, <3>1, InstanceAssumption
        <3>3. k <= Concurrency[i[1]]
            BY <3>1, <3>2, InstanceAssumption
        <3> QED BY <2>2, <3>1, <3>3
    <2>4. ASSUME NEW i \in Instance PROVE InstancePlaced(Scheduling, inbound, proxy, i)
        <3>1. Says(inbound, i) = {}
            BY <2>2 DEF Says
        <3> QED BY <2>2, <3>1 DEF InstancePlaced, Scheduling
    <2> QED BY <2>1, <2>3, <2>4 DEF Placed, Vector, Scheduling
<1>2. TypeOK /\ TypeOK' /\ Placed(Scheduling, inbound, proxy) /\ [Next]_vars
         => Placed(Scheduling, inbound, proxy)'
    <2> SUFFICES ASSUME TypeOK, TypeOK', Placed(Scheduling, inbound, proxy), [Next]_vars
                 PROVE  Placed(Scheduling', inbound', proxy')
        OBVIOUS
    <2>0. \A m \in inbound : m.instance \in Instance
        BY DEF TypeOK, ConnectReply, ResourceReply
    <2>1. ASSUME NEW t \in Trid, Commit(t) PROVE Placed(Scheduling', inbound', proxy')
        <3>1. Involve(t, own[t]) \in SUBSET RM
            BY DEF Involve, TypeOK
        <3> QED BY <2>1, <3>1, CommitPlaced DEF Commit
    <2>2. ASSUME NEW t \in Trid, Rollback(t) PROVE Placed(Scheduling', inbound', proxy')
        <3>1. Involve(t, own[t]) \in SUBSET RM
            BY DEF Involve, TypeOK
        <3> QED BY <2>2, <3>1, RollPlaced DEF Rollback
    <2>3. ASSUME NEW t \in Trid, ExitRollback(t) PROVE Placed(Scheduling', inbound', proxy')
        <3>1. resources[t] \in SUBSET RM
            BY DEF TypeOK
        <3> QED BY <2>3, <3>1, RollPlaced DEF ExitRollback
    <2>4. ASSUME NEW m \in inbound, ReplyWrapper(m) PROVE Placed(Scheduling', inbound', proxy')
        <3> DEFINE s == Done(Scheduling, m.instance)
        <3>1. m \in ResourceReply /\ m.op # "connect"
            BY <2>4 DEF ReplyWrapper, TypeOK, ConnectReply
        <3>2. m.trid \in Trid /\ m.instance[1] \in RM
            BY <3>1 DEF ResourceReply, Instance
        <3>3. Placed(s, inbound', proxy')
            BY <2>0, <2>4, <3>1, DonePlaced DEF ReplyWrapper
        <3>4. \/ DiscardReply(s)
              \/ PrepareReply(m, s, m.trid, m.instance[1])
              \/ CommitDone(m, s, m.trid, m.instance[1])
              \/ RollbackDone(m, s, m.trid, m.instance[1])
            BY <2>4 DEF ReplyWrapper
        <3> HIDE DEF s
        <3> QED BY <3>1, <3>2, <3>3, <3>4, ReplyHandlersPlaced
    <2>5. ASSUME NEW m \in inbound, Connect(m) PROVE Placed(Scheduling', inbound', proxy')
        <3>0. m.op = "connect" /\ inbound' = inbound \ {m} /\ proxy' = proxy
            BY <2>5 DEF Connect
        <3>1. CASE m.state = cXA_OK
            <4>1. Schedule(Done(Scheduling, m.instance))
                BY <2>5, <3>1 DEF Connect
            <4>2. Placed(Done(Scheduling, m.instance), inbound', proxy')
                BY <2>0, <3>0, <3>1, DonePlaced
            <4> QED BY <4>1, <4>2, SchedulePlaced
        <3>2. CASE m.state # cXA_OK
            <4> DEFINE s == [Scheduling EXCEPT !.instance[m.instance] = NewState(@, "startupError")]
            <4>1. Schedule(s)
                BY <2>5, <3>2 DEF Connect
            <4>2. Placed(s, inbound', proxy')
                BY <2>0, <3>0, <3>2, ConnectErrorPlaced
            <4> HIDE DEF s
            <4> QED BY <4>1, <4>2, SchedulePlaced
        <3> QED BY <3>1, <3>2
    <2>6. ASSUME NEW m \in inbound, PumpFails(m) PROVE Placed(Scheduling', inbound', proxy')
        BY <2>6, PumpFailsPlaced
    <2>7. ASSUME NEW r \in RM, NEW n \in 0 .. MaxInstances, Instances(r, n)
          PROVE  Placed(Scheduling', inbound', proxy')
        BY <2>7, InstancesPlaced
    <2>8. ASSUME NEW i \in Instance, ProxyOpen(i) \/ ProxyRequest(i) \/ ProxyShutdown(i)
          PROVE  Placed(Scheduling', inbound', proxy')
        BY <2>8, ProxyOpenPlaced, ProxyRequestPlaced, ProxyShutdownPlaced
    <2>9. ASSUME \/ \E t \in Trid, id \in ResourceId : Involved(t, id)
                 \/ \E p \in Process : Exit(p) \/ Ends(p)
                 \/ \E t \in Trid : Receive(t) \/ GiveUp(t)
                 \/ WriteBatch \/ SendBatch \/ EndBatch
                 \/ UNCHANGED vars
          PROVE  Placed(Scheduling', inbound', proxy')
        <3>1. UNCHANGED <<instance, inbox, pendingRequests, inbound, proxy>>
            BY <2>9 DEF Involved, Exit, Ends, Receive, GiveUp, WriteBatch, SendBatch, EndBatch,
                        proxyVars, vars
        <3>2. Scheduling' = Scheduling
            BY <3>1 DEF Scheduling
        <3> QED BY <3>1, <3>2
    <2> QED BY <2>1, <2>2, <2>3, <2>4, <2>5, <2>6, <2>7, <2>8, <2>9, NextSteps DEF Steps
<1> QED BY <1>1, <1>2, TypeCorrect, PTL DEF Spec

\* InstanceAccounted holds in every state the program can reach: an instance the manager
\* calls idle has nothing to do, one it calls busy has one request or one reply.
THEOREM InstancesAccounted == Spec => []InstanceAccounted
<1>1. Placed(Scheduling, inbound, proxy) => InstanceAccounted
    <2> SUFFICES ASSUME Placed(Scheduling, inbound, proxy), NEW i \in Instance
                 PROVE  LET work == {<<"inbox", n>> : n \in DOMAIN inbox[i]}
                                    \cup {<<"inbound", m>> : m \in {m \in inbound : m.instance = i}}
                        IN  /\ instance[i] = "idle" => work = {}
                            /\ instance[i] = "busy" => Cardinality(work) = 1
        BY DEF InstanceAccounted
    <2> DEFINE work == {<<"inbox", n>> : n \in DOMAIN inbox[i]}
                       \cup {<<"inbound", m>> : m \in Says(inbound, i)}
    <2>1. InstancePlaced(Scheduling, inbound, proxy, i)
        BY DEF Placed
    <2>2. CASE instance[i] = "idle"
        <3>1. inbox[i] = <<>> /\ Says(inbound, i) = {}
            BY <2>1, <2>2 DEF InstancePlaced, Scheduling
        <3>2. work = {}
            BY <3>1
        <3> QED BY <2>2, <3>2 DEF Says
    <2>3. CASE instance[i] = "busy"
        <3>1. \/ Says(inbound, i) = {} /\ \E m \in Request : inbox[i] = <<m>>
              \/ inbox[i] = <<>> /\ \E m \in inbound : Says(inbound, i) = {m}
            BY <2>1, <2>3 DEF InstancePlaced, Scheduling
        <3>2. \E x : work = {x}
            <4>1. CASE Says(inbound, i) = {} /\ \E m \in Request : inbox[i] = <<m>>
                <5>1. DOMAIN inbox[i] = {1}
                    BY <4>1
                <5>2. work = {<<"inbox", 1>>}
                    BY <4>1, <5>1
                <5> QED BY <5>2
            <4>2. CASE inbox[i] = <<>> /\ \E m \in inbound : Says(inbound, i) = {m}
                <5>1. DOMAIN inbox[i] = {}
                    BY <4>2
                <5>2. PICK m \in inbound : Says(inbound, i) = {m}
                    BY <4>2
                <5>3. work = {<<"inbound", m>>}
                    BY <5>1, <5>2
                <5> QED BY <5>3
            <4> QED BY <3>1, <4>1, <4>2
        <3>3. Cardinality(work) = 1
            <4> HIDE DEF work
            <4> QED BY <3>2, FS_Singleton
        <3> QED BY <2>3, <3>3 DEF Says
    <2>4. CASE instance[i] \notin {"idle", "busy"}
        BY <2>4
    <2> QED BY <2>2, <2>3, <2>4
<1> QED BY <1>1, InstancesAlwaysPlaced, PTL

-----------------------------------------------------------------------------
(* Every request is accounted for, while no instance is told to go.        *)

\* The answers in ib of resource r in transaction t.
Replied(ib, t, r) == {a \in ib : a.op # "connect" /\ a.trid = t /\ a.instance[1] = r}

\* The operations asked of resource r in transaction t, in scheduling state s with ib unread:
\* waiting for an instance, in the queue of one, or answered.
Asked(s, ib, t, r) ==
    {op \in {"prepare", "commit", "rollback"} :
        \/ \E m \in Request : m.trid = t /\ m.op = op /\ Holds(s, m, r)
        \/ \E a \in Replied(ib, t, r) : a.op = op}

\* An answer is the only one of its resource, and nothing more is asked of it.
Single(s, ib, t, r) ==
    /\ AtMostOne(s, t, r)
    /\ \A a, b \in Replied(ib, t, r) : a = b
    /\ Replied(ib, t, r) # {} => \A m \in Request : m.trid = t => ~ Holds(s, m, r)

Singles(s, ib) == \A t \in Trid, r \in RM : Single(s, ib, t, r)

\* The messages in ib are of the proxies.
Unread(ib) == ib \subseteq ConnectReply \cup ResourceReply

\* Nothing is asked of the resources rs in transaction t.
Free(s, ib, t, rs) == \A r \in rs : Asked(s, ib, t, r) = {}

\* action::resource::request loses no request.
LEMMA SendRequestKeeps ==
    ASSUME NEW s \in SchedulingType, NEW m \in Request, NEW rs \in SUBSET RM,
           NEW a, NEW r \in RM, Holds(s, a, r)
    PROVE  Holds(SendRequest(s, m, rs), a, r)
<1> DEFINE new == SendRequest(s, m, rs)
           idle == IdleInstances(s.instance, rs)
           left == {q \in rs : \A i \in idle : i[1] # q}
<1>1. s.pending \in Seq(PendingRequest) /\ s.inbox \in [Instance -> Seq(Request \cup {Shutdown})]
    BY DEF SchedulingType
<1>2. /\ new.pending = IF left = {} THEN s.pending
                       ELSE Append(s.pending, [message |-> m, resources |-> left])
      /\ new.inbox = [i \in Instance |-> IF i \in idle THEN Append(s.inbox[i], m) ELSE s.inbox[i]]
    BY DEF SendRequest
<1> HIDE DEF new, idle, left
<1>3. \A n \in DOMAIN s.pending : n \in DOMAIN new.pending /\ new.pending[n] = s.pending[n]
    BY <1>1, <1>2
<1>4. \A i \in Instance : \A n \in DOMAIN s.inbox[i] :
         n \in DOMAIN new.inbox[i] /\ new.inbox[i][n] = s.inbox[i][n]
    BY <1>1, <1>2
<1>5. Holds(new, a, r)
    BY <1>3, <1>4 DEF Holds
<1> QED BY <1>5 DEF new

\* action::resource::request makes a request for every resource it is given.
LEMMA SendRequestReaches ==
    ASSUME NEW s \in SchedulingType, NEW m \in Request, NEW rs \in SUBSET RM, NEW r \in rs
    PROVE  Holds(SendRequest(s, m, rs), m, r)
<1> DEFINE new == SendRequest(s, m, rs)
           idle == IdleInstances(s.instance, rs)
           left == {q \in rs : \A i \in idle : i[1] # q}
<1>1. s.pending \in Seq(PendingRequest) /\ s.inbox \in [Instance -> Seq(Request \cup {Shutdown})]
    BY DEF SchedulingType
<1>2. /\ new.pending = IF left = {} THEN s.pending
                       ELSE Append(s.pending, [message |-> m, resources |-> left])
      /\ new.inbox = [i \in Instance |-> IF i \in idle THEN Append(s.inbox[i], m) ELSE s.inbox[i]]
    BY DEF SendRequest
<1>3. r \in left \/ \E i \in idle : i[1] = r
    OBVIOUS
<1>4. idle \subseteq Instance
    BY DEF IdleInstances
<1> HIDE DEF new, idle, left
<1>5. CASE r \in left
    <2>1. new.pending = Append(s.pending, [message |-> m, resources |-> left])
        BY <1>2, <1>5
    <2>2. /\ Len(s.pending) + 1 \in DOMAIN new.pending
          /\ new.pending[Len(s.pending) + 1] = [message |-> m, resources |-> left]
        BY <1>1, <2>1
    <2> QED BY <1>5, <2>2 DEF Holds, new
<1>6. CASE \E i \in idle : i[1] = r
    <2>1. PICK i \in idle : i[1] = r
        BY <1>6
    <2>2. i \in Instance /\ new.inbox[i] = Append(s.inbox[i], m) /\ s.inbox[i] \in Seq(Request \cup {Shutdown})
        BY <1>1, <1>2, <1>4
    <2>3. Len(s.inbox[i]) + 1 \in DOMAIN new.inbox[i] /\ new.inbox[i][Len(s.inbox[i]) + 1] = m
        BY <2>2
    <2> QED BY <2>1, <2>2, <2>3 DEF Holds, new
<1> QED BY <1>3, <1>5, <1>6

\* Taking a resource from a pending request keeps every other one.
LEMMA WithoutResourceKeeps ==
    ASSUME NEW p \in Seq(PendingRequest), NEW n \in DOMAIN p, NEW r \in RM,
           NEW l \in DOMAIN p, NEW q \in p[l].resources, l # n \/ q # r
    PROVE  \E k \in DOMAIN WithoutResource(p, n, r) :
              /\ WithoutResource(p, n, r)[k].message = p[l].message
              /\ q \in WithoutResource(p, n, r)[k].resources
<1>1. n \in 1 .. Len(p) /\ l \in 1 .. Len(p) /\ Len(p) \in Nat /\ p[n] \in PendingRequest
    OBVIOUS
<1>2. CASE p[n].resources = {r}
    <2> DEFINE a == SubSeq(p, 1, n - 1)
               b == SubSeq(p, n + 1, Len(p))
    <2>1. /\ a \in Seq(PendingRequest) /\ Len(a) = n - 1
          /\ \A j \in 1 .. n - 1 : a[j] = p[j]
        BY <1>1
    <2>2. /\ b \in Seq(PendingRequest) /\ Len(b) = Len(p) - n
          /\ \A j \in 1 .. Len(p) - n : b[j] = p[n + j]
        BY <1>1
    <2>3. WithoutResource(p, n, r) = a \o b
        BY <1>2 DEF WithoutResource
    <2> HIDE DEF a, b
    <2>4. l # n
        BY <1>2
    <2>5. CASE l < n
        <3>1. l \in DOMAIN (a \o b) /\ (a \o b)[l] = p[l]
            BY <1>1, <2>1, <2>2, <2>5
        <3> QED BY <2>3, <3>1
    <2>6. CASE l > n
        <3>1. l - 1 \in DOMAIN (a \o b) /\ (a \o b)[l - 1] = b[l - n] /\ l - n \in 1 .. Len(p) - n
            BY <1>1, <2>1, <2>2, <2>6
        <3>2. n + (l - n) = l
            BY <1>1
        <3>3. (a \o b)[l - 1] = p[l]
            BY <2>2, <3>1, <3>2
        <3> QED BY <2>3, <3>1, <3>3
    <2> QED BY <1>1, <2>4, <2>5, <2>6
<1>3. CASE p[n].resources # {r}
    <2>1. WithoutResource(p, n, r) = [p EXCEPT ![n] = [p[n] EXCEPT !.resources = @ \ {r}]]
        BY <1>1, <1>3 DEF WithoutResource
    <2>2. /\ [p[n] EXCEPT !.resources = @ \ {r}].resources = p[n].resources \ {r}
          /\ [p[n] EXCEPT !.resources = @ \ {r}].message = p[n].message
        BY <1>1 DEF PendingRequest
    <2>3. l \in DOMAIN WithoutResource(p, n, r)
        BY <2>1
    <2> QED BY <2>1, <2>2, <2>3
<1> QED BY <1>2, <1>3

\* instance::done loses no request.
LEMMA DoneKeeps ==
    ASSUME NEW s \in SchedulingType, NEW i \in Instance, NEW a, NEW r \in RM, Holds(s, a, r)
    PROVE  Holds(Done(s, i), a, r)
<1> DEFINE new == Done(s, i)
           n == CHOOSE n \in PendingFor(s, i[1]) : TRUE
<1>1. s.pending \in Seq(PendingRequest) /\ s.inbox \in [Instance -> Seq(Request \cup {Shutdown})] /\ i[1] \in RM
    BY DEF SchedulingType, Instance
<1>2. \/ new.pending = s.pending /\ new.inbox = s.inbox
      \/ /\ n \in DOMAIN s.pending /\ i[1] \in s.pending[n].resources
         /\ new.pending = WithoutResource(s.pending, n, i[1])
         /\ new.inbox = [s.inbox EXCEPT ![i] = Append(@, s.pending[n].message)]
    BY DonePlaces
<1> HIDE DEF new, n
<1>3. CASE new.pending = s.pending /\ new.inbox = s.inbox
    BY <1>3 DEF Holds, new
<1>4. CASE /\ n \in DOMAIN s.pending /\ i[1] \in s.pending[n].resources
           /\ new.pending = WithoutResource(s.pending, n, i[1])
           /\ new.inbox = [s.inbox EXCEPT ![i] = Append(@, s.pending[n].message)]
    <2>1. ASSUME NEW l \in DOMAIN s.pending, s.pending[l].message = a, r \in s.pending[l].resources
          PROVE  Holds(new, a, r)
        <3>1. CASE l = n /\ r = i[1]
            <4>1. new.inbox[i] = Append(s.inbox[i], a) /\ s.inbox[i] \in Seq(Request \cup {Shutdown})
                BY <1>1, <1>4, <2>1, <3>1
            <4>2. new.inbox[i][Len(s.inbox[i]) + 1] = a /\ Len(s.inbox[i]) + 1 \in DOMAIN new.inbox[i]
                BY <4>1
            <4> QED BY <3>1, <4>2 DEF Holds
        <3>2. CASE l # n \/ r # i[1]
            <4> DEFINE w == WithoutResource(s.pending, n, i[1])
            <4>1. /\ s.pending \in Seq(PendingRequest) /\ n \in DOMAIN s.pending /\ i[1] \in RM
                  /\ l \in DOMAIN s.pending /\ r \in s.pending[l].resources
                BY <1>1, <1>4, <2>1
            <4>2. \E k \in DOMAIN w : w[k].message = s.pending[l].message /\ r \in w[k].resources
                BY <3>2, <4>1, WithoutResourceKeeps
            <4>3. new.pending = w
                BY <1>4
            <4> HIDE DEF w
            <4> QED BY <2>1, <4>2, <4>3 DEF Holds
        <3> QED BY <3>1, <3>2
    <2>2. ASSUME NEW j \in Instance, j[1] = r, NEW k \in DOMAIN s.inbox[j], s.inbox[j][k] = a
          PROVE  Holds(new, a, r)
        <3>1. k \in DOMAIN new.inbox[j] /\ new.inbox[j][k] = a
            BY <1>1, <1>4, <2>2
        <3> QED BY <2>2, <3>1 DEF Holds
    <2> QED BY <2>1, <2>2 DEF Holds, new
<1> QED BY <1>2, <1>3, <1>4

\* Nothing is asked of a resource that has no request and no answer on their way.
LEMMA NothingAsked ==
    ASSUME NEW s, NEW ib, Unread(ib), NEW t \in Trid, NEW r \in RM
    PROVE  Asked(s, ib, t, r) = {} <=> /\ Replied(ib, t, r) = {}
                                       /\ \A m \in Request : m.trid = t => ~ Holds(s, m, r)
<1>1. Asked(s, ib, t, r) = {op \in {"prepare", "commit", "rollback"} :
            \/ \E m \in Request : m.trid = t /\ m.op = op /\ Holds(s, m, r)
            \/ \E a \in Replied(ib, t, r) : a.op = op}
    BY DEF Asked
<1>2. \A m \in Request : m.op \in {"prepare", "commit", "rollback"}
    BY DEF Request
<1>3. \A a \in Replied(ib, t, r) : a.op \in {"prepare", "commit", "rollback"}
    BY DEF Unread, Replied, ConnectReply, ResourceReply
<1> QED BY <1>1, <1>2, <1>3

\* action::resource::request asks its operation of its resources, and nothing else.
LEMMA SendRequestAsks ==
    ASSUME NEW s \in SchedulingType, NEW ib, Unread(ib),
           NEW m \in Request, NEW rs \in SUBSET RM,
           Singles(s, ib), Free(s, ib, m.trid, rs)
    PROVE  /\ Singles(SendRequest(s, m, rs), ib)
           /\ \A t \in Trid, r \in RM : Asked(SendRequest(s, m, rs), ib, t, r) =
                 IF t = m.trid /\ r \in rs THEN {m.op} ELSE Asked(s, ib, t, r)
<1> DEFINE new == SendRequest(s, m, rs)
<1>0. m.trid \in Trid /\ m.op \in {"prepare", "commit", "rollback"}
    BY DEF Request
<1>1. ASSUME NEW a \in Request, NEW r \in RM
      PROVE  Holds(new, a, r) <=> Holds(s, a, r) \/ (a = m /\ r \in rs)
    BY SendRequestHolds, SendRequestKeeps, SendRequestReaches
<1>2. ASSUME NEW r \in rs
      PROVE  Replied(ib, m.trid, r) = {} /\ \A a \in Request : a.trid = m.trid => ~ Holds(s, a, r)
    BY <1>0, NothingAsked DEF Free
<1>3. ASSUME NEW t \in Trid, NEW r \in RM PROVE Single(new, ib, t, r)
    <2>1. AtMostOne(new, t, r)
        <3>1. AtMostOne(s, t, r) /\ (m.trid = t /\ r \in rs => \A a \in Request : a.trid = t => ~ Holds(s, a, r))
            BY <1>2 DEF Single, Singles
        <3> QED BY <3>1, SendRequestAtMostOne
    <2>2. ASSUME Replied(ib, t, r) # {}, NEW a \in Request, a.trid = t, Holds(new, a, r) PROVE FALSE
        BY <1>1, <1>2, <2>2 DEF Single, Singles
    <2> HIDE DEF new
    <2> QED BY <2>1, <2>2 DEF Single, Singles
<1> HIDE DEF new
<1>4. ASSUME NEW t \in Trid, NEW r \in RM
      PROVE  Asked(new, ib, t, r) = IF t = m.trid /\ r \in rs THEN {m.op} ELSE Asked(s, ib, t, r)
    <2>1. Asked(new, ib, t, r) = {op \in {"prepare", "commit", "rollback"} :
                \/ \E a \in Request : a.trid = t /\ a.op = op /\ Holds(new, a, r)
                \/ \E a \in Replied(ib, t, r) : a.op = op}
        BY DEF Asked
    <2>2. Asked(s, ib, t, r) = {op \in {"prepare", "commit", "rollback"} :
                \/ \E a \in Request : a.trid = t /\ a.op = op /\ Holds(s, a, r)
                \/ \E a \in Replied(ib, t, r) : a.op = op}
        BY DEF Asked
    <2>3. CASE t = m.trid /\ r \in rs
        <3>1. Replied(ib, t, r) = {} /\ \A a \in Request : a.trid = t => ~ Holds(s, a, r)
            BY <1>2, <2>3
        <3> QED BY <1>0, <1>1, <2>1, <2>3, <3>1
    <2>4. CASE ~ (t = m.trid /\ r \in rs)
        <3>1. \A a \in Request : a.trid = t => (Holds(new, a, r) <=> Holds(s, a, r))
            BY <1>1, <2>4
        <3> QED BY <2>1, <2>2, <2>4, <3>1
    <2> QED BY <2>3, <2>4
<1> QED BY <1>3, <1>4 DEF new, Singles

\* instance::done changes nothing of what is asked.
LEMMA DoneAsks ==
    ASSUME NEW s \in SchedulingType, NEW ib, NEW i \in Instance, Singles(s, ib)
    PROVE  /\ Singles(Done(s, i), ib)
           /\ \A t \in Trid, r \in RM : Asked(Done(s, i), ib, t, r) = Asked(s, ib, t, r)
<1> DEFINE new == Done(s, i)
<1>1. \A a \in Request, r \in RM : Holds(new, a, r) <=> Holds(s, a, r)
    BY DoneHolds, DoneKeeps
<1>2. \A t \in Trid, r \in RM : AtMostOne(new, t, r)
    BY DoneAtMostOne DEF Single, Singles
<1> HIDE DEF new
<1>3. \A t \in Trid, r \in RM : Single(new, ib, t, r)
    BY <1>1, <1>2 DEF Single, Singles
<1>4. \A t \in Trid, r \in RM : Asked(new, ib, t, r) = Asked(s, ib, t, r)
    BY <1>1 DEF Asked
<1> QED BY <1>3, <1>4 DEF new, Singles

\* When the only answer of a resource has been read, nothing is asked of it.
LEMMA ReadAsks ==
    ASSUME NEW s, NEW ib, Unread(ib), NEW m \in ib, m.op # "connect", Singles(s, ib)
    PROVE  /\ Singles(s, ib \ {m})
           /\ \A t \in Trid, r \in RM : Asked(s, ib \ {m}, t, r) =
                 IF t = m.trid /\ r = m.instance[1] THEN {} ELSE Asked(s, ib, t, r)
           /\ m.op \in Asked(s, ib, m.trid, m.instance[1])
<1> DEFINE i == m.instance[1]
<1>1. m.trid \in Trid /\ i \in RM /\ m.op \in {"prepare", "commit", "rollback"}
    BY DEF Unread, ConnectReply, ResourceReply, Instance
<1>2. m \in Replied(ib, m.trid, i)
    BY DEF Replied
<1>3. Replied(ib \ {m}, m.trid, i) = {} /\ \A a \in Request : a.trid = m.trid => ~ Holds(s, a, i)
    <2>1. \A a \in Replied(ib, m.trid, i) : a = m
        BY <1>1, <1>2 DEF Single, Singles
    <2>2. Replied(ib \ {m}, m.trid, i) = Replied(ib, m.trid, i) \ {m}
        BY DEF Replied
    <2> QED BY <1>1, <1>2, <2>1, <2>2 DEF Single, Singles
<1>4. \A t \in Trid, r \in RM : ~ (t = m.trid /\ r = i) => Replied(ib \ {m}, t, r) = Replied(ib, t, r)
    BY DEF Replied
<1>5. ASSUME NEW t \in Trid, NEW r \in RM PROVE Single(s, ib \ {m}, t, r)
    <2>1. Replied(ib \ {m}, t, r) \subseteq Replied(ib, t, r)
        BY DEF Replied
    <2> QED BY <2>1 DEF Single, Singles
<1>6. m.op \in Asked(s, ib, m.trid, i)
    BY <1>1, <1>2 DEF Asked
<1> HIDE DEF i
<1>7. ASSUME NEW t \in Trid, NEW r \in RM
      PROVE  Asked(s, ib \ {m}, t, r) = IF t = m.trid /\ r = i THEN {} ELSE Asked(s, ib, t, r)
    <2>1. CASE t = m.trid /\ r = i
        <3>1. Unread(ib \ {m})
            BY DEF Unread
        <3>2. Asked(s, ib \ {m}, t, r) = {}
            BY <1>3, <2>1, <3>1, NothingAsked
        <3> QED BY <2>1, <3>2
    <2>2. CASE ~ (t = m.trid /\ r = i)
        <3>1. Asked(s, ib \ {m}, t, r) = Asked(s, ib, t, r)
            BY <1>4, <2>2 DEF Asked
        <3> QED BY <2>2, <3>1
    <2> QED BY <2>1, <2>2
<1> QED BY <1>5, <1>6, <1>7 DEF i, Singles

\* What a proxy says of its start changes nothing of what is asked.
LEMMA SameAnswersAsk ==
    ASSUME NEW s, NEW ib, NEW rest, \A a : a \in rest /\ a.op # "connect" <=> a \in ib /\ a.op # "connect"
    PROVE  /\ \A t, r : Asked(s, rest, t, r) = Asked(s, ib, t, r)
           /\ Singles(s, ib) => Singles(s, rest)
<1>1. \A t, r : Replied(rest, t, r) = Replied(ib, t, r)
    BY DEF Replied
<1> QED BY <1>1 DEF Asked, Single, Singles

\* Two requests for a resource in a transaction are the same.
LEMMA HeldOnce ==
    ASSUME NEW s \in SchedulingType, NEW t \in Trid, NEW r \in RM, AtMostOne(s, t, r),
           NEW a \in Request, NEW b \in Request, a.trid = t, b.trid = t, Holds(s, a, r), Holds(s, b, r)
    PROVE  a = b
<1>1. \/ \E n \in DOMAIN s.pending : Waits(s, t, r, n) /\ s.pending[n].message = a
      \/ \E i \in Instance : \E n \in DOMAIN s.inbox[i] : Queued(s, t, r, i, n) /\ s.inbox[i][n] = a
    BY DEF Holds, Waits, Queued
<1>2. \/ \E n \in DOMAIN s.pending : Waits(s, t, r, n) /\ s.pending[n].message = b
      \/ \E i \in Instance : \E n \in DOMAIN s.inbox[i] : Queued(s, t, r, i, n) /\ s.inbox[i][n] = b
    BY DEF Holds, Waits, Queued
<1> QED BY <1>1, <1>2 DEF AtMostOne

\* A proxy that answers a request changes nothing of what is asked.
LEMMA AnswerAsks ==
    ASSUME TypeOK, TypeOK', NEW i \in Instance, ProxyRequest(i),
           Singles(Scheduling, inbound)
    PROVE  /\ Singles(Scheduling', inbound')
           /\ \A t \in Trid, r \in RM : Asked(Scheduling', inbound', t, r) = Asked(Scheduling, inbound, t, r)
<1> DEFINE a == Head(inbox[i])
<1>1. PICK x \in Xa(a, branch[a.trid][i[1]]) :
         inbound' = inbound \cup {[op |-> a.op, instance |-> i, trid |-> a.trid, state |-> x[1]]}
    BY DEF ProxyRequest
<1>2. /\ inbox[i] # <<>> /\ a # Shutdown
      /\ pendingRequests' = pendingRequests /\ inbox' = [inbox EXCEPT ![i] = Tail(@)]
      /\ inbox \in [Instance -> Seq(Request \cup {Shutdown})] /\ i[1] \in RM
    BY DEF ProxyRequest, TypeOK, Instance
<1>3. a \in Request
    BY <1>2
<1>4. a.trid \in Trid /\ a.op \in {"prepare", "commit", "rollback"}
    BY <1>3 DEF Request
<1> DEFINE m == [op |-> a.op, instance |-> i, trid |-> a.trid, state |-> x[1]]
<1>5. m.instance = i /\ m.op = a.op /\ m.trid = a.trid
    OBVIOUS
<1>6. inbound' = inbound \cup {m}
    BY <1>1
<1>7. /\ Holds(Scheduling, a, i[1])
      /\ AtMostOne(Scheduling, a.trid, i[1])
            => \A b \in Request : b.trid = a.trid => ~ Holds(Scheduling, b, i[1])'
      /\ \A t \in Trid : SendsNothing(t)
    BY <1>2, <1>3, <1>4, TailSends
<1> HIDE DEF a, m
<1>8. ASSUME NEW b \in Request, NEW r \in RM, Holds(Scheduling, b, r), ~ (b.trid = a.trid /\ r = i[1])
      PROVE  Holds(Scheduling', b, r)
    <2>1. CASE \E n \in DOMAIN pendingRequests :
                  pendingRequests[n].message = b /\ r \in pendingRequests[n].resources
        BY <1>2, <2>1 DEF Holds, Scheduling
    <2>2. CASE \E j \in Instance : j[1] = r /\ \E n \in DOMAIN inbox[j] : inbox[j][n] = b
        <3>0. PICK j \in Instance : j[1] = r /\ \E n \in DOMAIN inbox[j] : inbox[j][n] = b
            BY <2>2
        <3>1. PICK n \in DOMAIN inbox[j] : j[1] = r /\ inbox[j][n] = b
            BY <3>0
        <3>2. CASE j = i
            <4>1. inbox[i] \in Seq(Request \cup {Shutdown}) /\ n \in 1 .. Len(inbox[i]) /\ inbox'[i] = Tail(inbox[i])
                BY <1>2, <3>1, <3>2
            <4>2. n # 1
                BY <1>2, <1>8, <3>1, <3>2 DEF a
            <4>3. n - 1 \in DOMAIN inbox'[i] /\ inbox'[i][n - 1] = b
                BY <3>1, <3>2, <4>1, <4>2
            <4> QED BY <3>1, <3>2, <4>3 DEF Holds, Scheduling
        <3>3. CASE j # i
            <4>1. inbox'[j] = inbox[j]
                BY <1>2, <3>3
            <4> QED BY <3>1, <4>1 DEF Holds, Scheduling
        <3> QED BY <3>2, <3>3
    <2> QED BY <1>8, <2>1, <2>2 DEF Holds, Scheduling
<1>9. \A b \in Request, r \in RM : Holds(Scheduling', b, r) => Holds(Scheduling, b, r)
    <2>1. \A b \in Request : b.trid \in Trid
        BY DEF Request
    <2> QED BY <1>7, <2>1 DEF SendsNothing
<1>10. \A t \in Trid, r \in RM : ~ (t = a.trid /\ r = i[1]) => Replied(inbound', t, r) = Replied(inbound, t, r)
    BY <1>5, <1>6 DEF Replied
<1>11. /\ Replied(inbound, a.trid, i[1]) = {}
       /\ Replied(inbound', a.trid, i[1]) = {m}
       /\ \A b \in Request : b.trid = a.trid => ~ Holds(Scheduling', b, i[1])
       /\ \A b \in Request : b.trid = a.trid /\ Holds(Scheduling, b, i[1]) => b = a
    <2>1. Replied(inbound, a.trid, i[1]) = {} /\ AtMostOne(Scheduling, a.trid, i[1])
        BY <1>2, <1>3, <1>4, <1>7 DEF Single, Singles
    <2>2. Replied(inbound', a.trid, i[1]) = Replied(inbound, a.trid, i[1]) \cup {m}
        BY <1>4, <1>5, <1>6 DEF Replied
    <2>3. Scheduling \in SchedulingType
        BY SchedulingOK
    <2>4. \A b \in Request : b.trid = a.trid /\ Holds(Scheduling, b, i[1]) => b = a
        BY <1>2, <1>3, <1>4, <1>7, <2>1, <2>3, HeldOnce
    <2> QED BY <1>7, <2>1, <2>2, <2>4
<1>12. ASSUME NEW t \in Trid, NEW r \in RM PROVE Single(Scheduling', inbound', t, r)
    <2>1. AtMostOne(Scheduling', t, r)
        BY <1>7 DEF Single, Singles, SendsNothing
    <2>2. CASE t = a.trid /\ r = i[1]
        BY <1>11, <2>1, <2>2 DEF Single, Singles
    <2>3. CASE ~ (t = a.trid /\ r = i[1])
        BY <1>9, <1>10, <2>1, <2>3 DEF Single, Singles
    <2> QED BY <2>2, <2>3
<1>13. ASSUME NEW t \in Trid, NEW r \in RM
       PROVE  Asked(Scheduling', inbound', t, r) = Asked(Scheduling, inbound, t, r)
    <2>1. Asked(Scheduling', inbound', t, r) = {op \in {"prepare", "commit", "rollback"} :
                \/ \E b \in Request : b.trid = t /\ b.op = op /\ Holds(Scheduling', b, r)
                \/ \E b \in Replied(inbound', t, r) : b.op = op}
        BY DEF Asked
    <2>2. Asked(Scheduling, inbound, t, r) = {op \in {"prepare", "commit", "rollback"} :
                \/ \E b \in Request : b.trid = t /\ b.op = op /\ Holds(Scheduling, b, r)
                \/ \E b \in Replied(inbound, t, r) : b.op = op}
        BY DEF Asked
    <2>3. CASE t = a.trid /\ r = i[1]
        <3>1. Asked(Scheduling', inbound', t, r) = {a.op}
            BY <1>4, <1>5, <1>11, <2>1, <2>3
        <3>2. Asked(Scheduling, inbound, t, r) = {a.op}
            BY <1>3, <1>4, <1>7, <1>11, <2>2, <2>3
        <3> QED BY <3>1, <3>2
    <2>4. CASE ~ (t = a.trid /\ r = i[1])
        <3>1. \A b \in Request : b.trid = t => (Holds(Scheduling', b, r) <=> Holds(Scheduling, b, r))
            BY <1>8, <1>9, <2>4
        <3> QED BY <1>10, <2>1, <2>2, <2>4, <3>1
    <2> QED BY <2>3, <2>4
<1> QED BY <1>12, <1>13 DEF Singles
=============================================================================

------------------------- MODULE TransactionManager -------------------------
(***************************************************************************)
(* casual's transaction manager (middleware/transaction): one single       *)
(* threaded process that coordinates the resource proxies of a domain.     *)
(*                                                                         *)
(*   - message::pump handles one message at a time and, between batches,   *)
(*     commits its sqlite log and sends the replies that had to wait for   *)
(*     the write (persistentReplies);                                      *)
(*   - every resource (RM) has a vector of proxy processes; a request goes *)
(*     to an idle one or waits in pendingRequests;                         *)
(*   - a proxy calls the RM's xa-switch and sends the result back.         *)
(*                                                                         *)
(* The resource managers, the clients (processes that own transactions)    *)
(* and the servers that get involved in them are the environment.          *)
(***************************************************************************)
EXTENDS Integers, Sequences, FiniteSets

CONSTANTS
    Trid,            \* global transaction ids
    RM,              \* ids of the configured resources
    ResourceId,      \* ids that may occur in a message, known or not
    Process,         \* client processes
    Owner,           \* trid.owner(): [Trid -> Process]
    Concurrency,     \* configured number of proxies: [RM -> Nat]
    MaxInstances,    \* bound: proxies a resource can ever have
    MaxRequests,     \* bound: commit/rollback requests per transaction
    ScaleTo,         \* instance counts the administrator may ask for
    OpenResults,     \* results xa_open may give
    PrepareResults,  \* results xa_prepare may give for an active branch
    CommitResults,   \* results xa_commit may give
    RollbackResults, \* results xa_rollback may give
    FullQueues,      \* processes whose ipc-queue may be found full
    Mortal,          \* processes that may die
    LateInvolved,    \* a server may still be working when the owner rolls back or dies
    Timeouts         \* a client may abandon the wait for the commit reply (SIGALRM)

ASSUME IdAssumption == RM \subseteq ResourceId
ASSUME FiniteAssumption == IsFiniteSet(RM)
ASSUME OwnerAssumption == Owner \in [Trid -> Process]
ASSUME InstanceAssumption ==
    /\ MaxInstances \in Nat
    /\ Concurrency \in [RM -> 0 .. MaxInstances]
    /\ ScaleTo \subseteq 0 .. MaxInstances
ASSUME BoundAssumption == MaxRequests \in Nat

-----------------------------------------------------------------------------
(***************************************************************************)
(* Transaction::Resource::Stage and ::Result. The order of the enumerators *)
(* matters: stage() and results() take the least one.                      *)
(***************************************************************************)
cInvolved          == 0
cPrepareRequested  == 1
cPrepareReplied    == 2
cCommitRequested   == 3
cCommitReplied     == 4
cRollbackRequested == 5
cRollbackReplied   == 6
cNotInvolved       == 9
Stage == 0 .. 9

cXAER_RMFAIL    == 4
cXAER_RMERR     == 5
cXA_RBROLLBACK  == 8
cXAER_PROTO     == 11
cXAER_NOTA      == 21
cXA_OK          == 22
cXA_RDONLY      == 23
Result == 0 .. 23

ASSUME ResultAssumption ==
    /\ OpenResults \subseteq Result
    /\ PrepareResults \subseteq Result
    /\ CommitResults \subseteq Result
    /\ RollbackResults \subseteq Result

\* A proxy instance: its resource and its position in Proxy::instances.
Instance == RM \X (1 .. MaxInstances)
InstanceState == {"absent", "started", "idle", "busy", "startupError", "shutdown"}

\* Requests to the proxies; flags is TMONEPHASE or TMNOFLAGS.
Request == [op : {"prepare", "commit", "rollback"}, trid : Trid, onephase : BOOLEAN]
Shutdown == [op |-> "shutdown"]
PendingRequest == [message : Request, resources : SUBSET RM]

\* Messages of the proxies to the manager.
ConnectReply == [op : {"connect"}, instance : Instance, state : Result]
ResourceReply ==
    [op : {"prepare", "commit", "rollback"}, instance : Instance, trid : Trid, state : Result]

\* commit::Reply and rollback::Reply, as sent to the owner of a transaction.
Reply == [type : {"commit", "rollback"}, stage : {"prepare", "commit", "rollback", "error"},
          trid : Trid, state : Result, correlation : 0 .. MaxRequests]

VARIABLES
    transactions,      \* the trids State::transactions holds
    resources,         \* Transaction::resources, as a set of ids
    stage,             \* Resource::stage, cInvolved for an id not in resources
    result,            \* Resource::result, cXA_OK for an id not in resources
    correlation,       \* Transaction::correlation, 0 when it is not set
    instance,          \* Proxy::Instance::State of every instance, "absent": not in the vector
    pendingRequests,   \* State::pendingRequests
    persistentReplies, \* State::persistentReplies
    unsent,            \* replies the running std::partition could not send
    pc,                \* where message::pump is
    exiting,           \* trids process::Exit has yet to roll back
    log,               \* the rows of the log, as the open sqlite transaction sees them
    durable,           \* the rows of the log on disk
    inbox,             \* the ipc-queue of every proxy
    proxy,             \* the life of every proxy process
    inbound,           \* messages of the proxies the manager has not read
    branch,            \* what each RM knows of each transaction
    client,            \* what the owner of a transaction is doing with it
    sent,              \* requests the owner has made, the correlation of the last one
    received,          \* replies in the owner's ipc-queue
    own,               \* resources the owner itself has used in the transaction
    calls,             \* resources that servers are about to involve
    alive,             \* client processes that run
    deaths             \* dead::process::Events not yet read

transVars  == <<transactions, resources, stage, result, correlation>>
proxyVars  == <<inbox, proxy, inbound, branch>>
clientVars == <<client, sent, own, calls, alive, deaths>>
vars == <<transactions, resources, stage, result, correlation, instance, pendingRequests,
          persistentReplies, unsent, pc, exiting, log, durable, inbox, proxy, inbound,
          branch, client, sent, received, own, calls, alive, deaths>>

-----------------------------------------------------------------------------
(* The state of a transaction.                                             *)

\* Transaction::stage(): the least stage, cNotInvolved without resources.
LeastStage(stg, rs) ==
    CHOOSE k \in Stage :
        /\ k = cNotInvolved \/ \E r \in rs : stg[r] = k
        /\ \A r \in rs : k <= stg[r]

\* Mutant of Results: the comparison the other way round, the least severe result.
ResultsMildest(res, rs) ==
    CHOOSE k \in Result :
        /\ (rs = {} /\ k = cXA_RDONLY) \/ \E r \in rs : res[r] = k
        /\ \A r \in rs : k >= res[r]

\* Transaction::results(): the most severe result, cXA_RDONLY without resources.
Results(res, rs) ==
    CHOOSE k \in Result :
        /\ k = cXA_RDONLY \/ \E r \in rs : res[r] = k
        /\ \A r \in rs : k <= res[r]

\* transactions.erase( found): what emplace_back will start from again.
Erase(t) ==
    /\ transactions' = transactions \ {t}
    /\ resources' = [resources EXCEPT ![t] = {}]
    /\ stage' = [stage EXCEPT ![t] = [r \in RM |-> cInvolved]]
    /\ result' = [result EXCEPT ![t] = [r \in RM |-> cXA_OK]]
    /\ correlation' = [correlation EXCEPT ![t] = 0]

-----------------------------------------------------------------------------
(* The proxies as the manager sees them.                                   *)

\* Proxy::Instance::state( state): shutdown is final.
NewState(old, new) == IF old = "shutdown" THEN old ELSE new

\* Mutant of IdleInstances: filter::Running in the place of filter::Idle.
RunningInstances(inst, rs) ==
    {i \in Instance : /\ i[1] \in rs
                      /\ inst[i] \in {"idle", "busy"}
                      /\ \A k \in 1 .. i[2] - 1 : inst[<<i[1], k>>] \notin {"idle", "busy"}}

\* State::idle_instance for each of the resources rs: the first idle one.
IdleInstances(inst, rs) ==
    {i \in Instance : /\ i[1] \in rs
                      /\ inst[i] = "idle"
                      /\ \A k \in 1 .. i[2] - 1 : inst[<<i[1], k>>] # "idle"}

\* A triple of instance states, proxy queues and pending requests.
Scheduling == [instance |-> instance, inbox |-> inbox, pending |-> pendingRequests]

\* action::resource::request: m to an idle instance of every resource of rs;
\* what finds none is put in pendingRequests.
SendRequest(s, m, rs) ==
    LET idle == IdleInstances(s.instance, rs)
        left == {r \in rs : \A i \in idle : i[1] # r}
    IN  [instance |-> [i \in Instance |-> IF i \in idle THEN NewState(s.instance[i], "busy")
                                                        ELSE s.instance[i]],
         inbox |-> [i \in Instance |-> IF i \in idle THEN Append(s.inbox[i], m) ELSE s.inbox[i]],
         pending |-> IF left = {} THEN s.pending
                     ELSE Append(s.pending, [message |-> m, resources |-> left])]

\* The place in pendingRequests of the first request that waits for resource r.
PendingFor(s, r) ==
    {n \in DOMAIN s.pending : /\ r \in s.pending[n].resources
                              /\ \A k \in 1 .. n - 1 : r \notin s.pending[k].resources}

\* Mutant of WithoutResource: the request is erased while other resources wait for it.
WithoutRequest(pending, n, r) ==
    SubSeq(pending, 1, n - 1) \o SubSeq(pending, n + 1, Len(pending))

WithoutResource(pending, n, r) ==
    IF pending[n].resources = {r}
    THEN SubSeq(pending, 1, n - 1) \o SubSeq(pending, n + 1, Len(pending))
    ELSE [pending EXCEPT ![n].resources = @ \ {r}]

\* Mutants of Done: the instance that got a pending request stays idle; no pending
\* request is looked for.
DoneStaysIdle(s, i) ==
    LET found == PendingFor(s, i[1])
    IN  IF found = {}
        THEN [s EXCEPT !.instance[i] = NewState(@, "idle")]
        ELSE LET n == CHOOSE n \in found : TRUE
             IN  [instance |-> [s.instance EXCEPT ![i] = NewState(@, "idle")],
                  inbox |-> [s.inbox EXCEPT ![i] = Append(@, s.pending[n].message)],
                  pending |-> WithoutResource(s.pending, n, i[1])]
DoneForgetsPending(s, i) == [s EXCEPT !.instance[i] = NewState(@, "idle")]

\* instance::done: the instance is idle and gets the first pending request of
\* its resource. (An idle proxy has read all it was sent: its queue is never full.)
Done(s, i) ==
    LET found == PendingFor(s, i[1])
    IN  IF found = {}
        THEN [s EXCEPT !.instance[i] = NewState(@, "idle")]
        ELSE LET n == CHOOSE n \in found : TRUE
             IN  [instance |-> [s.instance EXCEPT ![i] = NewState(@, "busy")],
                  inbox |-> [s.inbox EXCEPT ![i] = Append(@, s.pending[n].message)],
                  pending |-> WithoutResource(s.pending, n, i[1])]

\* The push of instance::done finds the proxy's queue removed: queue::Unavailable.
Unavailable(i) == proxy[i] = "exited" /\ PendingFor(Scheduling, i[1]) # {}

Schedule(s) ==
    /\ instance' = s.instance
    /\ inbox' = s.inbox
    /\ pendingRequests' = s.pending

-----------------------------------------------------------------------------
(* Replies to the owners.                                                  *)

\* action::persistent::Send: FALSE when the queue is full; a removed queue counts as sent.
Push(m, ok) ==
    \/ /\ Owner[m.trid] \notin alive
       /\ ok
       /\ UNCHANGED received
    \/ /\ Owner[m.trid] \in alive
       /\ ok
       /\ received' = [received EXCEPT ![m.trid] = Append(@, m)]
    \/ /\ Owner[m.trid] \in alive \cap FullQueues
       /\ ~ ok
       /\ UNCHANGED received

\* send::reply: at once if the queue has room, else with the persistent replies.
SendReply(m) ==
    \/ Push(m, TRUE) /\ UNCHANGED persistentReplies
    \/ Push(m, FALSE) /\ persistentReplies' = Append(persistentReplies, m)

\* Mutant of SendPersistent: the reply does not wait for the write.
SendAtOnce(m) == SendReply(m)

\* send::persistent::reply: after the next write of the log.
SendPersistent(m) ==
    /\ persistentReplies' = Append(persistentReplies, m)
    /\ UNCHANGED received

NoReply == UNCHANGED <<persistentReplies, received>>

\* The pump may take a message: it is not sending, and Exit has finished.
Handling == pc = "handle" /\ exiting = {}

-----------------------------------------------------------------------------
(* handle::Commit and handle::Rollback.                                    *)

\* resource::involved: the known ids of a message, without duplicates. An id that
\* was there keeps its stage (it comes first and the sort of a short vector is stable).
Involve(t, rs) == resources[t] \cup (rs \cap RM)

\* The work the sender of a message has done at the resource managers.
Worked(b, t, rs) ==
    [b EXCEPT ![t] = [r \in RM |-> IF r \in rs /\ b[t][r] \in {"none", "ended", "rolledback"}
                                   THEN "active" ELSE b[t][r]]]

\* The owner is inside tx_commit or tx_rollback: it waits for the first reply, or, logged,
\* for the one that follows a prepare reply.
Waiting == {"commit", "logged", "rollback"}

\* The owner's side of a request: it is not inside another call. Its own work is done
\* before the first request, which names the resources used, as does any later one.
Asks(t, type) ==
    /\ client[t] = "active"
    /\ Owner[t] \in alive
    /\ \A u \in Trid \ {t} : Owner[u] = Owner[t] => client[u] \notin Waiting
    /\ sent[t] < MaxRequests
    /\ client' = [client EXCEPT ![t] = type]
    /\ sent' = [sent EXCEPT ![t] = @ + 1]
    /\ branch' = IF sent[t] = 0 THEN Worked(branch, t, own[t]) ELSE branch

\* send::resource::request: new stage and request for the resources rs of t.
RequestResources(s, t, rs, op, onephase, newStage) ==
    /\ stage' = [stage EXCEPT ![t] = [r \in RM |-> IF r \in rs THEN newStage ELSE @[r]]]
    /\ Schedule(SendRequest(s, [op |-> op, trid |-> t, onephase |-> onephase], rs))

AtStage(stg, rs, k) == {r \in rs : stg[r] = k}

CommitReply(t, stg, code, c) ==
    [type |-> "commit", stage |-> stg, trid |-> t, state |-> code, correlation |-> c]

RollbackReply(t, stg, code, c) ==
    [type |-> "rollback", stage |-> stg, trid |-> t, state |-> code, correlation |-> c]

\* Not in a state for commit: XAER_PROTO, user_reply_wrapper replies with it.
CommitRefused(t, rs) ==
    /\ LeastStage(stage[t], rs) \notin {cInvolved, cNotInvolved}
    /\ transactions' = transactions \cup {t}
    /\ resources' = [resources EXCEPT ![t] = rs]
    /\ UNCHANGED <<stage, result, correlation, instance, inbox, pendingRequests>>
    /\ SendReply(CommitReply(t, "error", cXAER_PROTO, sent'[t]))

\* No resources: the transaction is removed, XA_RDONLY.
CommitEmpty(t, rs) ==
    /\ rs = {}
    /\ Erase(t)
    /\ UNCHANGED <<instance, inbox, pendingRequests>>
    /\ SendReply(CommitReply(t, "commit", cXA_RDONLY, sent'[t]))

\* One resource: one-phase commit. More than one: prepare.
CommitResources(t, rs) ==
    /\ rs # {}
    /\ LeastStage(stage[t], rs) \in {cInvolved, cNotInvolved}
    /\ transactions' = transactions \cup {t}
    /\ resources' = [resources EXCEPT ![t] = rs]
    /\ correlation' = [correlation EXCEPT ![t] = sent'[t]]
    /\ UNCHANGED result
    /\ LET to == AtStage(stage[t], rs, cInvolved)
       IN  IF Cardinality(rs) = 1
           THEN RequestResources(Scheduling, t, to, "commit", TRUE, cCommitRequested)
           ELSE RequestResources(Scheduling, t, to, "prepare", FALSE, cPrepareRequested)
    /\ NoReply

\* handle::Commit for a request of the owner. The context refuses to commit while
\* replies of services it has called are outstanding.
Commit(t) ==
    /\ Handling
    /\ Asks(t, "commit")
    /\ calls[t] = {}
    /\ LET rs == Involve(t, own[t])
       IN  CommitRefused(t, rs) \/ CommitEmpty(t, rs) \/ CommitResources(t, rs)
    /\ UNCHANGED <<unsent, pc, exiting, log, durable, proxy, inbound, own, calls, alive, deaths>>

\* Mutant of Roll: the request goes to every resource, whatever its stage.
RollAll(t, rs, c) ==
    IF rs = {}
    THEN /\ Erase(t)
         /\ UNCHANGED <<instance, inbox, pendingRequests>>
    ELSE /\ transactions' = transactions \cup {t}
         /\ resources' = [resources EXCEPT ![t] = rs]
         /\ correlation' = [correlation EXCEPT ![t] = c]
         /\ UNCHANGED result
         /\ RequestResources(Scheduling, t, rs, "rollback", FALSE, cRollbackRequested)

\* basic_rollback for trid t: c and reply are the correlation and the way back
\* of the request, from the owner or from the manager itself.
Roll(t, rs, c) ==
    IF rs = {}
    THEN /\ Erase(t)
         /\ UNCHANGED <<instance, inbox, pendingRequests>>
    ELSE /\ transactions' = transactions \cup {t}
         /\ resources' = [resources EXCEPT ![t] = rs]
         /\ correlation' = [correlation EXCEPT ![t] = c]
         /\ UNCHANGED result
         /\ RequestResources(Scheduling, t, AtStage(stage[t], rs, cInvolved),
                             "rollback", FALSE, cRollbackRequested)

\* handle::Rollback for a request of the owner.
Rollback(t) ==
    /\ Handling
    /\ Asks(t, "rollback")
    /\ LateInvolved \/ calls[t] = {}
    /\ LET rs == Involve(t, own[t])
       IN  /\ Roll(t, rs, sent'[t])
           /\ IF rs = {} THEN SendReply(RollbackReply(t, "rollback", cXA_OK, sent'[t]))
                         ELSE NoReply
    /\ UNCHANGED <<unsent, pc, exiting, log, durable, proxy, inbound, own, calls, alive, deaths>>

\* Mutant of Involved: an unknown id is not discarded.
InvolvedUnchecked(t, id) ==
    /\ Handling
    /\ id \in calls[t]
    /\ calls' = [calls EXCEPT ![t] = @ \ {id}]
    /\ transactions' = transactions \cup {t}
    /\ resources' = [resources EXCEPT ![t] = @ \cup {id}]
    /\ UNCHANGED <<stage, result, correlation, instance, inbox, pendingRequests, branch,
                   persistentReplies, received, unsent, pc, exiting, log, durable, proxy,
                   inbound, client, sent, own, alive, deaths>>

\* handle::resource::Involved: a server tells which resource it uses in t.
Involved(t, id) ==
    /\ Handling
    /\ id \in calls[t]
    /\ calls' = [calls EXCEPT ![t] = @ \ {id}]
    /\ transactions' = transactions \cup {t}
    /\ resources' = [resources EXCEPT ![t] = Involve(t, {id})]
    /\ branch' = Worked(branch, t, {id})
    /\ UNCHANGED <<stage, result, correlation, instance, inbox, pendingRequests,
                   persistentReplies, received, unsent, pc, exiting, log, durable, proxy,
                   inbound, client, sent, own, alive, deaths>>

\* Mutant of Exit: the transactions of the dead process are left alone.
ExitIgnored(p) ==
    /\ Handling
    /\ p \in deaths
    /\ deaths' = deaths \ {p}
    /\ UNCHANGED <<transVars, instance, inbox, pendingRequests, persistentReplies, received,
                   unsent, pc, exiting, log, durable, proxy, inbound, branch, client, sent,
                   own, calls, alive>>

\* handle::process::Exit: the transactions the dead process owns ...
Exit(p) ==
    /\ Handling
    /\ p \in deaths
    /\ deaths' = deaths \ {p}
    /\ exiting' = {t \in transactions : Owner[t] = p}
    /\ UNCHANGED <<transVars, instance, inbox, pendingRequests, persistentReplies, received,
                   unsent, pc, log, durable, proxy, inbound, branch, client, sent, own, calls,
                   alive>>

\* ... are rolled back one by one, before any other message is read. (A reply to the
\* manager itself is discarded by the dispatch of the pump.)
ExitRollback(t) ==
    /\ pc = "handle"
    /\ t \in exiting
    /\ exiting' = exiting \ {t}
    /\ Roll(t, resources[t], 0)
    /\ UNCHANGED <<persistentReplies, received, unsent, pc, log, durable, proxy, inbound,
                   branch, clientVars>>

-----------------------------------------------------------------------------
(* handle::resource::reply: the proxies' messages.                          *)

\* basic_prepare. (Its case for results() = cXA_RDONLY cannot be taken: a resource
\* that answered so is at cNotInvolved, never at cPrepareReplied.)
PrepareReply(m, s, t, r) ==
    LET res == [result[t] EXCEPT ![r] = m.state]
        stg == [stage[t] EXCEPT ![r] = IF m.state = cXA_RDONLY THEN cNotInvolved
                                                               ELSE cPrepareReplied]
        prepared == LeastStage(stg, resources[t]) = cPrepareReplied
        code == Results(res, resources[t])
        \* send::resource::request on top of the new stage of r
        Ask(to, op, newStage) ==
            /\ stage' = [stage EXCEPT ![t] = [q \in RM |-> IF q \in to THEN newStage ELSE stg[q]]]
            /\ result' = [result EXCEPT ![t] = res]
            /\ Schedule(SendRequest(s, [op |-> op, trid |-> t, onephase |-> FALSE], to))
            /\ UNCHANGED <<transactions, resources, correlation>>
    IN  \/ \* wait for more replies
           /\ ~ prepared
           /\ stage' = [stage EXCEPT ![t] = stg]
           /\ result' = [result EXCEPT ![t] = res]
           /\ Schedule(s)
           /\ UNCHANGED <<transactions, resources, correlation, log>>
           /\ NoReply
        \/ \* all has gone well: log it, answer after the write, commit
           /\ prepared
           /\ code = cXA_OK
           /\ log' = log \cup {t}
           /\ SendPersistent(CommitReply(t, "prepare", cXA_OK, correlation[t]))
           /\ Ask({q \in AtStage(stg, resources[t], cPrepareReplied) : res[q] = cXA_OK},
                  "commit", cPrepareRequested)
        \/ \* something has gone wrong: roll back
           /\ prepared
           /\ code \notin {cXA_OK, cXA_RDONLY}
           /\ Ask(AtStage(stg, resources[t], cPrepareReplied), "rollback", cRollbackRequested)
           /\ UNCHANGED log
           /\ NoReply

\* Mutant of CommitDone: the stage of the resource that answers, not that of the transaction.
CommitDoneFirst(m, s, t, r) ==
    LET stg == [stage[t] EXCEPT ![r] = cCommitReplied]
        code == Results(result[t], resources[t])
        answer == CommitReply(t, "commit", code, correlation[t])
    IN  /\ Schedule(s)
        /\ IF stg[r] # cCommitReplied
           THEN /\ stage' = [stage EXCEPT ![t] = stg]
                /\ UNCHANGED <<transactions, resources, result, correlation, log>>
                /\ NoReply
           ELSE IF code = cXA_OK
           THEN /\ Erase(t)
                /\ log' = log \ {t}
                /\ IF Cardinality(resources[t]) <= 1 THEN SendReply(answer)
                                                     ELSE SendPersistent(answer)
           ELSE /\ stage' = [stage EXCEPT ![t] = stg]
                /\ UNCHANGED <<transactions, resources, result, correlation, log>>
                /\ SendPersistent(answer)

\* basic_commit: the result of the message is not used.
CommitDone(m, s, t, r) ==
    LET stg == [stage[t] EXCEPT ![r] = cCommitReplied]
        code == Results(result[t], resources[t])
        answer == CommitReply(t, "commit", code, correlation[t])
    IN  /\ Schedule(s)
        /\ IF LeastStage(stg, resources[t]) # cCommitReplied
           THEN /\ stage' = [stage EXCEPT ![t] = stg]
                /\ UNCHANGED <<transactions, resources, result, correlation, log>>
                /\ NoReply
           ELSE IF code = cXA_OK
           THEN /\ Erase(t)
                /\ log' = log \ {t}
                /\ IF Cardinality(resources[t]) <= 1 THEN SendReply(answer)
                                                     ELSE SendPersistent(answer)
           ELSE /\ stage' = [stage EXCEPT ![t] = stg]
                /\ UNCHANGED <<transactions, resources, result, correlation, log>>
                /\ SendPersistent(answer)

\* basic_rollback: the result of the message is not used.
RollbackDone(m, s, t, r) ==
    LET stg == [stage[t] EXCEPT ![r] = cRollbackReplied]
        code == Results(result[t], resources[t])
    IN  /\ Schedule(s)
        /\ IF LeastStage(stg, resources[t]) # cRollbackReplied
           THEN /\ stage' = [stage EXCEPT ![t] = stg]
                /\ UNCHANGED <<transactions, resources, result, correlation, log>>
                /\ NoReply
           ELSE IF code \in {cXA_OK, cXAER_NOTA, cXA_RDONLY}
           THEN /\ Erase(t)
                /\ log' = log \ {t}
                /\ SendReply(RollbackReply(t, "rollback", cXA_OK, correlation[t]))
           ELSE /\ stage' = [stage EXCEPT ![t] = stg]
                /\ UNCHANGED <<transactions, resources, result, correlation, log>>
                /\ SendPersistent(RollbackReply(t, "rollback", code, correlation[t]))

\* A trid or a resource the manager does not know: logged and discarded.
DiscardReply(s) ==
    /\ Schedule(s)
    /\ UNCHANGED <<transVars, log>>
    /\ NoReply

\* Wrapper::operator(): the instance is done, then the handler of the message.
ReplyWrapper(m) ==
    /\ Handling
    /\ m \in inbound
    /\ m.op # "connect"
    /\ ~ Unavailable(m.instance)
    /\ inbound' = inbound \ {m}
    /\ LET s == Done(Scheduling, m.instance)
           t == m.trid
           r == m.instance[1]
           known == t \in transactions /\ r \in resources[t]
       IN  \/ ~ known /\ DiscardReply(s)
           \/ known /\ m.op = "prepare" /\ PrepareReply(m, s, t, r)
           \/ known /\ m.op = "commit" /\ CommitDone(m, s, t, r)
           \/ known /\ m.op = "rollback" /\ RollbackDone(m, s, t, r)
    /\ UNCHANGED <<unsent, pc, exiting, durable, proxy, branch, clientVars>>

\* State::ready(): what the constructor waits for.
Ready(inst) == \A i \in Instance : inst[i] \in {"absent", "idle"}

\* reply::Connect, in the constructor (pc = "boot") and in the pump.
Connect(m) ==
    /\ Handling \/ pc = "boot"
    /\ m \in inbound
    /\ m.op = "connect"
    /\ m.state = cXA_OK => ~ Unavailable(m.instance)
    /\ inbound' = inbound \ {m}
    /\ Schedule(IF m.state = cXA_OK
                THEN Done(Scheduling, m.instance)
                ELSE [Scheduling EXCEPT !.instance[m.instance] = NewState(@, "startupError")])
    /\ pc' = IF pc = "boot" /\ Ready(instance') THEN "handle" ELSE pc
    /\ UNCHANGED <<transVars, persistentReplies, received, unsent, exiting, log, durable,
                   proxy, branch, clientVars>>

\* queue::Unavailable from instance::done leaves the pump and ends the process.
PumpFails(m) ==
    /\ Handling
    /\ m \in inbound
    /\ m.op = "connect" => m.state = cXA_OK
    /\ Unavailable(m.instance)
    /\ inbound' = inbound \ {m}
    /\ pc' = "down"
    /\ UNCHANGED <<transVars, instance, inbox, pendingRequests, persistentReplies, received,
                   unsent, exiting, log, durable, proxy, branch, clientVars>>

-----------------------------------------------------------------------------
(* action::resource::Instances: the administrator changes a concurrency.    *)

Size(r) == Cardinality({k \in 1 .. MaxInstances : instance[<<r, k>>] # "absent"})

Spawn(r, n) ==
    LET new == {i \in Instance : i[1] = r /\ i[2] \in Size(r) + 1 .. n}
    IN  /\ n > Size(r)
        /\ instance' = [i \in Instance |-> IF i \in new THEN "started" ELSE instance[i]]
        /\ proxy' = [i \in Instance |-> IF i \in new THEN "starting" ELSE proxy[i]]
        /\ UNCHANGED inbox

\* The last instances go: one that has not connected is killed, the others are told.
\* One that failed to start has no queue any more: queue::Unavailable ends the loop.
Retire(r, n) ==
    LET last == {i \in Instance : i[1] = r /\ i[2] \in n + 1 .. Size(r)}
        old == {i \in last : \A j \in last : j[2] < i[2] => instance[j] # "startupError"}
    IN  /\ n < Size(r)
        /\ instance' = [i \in Instance |-> IF i \in old THEN "shutdown" ELSE instance[i]]
        /\ inbox' = [i \in Instance |-> IF i \in old /\ instance[i] \in {"idle", "busy"}
                                        THEN Append(inbox[i], Shutdown) ELSE inbox[i]]
        /\ proxy' = [i \in Instance |-> IF i \in old /\ instance[i] = "started"
                                        THEN "exited" ELSE proxy[i]]

Instances(r, n) ==
    /\ Handling
    /\ n \in ScaleTo
    /\ Spawn(r, n) \/ Retire(r, n)
    /\ UNCHANGED <<transVars, pendingRequests, persistentReplies, received, unsent, pc,
                   exiting, log, durable, inbound, branch, clientVars>>

-----------------------------------------------------------------------------
(* message::pump: the batch is written, then the persistent replies are     *)
(* sent by std::partition with the predicate "not sent". It looks at the    *)
(* replies from the left while they cannot be sent, and from the right      *)
(* while they can.                                                          *)

\* Mutant of WriteBatch: the write leaves out the rows that were removed.
WriteInsertions ==
    /\ Handling
    /\ persistentReplies # <<>>
    /\ durable' = durable \cup log
    /\ pc' = "left"
    /\ UNCHANGED <<transVars, instance, pendingRequests, persistentReplies, received, unsent,
                   exiting, log, proxyVars, clientVars>>

WriteBatch ==
    /\ Handling
    /\ persistentReplies # <<>>
    /\ durable' = log
    /\ pc' = "left"
    /\ UNCHANGED <<transVars, instance, pendingRequests, persistentReplies, received, unsent,
                   exiting, log, proxyVars, clientVars>>

SendBatch ==
    /\ pc \in {"left", "right"}
    /\ persistentReplies # <<>>
    /\ LET n == Len(persistentReplies)
           m == IF pc = "left" THEN Head(persistentReplies) ELSE persistentReplies[n]
           rest == IF pc = "left" THEN Tail(persistentReplies) ELSE SubSeq(persistentReplies, 1, n - 1)
       IN  /\ persistentReplies' = rest
           /\ \/ Push(m, TRUE) /\ pc' = "right" /\ UNCHANGED unsent
              \/ Push(m, FALSE) /\ pc' = "left" /\ unsent' = Append(unsent, m)
    /\ UNCHANGED <<transVars, instance, pendingRequests, exiting, log, durable, proxyVars,
                   clientVars>>

\* Mutant of EndBatch: what could not be sent is trimmed as well.
EndBatchTrimsAll ==
    /\ pc \in {"left", "right"}
    /\ persistentReplies = <<>>
    /\ unsent' = <<>>
    /\ pc' = "handle"
    /\ UNCHANGED <<transVars, instance, pendingRequests, persistentReplies, received, exiting,
                   log, durable, proxyVars, clientVars>>

EndBatch ==
    /\ pc \in {"left", "right"}
    /\ persistentReplies = <<>>
    /\ persistentReplies' = unsent
    /\ unsent' = <<>>
    /\ pc' = "handle"
    /\ UNCHANGED <<transVars, instance, pendingRequests, received, exiting, log, durable,
                   proxyVars, clientVars>>

-----------------------------------------------------------------------------
(* The proxies (resource/proxy.cpp) and the resource managers behind them.  *)

\* What xa_prepare, xa_commit and xa_rollback may answer for a branch in state b,
\* with the state they leave it in.
Xa(m, b) ==
    CASE m.op = "prepare" /\ b = "active" ->
            {<<x, CASE x = cXA_OK -> "prepared"
                    [] x = cXA_RDONLY -> "ended"
                    [] x = cXA_RBROLLBACK -> "rolledback"
                    [] OTHER -> b>> : x \in PrepareResults}
      [] m.op = "commit" /\ b = IF m.onephase THEN "active" ELSE "prepared" ->
            {<<x, CASE x = cXA_OK -> "committed"
                    [] x = cXA_RBROLLBACK -> "rolledback"
                    [] OTHER -> b>> :
                x \in IF m.onephase THEN CommitResults ELSE CommitResults \ {cXA_RBROLLBACK}}
      [] m.op = "rollback" /\ b \in {"active", "prepared"} ->
            {<<x, IF x = cXA_OK THEN "rolledback" ELSE b>> : x \in RollbackResults}
      [] OTHER -> {<<cXAER_NOTA, b>>}

\* basic_open.
ProxyOpen(i) ==
    /\ proxy[i] = "starting"
    /\ \E x \in OpenResults :
        /\ inbound' = inbound \cup {[op |-> "connect", instance |-> i, state |-> x]}
        /\ proxy' = [proxy EXCEPT ![i] = IF x = cXA_OK THEN "running" ELSE "exited"]
    /\ UNCHANGED <<transVars, instance, pendingRequests, persistentReplies, received, unsent,
                   pc, exiting, log, durable, inbox, branch, clientVars>>

\* basic_handler with policy::Prepare, Commit or Rollback.
ProxyRequest(i) ==
    /\ proxy[i] = "running"
    /\ inbox[i] # <<>>
    /\ LET m == Head(inbox[i])
       IN  /\ m # Shutdown
           /\ \E x \in Xa(m, branch[m.trid][i[1]]) :
                /\ branch' = [branch EXCEPT ![m.trid][i[1]] = x[2]]
                /\ inbound' = inbound \cup
                      {[op |-> m.op, instance |-> i, trid |-> m.trid, state |-> x[1]]}
    /\ inbox' = [inbox EXCEPT ![i] = Tail(@)]
    /\ UNCHANGED <<transVars, instance, pendingRequests, persistentReplies, received, unsent,
                   pc, exiting, log, durable, proxy, clientVars>>

\* handle::Shutdown: the proxy ends, its queue and what is in it are gone.
ProxyShutdown(i) ==
    /\ proxy[i] = "running"
    /\ inbox[i] # <<>>
    /\ Head(inbox[i]) = Shutdown
    /\ proxy' = [proxy EXCEPT ![i] = "exited"]
    /\ inbox' = [inbox EXCEPT ![i] = <<>>]
    /\ UNCHANGED <<transVars, instance, pendingRequests, persistentReplies, received, unsent,
                   pc, exiting, log, durable, inbound, branch, clientVars>>

-----------------------------------------------------------------------------
(* The owners.                                                             *)

\* What the blocked owner reads: the messages with the correlation of its last request,
\* whatever their type.
Expected(t) == {n \in DOMAIN received[t] : received[t][n].correlation = sent[t]}

\* The type of the reply that the owner unmarshals what it reads into.
ReplyType(t) == IF client[t] = "rollback" THEN "rollback" ELSE "commit"

\* Context::commit and Context::rollback read the first such reply. After a first
\* prepare reply the owner goes on or waits, as set by tx_set_commit_return.
Receive(t) ==
    /\ Owner[t] \in alive
    /\ client[t] \in Waiting
    /\ \E n \in Expected(t) :
       LET m == received[t][n]
       IN  /\ \A k \in Expected(t) : n <= k
           /\ m.type = ReplyType(t)
           /\ received' = [received EXCEPT ![t] = SubSeq(@, 1, n - 1) \o SubSeq(@, n + 1, Len(@))]
           /\ \/ /\ m.stage = "prepare" /\ client[t] = "commit"
                 /\ client' = [client EXCEPT ![t] = "logged"]
              \/ /\ m.stage = "prepare" \/ m.state \in {cXA_OK, cXA_RDONLY}
                 /\ client' = [client EXCEPT ![t] = "done"]
              \/ /\ m.state \notin {cXA_OK, cXA_RDONLY}
                 /\ client' = [client EXCEPT ![t] = "active"]
    /\ UNCHANGED <<transVars, instance, pendingRequests, persistentReplies, unsent, pc,
                   exiting, log, durable, proxyVars, sent, own, calls, alive, deaths>>

\* A signal ends the second receive of tx_commit. The first reply is awaited with the
\* signals blocked (ipc::call and its policy ignore::signal::Blocking).
GiveUp(t) ==
    /\ Timeouts
    /\ Owner[t] \in alive
    /\ client[t] = "logged"
    /\ client' = [client EXCEPT ![t] = "active"]
    /\ UNCHANGED <<transVars, instance, pendingRequests, persistentReplies, received, unsent,
                   pc, exiting, log, durable, proxyVars, sent, own, calls, alive, deaths>>

\* A client process ends; the broker notifies the manager.
Ends(p) ==
    /\ p \in alive
    /\ LateInvolved \/ \A t \in Trid : Owner[t] = p => calls[t] = {}
    /\ alive' = alive \ {p}
    /\ deaths' = deaths \cup {p}
    /\ UNCHANGED <<transVars, instance, pendingRequests, persistentReplies, received, unsent,
                   pc, exiting, log, durable, proxyVars, client, sent, own, calls>>

\* It dies, at any time.
Die(p) == p \in Mortal /\ Ends(p)

\* It reads a reply of another type than it asked for: the assertion of
\* marshal::complete fails and the process aborts.
Abort(t) ==
    /\ client[t] \in Waiting
    /\ \E n \in Expected(t) :
        /\ \A k \in Expected(t) : n <= k
        /\ received[t][n].type # ReplyType(t)
    /\ Ends(Owner[t])

-----------------------------------------------------------------------------
\* The constructor has spawned the proxies and waits for them to connect.
Init ==
    /\ transactions = {}
    /\ resources = [t \in Trid |-> {}]
    /\ stage = [t \in Trid |-> [r \in RM |-> cInvolved]]
    /\ result = [t \in Trid |-> [r \in RM |-> cXA_OK]]
    /\ correlation = [t \in Trid |-> 0]
    /\ instance = [i \in Instance |-> IF i[2] <= Concurrency[i[1]] THEN "started" ELSE "absent"]
    /\ pendingRequests = <<>>
    /\ persistentReplies = <<>>
    /\ unsent = <<>>
    /\ pc = "boot"
    /\ exiting = {}
    /\ log = {}
    /\ durable = {}
    /\ inbox = [i \in Instance |-> <<>>]
    /\ proxy = [i \in Instance |-> IF i[2] <= Concurrency[i[1]] THEN "starting" ELSE "none"]
    /\ inbound = {}
    /\ branch = [t \in Trid |-> [r \in RM |-> "none"]]
    /\ client = [t \in Trid |-> "active"]
    /\ sent = [t \in Trid |-> 0]
    /\ received = [t \in Trid |-> <<>>]
    /\ own \in [Trid -> SUBSET ResourceId]
    /\ calls \in [Trid -> SUBSET ResourceId]
    /\ alive = Process
    /\ deaths = {}

Next ==
    \/ \E t \in Trid : Commit(t) \/ Rollback(t)
    \/ \E t \in Trid, id \in ResourceId : Involved(t, id)
    \/ \E p \in Process : Exit(p) \/ Die(p)
    \/ \E t \in Trid : ExitRollback(t) \/ Receive(t) \/ Abort(t) \/ GiveUp(t)
    \/ \E m \in inbound : ReplyWrapper(m) \/ Connect(m) \/ PumpFails(m)
    \/ \E r \in RM, n \in 0 .. MaxInstances : Instances(r, n)
    \/ WriteBatch \/ SendBatch \/ EndBatch
    \/ \E i \in Instance : ProxyOpen(i) \/ ProxyRequest(i) \/ ProxyShutdown(i)

Spec == Init /\ [][Next]_vars

\* The pump reads every message in the end, the proxies and the owners read theirs, and
\* an owner that runs empties its queue, so that a reply that is tried again is sent.
Fairness ==
    /\ \A t \in Trid : WF_vars(ExitRollback(t)) /\ WF_vars(Receive(t) \/ Abort(t))
    /\ \A t \in Trid, id \in ResourceId : WF_vars(Involved(t, id))
    /\ \A p \in Process : WF_vars(Exit(p))
    /\ WF_vars(\E m \in inbound : ReplyWrapper(m) \/ Connect(m) \/ PumpFails(m))
    /\ WF_vars(WriteBatch) /\ WF_vars(SendBatch) /\ WF_vars(EndBatch)
    /\ SF_vars(SendBatch /\ UNCHANGED unsent)
    /\ \A i \in Instance : WF_vars(ProxyOpen(i) \/ ProxyRequest(i) \/ ProxyShutdown(i))

FairSpec == Spec /\ Fairness
-----------------------------------------------------------------------------
(* Properties.                                                             *)

\* Every variable stays within the types of the program's state.
TypeOK ==
    /\ transactions \subseteq Trid
    /\ resources \in [Trid -> SUBSET RM]
    /\ stage \in [Trid -> [RM -> Stage]]
    /\ result \in [Trid -> [RM -> Result]]
    /\ correlation \in [Trid -> 0 .. MaxRequests]
    /\ instance \in [Instance -> InstanceState]
    /\ pendingRequests \in Seq(PendingRequest)
    /\ persistentReplies \in Seq(Reply)
    /\ unsent \in Seq(Reply)
    /\ pc \in {"boot", "handle", "left", "right", "down"}
    /\ exiting \subseteq Trid
    /\ log \subseteq Trid
    /\ durable \subseteq Trid
    /\ inbox \in [Instance -> Seq(Request \cup {Shutdown})]
    /\ proxy \in [Instance -> {"none", "starting", "running", "exited"}]
    /\ inbound \subseteq ConnectReply \cup ResourceReply
    /\ branch \in [Trid -> [RM -> {"none", "active", "prepared", "ended", "committed", "rolledback"}]]
    /\ client \in [Trid -> {"active", "commit", "logged", "rollback", "done"}]
    /\ sent \in [Trid -> 0 .. MaxRequests]
    /\ received \in [Trid -> Seq(Reply)]
    /\ own \in [Trid -> SUBSET ResourceId]
    /\ calls \in [Trid -> SUBSET ResourceId]
    /\ alive \subseteq Process
    /\ deaths \subseteq Process

\* The requests for resource r in transaction t that have been made and not answered:
\* waiting for an instance, in the queue of one, or answered to a manager yet to read it.
Outstanding(t, r) ==
    {<<"pending", n>> : n \in {n \in DOMAIN pendingRequests :
        pendingRequests[n].message.trid = t /\ r \in pendingRequests[n].resources}}
    \cup (UNION {{<<"inbox", i, n>> : n \in {n \in DOMAIN inbox[i] :
        inbox[i][n] # Shutdown /\ inbox[i][n].trid = t}} : i \in {i \in Instance : i[1] = r}})
    \cup {<<"inbound", m>> : m \in {m \in inbound :
        m.op # "connect" /\ m.trid = t /\ m.instance[1] = r}}

Requested(t, r) ==
    /\ r \in resources[t]
    /\ stage[t][r] \in {cPrepareRequested, cCommitRequested, cRollbackRequested}

\* A resource is at a 'requested' stage exactly while one request for it is on its way:
\* none is lost between pendingRequests, the proxies' queues and the replies, and none is
\* sent twice (send::resource::request, instance::done and the reply handlers together).
RequestAccounted ==
    \A t \in Trid, r \in RM :
        Cardinality(Outstanding(t, r)) = IF Requested(t, r) THEN 1 ELSE 0

\* A request waits in pendingRequests only while no instance of its resource is idle
\* (action::resource::request and instance::done share the instances).
PendingOnlyWhenBusy ==
    \A n \in DOMAIN pendingRequests : \A i \in Instance :
        i[1] \in pendingRequests[n].resources => instance[i] # "idle"

\* An instance the manager calls idle has nothing to do and nothing unread to say, one
\* it calls busy has exactly one request or reply: no request waits behind another in the
\* queue of one proxy (State::idle_instance, instance::done and reply::Connect together).
InstanceAccounted ==
    \A i \in Instance :
        LET work == {<<"inbox", n>> : n \in DOMAIN inbox[i]}
                    \cup {<<"inbound", m>> : m \in {m \in inbound : m.instance = i}}
        IN  /\ instance[i] = "idle" => work = {}
            /\ instance[i] = "busy" => Cardinality(work) = 1

\* Two-phase commit: when a second-phase commit is on its way to any resource, every
\* resource of the transaction has prepared or had nothing to do (basic_prepare reply).
CommitOnlyPrepared ==
    \A i \in Instance : \A n \in DOMAIN inbox[i] :
        LET m == inbox[i][n]
        IN  m # Shutdown /\ m.op = "commit" /\ ~ m.onephase
            => \A r \in resources[m.trid] : branch[m.trid][r] \in {"prepared", "ended", "committed"}

\* A transaction is never committed at one resource and rolled back at another,
\* whatever the resources answer and whenever the owner dies.
Atomicity ==
    \A t \in Trid : \A r, q \in RM :
        ~ (branch[t][r] = "committed" /\ branch[t][q] = "rolledback")

\* Seen at the resource managers, the manager, the proxies and the owners together do
\* only what AtomicCommit allows: no resource commits while another can still refuse, and
\* none rolls back when another has committed (handle.cpp, proxy.cpp).
AC == INSTANCE AtomicCommit WITH Trid <- Trid, RM <- RM, branch <- branch
ImplementsAtomicCommit == AC!Spec

\* While the owner has a 'decision logged' reply in its queue and a prepared resource has
\* yet to answer its commit, the decision is on disk ("Will be sent after persistent write
\* to file", handle.cpp).
DecisionDurable ==
    \A t \in Trid :
        /\ \E n \in DOMAIN received[t] : received[t][n].stage = "prepare"
        /\ \E r \in RM : branch[t][r] = "prepared" /\ Requested(t, r)
        => t \in durable

\* The last reply to the request an owner waits for is the last act of the manager and its
\* proxies: no request of the transaction waits, is queued at a proxy or is answered and
\* unread, so that nothing happens at a resource after tx_commit or tx_rollback has
\* returned (the tests of stage() in basic_commit and basic_rollback reply).
FinalReply ==
    \A t \in Trid :
        /\ Owner[t] \in alive
        /\ \E n \in Expected(t) : received[t][n].stage \in {"commit", "rollback"}
        => \A r \in RM : Outstanding(t, r) = {}

\* The first reply with the correlation of a request is of the type the owner unmarshals it
\* into ("assert( complete.type == message.type())", marshal/binary.h).
ReplyMatches ==
    \A t \in Trid : \A n \in Expected(t) :
        /\ Owner[t] \in alive /\ client[t] \in Waiting
        /\ \A k \in Expected(t) : n <= k
        => received[t][n].type = ReplyType(t)

\* A reply that says a commit has completed is sent only when every resource has
\* committed or had nothing to do (basic_commit reply). It does not hold when a resource
\* may refuse the second phase or a one-phase commit: its result is not stored.
CommitReplyTrue ==
    \A t \in Trid : \A n \in DOMAIN received[t] :
        /\ received[t][n].type = "commit"
        /\ received[t][n].stage = "commit"
        /\ received[t][n].state = cXA_OK
        => \A r \in RM : branch[t][r] \in {"none", "ended", "committed"}

\* When nothing waits for a write, the rows on disk are those of transactions that are
\* still to be committed: a finished one leaves no row behind.
NoStaleRows == Handling /\ persistentReplies = <<>> => durable \subseteq transactions

\* Every commit and every rollback an owner asks for is answered, if it lives
\* (handle::Commit, handle::Rollback and the reply handlers).
Answered ==
    \A t \in Trid : client[t] \in Waiting
                    ~> client[t] \notin Waiting \/ Owner[t] \notin alive

\* When the owner of a transaction has died, no resource keeps a branch of it open
\* (process::Exit and what it starts).
OrphanResolved ==
    \A t \in Trid : Owner[t] \notin alive
                    ~> \A r \in RM : branch[t][r] \notin {"active", "prepared"}
=============================================================================

----------------------------- MODULE QueueBroker -----------------------------
(***************************************************************************)
(* The queue broker (middleware/queue/source/broker): the process that     *)
(* knows the queue groups and their queues and that makes all groups look  *)
(* like one resource to the transaction manager.                           *)
(*                                                                         *)
(*   - a client looks a queue up and works in its group; the group tells   *)
(*     the broker that it takes part in the transaction and only then      *)
(*     answers the client;                                                 *)
(*   - a resource proxy asks for commit or rollback through the xa-switch  *)
(*     of the queues (queue/source/rm/switch.cpp); the broker forwards the *)
(*     request to the groups involved, collects their replies and answers; *)
(*   - an administrator asks for the state of the queues: the broker asks  *)
(*     every group and waits, what else arrives is kept in the cache of    *)
(*     its ipc device.                                                     *)
(*                                                                         *)
(* What a group does with its messages is module QueueGroup; what the      *)
(* transaction manager decides is module TransactionManager.               *)
(***************************************************************************)
EXTENDS Naturals, Sequences, FiniteSets, SequencesExt

CONSTANTS
    Group,        \* queue group processes
    Name,         \* queue names
    Owns,         \* the queues of a group: [Group -> SUBSET Name]
    Trid,         \* global transaction ids
    Client,       \* processes that use queues
    Proxy,        \* instances of the resource proxy of the queues
    Failing,      \* groups whose database may fail a commit or rollback
    Mortal,       \* processes that may die
    MaxDeaths,    \* bound: processes that die
    MaxWork,      \* bound: operations of a client
    MaxRequests,  \* bound: requests of the transaction manager, per transaction
    MaxAdmin      \* bound: calls of the administrator

ASSUME OwnsAssumption == Owns \in [Group -> SUBSET Name]
ASSUME MortalAssumption == Mortal \subseteq Group \cup Client \cup Proxy
ASSUME BoundsAssumption == MaxDeaths \in Nat /\ MaxWork \in Nat /\ MaxRequests \in Nat /\ MaxAdmin \in Nat

VARIABLES
    mode,         \* the broker: "startup", "pump", "admin" (waiting for groups) or "ended"
    groups,       \* State::groups that are connected
    queues,       \* State::queues: [Name -> at most one group]
    involved,     \* State::involved: [Trid -> groups], {} if there is no entry
    correlation,  \* State::correlation: [Trid -> at most one record]
    cache,        \* messages the broker's device has read ahead
    inbox,        \* the broker's ipc-queue
    asked,        \* groups whose answer the administrator's call waits for
    ended,        \* groups that have ended, as the broker's signal handler will find
    toGroup,      \* requests in the ipc-queues of the groups
    active,       \* transactions whose work is in the database of a group and has not been ended
    telling,      \* the client a group is working for: a set of at most one
    client,       \* what a client is doing
    proxy,        \* what a proxy is doing
    alive,        \* processes that run
    reachable,    \* processes whose ipc-queue exists
    decision,     \* what the transaction manager has decided
    requests,     \* requests made, per transaction
    admins,       \* calls of the administrator
    owed,         \* history: groups that took part when the last request was made and have not done it
    merged,       \* history: transactions a reply of which was overwritten in the cache
    failed        \* history: transactions a group of which did not do what was asked, as the proxy was told

brokerState == <<groups, queues, involved, correlation>>
tmVars == <<decision, requests>>
vars == <<mode, groups, queues, involved, correlation, cache, inbox, asked, ended, toGroup, active,
          telling, client, proxy, alive, reachable, decision, requests, admins, owed, merged, failed>>

Operation == {"commit", "rollback"}
Result == {"XA_OK", "XAER_NOTA", "XAER_RMFAIL"}

IdleClient == [stage |-> "idle", trid |-> "none", name |-> "none", group |-> "none", work |-> 0]
IdleProxy == [stage |-> "idle", trid |-> "none", op |-> "none", result |-> "none"]

Freed(c) == [IdleClient EXCEPT !.work = client[c].work]

-----------------------------------------------------------------------------
(* Clients, groups, proxies: the processes around the broker.              *)

\* queue::Lookup, the first half of rm::enqueue and rm::dequeue. Who asks earlier waits until
\* the broker has started.
Lookup(c, n, t) ==
    /\ mode # "startup"
    /\ c \in alive /\ client[c].stage = "idle"
    /\ client[c].work < MaxWork
    /\ decision[t] # "commit"
    /\ client' = [client EXCEPT ![c] = [@ EXCEPT !.stage = "lookup", !.trid = t, !.name = n,
                                                 !.work = client[c].work + 1]]
    /\ inbox' = Append(inbox, [kind |-> "lookup", from |-> c, name |-> n])
    /\ UNCHANGED <<mode, brokerState, cache, asked, ended, toGroup, active, telling, proxy, alive,
                   reachable, tmVars, admins, owed, merged, failed>>

\* The group of the queue handles the request: the work is in its database.
Work(g, c) ==
    /\ g \in alive /\ telling[g] = {}
    /\ client[c].stage = "found" /\ client[c].group = g
    /\ active' = [active EXCEPT ![g] = @ \cup {client[c].trid}]
    /\ telling' = [telling EXCEPT ![g] = {c}]
    /\ client' = [client EXCEPT ![c].stage = "work"]
    /\ UNCHANGED <<mode, brokerState, cache, inbox, asked, ended, toGroup, proxy, alive, reachable,
                   tmVars, admins, owed, merged, failed>>

\* The queue is not there, or its group is gone.
NoQueue(c) ==
    /\ c \in alive
    /\ \/ client[c].stage = "missing"
       \/ client[c].stage = "found" /\ client[c].group \notin reachable
    /\ client' = [client EXCEPT ![c] = Freed(c)]
    /\ UNCHANGED <<mode, brokerState, cache, inbox, asked, ended, toGroup, active, telling, proxy,
                   alive, reachable, tmVars, admins, owed, merged, failed>>

\* local::involved, then the reply to the client.
Tell(g) ==
    \E c \in telling[g] :
        /\ g \in alive
        /\ inbox' = Append(inbox, [kind |-> "involved", from |-> g, trid |-> client[c].trid])
        /\ client' = [client EXCEPT ![c] = IF c \in alive THEN Freed(c) ELSE @]
        /\ telling' = [telling EXCEPT ![g] = {}]
        /\ UNCHANGED <<mode, brokerState, cache, asked, ended, toGroup, active, proxy, alive,
                       reachable, tmVars, admins, owed, merged, failed>>

\* transaction::commit::Request and rollback::Request of the group; its reply leaves
\* when the batch is written. An exception leaves the work in the database, or comes when it
\* has been committed (pending::replies).
Resolve(g) ==
    /\ g \in alive /\ telling[g] = {} /\ toGroup[g] # <<>>
    /\ LET r == Head(toGroup[g])
           Reply(state) == [kind |-> "reply", from |-> g, trid |-> r.trid, number |-> r.number,
                            state |-> state]
       IN  \/ /\ inbox' = Append(inbox, Reply("XA_OK"))
              /\ active' = [active EXCEPT ![g] = @ \ {r.trid}]
              /\ owed' = IF r.number = requests[r.trid] THEN [owed EXCEPT ![r.trid] = @ \ {g}] ELSE owed
           \/ /\ g \in Failing
              /\ inbox' = Append(inbox, Reply("XAER_RMFAIL"))
              /\ active' \in {active, [active EXCEPT ![g] = @ \ {r.trid}]}
              /\ UNCHANGED owed
    /\ toGroup' = [toGroup EXCEPT ![g] = Tail(@)]
    /\ UNCHANGED <<mode, brokerState, cache, asked, ended, telling, client, proxy, alive, reachable,
                   tmVars, admins, merged, failed>>

\* information::queues::Request of the group.
Inform(g) ==
    /\ g \in alive /\ telling[g] = {} /\ g \in asked
    /\ ~ \E i \in DOMAIN inbox : inbox[i] = [kind |-> "information", from |-> g]
    /\ inbox' = Append(inbox, [kind |-> "information", from |-> g])
    /\ UNCHANGED <<mode, brokerState, cache, asked, ended, toGroup, active, telling, client, proxy,
                   alive, reachable, tmVars, admins, owed, merged, failed>>

\* xa_commit_entry or xa_rollback_entry in a proxy the transaction manager has chosen. It
\* asks for one operation of a transaction at a time and for a commit when all servers
\* that work in it have replied.
Request(p, t, op) ==
    /\ mode # "startup"
    /\ p \in alive /\ proxy[p].stage = "idle"
    /\ \A o \in Proxy : proxy[o].stage # "idle" => proxy[o].trid # t
    /\ requests[t] < MaxRequests
    /\ IF op = "commit"
       THEN decision[t] = "open" /\ \A c \in Client : client[c].trid # t
       ELSE decision[t] \in {"open", "rollback"}
    /\ decision' = [decision EXCEPT ![t] = op]
    /\ requests' = [requests EXCEPT ![t] = @ + 1]
    /\ proxy' = [proxy EXCEPT ![p] = [stage |-> "waiting", trid |-> t, op |-> op, result |-> "none"]]
    /\ inbox' = Append(inbox, [kind |-> "request", from |-> p, trid |-> t, op |-> op,
                               number |-> requests[t] + 1])
    /\ owed' = [owed EXCEPT ![t] =
                  {g \in Group : t \in active[g] /\ \A c \in telling[g] : client[c].trid # t}]
    /\ UNCHANGED <<mode, brokerState, cache, asked, ended, toGroup, active, telling, client, alive,
                   reachable, admins, merged, failed>>

\* The xa call returns to the transaction manager.
Return(p) ==
    /\ p \in alive /\ proxy[p].stage = "answered"
    /\ proxy' = [proxy EXCEPT ![p] = IdleProxy]
    /\ UNCHANGED <<mode, brokerState, cache, inbox, asked, ended, toGroup, active, telling, client,
                   alive, reachable, tmVars, admins, owed, merged, failed>>

\* A process ends; its ipc-queue is removed only if it ends in good order. The groups are
\* children of the broker. (What a group does when the client it works for has died is part
\* of QueueGroup.)
Die(x) ==
    /\ x \in alive \cap Mortal
    /\ Cardinality((Group \cup Client \cup Proxy) \ alive) < MaxDeaths
    /\ x \in Client => client[x].stage # "work"
    /\ alive' = alive \ {x}
    /\ reachable' \in {reachable, reachable \ {x}}
    /\ ended' = IF x \in Group THEN ended \cup {x} ELSE ended
    /\ UNCHANGED <<mode, brokerState, cache, inbox, asked, toGroup, active, telling, client, proxy,
                   tmVars, admins, owed, merged, failed>>

-----------------------------------------------------------------------------
(* The broker's handlers.                                                  *)

\* Mutant of Connect: a queue that is there gets a second group.
ConnectBoth(g) ==
    /\ mode = "startup" /\ g \in alive \ groups
    /\ queues' = [n \in Name |-> IF n \in Owns[g] THEN queues[n] \cup {g} ELSE queues[n]]
    /\ groups' = groups \cup {g}
    /\ mode' = IF groups \cup {g} = Group THEN "pump" ELSE "startup"
    /\ UNCHANGED <<involved, correlation, cache, inbox, asked, ended, toGroup, active, telling,
                   client, proxy, alive, reachable, tmVars, admins, owed, merged, failed>>

\* connect::Request: a group tells its queues, the first group with a name keeps it. The
\* broker reads nothing else before all groups have connected.
Connect(g) ==
    /\ mode = "startup" /\ g \in alive \ groups
    /\ queues' = [n \in Name |-> IF n \in Owns[g] /\ queues[n] = {} THEN {g} ELSE queues[n]]
    /\ groups' = groups \cup {g}
    /\ mode' = IF groups \cup {g} = Group THEN "pump" ELSE "startup"
    /\ UNCHANGED <<involved, correlation, cache, inbox, asked, ended, toGroup, active, telling,
                   client, proxy, alive, reachable, tmVars, admins, owed, merged, failed>>

\* The next message of blocking_next, the cache before the ipc-queue, and its removal.
Read == IF cache # <<>> THEN {Head(cache)} ELSE IF inbox # <<>> THEN {Head(inbox)} ELSE {}
Dequeued(m) ==
    /\ mode = "pump"
    /\ IF cache # <<>>
       THEN m = Head(cache) /\ cache' = Tail(cache) /\ UNCHANGED inbox
       ELSE inbox # <<>> /\ m = Head(inbox) /\ inbox' = Tail(inbox) /\ UNCHANGED cache

\* lookup::Request
HandleLookup(m) ==
    /\ m.kind = "lookup"
    /\ IF m.from \in reachable
       THEN /\ client' = IF m.from \notin alive THEN client ELSE
                         [client EXCEPT ![m.from] =
                            IF queues[m.name] = {} THEN [@ EXCEPT !.stage = "missing"]
                            ELSE [@ EXCEPT !.stage = "found",
                                           !.group = CHOOSE g \in queues[m.name] : TRUE]]
            /\ UNCHANGED mode
       ELSE mode' = "ended" /\ UNCHANGED client
    /\ UNCHANGED <<brokerState, asked, toGroup, active, proxy, failed>>

\* group::Involved
HandleInvolved(m) ==
    /\ m.kind = "involved"
    /\ involved' = [involved EXCEPT ![m.trid] = @ \cup {m.from}]
    /\ UNCHANGED <<mode, groups, queues, correlation, asked, toGroup, active, client, proxy, failed>>

\* A blocking send of the answer to proxy p. Nobody catches Unavailable.
Answer(p, result) ==
    IF p \in reachable
    THEN /\ proxy' = IF p \notin alive THEN proxy
                     ELSE [proxy EXCEPT ![p] = [@ EXCEPT !.stage = "answered", !.result = result]]
         /\ UNCHANGED mode
    ELSE mode' = "ended" /\ UNCHANGED proxy

\* The request goes to the groups gs.
Forward(m, gs) ==
    toGroup' = [g \in Group |-> IF g \in gs
                                THEN Append(toGroup[g], [trid |-> m.trid, number |-> m.number])
                                ELSE toGroup[g]]

\* Mutant of HandleRequest: a transaction that is not found is not answered.
HandleRequestSilent(m) ==
    /\ m.kind = "request"
    /\ IF involved[m.trid] = {}
       THEN UNCHANGED <<correlation, toGroup>>
       ELSE /\ Forward(m, involved[m.trid])
            /\ correlation' = [correlation EXCEPT ![m.trid] =
                  {[caller |-> m.from, stage |-> [g \in involved[m.trid] |-> "pending"]]}]
    /\ involved' = [involved EXCEPT ![m.trid] = {}]
    /\ UNCHANGED <<mode, proxy, groups, queues, asked, active, client, failed>>

\* transaction::request, for commit and for rollback. With a group that cannot be reached
\* the exception leaves some groups, in the order of std::partition, with the request;
\* map::emplace keeps an entry that is there.
HandleRequest(m) ==
    LET gs == involved[m.trid]
    IN  /\ m.kind = "request"
        /\ \/ /\ gs # {} /\ gs \subseteq reachable
              /\ Forward(m, gs)
              /\ correlation' = [correlation EXCEPT ![m.trid] =
                    IF @ # {} THEN @
                    ELSE {[caller |-> m.from, stage |-> [g \in gs |-> "pending"]]}]
              /\ involved' = [involved EXCEPT ![m.trid] = {}]
              /\ UNCHANGED <<mode, proxy>>
           \/ /\ ~ gs \subseteq reachable
              /\ \E some \in SUBSET (gs \cap reachable) : Forward(m, some)
              /\ Answer(m.from, "XAER_RMFAIL")
              /\ UNCHANGED <<involved, correlation>>
           \/ /\ gs = {}
              /\ Answer(m.from, "XAER_NOTA")
              /\ UNCHANGED <<involved, correlation, toGroup>>
        /\ UNCHANGED <<groups, queues, asked, active, client, failed>>

\* Mutant of HandleReply: the first reply answers for all groups.
HandleReplyFirst(m) ==
    /\ m.kind = "reply"
    /\ \A corr \in correlation[m.trid] :
          /\ Answer(corr.caller, m.state)
          /\ correlation' = [correlation EXCEPT ![m.trid] = {}]
          /\ failed' = IF m.state = "XA_OK" THEN failed ELSE failed \cup {m.trid}
    /\ correlation[m.trid] = {} => UNCHANGED <<mode, correlation, proxy, failed>>
    /\ UNCHANGED <<groups, queues, involved, asked, toGroup, active, client>>

\* Mutant of Staged: a group that has failed is still pending.
StagedOnlyReplied(corr, g, s) ==
    [corr EXCEPT !.stage = [h \in DOMAIN @ |-> IF h = g /\ s = "replied" THEN s ELSE @[h]]]

\* Correlation::stage. The stages are ordered: pending, error, replied.
Staged(corr, g, s) == [corr EXCEPT !.stage = [h \in DOMAIN @ |-> IF h = g THEN s ELSE @[h]]]

\* transaction::reply, for commit and for rollback: when no group is pending the caller
\* is told the least of the stages.
HandleReply(m) ==
    /\ m.kind = "reply"
    /\ \A corr \in correlation[m.trid] :
          LET now == Staged(corr, m.from, IF m.state = "XA_OK" THEN "replied" ELSE "error")
              stages == {now.stage[g] : g \in DOMAIN now.stage}
          IN  IF "pending" \in stages
              THEN correlation' = [correlation EXCEPT ![m.trid] = {now}] /\ UNCHANGED <<mode, proxy, failed>>
              ELSE /\ Answer(corr.caller, IF "error" \in stages THEN "XAER_RMFAIL" ELSE "XA_OK")
                   /\ correlation' = [correlation EXCEPT ![m.trid] = {}]
                   /\ failed' = IF "error" \in stages THEN failed \cup {m.trid} ELSE failed
    /\ correlation[m.trid] = {} => UNCHANGED <<mode, correlation, proxy, failed>>
    /\ UNCHANGED <<groups, queues, involved, asked, toGroup, active, client>>

\* Mutant of HandleExit: the queues of the group stay.
HandleExitKeepsQueues(m) ==
    /\ m.kind = "exit"
    /\ groups' = groups \ {m.from}
    /\ UNCHANGED <<queues, correlation, mode, involved, asked, toGroup, active, client, proxy, failed>>

\* process::Exit: the group and its queues are removed, its part of requests under way is
\* an error. The involved groups stay as they are, and nobody is answered.
HandleExit(m) ==
    /\ m.kind = "exit"
    /\ groups' = groups \ {m.from}
    /\ queues' = [n \in Name |-> queues[n] \ {m.from}]
    /\ correlation' = [t \in Trid |->
          {[corr EXCEPT !.stage = [g \in DOMAIN @ |->
                IF g = m.from /\ @[g] = "pending" THEN "error" ELSE @[g]]] : corr \in correlation[t]}]
    /\ UNCHANGED <<mode, involved, asked, toGroup, active, client, proxy, failed>>

Pump ==
    \E m \in Read :
        /\ Dequeued(m)
        /\ \/ HandleLookup(m) \/ HandleInvolved(m) \/ HandleRequest(m) \/ HandleReply(m)
           \/ HandleExit(m)
        /\ UNCHANGED <<ended, telling, alive, reachable, tmVars, admins, owed, merged>>

\* The error handler of the broker's device: a child has ended, an event is pushed.
Signal(g) ==
    /\ mode # "ended" /\ g \in ended
    /\ ended' = ended \ {g}
    /\ cache' = Append(cache, [kind |-> "exit", from |-> g])
    /\ UNCHANGED <<mode, brokerState, inbox, asked, toGroup, active, telling, client, proxy, alive,
                   reachable, tmVars, admins, owed, merged, failed>>

\* admin: broker::queues asks every group and waits for each answer. With a group that
\* cannot be reached the call fails; answers to it that still come have no handler.
Admin ==
    /\ mode = "pump" /\ admins < MaxAdmin
    /\ admins' = admins + 1
    /\ IF groups \subseteq reachable
       THEN mode' = "admin" /\ asked' = groups
       ELSE UNCHANGED <<mode, asked>>
    /\ UNCHANGED <<brokerState, cache, inbox, ended, toGroup, active, telling, client, proxy, alive,
                   reachable, tmVars, owed, merged, failed>>

\* The wait for one answer: other messages go to the cache, where the replies of the groups
\* to one request have the same correlation and the later overwrites the earlier.
AdminRead ==
    /\ mode = "admin" /\ inbox # <<>>
    /\ LET m == Head(inbox)
           same == {i \in DOMAIN cache : /\ m.kind = "reply" /\ cache[i].kind = "reply"
                                         /\ cache[i].trid = m.trid /\ cache[i].number = m.number}
       IN  IF m.kind = "information"
           THEN /\ asked' = asked \ {m.from}
                /\ mode' = IF asked \subseteq {m.from} THEN "pump" ELSE "admin"
                /\ UNCHANGED <<cache, merged>>
           ELSE /\ IF same = {} THEN cache' = Append(cache, m) /\ UNCHANGED merged
                   ELSE \E i \in same : /\ cache' = [cache EXCEPT ![i] = m]
                                        /\ merged' = merged \cup {m.trid}
                /\ UNCHANGED <<asked, mode>>
    /\ inbox' = Tail(inbox)
    /\ UNCHANGED <<brokerState, ended, toGroup, active, telling, client, proxy, alive, reachable,
                   tmVars, admins, owed, failed>>

Init ==
    /\ mode = "startup"
    /\ groups = {}
    /\ queues = [n \in Name |-> {}]
    /\ involved = [t \in Trid |-> {}]
    /\ correlation = [t \in Trid |-> {}]
    /\ cache = <<>> /\ inbox = <<>>
    /\ asked = {} /\ ended = {}
    /\ toGroup = [g \in Group |-> <<>>]
    /\ active = [g \in Group |-> {}]
    /\ telling = [g \in Group |-> {}]
    /\ client = [c \in Client |-> IdleClient]
    /\ proxy = [p \in Proxy |-> IdleProxy]
    /\ alive = Group \cup Client \cup Proxy
    /\ reachable = Group \cup Client \cup Proxy
    /\ decision = [t \in Trid |-> "open"]
    /\ requests = [t \in Trid |-> 0]
    /\ admins = 0
    /\ owed = [t \in Trid |-> {}]
    /\ merged = {}
    /\ failed = {}

GroupNext(g) == Tell(g) \/ Resolve(g) \/ Inform(g) \/ \E c \in Client : Work(g, c)

Next ==
    \/ \E c \in Client : NoQueue(c) \/ \E n \in Name, t \in Trid : Lookup(c, n, t)
    \/ \E g \in Group : GroupNext(g) \/ Connect(g) \/ Signal(g)
    \/ \E p \in Proxy : Return(p) \/ \E t \in Trid, op \in Operation : Request(p, t, op)
    \/ \E x \in Mortal : Die(x)
    \/ Pump \/ Admin \/ AdminRead

Spec == Init /\ [][Next]_vars

\* The broker and the groups read their queues as long as they run.
FairSpec ==
    /\ Spec
    /\ WF_vars(Pump) /\ WF_vars(AdminRead)
    /\ \A g \in Group : WF_vars(Connect(g)) /\ WF_vars(Tell(g) \/ Resolve(g) \/ Inform(g))

-----------------------------------------------------------------------------
(* Properties.                                                             *)

\* Every variable of the broker stays in its type: there is at most one group of a queue
\* and one request of a transaction under way, with a stage for every group it went to.
TypeOK ==
    /\ mode \in {"startup", "pump", "admin", "ended"}
    /\ groups \subseteq Group
    /\ \A n \in Name : Cardinality(queues[n]) <= 1
    /\ \A t \in Trid : involved[t] \subseteq Group
    /\ \A t \in Trid : /\ Cardinality(correlation[t]) <= 1
                       /\ \A corr \in correlation[t] :
                             /\ corr.caller \in Proxy
                             /\ corr.stage \in [DOMAIN corr.stage -> {"pending", "error", "replied"}]
    /\ asked \subseteq Group
    /\ \A p \in Proxy : proxy[p].result \in Result \cup {"none"}

\* The groups together are one resource: when the xa call returns XA_OK, or XAER_NOTA, every
\* group that had work in the transaction when it was made has done what was asked, however
\* many groups, failed sends and earlier requests there were, until a group has failed or
\* died and XAER_RMFAIL has said so (transaction::reply, transaction::request).
AnswerTrue ==
    \A p \in Proxy :
        /\ proxy[p].stage = "answered" /\ proxy[p].result \in {"XA_OK", "XAER_NOTA"}
        /\ proxy[p].trid \notin failed
        => owed[proxy[p].trid] = {}

\* "XAER_NOTA - trid: ... could not be found", also after XAER_RMFAIL. It does not hold: the
\* groups involved are forgotten when all have replied, the one that failed as well.
AnswerAlwaysTrue ==
    \A p \in Proxy :
        proxy[p].stage = "answered" /\ proxy[p].result \in {"XA_OK", "XAER_NOTA"}
        => owed[proxy[p].trid] = {}

\* A group the broker waits for has the request before it or its reply on the way, exactly
\* one of them, unless it has died or the reply was overwritten in the cache (Device::cache).
PendingAccounted ==
    \A t \in Trid \ merged : \A corr \in correlation[t] : \A g \in alive \cap DOMAIN corr.stage :
        LET unread == {i \in DOMAIN toGroup[g] : toGroup[g][i].trid = t}
            replies(q) == {i \in DOMAIN q : q[i].kind = "reply" /\ q[i].trid = t /\ q[i].from = g}
        IN  Cardinality(unread) + Cardinality(replies(cache)) + Cardinality(replies(inbox))
                = (IF corr.stage[g] = "pending" THEN 1 ELSE 0)

\* A queue is only given to a client while its group is connected (process::Exit), and a
\* queue with one owner that is connected is given away.
QueuesServed ==
    \A n \in Name :
        /\ queues[n] \subseteq groups
        /\ \A g \in groups : {h \in Group : n \in Owns[h]} = {g} => queues[n] = {g}

\* A proxy that waits is answered, unless a group has died, the broker has ended or a reply
\* was overwritten.
Answered ==
    \A p \in Proxy :
        proxy[p].stage = "waiting" ~>
            \/ proxy[p].stage # "waiting"
            \/ mode = "ended" \/ ~ Group \subseteq alive \/ merged # {} \/ p \notin alive

\* "Make sure we correlate the coming replies": as long as no process dies, a proxy that
\* waits is answered.
AlwaysAnswered == \A p \in Proxy : proxy[p].stage = "waiting" ~> proxy[p].stage # "waiting"
=============================================================================

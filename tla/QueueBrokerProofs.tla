--------------------------- MODULE QueueBrokerProofs ---------------------------
(***************************************************************************)
(* Proofs about the queue broker, for any groups, clients, proxies and     *)
(* transactions, whoever dies and whatever messages cross:                 *)
(*                                                                         *)
(*   BrokerTypes       []TypeOK                                            *)
(*   QueuesAreServed   []QueuesServed                                      *)
(*   AnswersTrue       []AnswerTrue                                        *)
(*   RepliesAccounted  []PendingAccounted                                  *)
(*                                                                         *)
(* All follow from one inductive invariant, BrokerInv. The broker reads    *)
(* its cache before its ipc-queue, so what it has still to handle is the   *)
(* one sequence Way == cache \o inbox. A group tells the broker that it    *)
(* takes part before its client, and so before any request to end the      *)
(* transaction: in Way the message of the group stands before the request  *)
(* (Owing). A group that still has work is known to the broker, or the     *)
(* message is on the way, or the group is asked to end it (Taking). A      *)
(* request that is forwarded is a token that is before the group, in its   *)
(* reply, or used (Tokens). What is left of an earlier request can only be *)
(* there if the broker failed to reach a group, and then no later request  *)
(* of the transaction is forwarded to all (Stale).                         *)
(*                                                                         *)
(* A step changes Way by a few messages; Moves(N, L) says which, and a     *)
(* lemma per part of the invariant says what that part needs of the step.  *)
(***************************************************************************)
EXTENDS QueueBroker, FiniteSetTheorems, TLAPS

(* Messages and types.                                                     *)
\* The messages the broker gets: from clients, from groups that take part in a transaction, from
\* the proxies of the transaction manager, from groups that have done what they were asked, and
\* the answers of groups to an administrator and the deaths of groups.
LookupMessage == [kind : {"lookup"}, from : Client, name : Name]
InvolvedMessage == [kind : {"involved"}, from : Group, trid : Trid]
RequestMessage == [kind : {"request"}, from : Proxy, trid : Trid, op : Operation, number : Nat]
ReplyMessage ==
    [kind : {"reply"}, from : Group, trid : Trid, number : Nat, state : {"XA_OK", "XAER_RMFAIL"}]
GroupMessage == [kind : {"information", "exit"}, from : Group]
Message == LookupMessage \cup InvolvedMessage \cup RequestMessage \cup ReplyMessage \cup GroupMessage

\* A request in the ipc-queue of a group.
Pledge == [trid : Trid, number : Nat]

\* What a client and a proxy are doing.
ClientState ==
    [stage : {"idle", "lookup", "found", "missing", "work"}, trid : Trid \cup {"none"},
     name : Name \cup {"none"}, group : Group \cup {"none"}, work : Nat]
ProxyState ==
    [stage : {"idle", "waiting", "answered"}, trid : Trid \cup {"none"},
     op : Operation \cup {"none"}, result : Result \cup {"none"}]

\* State::correlation: who asked, and how far each group has come.
CorrelationType(corr) ==
    /\ corr = [caller |-> corr.caller, stage |-> corr.stage]
    /\ corr.caller \in Proxy
    /\ DOMAIN corr.stage \subseteq Group
    /\ corr.stage \in [DOMAIN corr.stage -> {"pending", "error", "replied"}]

\* The broker's device: the cache and the ipc-queue.
Channels == cache \in Seq(Message) /\ inbox \in Seq(Message)

\* The type of every variable.
TypeInv ==
    /\ mode \in {"startup", "pump", "admin", "ended"}
    /\ groups \in SUBSET Group /\ queues \in [Name -> SUBSET Group]
    /\ involved \in [Trid -> SUBSET Group]
    /\ DOMAIN correlation = Trid
    /\ \A t \in Trid : \A corr \in correlation[t] : CorrelationType(corr)
    /\ Channels
    /\ asked \in SUBSET Group /\ ended \in SUBSET Group
    /\ toGroup \in [Group -> Seq(Pledge)]
    /\ active \in [Group -> SUBSET Trid]
    /\ telling \in [Group -> SUBSET Client]
    /\ client \in [Client -> ClientState]
    /\ \A c \in Client : client[c].stage # "idle" => client[c].trid \in Trid
    /\ proxy \in [Proxy -> ProxyState]
    /\ \A p \in Proxy : proxy[p].stage # "idle" => proxy[p].trid \in Trid
    /\ requests \in [Trid -> Nat]
    /\ owed \in [Trid -> SUBSET Group]
    /\ failed \in SUBSET Trid
    /\ DOMAIN decision = Trid

\* What the broker has still to handle, in order.
Way == cache \o inbox

\* The lookups, requests and replies on the way, and the messages that tell of a group g that
\* takes part in transaction t.
Ask(k) == k \in 1 .. Len(Way) /\ Way[k].kind = "lookup"
Req(k) == k \in 1 .. Len(Way) /\ Way[k].kind = "request"
Rep(k) == k \in 1 .. Len(Way) /\ Way[k].kind = "reply"
Inv(k, g, t) ==
    k \in 1 .. Len(Way) /\ Way[k].kind = "involved" /\ Way[k].from = g /\ Way[k].trid = t

\* A queue has at most one group, one of its owners that is connected.
Registry ==
    /\ QueuesServed
    /\ \A n \in Name : \A g \in queues[n] : n \in Owns[g]
    /\ \A n \in Name : \A g, h \in queues[n] : g = h

\* A group works for one client at most and a client waits for one lookup at most.
Working ==
    /\ \A g \in Group : \A c \in telling[g] : client[c].stage = "work"
    /\ \A g, h \in Group : \A c \in telling[g], d \in telling[h] : g = h <=> c = d
    /\ \A k \in 1 .. Len(Way) : Ask(k) /\ Way[k].from \in alive => client[Way[k].from].stage = "lookup"
    /\ \A j, k \in 1 .. Len(Way) :
          Ask(j) /\ Ask(k) /\ Way[j].from = Way[k].from /\ Way[k].from \in alive => j = k

\* A death is noticed when the group is dead.
Dead ==
    /\ ended \cap alive = {}
    /\ \A k \in 1 .. Len(Way) : Way[k].kind = "exit" => Way[k].from \notin alive

\* Work of transaction t is in the database of group g, and its client has been answered.
Left(g, t) == t \in active[g] /\ \A c \in telling[g] : client[c].trid # t

\* The broker knows that g takes part in t, or the message that tells of it is on the way, or the
\* proxy has been told that a group has failed.
Known(g, t) == g \in involved[t] \/ t \in failed \/ \E k \in 1 .. Len(Way) : Inv(k, g, t)

\* The broker has asked g to end t and has not read that it has.
Asked(g, t) == \E corr \in correlation[t] : g \in DOMAIN corr.stage /\ corr.stage[g] # "replied"

\* A group has done what the last request of the transaction asks for.
Done(k) == Rep(k) /\ Way[k].number = requests[Way[k].trid] /\ Way[k].state = "XA_OK"

\* A group that has work left in a transaction is known to the broker or is asked to end it: the
\* message that tells of it is sent before rm::enqueue and rm::dequeue return, and the broker
\* only forgets the groups that it asks. A group that has done its part has work again only if
\* it has told so again.
Taking ==
    /\ \A g \in Group, t \in Trid : Left(g, t) => Known(g, t) \/ Asked(g, t)
    /\ \A k \in 1 .. Len(Way) :
          Done(k) /\ Left(Way[k].from, Way[k].trid) => Known(Way[k].from, Way[k].trid)

\* A transaction has one proxy and one request at most: it is on the way or in a correlation,
\* never in both, and the proxy waits for it.
Waiting ==
    /\ \A p, q \in Proxy :
          proxy[p].stage # "idle" /\ proxy[q].stage # "idle" /\ proxy[p].trid = proxy[q].trid => p = q
    /\ \A k \in 1 .. Len(Way) : Req(k) =>
          /\ proxy[Way[k].from].stage = "waiting" /\ proxy[Way[k].from].trid = Way[k].trid
          /\ Way[k].number = requests[Way[k].trid] /\ correlation[Way[k].trid] = {}
    /\ \A j, k \in 1 .. Len(Way) : Req(j) /\ Req(k) /\ Way[j].trid = Way[k].trid => j = k
    /\ \A t \in Trid : \A corr \in correlation[t] :
          proxy[corr.caller].stage = "waiting" /\ proxy[corr.caller].trid = t
    /\ \A t \in Trid : \A x, y \in correlation[t] : x = y

\* What the groups owe (owed) is known when the request is read: the messages that tell of them
\* are before it. While the broker waits, nobody who owes has replied. A transaction is excepted
\* when the proxy has been told that a group has failed.
Owing ==
    /\ \A k \in 1 .. Len(Way) : Req(k) /\ Way[k].trid \notin failed =>
          \A g \in owed[Way[k].trid] :
              \/ g \in involved[Way[k].trid]
              \/ \E j \in 1 .. Len(Way) : j < k /\ Inv(j, g, Way[k].trid)
    /\ \A t \in Trid \ failed : \A corr \in correlation[t] :
          /\ owed[t] \subseteq DOMAIN corr.stage
          /\ \A g \in owed[t] : corr.stage[g] # "replied"
    /\ \A k \in 1 .. Len(Way) :
          Rep(k) /\ Way[k].number = requests[Way[k].trid] /\ Way[k].state = "XA_OK" =>
              Way[k].from \notin owed[Way[k].trid]
    /\ AnswerTrue

\* A request to a group, by group, transaction and number, is there once: before the group, as its
\* reply, or not at all. Numbers only grow.
Tokens ==
    /\ \A g \in Group : \A i \in DOMAIN toGroup[g] : toGroup[g][i].number <= requests[toGroup[g][i].trid]
    /\ \A k \in 1 .. Len(Way) : Rep(k) => Way[k].number <= requests[Way[k].trid]
    /\ \A g \in Group : \A i, j \in DOMAIN toGroup[g] : toGroup[g][i] = toGroup[g][j] => i = j
    /\ \A g \in Group : \A i \in DOMAIN toGroup[g] : \A k \in 1 .. Len(Way) :
          ~ (/\ Rep(k) /\ Way[k].from = g
             /\ Way[k].trid = toGroup[g][i].trid /\ Way[k].number = toGroup[g][i].number)
    /\ \A j, k \in 1 .. Len(Way) :
          Rep(j) /\ Rep(k) /\ Way[j].from = Way[k].from /\ Way[j].trid = Way[k].trid
              /\ Way[j].number = Way[k].number => j = k
    /\ \A k \in 1 .. Len(Way) : Req(k) =>
          /\ \A g \in Group : \A i \in DOMAIN toGroup[g] :
                toGroup[g][i].trid = Way[k].trid => toGroup[g][i].number # Way[k].number
          /\ \A j \in 1 .. Len(Way) :
                Rep(j) /\ Way[j].trid = Way[k].trid => Way[j].number # Way[k].number

\* A group that takes part in the transaction cannot be reached.
Broken(t) == ~ involved[t] \subseteq reachable

\* A request or reply of an earlier request is only left where a group could not be reached.
Stale ==
    /\ \A j, k \in 1 .. Len(Way) : Req(k) /\ Rep(j) /\ k < j /\ Way[j].trid = Way[k].trid =>
          Broken(Way[k].trid)
    /\ \A g \in alive \cap Group : \A i \in DOMAIN toGroup[g] :
          correlation[toGroup[g][i].trid] = {} => Broken(toGroup[g][i].trid)

\* While the broker waits, every request and reply of the transaction is of this request and of a
\* group that is pending; and a group that is pending has one.
Pending ==
    /\ \A t \in Trid : \A corr \in correlation[t] : \A k \in 1 .. Len(Way) :
          Rep(k) /\ Way[k].trid = t =>
              /\ Way[k].number = requests[t] /\ Way[k].from \in DOMAIN corr.stage
              /\ Way[k].from \in alive => corr.stage[Way[k].from] = "pending"
    /\ \A t \in Trid : \A corr \in correlation[t] : \A g \in alive \cap Group : \A i \in DOMAIN toGroup[g] :
          toGroup[g][i].trid = t =>
              /\ toGroup[g][i].number = requests[t] /\ g \in DOMAIN corr.stage
              /\ corr.stage[g] = "pending"
    /\ \A t \in Trid \ merged : \A corr \in correlation[t] : \A g \in alive \cap DOMAIN corr.stage :
          corr.stage[g] = "pending" =>
              \/ \E i \in DOMAIN toGroup[g] : toGroup[g][i].trid = t
              \/ \E k \in 1 .. Len(Way) : Rep(k) /\ Way[k].trid = t /\ Way[k].from = g

-----------------------------------------------------------------------------
(* Types.                                                                  *)

\* The kind of a message says what it holds.
LEMMA Kinds ==
    ASSUME NEW m \in Message
    PROVE  /\ m.kind = "lookup" => m \in LookupMessage
           /\ m.kind = "involved" => m \in InvolvedMessage
           /\ m.kind = "request" => m \in RequestMessage
           /\ m.kind = "reply" => m \in ReplyMessage
           /\ m.kind \in {"information", "exit"} => m \in GroupMessage
BY DEF Message, LookupMessage, InvolvedMessage, RequestMessage, ReplyMessage, GroupMessage

\* blocking_next reads the cache before the ipc-queue.
LEMMA DequeuedCases ==
    ASSUME NEW m, Dequeued(m)
    PROVE  \/ cache # <<>> /\ m = Head(cache) /\ cache' = Tail(cache) /\ inbox' = inbox
           \/ cache = <<>> /\ inbox # <<>> /\ m = Head(inbox) /\ inbox' = Tail(inbox) /\ cache' = cache
BY Zenon DEF Dequeued

\* What Head and Tail of a sequence that is not empty are.
LEMMA HeadTail ==
    ASSUME NEW S, NEW q \in Seq(S), q # <<>>
    PROVE  /\ Len(q) \in Nat /\ Len(q) > 0 /\ Head(q) \in S /\ Head(q) = q[1]
           /\ Tail(q) \in Seq(S) /\ Len(Tail(q)) = Len(q) - 1
           /\ \A k \in 1 .. Len(q) - 1 : Tail(q)[k] = q[k + 1]
OBVIOUS

\* Reading a message leaves messages.
LEMMA DequeuedType ==
    ASSUME cache \in Seq(Message), inbox \in Seq(Message), NEW m, Dequeued(m)
    PROVE  m \in Message /\ cache' \in Seq(Message) /\ inbox' \in Seq(Message)
<1>1. CASE cache # <<>> /\ m = Head(cache) /\ cache' = Tail(cache) /\ inbox' = inbox
    <2>1. Head(cache) \in Message /\ Tail(cache) \in Seq(Message)
        BY <1>1, HeadTail
    <2> QED BY <1>1, <2>1
<1>2. CASE cache = <<>> /\ inbox # <<>> /\ m = Head(inbox) /\ inbox' = Tail(inbox) /\ cache' = cache
    <2>1. Head(inbox) \in Message /\ Tail(inbox) \in Seq(Message)
        BY <1>2, HeadTail
    <2> QED BY <1>2, <2>1
<1> QED BY <1>1, <1>2, DequeuedCases

\* What an answer makes of the state of a proxy.
LEMMA AnsweredState ==
    ASSUME NEW s \in ProxyState, NEW r \in Result
    PROVE  LET a == [s EXCEPT !.stage = "answered", !.result = r]
           IN  a \in ProxyState /\ a.stage = "answered" /\ a.trid = s.trid /\ a.result = r
<1> DEFINE b == [s EXCEPT !.stage = "answered"]
<1>1. b \in ProxyState /\ b.stage = "answered" /\ b.trid = s.trid
    BY DEF ProxyState
<1>2. [s EXCEPT !.stage = "answered", !.result = r] = [b EXCEPT !.result = r]
    BY Zenon
<1> HIDE DEF b
<1>3. /\ [b EXCEPT !.result = r] \in ProxyState /\ [b EXCEPT !.result = r].stage = "answered"
      /\ [b EXCEPT !.result = r].trid = b.trid /\ [b EXCEPT !.result = r].result = r
    BY <1>1 DEF ProxyState
<1> QED BY <1>1, <1>2, <1>3, Zenon


-----------------------------------------------------------------------------
(* How a step changes what the broker has still to handle.                 *)

\* The elements of a concatenation.
LEMMA Concat ==
    ASSUME NEW S, NEW q \in Seq(S), NEW r \in Seq(S)
    PROVE  /\ q \o r \in Seq(S) /\ Len(q \o r) = Len(q) + Len(r)
           /\ Len(q) \in Nat /\ Len(r) \in Nat
           /\ \A k \in 1 .. Len(q) + Len(r) : (q \o r)[k] = IF k <= Len(q) THEN q[k] ELSE r[k - Len(q)]
OBVIOUS

\* What is on the way is first what the cache holds, then what the ipc-queue holds.
LEMMA WayParts ==
    ASSUME Channels
    PROVE  /\ Way \in Seq(Message) /\ Len(Way) = Len(cache) + Len(inbox)
           /\ Len(cache) \in Nat /\ Len(inbox) \in Nat
           /\ \A k \in 1 .. Len(Way) : Way[k] = IF k <= Len(cache) THEN cache[k] ELSE inbox[k - Len(cache)]
BY Concat DEF Way, Channels

\* Every message of Way' that is not in N was in Way, in the same order, and every message
\* of Way that is not in L is in Way'.
Embeds(f, N, L) ==
    /\ \A k \in 1 .. Len(Way') : f[k] = 0 => Way'[k] \in N
    /\ \A k \in 1 .. Len(Way') : f[k] # 0 => f[k] \in 1 .. Len(Way) /\ Way'[k] = Way[f[k]]
    /\ \A j, k \in 1 .. Len(Way') : j < k /\ f[j] # 0 /\ f[k] # 0 => f[j] < f[k]
    /\ \A j \in 1 .. Len(Way) : Way[j] \in L \/ \E k \in 1 .. Len(Way') : f[k] = j

\* A step that adds no more than N to the way and removes no more than L.
Moves(N, L) == \E f \in [1 .. Len(Way') -> Nat] : Embeds(f, N, L)

\* A step that leaves cache and ipc-queue alone moves no message.
LEMMA SameMoves ==
    ASSUME Channels, cache' = cache, inbox' = inbox
    PROVE  Way' = Way /\ Moves({}, {})
<1>1. Way' = Way
    BY DEF Way
<1>2. Len(Way) \in Nat
    BY WayParts
<1> DEFINE f == [k \in 1 .. Len(Way) |-> k]
<1>3. f \in [1 .. Len(Way') -> Nat]
    BY <1>1, <1>2
<1>4. Embeds(f, {}, {})
    BY <1>1, <1>2 DEF Embeds
<1> QED BY <1>1, <1>3, <1>4 DEF Moves

\* A message is sent to the broker.
LEMMA SendMoves ==
    ASSUME Channels, NEW m \in Message, inbox' = Append(inbox, m), cache' = cache
    PROVE  /\ Channels' /\ Len(Way) \in Nat /\ Len(Way') = Len(Way) + 1
           /\ \A k \in 1 .. Len(Way) : Way'[k] = Way[k]
           /\ Way'[Len(Way) + 1] = m
           /\ Moves({m}, {})
<1>1. inbox' \in Seq(Message) /\ Len(inbox') = Len(inbox) + 1 /\ inbox'[Len(inbox) + 1] = m
      /\ \A k \in 1 .. Len(inbox) : inbox'[k] = inbox[k]
    BY DEF Channels
<1>2. Channels'
    BY <1>1 DEF Channels
<1>3. /\ Len(Way') = Len(cache) + Len(inbox')
      /\ \A k \in 1 .. Len(Way') : Way'[k] = IF k <= Len(cache) THEN cache[k] ELSE inbox'[k - Len(cache)]
    BY <1>2, Concat DEF Way, Channels
<1>4. Len(Way) \in Nat /\ Len(Way') = Len(Way) + 1
    BY <1>1, <1>3, WayParts
<1>9. /\ Len(cache) \in Nat /\ Len(inbox) \in Nat /\ Len(Way) = Len(cache) + Len(inbox)
      /\ \A k \in 1 .. Len(Way) : Way[k] = IF k <= Len(cache) THEN cache[k] ELSE inbox[k - Len(cache)]
    BY WayParts
<1>5. \A k \in 1 .. Len(Way) : Way'[k] = Way[k]
    <2> SUFFICES ASSUME NEW k \in 1 .. Len(Way) PROVE Way'[k] = Way[k]
        OBVIOUS
    <2>1. k \in 1 .. Len(Way')
        BY <1>4
    <2>2. CASE k <= Len(cache)
        BY <1>3, <1>9, <2>1, <2>2
    <2>3. CASE ~ k <= Len(cache)
        <3>1. k - Len(cache) \in 1 .. Len(inbox)
            BY <1>9, <2>3
        <3> QED BY <1>1, <1>3, <1>9, <2>1, <2>3, <3>1
    <2> QED BY <2>2, <2>3
<1>6. Way'[Len(Way) + 1] = m
    <2>1. Len(Way) + 1 \in 1 .. Len(Way') /\ ~ Len(Way) + 1 <= Len(cache)
          /\ (Len(Way) + 1) - Len(cache) = Len(inbox) + 1
        BY <1>4, <1>9
    <2> QED BY <1>1, <1>3, <2>1
<1> DEFINE f == [k \in 1 .. Len(Way') |-> IF k <= Len(Way) THEN k ELSE 0]
<1>7. f \in [1 .. Len(Way') -> Nat]
    BY <1>4
<1>8. Embeds(f, {m}, {})
    BY <1>4, <1>5, <1>6 DEF Embeds
<1> QED BY <1>2, <1>4, <1>5, <1>6, <1>7, <1>8 DEF Moves

\* The broker takes the first message.
LEMMA ReadMoves ==
    ASSUME Channels, NEW m, Dequeued(m)
    PROVE  /\ Channels' /\ m \in Message /\ 1 \in 1 .. Len(Way) /\ Way[1] = m
           /\ Len(Way') \in Nat /\ Len(Way') = Len(Way) - 1
           /\ \A k \in 1 .. Len(Way') : Way'[k] = Way[k + 1]
           /\ Moves({}, {m})
<1>1. m \in Message /\ Channels'
    BY DequeuedType DEF Channels
<1>2. /\ Len(Way') = Len(cache') + Len(inbox')
      /\ \A k \in 1 .. Len(Way') : Way'[k] = IF k <= Len(cache') THEN cache'[k] ELSE inbox'[k - Len(cache')]
    BY <1>1, Concat DEF Way, Channels
<1>3. /\ 1 \in 1 .. Len(Way) /\ Way[1] = m /\ Len(Way') \in Nat /\ Len(Way') = Len(Way) - 1
      /\ \A k \in 1 .. Len(Way') : Way'[k] = Way[k + 1]
    <2>1. CASE cache # <<>> /\ m = Head(cache) /\ cache' = Tail(cache) /\ inbox' = inbox
        <3>1. /\ Len(cache) > 0 /\ Head(cache) = cache[1] /\ Len(Tail(cache)) = Len(cache) - 1
              /\ \A k \in 1 .. Len(cache) - 1 : Tail(cache)[k] = cache[k + 1]
            BY <2>1, HeadTail DEF Channels
        <3> QED BY <1>2, <2>1, <3>1, WayParts
    <2>2. CASE cache = <<>> /\ inbox # <<>> /\ m = Head(inbox) /\ inbox' = Tail(inbox) /\ cache' = cache
        <3>1. /\ Len(inbox) > 0 /\ Head(inbox) = inbox[1] /\ Len(Tail(inbox)) = Len(inbox) - 1
              /\ \A k \in 1 .. Len(inbox) - 1 : Tail(inbox)[k] = inbox[k + 1]
            BY <2>2, HeadTail DEF Channels
        <3> QED BY <1>2, <2>2, <3>1, WayParts
    <2> QED BY <2>1, <2>2, DequeuedCases
<1> DEFINE f == [k \in 1 .. Len(Way') |-> k + 1]
<1>4. f \in [1 .. Len(Way') -> Nat]
    BY <1>3
<1>5. Embeds(f, {}, {m})
    <2>1. \A k \in 1 .. Len(Way') : f[k] # 0
        BY <1>3
    <2>2. \A j \in 1 .. Len(Way) : Way[j] \in {m} \/ \E k \in 1 .. Len(Way') : f[k] = j
        <3> SUFFICES ASSUME NEW j \in 1 .. Len(Way), j # 1 PROVE \E k \in 1 .. Len(Way') : f[k] = j
            BY <1>3
        <3>1. j - 1 \in 1 .. Len(Way') /\ f[j - 1] = j
            BY <1>3, WayParts
        <3> QED BY <3>1
    <2> QED BY <1>3, <2>1, <2>2 DEF Embeds
<1> QED BY <1>1, <1>3, <1>4, <1>5 DEF Moves

\* A message is put at the end of the cache.
LEMMA InsertMoves ==
    ASSUME Channels, NEW m \in Message, cache' = Append(cache, m), inbox' = inbox
    PROVE  Channels' /\ Moves({m}, {})
<1>1. cache' \in Seq(Message) /\ Len(cache') = Len(cache) + 1 /\ cache'[Len(cache) + 1] = m
      /\ \A k \in 1 .. Len(cache) : cache'[k] = cache[k]
    BY DEF Channels
<1>2. Channels'
    BY <1>1 DEF Channels
<1>3. /\ Len(Way') = Len(cache') + Len(inbox)
      /\ \A k \in 1 .. Len(Way') : Way'[k] = IF k <= Len(cache') THEN cache'[k] ELSE inbox[k - Len(cache')]
    BY <1>2, Concat DEF Way, Channels
<1>4. /\ Len(cache) \in Nat /\ Len(inbox) \in Nat /\ Len(Way) = Len(cache) + Len(inbox)
      /\ \A k \in 1 .. Len(Way) : Way[k] = IF k <= Len(cache) THEN cache[k] ELSE inbox[k - Len(cache)]
    BY WayParts
<1> DEFINE c == Len(cache)
           f == [k \in 1 .. Len(Way') |-> IF k <= c THEN k ELSE IF k = c + 1 THEN 0 ELSE k - 1]
<1>5. f \in [1 .. Len(Way') -> Nat]
    BY <1>1, <1>3, <1>4
<1>6. \A k \in 1 .. Len(Way') : f[k] = 0 => Way'[k] \in {m}
    BY <1>1, <1>3, <1>4
<1>7. \A k \in 1 .. Len(Way') : f[k] # 0 => f[k] \in 1 .. Len(Way) /\ Way'[k] = Way[f[k]]
    <2> SUFFICES ASSUME NEW k \in 1 .. Len(Way'), f[k] # 0
                 PROVE  f[k] \in 1 .. Len(Way) /\ Way'[k] = Way[f[k]]
        OBVIOUS
    <2>1. CASE k <= c
        <3>1. f[k] = k /\ k \in 1 .. Len(cache) /\ k \in 1 .. Len(Way) /\ k <= Len(cache')
            BY <1>1, <1>4, <2>1
        <3>2. Way'[k] = cache'[k] /\ Way[k] = cache[k]
            BY <1>3, <1>4, <2>1, <3>1
        <3> QED BY <1>1, <3>1, <3>2
    <2>2. CASE k > c + 1
        <3>1. f[k] = k - 1 /\ k - 1 \in 1 .. Len(Way) /\ ~ k - 1 <= c /\ ~ k <= Len(cache')
              /\ k - Len(cache') = (k - 1) - c
            BY <1>1, <1>3, <1>4, <2>2
        <3>2. Way'[k] = inbox[k - Len(cache')] /\ Way[k - 1] = inbox[(k - 1) - c]
            BY <1>3, <1>4, <3>1
        <3> QED BY <3>1, <3>2
    <2> QED BY <1>1, <1>3, <1>4, <2>1, <2>2
<1>8. \A j, k \in 1 .. Len(Way') : j < k /\ f[j] # 0 /\ f[k] # 0 => f[j] < f[k]
    BY <1>1, <1>3, <1>4
<1>9. \A j \in 1 .. Len(Way) : \E k \in 1 .. Len(Way') : f[k] = j
    <2> SUFFICES ASSUME NEW j \in 1 .. Len(Way) PROVE \E k \in 1 .. Len(Way') : f[k] = j
        OBVIOUS
    <2>1. CASE j <= c
        <3>1. j \in 1 .. Len(Way') /\ f[j] = j
            BY <1>1, <1>3, <1>4, <2>1
        <3> QED BY <3>1
    <2>2. CASE j > c
        <3>1. j + 1 \in 1 .. Len(Way') /\ f[j + 1] = j
            BY <1>1, <1>3, <1>4, <2>2
        <3> QED BY <3>1
    <2> QED BY <1>4, <2>1, <2>2
<1> HIDE DEF f
<1>10. Embeds(f, {m}, {})
    BY <1>6, <1>7, <1>8, <1>9 DEF Embeds
<1> QED BY <1>2, <1>5, <1>10 DEF Moves

\* The first message of the ipc-queue is read past the cache and not kept.
LEMMA DropMoves ==
    ASSUME Channels, inbox # <<>>, cache' = cache, inbox' = Tail(inbox)
    PROVE  Channels' /\ Head(inbox) \in Message /\ Moves({}, {Head(inbox)})
<1>1. /\ Len(inbox) > 0 /\ Head(inbox) = inbox[1] /\ Head(inbox) \in Message
      /\ inbox' \in Seq(Message) /\ Len(inbox') = Len(inbox) - 1
      /\ \A k \in 1 .. Len(inbox) - 1 : inbox'[k] = inbox[k + 1]
    BY HeadTail DEF Channels
<1>2. Channels'
    BY <1>1 DEF Channels
<1>3. /\ Len(Way') = Len(cache) + Len(inbox')
      /\ \A k \in 1 .. Len(Way') : Way'[k] = IF k <= Len(cache) THEN cache[k] ELSE inbox'[k - Len(cache)]
    BY <1>2, Concat DEF Way, Channels
<1>4. /\ Len(cache) \in Nat /\ Len(inbox) \in Nat /\ Len(Way) = Len(cache) + Len(inbox)
      /\ \A k \in 1 .. Len(Way) : Way[k] = IF k <= Len(cache) THEN cache[k] ELSE inbox[k - Len(cache)]
    BY WayParts
<1> DEFINE c == Len(cache)
           f == [k \in 1 .. Len(Way') |-> IF k <= c THEN k ELSE k + 1]
<1>5. f \in [1 .. Len(Way') -> Nat] /\ \A k \in 1 .. Len(Way') : f[k] # 0
    BY <1>1, <1>3, <1>4
<1>7. \A k \in 1 .. Len(Way') : f[k] \in 1 .. Len(Way) /\ Way'[k] = Way[f[k]]
    <2> SUFFICES ASSUME NEW k \in 1 .. Len(Way')
                 PROVE  f[k] \in 1 .. Len(Way) /\ Way'[k] = Way[f[k]]
        OBVIOUS
    <2>1. CASE k <= c
        BY <1>1, <1>3, <1>4, <2>1
    <2>2. CASE k > c
        <3>1. f[k] = k + 1 /\ k + 1 \in 1 .. Len(Way) /\ ~ k + 1 <= c
              /\ k - c \in 1 .. Len(inbox) - 1 /\ (k - c) + 1 = (k + 1) - c
            BY <1>1, <1>3, <1>4, <2>2
        <3>2. Way'[k] = inbox'[k - c] /\ Way[k + 1] = inbox[(k + 1) - c]
            BY <1>3, <1>4, <2>2, <3>1
        <3> QED BY <1>1, <3>1, <3>2
    <2> QED BY <1>4, <2>1, <2>2
<1>8. \A j, k \in 1 .. Len(Way') : j < k => f[j] < f[k]
    BY <1>1, <1>3, <1>4
<1>9. \A j \in 1 .. Len(Way) : Way[j] = Head(inbox) \/ \E k \in 1 .. Len(Way') : f[k] = j
    <2> SUFFICES ASSUME NEW j \in 1 .. Len(Way)
                 PROVE  Way[j] = Head(inbox) \/ \E k \in 1 .. Len(Way') : f[k] = j
        OBVIOUS
    <2>1. CASE j <= c
        <3>1. j \in 1 .. Len(Way') /\ f[j] = j
            BY <1>1, <1>3, <1>4, <2>1
        <3> QED BY <3>1
    <2>2. CASE j = c + 1
        BY <1>1, <1>4, <2>2
    <2>3. CASE j > c + 1
        <3>1. j - 1 \in 1 .. Len(Way') /\ f[j - 1] = j
            BY <1>1, <1>3, <1>4, <2>3
        <3> QED BY <3>1
    <2> QED BY <1>4, <2>1, <2>2, <2>3
<1> HIDE DEF f
<1>10. Embeds(f, {}, {Head(inbox)})
    BY <1>5, <1>7, <1>8, <1>9 DEF Embeds
<1> QED BY <1>1, <1>2, <1>5, <1>10 DEF Moves

\* The first message of the ipc-queue is moved to the end of the cache.
LEMMA KeepMoves ==
    ASSUME Channels, inbox # <<>>, cache' = Append(cache, Head(inbox)), inbox' = Tail(inbox)
    PROVE  Channels' /\ Way' = Way /\ Moves({}, {})
<1>1. /\ Len(inbox) > 0 /\ Head(inbox) = inbox[1] /\ Head(inbox) \in Message
      /\ inbox' \in Seq(Message) /\ Len(inbox') = Len(inbox) - 1
      /\ \A k \in 1 .. Len(inbox) - 1 : inbox'[k] = inbox[k + 1]
    BY HeadTail DEF Channels
<1>2. cache' \in Seq(Message) /\ Len(cache') = Len(cache) + 1 /\ cache'[Len(cache) + 1] = inbox[1]
      /\ \A k \in 1 .. Len(cache) : cache'[k] = cache[k]
    BY <1>1 DEF Channels
<1>3. Channels'
    BY <1>1, <1>2 DEF Channels
<1>4. /\ Way' \in Seq(Message) /\ Len(Way') = Len(cache') + Len(inbox')
      /\ \A k \in 1 .. Len(Way') : Way'[k] = IF k <= Len(cache') THEN cache'[k] ELSE inbox'[k - Len(cache')]
    BY <1>3, Concat DEF Way, Channels
<1>5. /\ Way \in Seq(Message) /\ Len(cache) \in Nat /\ Len(inbox) \in Nat /\ Len(Way) = Len(cache) + Len(inbox)
      /\ \A k \in 1 .. Len(Way) : Way[k] = IF k <= Len(cache) THEN cache[k] ELSE inbox[k - Len(cache)]
    BY WayParts
<1>6. Len(Way') = Len(Way) /\ Len(Way) \in Nat
    BY <1>1, <1>2, <1>4, <1>5
<1>7. \A k \in 1 .. Len(Way) : Way'[k] = Way[k]
    <2> SUFFICES ASSUME NEW k \in 1 .. Len(Way) PROVE Way'[k] = Way[k]
        OBVIOUS
    <2>0. k \in 1 .. Len(Way')
        BY <1>6
    <2>1. CASE k <= Len(cache)
        <3>1. k \in 1 .. Len(cache) /\ k <= Len(cache')
            BY <1>2, <1>5, <2>1
        <3>2. Way'[k] = cache'[k] /\ Way[k] = cache[k]
            BY <1>4, <1>5, <2>0, <2>1, <3>1
        <3> QED BY <1>2, <3>1, <3>2
    <2>2. CASE k = Len(cache) + 1
        <3>1. k <= Len(cache') /\ ~ k <= Len(cache) /\ k - Len(cache) = 1
            BY <1>2, <1>5, <2>2
        <3>2. Way'[k] = cache'[k] /\ Way[k] = inbox[1]
            BY <1>4, <1>5, <2>0, <3>1
        <3> QED BY <1>2, <2>2, <3>2
    <2>3. CASE k > Len(cache) + 1
        <3>1. k - Len(cache') \in 1 .. Len(inbox) - 1 /\ (k - Len(cache')) + 1 = k - Len(cache)
            BY <1>1, <1>2, <1>5, <2>3
        <3>2. ~ k <= Len(cache') /\ ~ k <= Len(cache)
            BY <1>2, <1>5, <2>3
        <3>3. Way'[k] = inbox'[k - Len(cache')] /\ Way[k] = inbox[k - Len(cache)]
            BY <1>4, <1>5, <2>0, <3>2
        <3> QED BY <1>1, <3>1, <3>3
    <2> QED BY <1>5, <2>1, <2>2, <2>3
<1>8. Way' = Way
    BY <1>4, <1>5, <1>6, <1>7
<1> DEFINE f == [k \in 1 .. Len(Way) |-> k]
<1>9. f \in [1 .. Len(Way') -> Nat] /\ Embeds(f, {}, {})
    BY <1>6, <1>8 DEF Embeds
<1> QED BY <1>3, <1>8, <1>9 DEF Moves

\* The first message of the ipc-queue takes the place of message i of the cache: no other
\* message of Way' stood at its place.
MergeAt(i, f, h) ==
    /\ i \in 1 .. Len(Way') /\ h \in 1 .. Len(Way) /\ i < h
    /\ f[i] = 0 /\ Way'[i] = Way[h] /\ i \in 1 .. Len(Way)
    /\ \A k \in 1 .. Len(Way') : k # i => f[k] \in 1 .. Len(Way) /\ f[k] # h /\ f[k] # i
    /\ \A k \in 1 .. Len(Way') : (k < i => f[k] < i) /\ (i < k => i < f[k])
    /\ \A k \in 1 .. Len(Way') : k # i => Way'[k] = Way[f[k]]
    /\ \A j, k \in 1 .. Len(Way') : j # i /\ k # i /\ j < k => f[j] < f[k]
    /\ \A j \in 1 .. Len(Way) : j \notin {i, h} => \E k \in 1 .. Len(Way') : f[k] = j

\* A reply that overwrites another one in the cache (Device::cache) takes its place there and
\* leaves its own in the ipc-queue; the other messages keep their order.
LEMMA MergeMoves ==
    ASSUME Channels, inbox # <<>>, NEW i \in DOMAIN cache,
           cache' = [cache EXCEPT ![i] = Head(inbox)], inbox' = Tail(inbox)
    PROVE  /\ Channels' /\ Way[i] = cache[i]
           /\ \E f \in [1 .. Len(Way') -> Nat], h \in 1 .. Len(Way) :
                 MergeAt(i, f, h) /\ Way[h] = Head(inbox)
<1>1. /\ Len(inbox) > 0 /\ Head(inbox) = inbox[1] /\ Head(inbox) \in Message
      /\ inbox' \in Seq(Message) /\ Len(inbox') = Len(inbox) - 1
      /\ \A k \in 1 .. Len(inbox) - 1 : inbox'[k] = inbox[k + 1]
    BY HeadTail DEF Channels
<1>2. /\ i \in 1 .. Len(cache)
      /\ cache' \in Seq(Message) /\ Len(cache') = Len(cache) /\ cache'[i] = inbox[1]
      /\ \A k \in 1 .. Len(cache) : k # i => cache'[k] = cache[k]
    BY <1>1 DEF Channels
<1>3. Channels'
    BY <1>1, <1>2 DEF Channels
<1>4. /\ Len(Way') = Len(cache) + Len(inbox')
      /\ \A k \in 1 .. Len(Way') : Way'[k] = IF k <= Len(cache) THEN cache'[k] ELSE inbox'[k - Len(cache)]
    BY <1>2, <1>3, Concat DEF Way, Channels
<1>5. /\ Len(cache) \in Nat /\ Len(inbox) \in Nat /\ Len(Way) = Len(cache) + Len(inbox)
      /\ \A k \in 1 .. Len(Way) : Way[k] = IF k <= Len(cache) THEN cache[k] ELSE inbox[k - Len(cache)]
    BY WayParts
<1> DEFINE c == Len(cache)
           h == c + 1
           f == [k \in 1 .. Len(Way') |-> IF k = i THEN 0 ELSE IF k <= c THEN k ELSE k + 1]
<1>6. f \in [1 .. Len(Way') -> Nat]
    BY <1>1, <1>4, <1>5
<1>7. h \in 1 .. Len(Way) /\ Way[h] = inbox[1]
    BY <1>1, <1>5
<1>8. i \in 1 .. Len(Way') /\ i < h /\ f[i] = 0 /\ Way'[i] = inbox[1] /\ i \in 1 .. Len(Way) /\ Way[i] = cache[i]
    BY <1>1, <1>2, <1>4, <1>5
<1>9. \A k \in 1 .. Len(Way') : k # i => f[k] \in 1 .. Len(Way) /\ f[k] # h /\ f[k] # i
    BY <1>1, <1>2, <1>4, <1>5
<1>10. \A k \in 1 .. Len(Way') : (k < i => f[k] < i) /\ (i < k => i < f[k])
    BY <1>1, <1>2, <1>4, <1>5
<1>11. \A k \in 1 .. Len(Way') : k # i => Way'[k] = Way[f[k]]
    <2> SUFFICES ASSUME NEW k \in 1 .. Len(Way'), k # i PROVE Way'[k] = Way[f[k]]
        OBVIOUS
    <2>1. CASE k <= c
        <3>1. f[k] = k /\ k \in 1 .. Len(cache) /\ k \in 1 .. Len(Way)
            BY <1>5, <2>1
        <3>2. Way'[k] = cache'[k] /\ Way[k] = cache[k]
            BY <1>4, <1>5, <2>1, <3>1
        <3> QED BY <1>2, <3>1, <3>2
    <2>2. CASE k > c
        <3>1. f[k] = k + 1 /\ k + 1 \in 1 .. Len(Way) /\ ~ k + 1 <= c
              /\ k - c \in 1 .. Len(inbox) - 1 /\ (k - c) + 1 = (k + 1) - c
            BY <1>1, <1>4, <1>5, <2>2
        <3>2. Way'[k] = inbox'[k - c] /\ Way[k + 1] = inbox[(k + 1) - c]
            BY <1>4, <1>5, <2>2, <3>1
        <3> QED BY <1>1, <3>1, <3>2
    <2> QED BY <1>5, <2>1, <2>2
<1>12. \A j, k \in 1 .. Len(Way') : j # i /\ k # i /\ j < k => f[j] < f[k]
    BY <1>1, <1>2, <1>4, <1>5
<1>13. \A j \in 1 .. Len(Way) : j \notin {i, h} => \E k \in 1 .. Len(Way') : f[k] = j
    <2> SUFFICES ASSUME NEW j \in 1 .. Len(Way), j # i, j # h PROVE \E k \in 1 .. Len(Way') : f[k] = j
        OBVIOUS
    <2>1. CASE j <= c
        <3>1. j \in 1 .. Len(Way') /\ f[j] = j
            BY <1>1, <1>4, <1>5, <2>1
        <3> QED BY <3>1
    <2>2. CASE j > c + 1
        <3>0. j - 1 \in 1 .. Len(Way') /\ j - 1 # i /\ ~ j - 1 <= c /\ (j - 1) + 1 = j
            BY <1>1, <1>2, <1>4, <1>5, <2>2
        <3>1. PICK k \in 1 .. Len(Way') : k # i /\ ~ k <= c /\ k + 1 = j
            BY <3>0
        <3>2. f[k] = j
            BY <3>1
        <3> QED BY <3>1, <3>2
    <2>3. j \in Int /\ c \in Int /\ j # c + 1
        BY <1>5
    <2>4. j <= c \/ j > c + 1
        BY <2>3
    <2> QED BY <2>1, <2>2, <2>4
<1> HIDE DEF f, h
<1>14. MergeAt(i, f, h)
    BY <1>7, <1>8, <1>9, <1>10, <1>11, <1>12, <1>13 DEF MergeAt
<1> QED BY <1>1, <1>3, <1>6, <1>7, <1>8, <1>14

-----------------------------------------------------------------------------
(* Types.                                                                  *)

\* What a process is about to do after Lookup.
LEMMA LookupClient ==
    ASSUME TypeInv, NEW c \in Client, NEW n \in Name, NEW t \in Trid, Lookup(c, n, t)
    PROVE  \E s \in ClientState : s.stage = "lookup" /\ s.trid = t /\ client' = [client EXCEPT ![c] = s]
<1> DEFINE o == client[c]
           a1 == [o EXCEPT !.stage = "lookup"]
           a2 == [a1 EXCEPT !.trid = t]
           a3 == [a2 EXCEPT !.name = n]
           a4 == [a3 EXCEPT !.work = o.work + 1]
<1>1. client' = [client EXCEPT ![c] = a4]
    BY Zenon DEF Lookup
<1>2. o \in ClientState
    BY DEF TypeInv
<1> HIDE DEF o
<1>3. a1 \in ClientState /\ a1.stage = "lookup"
    BY <1>2 DEF ClientState
<1> HIDE DEF a1
<1>4. a2 \in ClientState /\ a2.stage = "lookup" /\ a2.trid = t
    BY <1>3 DEF ClientState
<1> HIDE DEF a2
<1>5. a3 \in ClientState /\ a3.stage = "lookup" /\ a3.trid = t
    BY <1>4 DEF ClientState
<1> HIDE DEF a3
<1>6. a4 \in ClientState /\ a4.stage = "lookup" /\ a4.trid = t
    BY <1>2, <1>5 DEF ClientState
<1> HIDE DEF a4
<1> QED BY <1>1, <1>6

\* The answer to a lookup.
LEMMA HandleLookupClient ==
    ASSUME TypeInv, NEW m \in LookupMessage, HandleLookup(m)
    PROVE  \/ client' = client
           \/ m.from \in alive /\ \E s \in ClientState :
                 /\ s.stage \in {"missing", "found"} /\ s.trid = client[m.from].trid
                 /\ client' = [client EXCEPT ![m.from] = s]
<1> DEFINE o == client[m.from]
           missing == [o EXCEPT !.stage = "missing"]
           found == [o EXCEPT !.stage = "found"]
           g == CHOOSE g \in queues[m.name] : TRUE
           chosen == [found EXCEPT !.group = g]
<1>1. m.from \in Client /\ m.name \in Name
    BY DEF LookupMessage
<1>2. o \in ClientState /\ queues[m.name] \subseteq Group
    BY <1>1 DEF TypeInv
<1>3. \/ client' = client
      \/ m.from \in alive /\ queues[m.name] = {} /\ client' = [client EXCEPT ![m.from] = missing]
      \/ m.from \in alive /\ queues[m.name] # {} /\ client' = [client EXCEPT ![m.from] = chosen]
    BY Zenon DEF HandleLookup
<1>4. queues[m.name] # {} => g \in Group
    BY <1>2
<1> HIDE DEF g, o
<1>5. missing \in ClientState /\ missing.stage = "missing" /\ missing.trid = o.trid
    BY <1>2 DEF ClientState
<1>6. found \in ClientState /\ found.stage = "found" /\ found.trid = o.trid
    BY <1>2 DEF ClientState
<1> HIDE DEF missing, found
<1>7. g \in Group => chosen \in ClientState /\ chosen.stage = "found" /\ chosen.trid = o.trid
    BY <1>6 DEF ClientState
<1> HIDE DEF chosen
<1> QED BY <1>3, <1>4, <1>5, <1>6, <1>7 DEF o

\* The answer to an xa call.
LEMMA AnswerProxy ==
    ASSUME TypeInv, NEW p \in Proxy, NEW r \in Result, Answer(p, r)
    PROVE  /\ mode' \in {mode, "ended"}
           /\ \/ proxy' = proxy
              \/ \E s \in ProxyState : /\ s.stage = "answered" /\ s.trid = proxy[p].trid /\ s.result = r
                                       /\ proxy' = [proxy EXCEPT ![p] = s]
<1> DEFINE a == [proxy[p] EXCEPT !.stage = "answered", !.result = r]
<1>1. proxy[p] \in ProxyState
    BY DEF TypeInv
<1>2. a \in ProxyState /\ a.stage = "answered" /\ a.trid = proxy[p].trid /\ a.result = r
    BY <1>1, AnsweredState
<1>3. proxy' = proxy \/ proxy' = [proxy EXCEPT ![p] = a]
    BY Zenon DEF Answer
<1>4. mode' \in {mode, "ended"}
    BY Zenon DEF Answer
<1> HIDE DEF a
<1> QED BY <1>2, <1>3, <1>4

\* The client of a request that a group works on.
LEMMA WorkClient ==
    ASSUME TypeInv, NEW g \in Group, NEW c \in Client, Work(g, c)
    PROVE  \E s \in ClientState :
              s.stage = "work" /\ s.trid = client[c].trid /\ client' = [client EXCEPT ![c] = s]
<1> DEFINE o == client[c]
           a == [o EXCEPT !.stage = "work"]
<1>1. client' = [client EXCEPT ![c] = a]
    BY Zenon DEF Work
<1>2. o \in ClientState
    BY DEF TypeInv
<1> HIDE DEF o
<1>3. a \in ClientState /\ a.stage = "work" /\ a.trid = o.trid
    BY <1>2 DEF ClientState
<1> HIDE DEF a
<1> QED BY <1>1, <1>3 DEF o

\* A client that is done.
LEMMA FreedState ==
    ASSUME TypeInv, NEW c \in Client
    PROVE  Freed(c) \in ClientState /\ Freed(c).stage = "idle" /\ Freed(c).trid = "none"
<1>1. client[c] \in ClientState
    BY DEF TypeInv
<1>2. client[c].work \in Nat
    BY <1>1 DEF ClientState
<1> QED BY <1>2 DEF Freed, IdleClient, ClientState

\* What a group tells.
LEMMA TellClient ==
    ASSUME TypeInv, NEW g \in Group, Tell(g)
    PROVE  \E c \in telling[g] :
              /\ c \in Client /\ inbox' = Append(inbox, [kind |-> "involved", from |-> g, trid |-> client[c].trid])
              /\ \/ client' = client /\ c \notin alive
                 \/ client' = [client EXCEPT ![c] = Freed(c)]
              /\ telling' = [telling EXCEPT ![g] = {}]
              /\ UNCHANGED <<mode, groups, queues, involved, correlation, cache, asked, ended, toGroup,
                             active, proxy, alive, reachable, decision, requests, admins, owed, merged,
                             failed>>
<1>1. PICK c \in telling[g] :
              /\ inbox' = Append(inbox, [kind |-> "involved", from |-> g, trid |-> client[c].trid])
              /\ client' = [client EXCEPT ![c] = IF c \in alive THEN Freed(c) ELSE @]
              /\ telling' = [telling EXCEPT ![g] = {}]
              /\ UNCHANGED <<mode, brokerState, cache, asked, ended, toGroup, active, proxy, alive,
                             reachable, tmVars, admins, owed, merged, failed>>
    BY Zenon DEF Tell
<1>2. c \in Client
    BY DEF TypeInv
<1>3. \/ client' = client /\ c \notin alive
      \/ client' = [client EXCEPT ![c] = Freed(c)]
    <2>1. CASE c \in alive
        BY <1>1, <2>1
    <2>2. CASE c \notin alive
        BY <1>1, <1>2, <2>2 DEF TypeInv
    <2> QED BY <2>1, <2>2
<1> QED BY <1>1, <1>2, <1>3 DEF brokerState, tmVars

\* Group g answers the request r.
Resolved(g, r, state) ==
    /\ inbox' = Append(inbox, [kind |-> "reply", from |-> g, trid |-> r.trid, number |-> r.number,
                               state |-> state])
    /\ active' \in {active, [active EXCEPT ![g] = @ \ {r.trid}]}
    /\ state = "XA_OK" => active' = [active EXCEPT ![g] = @ \ {r.trid}]
    /\ owed' = IF state = "XA_OK" /\ r.number = requests[r.trid]
               THEN [owed EXCEPT ![r.trid] = @ \ {g}] ELSE owed

\* What a group does with the request before it.
LEMMA ResolveCases ==
    ASSUME NEW g, NEW r, r = Head(toGroup[g]), Resolve(g)
    PROVE  \E state \in {"XA_OK", "XAER_RMFAIL"} : Resolved(g, r, state)
<1> DEFINE q == Head(toGroup[g])
           Reply(x, state) == [kind |-> "reply", from |-> g, trid |-> x.trid, number |-> x.number,
                               state |-> state]
           less(x) == [active EXCEPT ![g] = @ \ {x.trid}]
           done(x) == [owed EXCEPT ![x.trid] = @ \ {g}]
<1>1. \/ /\ inbox' = Append(inbox, Reply(q, "XA_OK")) /\ active' = less(q)
         /\ owed' = IF q.number = requests[q.trid] THEN done(q) ELSE owed
      \/ /\ inbox' = Append(inbox, Reply(q, "XAER_RMFAIL")) /\ active' \in {active, less(q)} /\ owed' = owed
    BY Zenon DEF Resolve
<1>2. q = r
    OBVIOUS
<1> HIDE DEF q, Reply, less, done
<1>3. \E state \in {"XA_OK", "XAER_RMFAIL"} :
          /\ inbox' = Append(inbox, Reply(r, state)) /\ active' \in {active, less(r)}
          /\ state = "XA_OK" => active' = less(r)
          /\ owed' = IF state = "XA_OK" /\ r.number = requests[r.trid] THEN done(r) ELSE owed
    BY <1>1, <1>2
<1> QED BY <1>3, Zenon DEF Reply, less, done, Resolved

\* What transaction::request does.
LEMMA RequestCases ==
    ASSUME NEW m, HandleRequest(m)
    PROVE  /\ m.kind = "request" /\ UNCHANGED <<groups, queues, asked, active, client, failed>>
           /\ \/ /\ involved[m.trid] # {} /\ involved[m.trid] \subseteq reachable
                 /\ Forward(m, involved[m.trid])
                 /\ correlation' = [correlation EXCEPT ![m.trid] =
                      IF correlation[m.trid] # {} THEN correlation[m.trid]
                      ELSE {[caller |-> m.from, stage |-> [g \in involved[m.trid] |-> "pending"]]}]
                 /\ involved' = [involved EXCEPT ![m.trid] = {}]
                 /\ mode' = mode /\ proxy' = proxy
              \/ /\ ~ involved[m.trid] \subseteq reachable
                 /\ \E some \in SUBSET (involved[m.trid] \cap reachable) : Forward(m, some)
                 /\ Answer(m.from, "XAER_RMFAIL")
                 /\ involved' = involved /\ correlation' = correlation
              \/ /\ involved[m.trid] = {}
                 /\ Answer(m.from, "XAER_NOTA")
                 /\ involved' = involved /\ correlation' = correlation
                 /\ toGroup' = toGroup
BY Zenon DEF HandleRequest

\* A stage of Correlation::stage, spelled out.
Stage(corr, g, s) ==
    [caller |-> corr.caller, stage |-> [h \in DOMAIN corr.stage |-> IF h = g THEN s ELSE corr.stage[h]]]

\* Correlation::stage keeps the caller and the groups of the request.
LEMMA StagedIs ==
    ASSUME NEW corr, CorrelationType(corr), NEW g, NEW s \in {"pending", "error", "replied"}
    PROVE  /\ Staged(corr, g, s) = Stage(corr, g, s)
           /\ CorrelationType(Stage(corr, g, s))
           /\ Stage(corr, g, s).caller = corr.caller
           /\ Stage(corr, g, s).stage = [h \in DOMAIN corr.stage |-> IF h = g THEN s ELSE corr.stage[h]]
<1> DEFINE st == [h \in DOMAIN corr.stage |-> IF h = g THEN s ELSE corr.stage[h]]
<1>1. Staged(corr, g, s) = [corr EXCEPT !.stage = st]
    BY Zenon DEF Staged
<1>2. PICK x, y : corr = [caller |-> x, stage |-> y] /\ x = corr.caller /\ y = corr.stage
    BY DEF CorrelationType
<1>3. st \in [DOMAIN corr.stage -> {"pending", "error", "replied"}]
    BY DEF CorrelationType
<1>4. DOMAIN st = DOMAIN corr.stage
    OBVIOUS
<1> HIDE DEF st
<1>5. [corr EXCEPT !.stage = st] = [caller |-> corr.caller, stage |-> st]
    BY <1>2
<1>6. Stage(corr, g, s) = [caller |-> corr.caller, stage |-> st]
    BY DEF Stage, st
<1>7. CorrelationType([caller |-> corr.caller, stage |-> st])
    BY <1>3, <1>4 DEF CorrelationType
<1>8. [caller |-> corr.caller, stage |-> st].caller = corr.caller /\ [caller |-> corr.caller, stage |-> st].stage = st
    OBVIOUS
<1> QED BY <1>1, <1>5, <1>6, <1>7, <1>8 DEF st

\* What transaction::reply does.
Outcome(m) == IF m.state = "XA_OK" THEN "replied" ELSE "error"
\* No group is pending; and what the caller is told then.
Settled(corr) == \A g \in DOMAIN corr.stage : corr.stage[g] # "pending"
Verdict(corr) == IF \E g \in DOMAIN corr.stage : corr.stage[g] = "error" THEN "XAER_RMFAIL" ELSE "XA_OK"

\* What transaction::reply does: nothing without a correlation, a stage while a group is pending,
\* the answer when none is.
LEMMA ReplyCases ==
    ASSUME TypeInv, Waiting, NEW m \in ReplyMessage, HandleReply(m)
    PROVE  /\ UNCHANGED <<groups, queues, involved, asked, toGroup, active, client>>
           /\ \/ correlation[m.trid] = {} /\ UNCHANGED <<mode, correlation, proxy, failed>>
              \/ \E corr \in correlation[m.trid] :
                    /\ correlation[m.trid] = {corr} /\ CorrelationType(corr)
                    /\ ~ Settled(Stage(corr, m.from, Outcome(m)))
                    /\ correlation' = [correlation EXCEPT ![m.trid] = {Stage(corr, m.from, Outcome(m))}]
                    /\ UNCHANGED <<mode, proxy, failed>>
              \/ \E corr \in correlation[m.trid] :
                    /\ correlation[m.trid] = {corr} /\ CorrelationType(corr)
                    /\ Settled(Stage(corr, m.from, Outcome(m)))
                    /\ correlation' = [correlation EXCEPT ![m.trid] = {}]
                    /\ Answer(corr.caller, Verdict(Stage(corr, m.from, Outcome(m))))
                    /\ failed' = IF Verdict(Stage(corr, m.from, Outcome(m))) = "XAER_RMFAIL"
                                 THEN failed \cup {m.trid} ELSE failed
<1>1. m.trid \in Trid
    BY DEF ReplyMessage
<1>2. UNCHANGED <<groups, queues, involved, asked, toGroup, active, client>>
    BY DEF HandleReply
<1>3. CASE correlation[m.trid] = {}
    BY <1>2, <1>3, Zenon DEF HandleReply
<1>4. CASE correlation[m.trid] # {}
    <2>1. PICK corr : corr \in correlation[m.trid]
        BY <1>4
    <2>2. correlation[m.trid] = {corr} /\ CorrelationType(corr)
        BY <1>1, <2>1 DEF Waiting, TypeInv
    <2> DEFINE s == Outcome(m)
               now == Stage(corr, m.from, s)
               stages == {now.stage[g] : g \in DOMAIN now.stage}
    <2>3. s \in {"pending", "error", "replied"}
        BY DEF Outcome
    <2>4. Staged(corr, m.from, IF m.state = "XA_OK" THEN "replied" ELSE "error") = now
        BY <2>2, <2>3, StagedIs DEF Outcome
    <2> DEFINE staged == Staged(corr, m.from, IF m.state = "XA_OK" THEN "replied" ELSE "error")
    <2>10. IF "pending" \in {staged.stage[g] : g \in DOMAIN staged.stage}
           THEN correlation' = [correlation EXCEPT ![m.trid] = {staged}] /\ UNCHANGED <<mode, proxy, failed>>
           ELSE /\ Answer(corr.caller, IF "error" \in {staged.stage[g] : g \in DOMAIN staged.stage}
                                       THEN "XAER_RMFAIL" ELSE "XA_OK")
                /\ correlation' = [correlation EXCEPT ![m.trid] = {}]
                /\ failed' = IF "error" \in {staged.stage[g] : g \in DOMAIN staged.stage}
                             THEN failed \cup {m.trid} ELSE failed
        BY <2>1, Zenon DEF HandleReply
    <2>11. staged = now
        BY <2>4
    <2> HIDE DEF staged
    <2>5. IF "pending" \in stages
          THEN correlation' = [correlation EXCEPT ![m.trid] = {now}] /\ UNCHANGED <<mode, proxy, failed>>
          ELSE /\ Answer(corr.caller, IF "error" \in stages THEN "XAER_RMFAIL" ELSE "XA_OK")
               /\ correlation' = [correlation EXCEPT ![m.trid] = {}]
               /\ failed' = IF "error" \in stages THEN failed \cup {m.trid} ELSE failed
        BY <2>10, <2>11, Zenon
    <2>6. Settled(now) <=> "pending" \notin stages
        BY Zenon DEF Settled
    <2>7. Verdict(now) = IF "error" \in stages THEN "XAER_RMFAIL" ELSE "XA_OK"
        BY Zenon DEF Verdict
    <2>12. Verdict(now) = "XAER_RMFAIL" <=> "error" \in stages
        BY <2>7
    <2> HIDE DEF stages, now
    <2>8. CASE Settled(now)
        BY <1>2, <2>1, <2>2, <2>5, <2>6, <2>7, <2>8, <2>12 DEF now
    <2>9. CASE ~ Settled(now)
        BY <1>2, <2>1, <2>2, <2>5, <2>6, <2>9 DEF now
    <2> QED BY <2>8, <2>9
<1> QED BY <1>3, <1>4

\* What process::Exit does to a record.
Fail(corr, x) ==
    [caller |-> corr.caller,
     stage |-> [g \in DOMAIN corr.stage |->
                  IF g = x /\ corr.stage[g] = "pending" THEN "error" ELSE corr.stage[g]]]

\* What process::Exit makes of a correlation.
LEMMA FailIs ==
    ASSUME NEW corr, CorrelationType(corr), NEW x
    PROVE  /\ [corr EXCEPT !.stage = [g \in DOMAIN corr.stage |->
                  IF g = x /\ corr.stage[g] = "pending" THEN "error" ELSE corr.stage[g]]] = Fail(corr, x)
           /\ CorrelationType(Fail(corr, x))
           /\ Fail(corr, x).caller = corr.caller
           /\ Fail(corr, x).stage = [g \in DOMAIN corr.stage |->
                  IF g = x /\ corr.stage[g] = "pending" THEN "error" ELSE corr.stage[g]]
<1> DEFINE st == [g \in DOMAIN corr.stage |->
                    IF g = x /\ corr.stage[g] = "pending" THEN "error" ELSE corr.stage[g]]
<1>2. PICK a, y : corr = [caller |-> a, stage |-> y] /\ a = corr.caller /\ y = corr.stage
    BY DEF CorrelationType
<1>3. st \in [DOMAIN corr.stage -> {"pending", "error", "replied"}]
    BY DEF CorrelationType
<1>4. DOMAIN st = DOMAIN corr.stage
    OBVIOUS
<1> HIDE DEF st
<1>5. [corr EXCEPT !.stage = st] = [caller |-> corr.caller, stage |-> st]
    BY <1>2
<1>6. Fail(corr, x) = [caller |-> corr.caller, stage |-> st]
    BY DEF Fail, st
<1>7. CorrelationType([caller |-> corr.caller, stage |-> st])
    BY <1>3, <1>4 DEF CorrelationType
<1>8. [caller |-> corr.caller, stage |-> st].caller = corr.caller /\ [caller |-> corr.caller, stage |-> st].stage = st
    OBVIOUS
<1> QED BY <1>5, <1>6, <1>7, <1>8 DEF st

\* What process::Exit does.
LEMMA ExitCases ==
    ASSUME TypeInv, NEW m, HandleExit(m)
    PROVE  /\ m.kind = "exit"
           /\ groups' = groups \ {m.from}
           /\ queues' = [n \in Name |-> queues[n] \ {m.from}]
           /\ correlation' = [t \in Trid |-> {Fail(corr, m.from) : corr \in correlation[t]}]
           /\ UNCHANGED <<mode, involved, asked, toGroup, active, client, proxy, failed>>
<1>1. \A t \in Trid : \A corr \in correlation[t] :
          [corr EXCEPT !.stage = [g \in DOMAIN corr.stage |->
                IF g = m.from /\ corr.stage[g] = "pending" THEN "error" ELSE corr.stage[g]]]
             = Fail(corr, m.from)
    BY FailIs DEF TypeInv
<1>2. correlation' = [t \in Trid |->
          {[corr EXCEPT !.stage = [g \in DOMAIN corr.stage |->
                IF g = m.from /\ corr.stage[g] = "pending" THEN "error" ELSE corr.stage[g]]]
             : corr \in correlation[t]}]
    BY Zenon DEF HandleExit
<1> DEFINE F(corr) == [corr EXCEPT !.stage = [g \in DOMAIN corr.stage |->
                IF g = m.from /\ corr.stage[g] = "pending" THEN "error" ELSE corr.stage[g]]]
           G(corr) == Fail(corr, m.from)
<1>3. correlation' = [t \in Trid |-> {F(corr) : corr \in correlation[t]}]
    BY <1>2, Zenon
<1>5. \A t \in Trid : \A corr \in correlation[t] : F(corr) = G(corr)
    BY <1>1, Zenon
<1> HIDE DEF F, G
<1>6. \A t \in Trid : {F(corr) : corr \in correlation[t]} = {G(corr) : corr \in correlation[t]}
    BY <1>5, Zenon
<1>7. correlation' = [t \in Trid |-> {G(corr) : corr \in correlation[t]}]
    BY <1>3, <1>6, Zenon
<1>4. correlation' = [t \in Trid |-> {Fail(corr, m.from) : corr \in correlation[t]}]
    BY <1>7, Zenon DEF G
<1> QED BY <1>4 DEF HandleExit

\* What the wait for the groups' answers does with a message.
Same(m) ==
    {i \in DOMAIN cache : /\ m.kind = "reply" /\ cache[i].kind = "reply"
                          /\ cache[i].trid = m.trid /\ cache[i].number = m.number}

\* What the wait of broker::queues does with the next message: it is the answer waited for, it is
\* kept in the cache, or it overwrites a reply there.
LEMMA AdminReadCases ==
    ASSUME AdminRead
    PROVE  /\ mode = "admin" /\ inbox # <<>> /\ inbox' = Tail(inbox)
           /\ UNCHANGED <<groups, queues, involved, correlation, ended, toGroup, active, telling, client,
                          proxy, alive, reachable, decision, requests, admins, owed, failed>>
           /\ \/ /\ Head(inbox).kind = "information"
                 /\ asked' = asked \ {Head(inbox).from} /\ mode' \in {"pump", "admin"}
                 /\ cache' = cache /\ merged' = merged
              \/ /\ Head(inbox).kind # "information"
                 /\ cache' = Append(cache, Head(inbox)) /\ merged' = merged
                 /\ asked' = asked /\ mode' = mode
              \/ /\ Head(inbox).kind = "reply"
                 /\ \E i \in Same(Head(inbox)) : cache' = [cache EXCEPT ![i] = Head(inbox)]
                 /\ merged' = merged \cup {Head(inbox).trid}
                 /\ asked' = asked /\ mode' = mode
<1> DEFINE m == Head(inbox)
<1>1. /\ mode = "admin" /\ inbox # <<>> /\ inbox' = Tail(inbox)
      /\ UNCHANGED <<groups, queues, involved, correlation, ended, toGroup, active, telling, client,
                     proxy, alive, reachable, decision, requests, admins, owed, failed>>
    BY DEF AdminRead, brokerState, tmVars
<1>2. IF m.kind = "information"
      THEN /\ asked' = asked \ {m.from}
           /\ mode' = IF asked \subseteq {m.from} THEN "pump" ELSE "admin"
           /\ UNCHANGED <<cache, merged>>
      ELSE /\ IF Same(m) = {} THEN cache' = Append(cache, m) /\ UNCHANGED merged
              ELSE \E i \in Same(m) : /\ cache' = [cache EXCEPT ![i] = m]
                                      /\ merged' = merged \cup {m.trid}
           /\ UNCHANGED <<asked, mode>>
    BY Zenon DEF AdminRead, Same
<1>3. Same(m) # {} => m.kind = "reply"
    BY DEF Same
<1> HIDE DEF m
<1> QED BY <1>1, <1>2, <1>3 DEF m

\* A lookup is answered while its client waits for it.
LEMMA LookupWaits ==
    ASSUME TypeInv, Working, NEW m \in LookupMessage, Dequeued(m), m.from \in alive
    PROVE  m.from \in Client /\ client[m.from].stage = "lookup" /\ client[m.from].trid \in Trid
<1>1. m.kind = "lookup" /\ m.from \in Client
    BY DEF LookupMessage
<1>2. 1 \in 1 .. Len(Way) /\ Way[1] = m
    BY ReadMoves DEF TypeInv
<1> QED BY <1>1, <1>2 DEF Working, Ask, TypeInv

\* What a handler changes besides its own variables.
Handling ==
    /\ Channels'
    /\ UNCHANGED <<ended, telling, alive, reachable, decision, requests, admins, owed, merged>>

\* Forwarding a request keeps the types.
LEMMA ForwardTypes ==
    ASSUME TypeInv, NEW m \in RequestMessage, NEW gs, Forward(m, gs)
    PROVE  toGroup' \in [Group -> Seq(Pledge)]
<1>1. [trid |-> m.trid, number |-> m.number] \in Pledge
    BY DEF RequestMessage, Pledge
<1>2. \A g \in Group : Append(toGroup[g], [trid |-> m.trid, number |-> m.number]) \in Seq(Pledge)
    BY <1>1 DEF TypeInv
<1> HIDE DEF Pledge
<1> QED BY <1>1, <1>2 DEF Forward, TypeInv

\* Answering a proxy keeps the types.
LEMMA AnswerTypes ==
    ASSUME TypeInv, NEW p \in Proxy, NEW r \in Result, Answer(p, r), proxy[p].stage # "idle"
    PROVE  /\ mode' \in {"startup", "pump", "admin", "ended"}
           /\ proxy' \in [Proxy -> ProxyState]
           /\ \A q \in Proxy : proxy'[q].stage # "idle" => proxy'[q].trid \in Trid
<1>1. mode' \in {mode, "ended"}
    BY AnswerProxy
<1>2. CASE proxy' = proxy
    BY <1>1, <1>2 DEF TypeInv
<1>3. CASE \E s \in ProxyState : /\ s.stage = "answered" /\ s.trid = proxy[p].trid /\ s.result = r
                                 /\ proxy' = [proxy EXCEPT ![p] = s]
    BY <1>1, <1>3 DEF TypeInv
<1> QED BY <1>2, <1>3, AnswerProxy


\* transaction::request keeps the types.
LEMMA RequestTypes ==
    ASSUME TypeInv, Waiting, NEW m \in Message, Dequeued(m), HandleRequest(m), Handling
    PROVE  TypeInv'
<1>1. m \in RequestMessage
    BY Kinds, RequestCases
<1>2. m.from \in Proxy /\ m.trid \in Trid /\ proxy[m.from].stage = "waiting" /\ correlation[m.trid] = {}
    <2>1. 1 \in 1 .. Len(Way) /\ Way[1] = m
        BY ReadMoves DEF TypeInv
    <2> QED BY <1>1, <2>1 DEF RequestMessage, Waiting, Req
<1>3. /\ m.kind = "request" /\ UNCHANGED <<groups, queues, asked, active, client, failed>>
    BY RequestCases
<1> USE DEF Handling
<1>4. CASE /\ involved[m.trid] # {} /\ involved[m.trid] \subseteq reachable
           /\ Forward(m, involved[m.trid])
           /\ correlation' = [correlation EXCEPT ![m.trid] =
                IF correlation[m.trid] # {} THEN correlation[m.trid]
                ELSE {[caller |-> m.from, stage |-> [g \in involved[m.trid] |-> "pending"]]}]
           /\ involved' = [involved EXCEPT ![m.trid] = {}]
           /\ mode' = mode /\ proxy' = proxy
    <2> DEFINE new == [caller |-> m.from, stage |-> [g \in involved[m.trid] |-> "pending"]]
    <2>1. correlation' = [correlation EXCEPT ![m.trid] = {new}]
        BY <1>2, <1>4
    <2>2. involved[m.trid] \subseteq Group
        BY <1>2 DEF TypeInv
    <2>3. CorrelationType(new)
        BY <1>2, <2>2 DEF CorrelationType
    <2> HIDE DEF new
    <2>4. DOMAIN correlation' = Trid /\ \A t \in Trid : \A corr \in correlation'[t] : CorrelationType(corr)
        BY <1>2, <2>1, <2>3 DEF TypeInv
    <2>5. involved' \in [Trid -> SUBSET Group]
        BY <1>2, <1>4 DEF TypeInv
    <2>6. toGroup' \in [Group -> Seq(Pledge)]
        BY <1>1, <1>4, ForwardTypes
    <2> QED BY <1>3, <1>4, <2>4, <2>5, <2>6 DEF TypeInv
<1>5. CASE /\ \E some \in SUBSET (involved[m.trid] \cap reachable) : Forward(m, some)
           /\ Answer(m.from, "XAER_RMFAIL")
           /\ involved' = involved /\ correlation' = correlation
    <2>1. toGroup' \in [Group -> Seq(Pledge)]
        BY <1>1, <1>5, ForwardTypes
    <2>2. /\ mode' \in {"startup", "pump", "admin", "ended"}
          /\ proxy' \in [Proxy -> ProxyState]
          /\ \A q \in Proxy : proxy'[q].stage # "idle" => proxy'[q].trid \in Trid
        BY <1>2, <1>5, AnswerTypes DEF Result
    <2> QED BY <1>3, <1>5, <2>1, <2>2 DEF TypeInv
<1>6. CASE /\ Answer(m.from, "XAER_NOTA")
           /\ involved' = involved /\ correlation' = correlation
           /\ toGroup' = toGroup
    <2>2. /\ mode' \in {"startup", "pump", "admin", "ended"}
          /\ proxy' \in [Proxy -> ProxyState]
          /\ \A q \in Proxy : proxy'[q].stage # "idle" => proxy'[q].trid \in Trid
        BY <1>2, <1>6, AnswerTypes DEF Result
    <2> QED BY <1>3, <1>6, <2>2 DEF TypeInv
<1> QED BY <1>4, <1>5, <1>6, RequestCases

\* transaction::reply keeps the types.
LEMMA ReplyTypes ==
    ASSUME TypeInv, Waiting, NEW m \in Message, Dequeued(m), HandleReply(m), Handling
    PROVE  TypeInv'
<1>1. m \in ReplyMessage
    BY Kinds DEF HandleReply
<1>2. m.from \in Group /\ m.trid \in Trid
    BY <1>1 DEF ReplyMessage
<1>3. UNCHANGED <<groups, queues, involved, asked, toGroup, active, client>> /\ failed' \in SUBSET Trid
    <2>1. failed' = failed \/ failed' = failed \cup {m.trid}
        BY <1>1, ReplyCases
    <2> QED BY <1>1, <1>2, <2>1, ReplyCases DEF TypeInv
<1> USE DEF Handling
<1>4. CASE correlation[m.trid] = {} /\ UNCHANGED <<mode, correlation, proxy>>
    BY <1>3, <1>4 DEF TypeInv
<1>5. CASE \E corr \in correlation[m.trid] :
              /\ CorrelationType(corr)
              /\ correlation' = [correlation EXCEPT ![m.trid] = {Stage(corr, m.from, Outcome(m))}]
              /\ UNCHANGED <<mode, proxy>>
    <2>1. PICK corr \in correlation[m.trid] :
              /\ CorrelationType(corr)
              /\ correlation' = [correlation EXCEPT ![m.trid] = {Stage(corr, m.from, Outcome(m))}]
              /\ UNCHANGED <<mode, proxy>>
        BY <1>5
    <2>2. Outcome(m) \in {"pending", "error", "replied"}
        BY DEF Outcome
    <2>3. CorrelationType(Stage(corr, m.from, Outcome(m)))
        BY <2>1, <2>2, StagedIs
    <2>4. DOMAIN correlation' = Trid /\ \A t \in Trid : \A c \in correlation'[t] : CorrelationType(c)
        BY <1>2, <2>1, <2>3 DEF TypeInv
    <2> QED BY <1>3, <2>1, <2>4 DEF TypeInv
<1>6. CASE \E corr \in correlation[m.trid] :
              /\ CorrelationType(corr)
              /\ correlation' = [correlation EXCEPT ![m.trid] = {}]
              /\ Answer(corr.caller, Verdict(Stage(corr, m.from, Outcome(m))))
    <2>1. PICK corr \in correlation[m.trid] :
              /\ CorrelationType(corr)
              /\ correlation' = [correlation EXCEPT ![m.trid] = {}]
              /\ Answer(corr.caller, Verdict(Stage(corr, m.from, Outcome(m))))
        BY <1>6
    <2>2. corr.caller \in Proxy /\ proxy[corr.caller].stage = "waiting"
        BY <1>2, <2>1 DEF Waiting, CorrelationType
    <2>3. Verdict(Stage(corr, m.from, Outcome(m))) \in Result
        BY DEF Verdict, Result
    <2>4. /\ mode' \in {"startup", "pump", "admin", "ended"}
          /\ proxy' \in [Proxy -> ProxyState]
          /\ \A q \in Proxy : proxy'[q].stage # "idle" => proxy'[q].trid \in Trid
        BY <2>1, <2>2, <2>3, AnswerTypes
    <2>5. DOMAIN correlation' = Trid /\ \A t \in Trid : \A c \in correlation'[t] : CorrelationType(c)
        BY <1>2, <2>1 DEF TypeInv
    <2> QED BY <1>3, <2>4, <2>5 DEF TypeInv
<1> QED BY <1>1, <1>4, <1>5, <1>6, ReplyCases

\* process::Exit keeps the types.
LEMMA ExitTypes ==
    ASSUME TypeInv, NEW m \in Message, HandleExit(m), Handling
    PROVE  TypeInv'
<1>1. \A t \in Trid : \A corr \in correlation[t] : CorrelationType(Fail(corr, m.from))
    BY FailIs DEF TypeInv
<1>2. DOMAIN correlation' = Trid /\ \A t \in Trid : \A c \in correlation'[t] : CorrelationType(c)
    BY <1>1, ExitCases DEF TypeInv
<1>3. groups' \in SUBSET Group /\ queues' \in [Name -> SUBSET Group]
    BY ExitCases DEF TypeInv
<1> QED BY <1>2, <1>3, ExitCases DEF TypeInv, Handling

\* The wait for the answers of the groups keeps the types.
LEMMA AdminTypes ==
    ASSUME TypeInv, AdminRead
    PROVE  TypeInv'
<1>1. /\ mode = "admin" /\ inbox # <<>> /\ inbox' = Tail(inbox)
      /\ UNCHANGED <<groups, queues, involved, correlation, ended, toGroup, active, telling, client,
                     proxy, alive, reachable, decision, requests, admins, owed, failed>>
    BY AdminReadCases
<1>2. asked' \in SUBSET Group /\ mode' \in {"pump", "admin"}
    BY <1>1, AdminReadCases DEF TypeInv
<1>3. Channels'
    <2>1. CASE cache' = cache
        BY <1>1, <2>1, DropMoves DEF TypeInv
    <2>2. CASE cache' = Append(cache, Head(inbox))
        BY <1>1, <2>2, KeepMoves DEF TypeInv
    <2>3. CASE \E i \in Same(Head(inbox)) : cache' = [cache EXCEPT ![i] = Head(inbox)]
        BY <1>1, <2>3, MergeMoves DEF TypeInv, Same
    <2> QED BY <2>1, <2>2, <2>3, AdminReadCases
<1> QED BY <1>1, <1>2, <1>3 DEF TypeInv, CorrelationType

\* The state keeps its types.
LEMMA TypesKept ==
    ASSUME TypeInv, Working, Waiting, [Next]_vars
    PROVE  TypeInv'
<1> USE DEF brokerState, tmVars
<1>1. CASE UNCHANGED vars
    BY <1>1 DEF vars, TypeInv, Channels, CorrelationType
<1>2. ASSUME NEW c \in Client, NEW n \in Name, NEW t \in Trid, Lookup(c, n, t) PROVE TypeInv'
    <2>1. PICK s \in ClientState : s.stage = "lookup" /\ s.trid = t /\ client' = [client EXCEPT ![c] = s]
        BY <1>2, LookupClient
    <2>2. [kind |-> "lookup", from |-> c, name |-> n] \in Message
        BY DEF Message, LookupMessage
    <2>3. Channels'
        BY <1>2, <2>2, SendMoves DEF Lookup, TypeInv
    <2>4. /\ client' \in [Client -> ClientState]
          /\ \A d \in Client : client'[d].stage # "idle" => client'[d].trid \in Trid
        BY <2>1 DEF TypeInv
    <2> QED BY <1>2, <2>3, <2>4 DEF Lookup, TypeInv, CorrelationType
<1>3. ASSUME NEW g \in Group, NEW c \in Client, Work(g, c) PROVE TypeInv'
    <2>1. client[c].trid \in Trid
        BY <1>3 DEF Work, TypeInv
    <2>0. PICK s \in ClientState :
              s.stage = "work" /\ s.trid = client[c].trid /\ client' = [client EXCEPT ![c] = s]
        BY <1>3, WorkClient
    <2>2. /\ client' \in [Client -> ClientState]
          /\ \A d \in Client : client'[d].stage # "idle" => client'[d].trid \in Trid
        BY <2>0, <2>1 DEF TypeInv
    <2>3. active' \in [Group -> SUBSET Trid] /\ telling' \in [Group -> SUBSET Client]
        BY <1>3, <2>1 DEF Work, TypeInv
    <2> QED BY <1>3, <2>2, <2>3 DEF Work, TypeInv, Channels, CorrelationType
<1>4. ASSUME NEW c \in Client, NoQueue(c) PROVE TypeInv'
    <2>1. Freed(c) \in ClientState /\ Freed(c).stage = "idle"
        BY DEF Freed, IdleClient, TypeInv, ClientState
    <2>2. /\ client' \in [Client -> ClientState]
          /\ \A d \in Client : client'[d].stage # "idle" => client'[d].trid \in Trid
        BY <1>4, <2>1 DEF NoQueue, TypeInv
    <2> QED BY <1>4, <2>2 DEF NoQueue, TypeInv, Channels, CorrelationType
<1>5. ASSUME NEW g \in Group, Tell(g) PROVE TypeInv'
    <2>0. PICK c \in telling[g] :
              /\ c \in Client /\ inbox' = Append(inbox, [kind |-> "involved", from |-> g, trid |-> client[c].trid])
              /\ \/ client' = client /\ c \notin alive
                 \/ client' = [client EXCEPT ![c] = Freed(c)]
              /\ telling' = [telling EXCEPT ![g] = {}]
              /\ UNCHANGED <<mode, groups, queues, involved, correlation, cache, asked, ended, toGroup,
                             active, proxy, alive, reachable, decision, requests, admins, owed, merged,
                             failed>>
        BY <1>5, TellClient
    <2>1. client[c].trid \in Trid
        BY <2>0 DEF Working, TypeInv
    <2>2. [kind |-> "involved", from |-> g, trid |-> client[c].trid] \in Message
        BY <2>1 DEF Message, InvolvedMessage
    <2>3. Channels'
        BY <2>0, <2>2, SendMoves DEF TypeInv
    <2>4. /\ client' \in [Client -> ClientState]
          /\ \A d \in Client : client'[d].stage # "idle" => client'[d].trid \in Trid
        BY <2>0, FreedState DEF TypeInv
    <2>5. telling' \in [Group -> SUBSET Client]
        BY <2>0 DEF TypeInv
    <2> QED BY <2>0, <2>3, <2>4, <2>5 DEF TypeInv, CorrelationType
<1>6. ASSUME NEW g \in Group, Resolve(g) PROVE TypeInv'
    <2>1. toGroup[g] \in Seq(Pledge) /\ toGroup[g] # <<>>
        BY <1>6 DEF Resolve, TypeInv
    <2>2. PICK r \in Pledge : r = Head(toGroup[g])
        BY <2>1, HeadTail
    <2>3. PICK state \in {"XA_OK", "XAER_RMFAIL"} : Resolved(g, r, state)
        BY <1>6, <2>2, ResolveCases
    <2>4. [kind |-> "reply", from |-> g, trid |-> r.trid, number |-> r.number, state |-> state] \in Message
        BY <2>2 DEF Message, ReplyMessage, Pledge
    <2>5. Channels'
        BY <1>6, <2>3, <2>4, SendMoves DEF TypeInv, Resolve, Resolved
    <2>6. toGroup' \in [Group -> Seq(Pledge)]
        BY <1>6, <2>1, HeadTail DEF TypeInv, Resolve
    <2>7. active' \in [Group -> SUBSET Trid]
        BY <2>3 DEF TypeInv, Resolved
    <2>8. r.trid \in Trid
        BY <2>2 DEF Pledge
    <2>9. owed' \in [Trid -> SUBSET Group]
        BY <2>3, <2>8 DEF TypeInv, Resolved
    <2> QED BY <1>6, <2>5, <2>6, <2>7, <2>9 DEF Resolve, TypeInv, CorrelationType
<1>7. ASSUME NEW g \in Group, Inform(g) PROVE TypeInv'
    <2>1. [kind |-> "information", from |-> g] \in Message
        BY DEF Message, GroupMessage
    <2>2. Channels'
        BY <1>7, <2>1, SendMoves DEF TypeInv, Inform
    <2> QED BY <1>7, <2>2 DEF Inform, TypeInv, CorrelationType
<1>8. ASSUME NEW p \in Proxy, NEW t \in Trid, NEW op \in Operation, Request(p, t, op) PROVE TypeInv'
    <2>1. [kind |-> "request", from |-> p, trid |-> t, op |-> op, number |-> requests[t] + 1] \in Message
        BY DEF Message, RequestMessage, TypeInv
    <2>2. Channels'
        BY <1>8, <2>1, SendMoves DEF TypeInv, Request
    <2>3. [stage |-> "waiting", trid |-> t, op |-> op, result |-> "none"] \in ProxyState
        BY DEF ProxyState
    <2>4. /\ proxy' \in [Proxy -> ProxyState]
          /\ \A q \in Proxy : proxy'[q].stage # "idle" => proxy'[q].trid \in Trid
        BY <1>8, <2>3 DEF Request, TypeInv
    <2>5. requests' \in [Trid -> Nat]
        BY <1>8 DEF Request, TypeInv
    <2>6. owed' \in [Trid -> SUBSET Group]
        BY <1>8 DEF Request, TypeInv
    <2>7. DOMAIN decision' = Trid
        BY <1>8 DEF Request, TypeInv
    <2> QED BY <1>8, <2>2, <2>4, <2>5, <2>6, <2>7 DEF Request, TypeInv, CorrelationType
<1>9. ASSUME NEW p \in Proxy, Return(p) PROVE TypeInv'
    <2>1. IdleProxy \in ProxyState /\ IdleProxy.stage = "idle"
        BY DEF IdleProxy, ProxyState
    <2>2. /\ proxy' \in [Proxy -> ProxyState]
          /\ \A q \in Proxy : proxy'[q].stage # "idle" => proxy'[q].trid \in Trid
        BY <1>9, <2>1 DEF Return, TypeInv
    <2> QED BY <1>9, <2>2 DEF Return, TypeInv, Channels, CorrelationType
<1>10. ASSUME NEW x \in Mortal, Die(x) PROVE TypeInv'
    BY <1>10 DEF Die, TypeInv, Channels, CorrelationType
<1>11. ASSUME NEW g \in Group, Connect(g) PROVE TypeInv'
    BY <1>11 DEF Connect, TypeInv, Channels, CorrelationType
<1>12. ASSUME NEW g \in Group, Signal(g) PROVE TypeInv'
    <2>1. [kind |-> "exit", from |-> g] \in Message
        BY DEF Message, GroupMessage
    <2>2. Channels'
        BY <1>12, <2>1, InsertMoves DEF TypeInv, Signal
    <2> QED BY <1>12, <2>2 DEF Signal, TypeInv, CorrelationType
<1>13. ASSUME Admin PROVE TypeInv'
    BY <1>13 DEF Admin, TypeInv, Channels, CorrelationType
<1>14. ASSUME Pump PROVE TypeInv'
    <2>1. PICK m : /\ Dequeued(m)
                   /\ HandleLookup(m) \/ HandleInvolved(m) \/ HandleRequest(m) \/ HandleReply(m) \/ HandleExit(m)
                   /\ UNCHANGED <<ended, telling, alive, reachable, tmVars, admins, owed, merged>>
        BY <1>14, Zenon DEF Pump
    <2>2. m \in Message /\ Channels'
        BY <2>1, ReadMoves DEF TypeInv
    <2>3. CASE HandleLookup(m)
        <3>1. m \in LookupMessage
            BY <2>2, <2>3, Kinds DEF HandleLookup
        <3>2. mode' \in {mode, "ended"}
            BY <2>3, Zenon DEF HandleLookup
        <3>3. /\ client' \in [Client -> ClientState]
              /\ \A d \in Client : client'[d].stage # "idle" => client'[d].trid \in Trid
            <4>1. CASE client' = client
                BY <4>1 DEF TypeInv
            <4>2. CASE m.from \in alive /\ \E s \in ClientState :
                          /\ s.stage \in {"missing", "found"} /\ s.trid = client[m.from].trid
                          /\ client' = [client EXCEPT ![m.from] = s]
                BY <2>1, <2>2, <2>3, <3>1, <4>2, LookupWaits DEF TypeInv
            <4> QED BY <2>3, <3>1, <4>1, <4>2, HandleLookupClient
        <3> QED BY <2>1, <2>2, <2>3, <3>2, <3>3 DEF HandleLookup, TypeInv, CorrelationType
    <2>4. CASE HandleInvolved(m)
        <3>1. m.from \in Group /\ m.trid \in Trid
            BY <2>2, <2>4, Kinds DEF HandleInvolved, InvolvedMessage
        <3>2. involved' \in [Trid -> SUBSET Group]
            BY <2>4, <3>1 DEF HandleInvolved, TypeInv
        <3> QED BY <2>1, <2>2, <2>4, <3>2 DEF HandleInvolved, TypeInv, CorrelationType
    <2>5. CASE HandleRequest(m)
        BY <2>1, <2>2, <2>5, RequestTypes DEF Handling
    <2>6. CASE HandleReply(m)
        BY <2>1, <2>2, <2>6, ReplyTypes DEF Handling
    <2>7. CASE HandleExit(m)
        BY <2>1, <2>2, <2>7, ExitTypes DEF Handling
    <2> QED BY <2>1, <2>3, <2>4, <2>5, <2>6, <2>7
<1>15. ASSUME AdminRead PROVE TypeInv'
    BY <1>15, AdminTypes
<1> QED BY <1>1, <1>2, <1>3, <1>4, <1>5, <1>6, <1>7, <1>8, <1>9, <1>10, <1>11, <1>12, <1>13, <1>14, <1>15
        DEF Next, GroupNext

-----------------------------------------------------------------------------
(* What keeps the parts of the invariant.                                  *)

\* The types of what is under way.
LEMMA WayTypes ==
    ASSUME TypeInv
    PROVE  Len(Way) \in Nat /\ \A k \in 1 .. Len(Way) : Way[k] \in Message
BY WayParts DEF TypeInv

\* A lookup on the way has a client and a name.
LEMMA AskTypes ==
    ASSUME TypeInv, NEW k, Ask(k)
    PROVE  Way[k] \in LookupMessage /\ Way[k].from \in Client /\ Way[k].name \in Name
<1>1. Way[k] \in LookupMessage
    BY WayTypes, Kinds DEF Ask
<1> QED BY <1>1 DEF LookupMessage

\* A request on the way has a proxy, a transaction and a number.
LEMMA ReqTypes ==
    ASSUME TypeInv, NEW k, Req(k)
    PROVE  /\ k \in 1 .. Len(Way) /\ Way[k].from \in Proxy /\ Way[k].trid \in Trid /\ Way[k].number \in Nat
<1>1. Way[k] \in RequestMessage
    BY WayTypes, Kinds DEF Req
<1> QED BY <1>1 DEF RequestMessage, Req

\* A reply on the way has a group, a transaction and a number.
LEMMA RepTypes ==
    ASSUME TypeInv, NEW k, Rep(k)
    PROVE  /\ k \in 1 .. Len(Way) /\ Way[k].from \in Group /\ Way[k].trid \in Trid /\ Way[k].number \in Nat
<1>1. Way[k] \in ReplyMessage
    BY WayTypes, Kinds DEF Rep
<1> QED BY <1>1 DEF ReplyMessage, Rep

\* The registry only depends on the groups and queues the broker knows.
LEMMA RegistryKept ==
    ASSUME Registry, groups' = groups, queues' = queues
    PROVE  Registry'
BY DEF Registry, QueuesServed

\* Messages other than lookups do not touch what clients and groups work on.
LEMMA WorkingKept ==
    ASSUME Working, NEW N, NEW L, Moves(N, L), \A m \in N : m.kind # "lookup",
           telling' = telling, client' = client, alive' \subseteq alive
    PROVE  Working'
<1>1. PICK f \in [1 .. Len(Way') -> Nat] : Embeds(f, N, L)
    BY DEF Moves
<1>2. \A k \in 1 .. Len(Way') : Ask(k)' => Ask(f[k]) /\ f[k] # 0 /\ Way'[k] = Way[f[k]]
    BY <1>1 DEF Embeds, Ask
<1>3. \A j, k \in 1 .. Len(Way') : f[j] # 0 /\ f[j] = f[k] => j = k
    BY <1>1 DEF Embeds
<1>4. \A k \in 1 .. Len(Way') : Ask(k)' /\ Way'[k].from \in alive' => client'[Way'[k].from].stage = "lookup"
    BY <1>2 DEF Working, Ask
<1>5. \A j, k \in 1 .. Len(Way') :
          Ask(j)' /\ Ask(k)' /\ Way'[j].from = Way'[k].from /\ Way'[k].from \in alive' => j = k
    <2> SUFFICES ASSUME NEW j \in 1 .. Len(Way'), NEW k \in 1 .. Len(Way'), Ask(j)', Ask(k)',
                        Way'[j].from = Way'[k].from, Way'[k].from \in alive'
                 PROVE  j = k
        OBVIOUS
    <2>0. /\ Ask(f[j]) /\ Ask(f[k]) /\ Way'[j] = Way[f[j]] /\ Way'[k] = Way[f[k]] /\ f[j] # 0
          /\ f[j] \in 1 .. Len(Way) /\ f[k] \in 1 .. Len(Way)
        BY <1>2 DEF Ask
    <2>1. f[j] = f[k]
        BY <2>0 DEF Working
    <2> QED BY <1>3, <2>0, <2>1
<1> QED BY <1>4, <1>5 DEF Working

\* Messages other than a death leave the dead alone.
LEMMA DeadKept ==
    ASSUME Dead, NEW N, NEW L, Moves(N, L), \A m \in N : m.kind = "exit" => m.from \notin alive',
           ended' \cap alive' = {}, alive' \subseteq alive
    PROVE  Dead'
<1>1. PICK f \in [1 .. Len(Way') -> Nat] : Embeds(f, N, L)
    BY DEF Moves
<1>2. \A k \in 1 .. Len(Way') : Way'[k].kind = "exit" => Way'[k].from \notin alive'
    <2> SUFFICES ASSUME NEW k \in 1 .. Len(Way'), Way'[k].kind = "exit"
                 PROVE  Way'[k].from \notin alive'
        OBVIOUS
    <2>1. CASE f[k] = 0
        BY <1>1, <2>1 DEF Embeds
    <2>2. CASE f[k] # 0
        BY <1>1, <2>2 DEF Embeds, Dead
    <2> QED BY <2>1, <2>2
<1> QED BY <1>2 DEF Dead

\* Nobody is told less: what was under way still is, or has arrived.
InvolvedGrows ==
    \A t \in Trid : involved[t] \subseteq involved'[t]

\* What is removed has been noted: the broker knows the groups it was told of.
Arrives(L) ==
    \A m \in L : m.kind = "involved" /\ m.trid \in Trid => m.from \in involved'[m.trid]

\* An involved message is still on the way, or the broker knows the group.
LEMMA InvolvedKept ==
    ASSUME NEW N, NEW L, NEW f \in [1 .. Len(Way') -> Nat], Embeds(f, N, L), Arrives(L),
           NEW g, NEW t \in Trid, NEW j \in 1 .. Len(Way), Inv(j, g, t)
    PROVE  g \in involved'[t] \/ \E k \in 1 .. Len(Way') : f[k] = j /\ Inv(k, g, t)'
<1>1. CASE Way[j] \in L
    BY <1>1 DEF Arrives, Inv
<1>2. CASE \E k \in 1 .. Len(Way') : f[k] = j
    <2>1. PICK k \in 1 .. Len(Way') : f[k] = j
        BY <1>2
    <2>2. j # 0
        OBVIOUS
    <2>3. Way'[k] = Way[j]
        BY <2>1, <2>2 DEF Embeds
    <2> QED BY <2>1, <2>3 DEF Inv
<1> QED BY <1>1, <1>2 DEF Embeds

\* What the broker knows of a group it still knows.
LEMMA KnownKept ==
    ASSUME NEW N, NEW L, Moves(N, L), InvolvedGrows, Arrives(L), failed \subseteq failed',
           NEW g \in Group, NEW t \in Trid, Known(g, t)
    PROVE  Known(g, t)'
<1>1. PICK f \in [1 .. Len(Way') -> Nat] : Embeds(f, N, L)
    BY DEF Moves
<1>2. CASE g \in involved[t]
    BY <1>2 DEF InvolvedGrows, Known
<1>3. CASE t \in failed
    BY <1>3 DEF Known
<1>4. CASE \E j \in 1 .. Len(Way) : Inv(j, g, t)
    <2>1. PICK j \in 1 .. Len(Way) : Inv(j, g, t)
        BY <1>4
    <2>2. g \in involved'[t] \/ \E k \in 1 .. Len(Way') : f[k] = j /\ Inv(k, g, t)'
        BY <1>1, <2>1, InvolvedKept
    <2> QED BY <2>2 DEF Known
<1> QED BY <1>2, <1>3, <1>4 DEF Known

\* A group with work left stays known or asked, if the groups that are asked no more have done
\* their part and no reply is new that says so of a group with work left.
LEMMA TakingStep ==
    ASSUME TypeInv, Taking, NEW N, NEW L, Moves(N, L), InvolvedGrows, Arrives(L), failed \subseteq failed',
           \A g \in Group, t \in Trid : Left(g, t)' => Left(g, t) \/ Known(g, t)',
           \A g \in Group, t \in Trid : Left(g, t)' /\ Asked(g, t) => Known(g, t)' \/ Asked(g, t)',
           \A k \in 1 .. Len(Way') : Done(k)' =>
              \/ \E j \in 1 .. Len(Way) : Done(j) /\ Way[j] = Way'[k]
              \/ Way'[k].from \in Group /\ Way'[k].trid \in Trid /\ ~ Left(Way[k].from, Way[k].trid)'
    PROVE  Taking'
<1>1. \A g \in Group, t \in Trid : Known(g, t) => Known(g, t)'
    BY KnownKept
<1>2. \A g \in Group, t \in Trid : Left(g, t)' => Known(g, t)' \/ Asked(g, t)'
    <2> SUFFICES ASSUME NEW g \in Group, NEW t \in Trid, Left(g, t)' PROVE Known(g, t)' \/ Asked(g, t)'
        OBVIOUS
    <2>1. CASE Left(g, t)
        <3>1. Known(g, t) \/ Asked(g, t)
            BY <2>1 DEF Taking
        <3> QED BY <1>1, <3>1
    <2> QED BY <2>1
<1>3. \A k \in 1 .. Len(Way') : Done(k)' /\ Left(Way[k].from, Way[k].trid)' => Known(Way[k].from, Way[k].trid)'
    <2> SUFFICES ASSUME NEW k \in 1 .. Len(Way'), Done(k)', Left(Way[k].from, Way[k].trid)'
                 PROVE  Known(Way[k].from, Way[k].trid)'
        OBVIOUS
    <2>1. CASE \E j \in 1 .. Len(Way) : Done(j) /\ Way[j] = Way'[k]
        <3>1. PICK j \in 1 .. Len(Way) : Done(j) /\ Way[j] = Way'[k]
            BY <2>1
        <3>2. PICK g \in Group, t \in Trid : g = Way[j].from /\ t = Way[j].trid
            BY <3>1, RepTypes DEF Done
        <3>3. Left(g, t)'
            BY <3>1, <3>2 DEF Left
        <3>4. Left(g, t) => Known(g, t)
            BY <3>1, <3>2 DEF Taking
        <3>5. Known(g, t)'
            BY <1>1, <3>3, <3>4
        <3> QED BY <3>1, <3>2, <3>5 DEF Known, Inv
    <2> QED BY <2>1
<1> QED BY <1>2, <1>3 DEF Taking

\* Proxies and their records: nobody starts to wait, and an answered one may be done.
ProxiesKept ==
    \A p \in Proxy :
        \/ proxy'[p] = proxy[p]
        \/ proxy'[p].stage = "idle" /\ proxy[p].stage = "answered"

\* No correlation is new.
CallersKept ==
    \A t \in Trid :
        /\ \A x, y \in correlation'[t] : x = y
        /\ \A x \in correlation'[t] : \E corr \in correlation[t] : x.caller = corr.caller

\* Proxies that wait keep their request, in a message or in a correlation.
LEMMA WaitingKept ==
    ASSUME TypeInv, Waiting, NEW N, NEW L, Moves(N, L), \A m \in N : m.kind # "request",
           requests' = requests, ProxiesKept, CallersKept
    PROVE  Waiting'
<1>1. PICK f \in [1 .. Len(Way') -> Nat] : Embeds(f, N, L)
    BY DEF Moves
<1>2. \A k \in 1 .. Len(Way') : Req(k)' => Req(f[k]) /\ f[k] # 0 /\ Way'[k] = Way[f[k]]
    BY <1>1 DEF Embeds, Req
<1>3. \A j, k \in 1 .. Len(Way') : f[j] # 0 /\ f[j] = f[k] => j = k
    BY <1>1 DEF Embeds
<1>4. \A p \in Proxy : proxy[p].stage = "waiting" => proxy'[p] = proxy[p]
    BY DEF ProxiesKept
<1>5. \A t \in Trid : correlation[t] = {} => correlation'[t] = {}
    BY DEF CallersKept
<1>6. \A p, q \in Proxy :
          proxy'[p].stage # "idle" /\ proxy'[q].stage # "idle" /\ proxy'[p].trid = proxy'[q].trid => p = q
    BY DEF ProxiesKept, Waiting
<1>7. \A k \in 1 .. Len(Way') : Req(k)' =>
          /\ proxy'[Way'[k].from].stage = "waiting" /\ proxy'[Way'[k].from].trid = Way'[k].trid
          /\ Way'[k].number = requests'[Way'[k].trid] /\ correlation'[Way'[k].trid] = {}
    <2> SUFFICES ASSUME NEW k \in 1 .. Len(Way'), Req(k)'
                 PROVE  /\ proxy'[Way'[k].from].stage = "waiting" /\ proxy'[Way'[k].from].trid = Way'[k].trid
                        /\ Way'[k].number = requests'[Way'[k].trid] /\ correlation'[Way'[k].trid] = {}
        OBVIOUS
    <2>1. PICK j : j \in 1 .. Len(Way) /\ Req(j) /\ Way'[k] = Way[j]
        BY <1>2 DEF Req
    <2>2. Way[j].from \in Proxy /\ Way[j].trid \in Trid
        BY <2>1, ReqTypes
    <2>3. /\ proxy[Way[j].from].stage = "waiting" /\ proxy[Way[j].from].trid = Way[j].trid
          /\ Way[j].number = requests[Way[j].trid] /\ correlation[Way[j].trid] = {}
        BY <2>1 DEF Waiting
    <2>4. proxy'[Way[j].from] = proxy[Way[j].from] /\ correlation'[Way[j].trid] = {}
        BY <1>4, <1>5, <2>2, <2>3
    <2> QED BY <2>1, <2>3, <2>4
<1>8. \A j, k \in 1 .. Len(Way') : Req(j)' /\ Req(k)' /\ Way'[j].trid = Way'[k].trid => j = k
    <2> SUFFICES ASSUME NEW j \in 1 .. Len(Way'), NEW k \in 1 .. Len(Way'), Req(j)', Req(k)',
                        Way'[j].trid = Way'[k].trid
                 PROVE  j = k
        OBVIOUS
    <2>0. /\ Req(f[j]) /\ Req(f[k]) /\ Way'[j] = Way[f[j]] /\ Way'[k] = Way[f[k]] /\ f[j] # 0
          /\ f[j] \in 1 .. Len(Way) /\ f[k] \in 1 .. Len(Way)
        BY <1>2 DEF Req
    <2>1. f[j] = f[k]
        BY <2>0 DEF Waiting
    <2> QED BY <1>3, <2>0, <2>1
<1>9. \A t \in Trid : \A corr \in correlation'[t] :
          proxy'[corr.caller].stage = "waiting" /\ proxy'[corr.caller].trid = t
    <2> SUFFICES ASSUME NEW t \in Trid, NEW x \in correlation'[t]
                 PROVE  proxy'[x.caller].stage = "waiting" /\ proxy'[x.caller].trid = t
        OBVIOUS
    <2>1. PICK corr \in correlation[t] : x.caller = corr.caller
        BY DEF CallersKept
    <2>2. corr.caller \in Proxy
        BY DEF TypeInv, CorrelationType
    <2> QED BY <1>4, <2>1, <2>2 DEF Waiting
<1> QED BY <1>6, <1>7, <1>8, <1>9 DEF Waiting, CallersKept

\* A step with these new and lost messages adds no request and no reply.
Quiet(N) == \A m \in N : m.kind \notin {"request", "reply"}

\* Requests and replies of Way' were in Way.
LEMMA QuietEmbeds ==
    ASSUME NEW N, NEW L, Quiet(N), Moves(N, L)
    PROVE  \E f \in [1 .. Len(Way') -> Nat] :
              /\ Embeds(f, N, L)
              /\ \A k \in 1 .. Len(Way') : Req(k)' \/ Rep(k)' =>
                    f[k] # 0 /\ f[k] \in 1 .. Len(Way) /\ Way'[k] = Way[f[k]]
              /\ \A k \in 1 .. Len(Way') : Req(k)' => Req(f[k])
              /\ \A k \in 1 .. Len(Way') : Rep(k)' => Rep(f[k])
              /\ \A j, k \in 1 .. Len(Way') : f[j] # 0 /\ f[j] = f[k] => j = k
<1>1. PICK f \in [1 .. Len(Way') -> Nat] : Embeds(f, N, L)
    BY DEF Moves
<1>2. \A k \in 1 .. Len(Way') : Req(k)' \/ Rep(k)' =>
          f[k] # 0 /\ f[k] \in 1 .. Len(Way) /\ Way'[k] = Way[f[k]]
    BY <1>1 DEF Embeds, Quiet, Req, Rep
<1>3. \A k \in 1 .. Len(Way') : Req(k)' => Req(f[k])
    BY <1>2 DEF Req
<1>4. \A k \in 1 .. Len(Way') : Rep(k)' => Rep(f[k])
    BY <1>2 DEF Rep
<1>5. \A j, k \in 1 .. Len(Way') : f[j] # 0 /\ f[j] = f[k] => j = k
    BY <1>1 DEF Embeds
<1> QED BY <1>1, <1>2, <1>3, <1>4, <1>5

\* Who asks and answers, with which numbers, as far as the work of groups depends on it.
SameWork ==
    /\ \A g \in Group : active'[g] \subseteq active[g]
    /\ telling' = telling
    /\ \A g \in Group : \A c \in telling[g] : client'[c].trid = client[c].trid

\* Without new work, a group has work left that had some.
LEMMA LeftKept ==
    ASSUME SameWork, NEW g \in Group, NEW t \in Trid, Left(g, t)'
    PROVE  Left(g, t)
BY DEF SameWork, Left

\* Without a new reply, who has done its part has said so before.
LEMMA QuietDone ==
    ASSUME NEW N, NEW L, Quiet(N), Moves(N, L), requests' = requests
    PROVE  \A k \in 1 .. Len(Way') : Done(k)' => \E j \in 1 .. Len(Way) : Done(j) /\ Way[j] = Way'[k]
<1>1. PICK f \in [1 .. Len(Way') -> Nat] :
          /\ \A k \in 1 .. Len(Way') : Req(k)' \/ Rep(k)' =>
                f[k] # 0 /\ f[k] \in 1 .. Len(Way) /\ Way'[k] = Way[f[k]]
          /\ \A k \in 1 .. Len(Way') : Rep(k)' => Rep(f[k])
    BY QuietEmbeds
<1> QED BY <1>1 DEF Done

\* A group with work in a transaction stays known to the broker, or on the way to it, or asked.
LEMMA TakingKept ==
    ASSUME TypeInv, Taking, NEW N, NEW L, Quiet(N), Moves(N, L), InvolvedGrows, Arrives(L),
           failed \subseteq failed', requests' = requests, correlation' = correlation, SameWork
    PROVE  Taking'
<1>1. \A k \in 1 .. Len(Way') : Done(k)' => \E j \in 1 .. Len(Way) : Done(j) /\ Way[j] = Way'[k]
    BY QuietDone
<1>2. \A g \in Group, t \in Trid : Left(g, t)' => Left(g, t)
    BY LeftKept
<1>3. \A g \in Group, t \in Trid : Asked(g, t) => Asked(g, t)'
    BY DEF Asked
<1> QED BY <1>1, <1>2, <1>3, TakingStep

\* Every request and reply of Way' is one of Way, each another one.
Tracks(f) ==
    /\ \A k \in 1 .. Len(Way') : Req(k)' \/ Rep(k)' =>
          f[k] # 0 /\ f[k] \in 1 .. Len(Way) /\ Way'[k] = Way[f[k]]
    /\ \A k \in 1 .. Len(Way') : Req(k)' => Req(f[k])
    /\ \A k \in 1 .. Len(Way') : Rep(k)' => Rep(f[k])
    /\ \A j, k \in 1 .. Len(Way') : f[j] # 0 /\ f[j] = f[k] => j = k

\* A step that sends no request and no reply moves the ones there are.
LEMMA QuietTracks ==
    ASSUME NEW N, NEW L, Quiet(N), Moves(N, L)
    PROVE  \E f : Tracks(f)
BY QuietEmbeds DEF Tracks

\* Requests and replies are still there once at most.
LEMMA TokensKept ==
    ASSUME TypeInv, Tokens, NEW f, Tracks(f), toGroup' = toGroup, requests' = requests
    PROVE  Tokens'
<1>1. /\ \A k \in 1 .. Len(Way') : Req(k)' \/ Rep(k)' =>
            f[k] # 0 /\ f[k] \in 1 .. Len(Way) /\ Way'[k] = Way[f[k]]
      /\ \A k \in 1 .. Len(Way') : Req(k)' => Req(f[k])
      /\ \A k \in 1 .. Len(Way') : Rep(k)' => Rep(f[k])
      /\ \A j, k \in 1 .. Len(Way') : f[j] # 0 /\ f[j] = f[k] => j = k
    BY DEF Tracks
<1>2. /\ \A g \in Group : \A i \in DOMAIN toGroup'[g] :
             toGroup'[g][i].number <= requests'[toGroup'[g][i].trid]
      /\ \A g \in Group : \A i, j \in DOMAIN toGroup'[g] : toGroup'[g][i] = toGroup'[g][j] => i = j
    BY DEF Tokens
<1>3. \A k \in 1 .. Len(Way') : Rep(k)' => Way'[k].number <= requests'[Way'[k].trid]
    <2> SUFFICES ASSUME NEW k \in 1 .. Len(Way'), Rep(k)' PROVE Way'[k].number <= requests'[Way'[k].trid]
        OBVIOUS
    <2>1. Rep(f[k]) /\ f[k] \in 1 .. Len(Way) /\ Way'[k] = Way[f[k]]
        BY <1>1
    <2> QED BY <2>1 DEF Tokens
<1>4. \A g \in Group : \A i \in DOMAIN toGroup'[g] : \A k \in 1 .. Len(Way') :
          ~ (/\ Rep(k)' /\ Way'[k].from = g
             /\ Way'[k].trid = toGroup'[g][i].trid /\ Way'[k].number = toGroup'[g][i].number)
    <2> SUFFICES ASSUME NEW g \in Group, NEW i \in DOMAIN toGroup[g], NEW k \in 1 .. Len(Way'), Rep(k)'
                 PROVE  ~ (/\ Way'[k].from = g /\ Way'[k].trid = toGroup[g][i].trid
                           /\ Way'[k].number = toGroup[g][i].number)
        OBVIOUS
    <2>1. Rep(f[k]) /\ f[k] \in 1 .. Len(Way) /\ Way'[k] = Way[f[k]]
        BY <1>1
    <2> QED BY <2>1 DEF Tokens
<1>5. \A j, k \in 1 .. Len(Way') :
          Rep(j)' /\ Rep(k)' /\ Way'[j].from = Way'[k].from /\ Way'[j].trid = Way'[k].trid
              /\ Way'[j].number = Way'[k].number => j = k
    <2> SUFFICES ASSUME NEW j \in 1 .. Len(Way'), NEW k \in 1 .. Len(Way'), Rep(j)', Rep(k)',
                        Way'[j].from = Way'[k].from, Way'[j].trid = Way'[k].trid,
                        Way'[j].number = Way'[k].number
                 PROVE  j = k
        OBVIOUS
    <2>1. /\ Rep(f[k]) /\ f[k] \in 1 .. Len(Way) /\ Way'[k] = Way[f[k]]
          /\ Rep(f[j]) /\ f[j] \in 1 .. Len(Way) /\ Way'[j] = Way[f[j]] /\ f[j] # 0
        BY <1>1
    <2>2. f[j] = f[k]
        BY <2>1 DEF Tokens
    <2> QED BY <1>1, <2>1, <2>2
<1>6. \A k \in 1 .. Len(Way') : Req(k)' =>
          /\ \A g \in Group : \A i \in DOMAIN toGroup'[g] :
                toGroup'[g][i].trid = Way'[k].trid => toGroup'[g][i].number # Way'[k].number
          /\ \A j \in 1 .. Len(Way') :
                Rep(j)' /\ Way'[j].trid = Way'[k].trid => Way'[j].number # Way'[k].number
    <2> SUFFICES ASSUME NEW k \in 1 .. Len(Way'), Req(k)'
                 PROVE  /\ \A g \in Group : \A i \in DOMAIN toGroup[g] :
                              toGroup[g][i].trid = Way'[k].trid => toGroup[g][i].number # Way'[k].number
                        /\ \A j \in 1 .. Len(Way') :
                              Rep(j)' /\ Way'[j].trid = Way'[k].trid => Way'[j].number # Way'[k].number
        OBVIOUS
    <2>1. Req(f[k]) /\ f[k] \in 1 .. Len(Way) /\ Way'[k] = Way[f[k]]
        BY <1>1
    <2>2. \A j \in 1 .. Len(Way') : Rep(j)' => Rep(f[j]) /\ f[j] \in 1 .. Len(Way) /\ Way'[j] = Way[f[j]]
        BY <1>1
    <2>3. /\ \A g \in Group : \A i \in DOMAIN toGroup[g] :
                toGroup[g][i].trid = Way[f[k]].trid => toGroup[g][i].number # Way[f[k]].number
          /\ \A j \in 1 .. Len(Way) :
                Rep(j) /\ Way[j].trid = Way[f[k]].trid => Way[j].number # Way[f[k]].number
        BY <2>1 DEF Tokens
    <2> QED BY <2>1, <2>2, <2>3
<1> QED BY <1>2, <1>3, <1>4, <1>5, <1>6 DEF Tokens

\* An old request or reply stays a sign of a group that cannot be reached.
LEMMA StaleKept ==
    ASSUME TypeInv, Stale, NEW N, NEW L, Quiet(N), Moves(N, L), toGroup' = toGroup, InvolvedGrows,
           reachable' \subseteq reachable, alive' \subseteq alive,
           \A t \in Trid : correlation'[t] = {} => correlation[t] = {}
    PROVE  Stale'
<1>1. PICK f \in [1 .. Len(Way') -> Nat] :
          /\ Embeds(f, N, L)
          /\ \A k \in 1 .. Len(Way') : Req(k)' \/ Rep(k)' =>
                f[k] # 0 /\ f[k] \in 1 .. Len(Way) /\ Way'[k] = Way[f[k]]
          /\ \A k \in 1 .. Len(Way') : Req(k)' => Req(f[k])
          /\ \A k \in 1 .. Len(Way') : Rep(k)' => Rep(f[k])
          /\ \A j, k \in 1 .. Len(Way') : f[j] # 0 /\ f[j] = f[k] => j = k
    BY QuietEmbeds
<1>2. \A t \in Trid : Broken(t) => Broken(t)'
    BY DEF Broken, InvolvedGrows
<1>3. \A j, k \in 1 .. Len(Way') : Req(k)' /\ Rep(j)' /\ k < j /\ Way'[j].trid = Way'[k].trid =>
          Broken(Way[k].trid)'
    <2> SUFFICES ASSUME NEW j \in 1 .. Len(Way'), NEW k \in 1 .. Len(Way'), Req(k)', Rep(j)', k < j,
                        Way'[j].trid = Way'[k].trid
                 PROVE  Broken(Way[k].trid)'
        OBVIOUS
    <2>1. /\ Req(f[k]) /\ f[k] \in 1 .. Len(Way) /\ Way'[k] = Way[f[k]] /\ f[k] # 0
          /\ Rep(f[j]) /\ f[j] \in 1 .. Len(Way) /\ Way'[j] = Way[f[j]] /\ f[j] # 0
        BY <1>1
    <2>2. f[k] < f[j]
        BY <1>1, <2>1 DEF Embeds
    <2>3. Broken(Way[f[k]].trid)
        BY <2>1, <2>2 DEF Stale
    <2>4. PICK t \in Trid : t = Way[f[k]].trid
        BY <2>1, ReqTypes
    <2>5. Broken(t)'
        BY <1>2, <2>3, <2>4
    <2>6. Way'[k].trid = t
        BY <2>1, <2>4
    <2> QED BY <2>5, <2>6 DEF Broken
<1>4. \A g \in alive' \cap Group : \A i \in DOMAIN toGroup'[g] :
          correlation'[toGroup'[g][i].trid] = {} => Broken(toGroup[g][i].trid)'
    <2> SUFFICES ASSUME NEW g \in alive' \cap Group, NEW i \in DOMAIN toGroup'[g],
                        correlation'[toGroup'[g][i].trid] = {}
                 PROVE  Broken(toGroup[g][i].trid)'
        OBVIOUS
    <2>0. toGroup[g] \in Seq(Pledge)
        BY DEF TypeInv
    <2>5. i \in DOMAIN toGroup[g]
        OBVIOUS
    <2>6. toGroup[g][i] \in Pledge
        BY <2>0, <2>5
    <2>1. PICK t \in Trid : t = toGroup[g][i].trid
        BY <2>6 DEF Pledge
    <2>2. Broken(t)
        <3>1. i \in DOMAIN toGroup[g] /\ g \in alive \cap Group /\ correlation[t] = {}
            BY <2>1
        <3> QED BY <2>1, <3>1 DEF Stale
    <2>3. Broken(t)'
        BY <1>2, <2>2
    <2>4. toGroup'[g][i].trid = t
        BY <2>1
    <2> QED BY <2>3, <2>4 DEF Broken
<1> QED BY <1>3, <1>4 DEF Stale

\* No group that a record says has replied has work left.
OwedStaged ==
    \A t \in Trid \ failed : \A corr \in correlation[t] :
        /\ owed[t] \subseteq DOMAIN corr.stage
        /\ \A g \in owed[t] : corr.stage[g] # "replied"

\* A step that answers nobody and only adds to the involved groups keeps what groups owe.
LEMMA OwingKept ==
    ASSUME TypeInv, Owing, NEW N, NEW L, Quiet(N), Moves(N, L), Arrives(L),
           \A t \in Trid : (\E k \in 1 .. Len(Way') : Req(k)' /\ Way'[k].trid = t) => involved[t] \subseteq involved'[t],
           owed' = owed, requests' = requests, failed \subseteq failed', OwedStaged', AnswerTrue'
    PROVE  Owing'
<1>1. PICK f \in [1 .. Len(Way') -> Nat] :
          /\ Embeds(f, N, L)
          /\ \A k \in 1 .. Len(Way') : Req(k)' \/ Rep(k)' =>
                f[k] # 0 /\ f[k] \in 1 .. Len(Way) /\ Way'[k] = Way[f[k]]
          /\ \A k \in 1 .. Len(Way') : Req(k)' => Req(f[k])
          /\ \A k \in 1 .. Len(Way') : Rep(k)' => Rep(f[k])
          /\ \A j, k \in 1 .. Len(Way') : f[j] # 0 /\ f[j] = f[k] => j = k
    BY QuietEmbeds
<1>2. ASSUME NEW k \in 1 .. Len(Way'), Req(k)', Way'[k].trid \notin failed', NEW g \in owed'[Way'[k].trid]
      PROVE  \/ g \in involved'[Way'[k].trid]
             \/ \E j \in 1 .. Len(Way') : j < k /\ Inv(j, g, Way[k].trid)'
    <2>1. Req(f[k]) /\ f[k] \in 1 .. Len(Way) /\ Way'[k] = Way[f[k]] /\ f[k] # 0
        BY <1>1, <1>2
    <2>2. PICK t \in Trid : t = Way[f[k]].trid /\ t = Way'[k].trid
        BY <2>1, ReqTypes
    <2>3. g \in owed[t] /\ t \notin failed
        BY <1>2, <2>2
    <2>4. g \in involved[t] \/ \E j \in 1 .. Len(Way) : j < f[k] /\ Inv(j, g, t)
        BY <2>1, <2>2, <2>3 DEF Owing
    <2>5. CASE g \in involved[t]
        BY <1>2, <2>2, <2>5
    <2>6. CASE \E j \in 1 .. Len(Way) : j < f[k] /\ Inv(j, g, t)
        <3>1. PICK j \in 1 .. Len(Way) : j < f[k] /\ Inv(j, g, t)
            BY <2>6
        <3>2. g \in involved'[t] \/ \E i \in 1 .. Len(Way') : f[i] = j /\ Inv(i, g, t)'
            BY <1>1, <3>1, InvolvedKept
        <3>3. ASSUME NEW i \in 1 .. Len(Way'), f[i] = j, Inv(i, g, t)'
              PROVE  i < k /\ Inv(i, g, Way[k].trid)'
            <4>1. i < k
                <5>1. f[i] # 0 /\ ~ (f[k] < f[i]) /\ f[i] # f[k]
                    BY <2>1, <3>1, <3>3
                <5> QED BY <1>1, <2>1, <5>1 DEF Embeds
            <4> QED BY <2>2, <3>3, <4>1 DEF Inv
        <3> QED BY <2>2, <3>2, <3>3
    <2> QED BY <2>4, <2>5, <2>6
<1>3. \A t \in Trid \ failed' : \A corr \in correlation'[t] :
          /\ owed'[t] \subseteq DOMAIN corr.stage
          /\ \A g \in owed'[t] : corr.stage[g] # "replied"
    BY DEF OwedStaged
<1>4. ASSUME NEW k \in 1 .. Len(Way'), Rep(k)', Way'[k].number = requests'[Way'[k].trid],
             Way'[k].state = "XA_OK"
      PROVE  Way'[k].from \notin owed'[Way'[k].trid]
    <2>1. Rep(f[k]) /\ f[k] \in 1 .. Len(Way) /\ Way'[k] = Way[f[k]]
        BY <1>1, <1>4
    <2> QED BY <1>4, <2>1 DEF Owing
<1> QED BY <1>2, <1>3, <1>4 DEF Owing

\* A step without requests and replies keeps what pending groups have on the way.
LEMMA PendingKept ==
    ASSUME TypeInv, Pending, NEW N, NEW L, Quiet(N), Moves(N, L), \A m \in L : m.kind # "reply",
           toGroup' = toGroup, requests' = requests, correlation' = correlation,
           alive' \subseteq alive, merged' = merged
    PROVE  Pending'
<1>1. PICK f \in [1 .. Len(Way') -> Nat] :
          /\ Embeds(f, N, L)
          /\ \A k \in 1 .. Len(Way') : Req(k)' \/ Rep(k)' =>
                f[k] # 0 /\ f[k] \in 1 .. Len(Way) /\ Way'[k] = Way[f[k]]
          /\ \A k \in 1 .. Len(Way') : Req(k)' => Req(f[k])
          /\ \A k \in 1 .. Len(Way') : Rep(k)' => Rep(f[k])
          /\ \A j, k \in 1 .. Len(Way') : f[j] # 0 /\ f[j] = f[k] => j = k
    BY QuietEmbeds
<1>2. ASSUME NEW t \in Trid, NEW corr \in correlation'[t], NEW k \in 1 .. Len(Way'), Rep(k)',
             Way'[k].trid = t
      PROVE  /\ Way'[k].number = requests'[t] /\ Way'[k].from \in DOMAIN corr.stage
             /\ Way'[k].from \in alive' => corr.stage[Way'[k].from] = "pending"
    <2>1. Rep(f[k]) /\ f[k] \in 1 .. Len(Way) /\ Way'[k] = Way[f[k]]
        BY <1>1, <1>2
    <2> QED BY <1>2, <2>1 DEF Pending
<1>3. \A t \in Trid : \A corr \in correlation'[t] : \A g \in alive' \cap Group :
          \A i \in DOMAIN toGroup'[g] :
              toGroup'[g][i].trid = t =>
                  /\ toGroup'[g][i].number = requests'[t] /\ g \in DOMAIN corr.stage
                  /\ corr.stage[g] = "pending"
    BY DEF Pending
<1>4. ASSUME NEW t \in Trid \ merged', NEW corr \in correlation'[t], NEW g \in alive' \cap DOMAIN corr.stage,
             corr.stage[g] = "pending"
      PROVE  \/ \E i \in DOMAIN toGroup'[g] : toGroup'[g][i].trid = t
             \/ \E k \in 1 .. Len(Way') : Rep(k)' /\ Way'[k].trid = t /\ Way'[k].from = g
    <2>1. \/ \E i \in DOMAIN toGroup[g] : toGroup[g][i].trid = t
          \/ \E k \in 1 .. Len(Way) : Rep(k) /\ Way[k].trid = t /\ Way[k].from = g
        BY <1>4 DEF Pending
    <2>2. CASE \E k \in 1 .. Len(Way) : Rep(k) /\ Way[k].trid = t /\ Way[k].from = g
        <3>1. PICK j \in 1 .. Len(Way) : Rep(j) /\ Way[j].trid = t /\ Way[j].from = g
            BY <2>2
        <3>2. Way[j] \notin L
            BY <3>1 DEF Rep
        <3>3. PICK k \in 1 .. Len(Way') : f[k] = j
            BY <1>1, <3>2 DEF Embeds
        <3>4. Way'[k] = Way[j]
            BY <1>1, <3>3 DEF Embeds
        <3> QED BY <3>1, <3>3, <3>4 DEF Rep
    <2> QED BY <2>1, <2>2
<1> QED BY <1>2, <1>3, <1>4 DEF Pending

\* What relates requests, replies and correlations.
Core == Waiting /\ Owing /\ Tokens /\ Stale /\ Pending

\* A step that is none of the requests to the groups and their replies.
LEMMA CoreKept ==
    ASSUME TypeInv, Core, NEW N, NEW L, Quiet(N), Moves(N, L), \A m \in L : m.kind # "reply",
           InvolvedGrows, Arrives(L), ProxiesKept, owed' = owed, requests' = requests,
           correlation' = correlation, toGroup' = toGroup, merged' = merged, failed' = failed,
           reachable' \subseteq reachable, alive' \subseteq alive
    PROVE  Core'
<1>1. CallersKept
    BY DEF Core, Waiting, CallersKept
<1>2. Waiting'
    <2>1. \A m \in N : m.kind # "request"
        BY DEF Quiet
    <2> QED BY <1>1, <2>1, WaitingKept DEF Core
<1>3. AnswerTrue'
    BY DEF Core, Owing, AnswerTrue, ProxiesKept
<1>4. OwedStaged'
    BY DEF Core, Owing, OwedStaged
<1>5. Owing'
    BY <1>3, <1>4, OwingKept DEF InvolvedGrows, Core
<1>6. Tokens'
    BY QuietTracks, TokensKept DEF Core
<1>7. Stale' /\ Pending'
    BY StaleKept, PendingKept DEF Core
<1> QED BY <1>2, <1>5, <1>6, <1>7 DEF Core

\* A step that takes no client from its lookup.
LEMMA AskingKept ==
    ASSUME TypeInv, Working, NEW N, NEW L, Moves(N, L), \A m \in N : m.kind # "lookup", alive' \subseteq alive,
           \A c \in Client : client[c].stage = "lookup" => client'[c].stage = "lookup",
           \A g \in Group : \A c \in telling'[g] : client'[c].stage = "work",
           \A g, h \in Group : \A c \in telling'[g], d \in telling'[h] : g = h <=> c = d
    PROVE  Working'
<1>1. PICK f \in [1 .. Len(Way') -> Nat] : Embeds(f, N, L)
    BY DEF Moves
<1>2. \A k \in 1 .. Len(Way') : Ask(k)' => Ask(f[k]) /\ f[k] # 0 /\ Way'[k] = Way[f[k]]
    BY <1>1 DEF Embeds, Ask
<1>3. \A j, k \in 1 .. Len(Way') : f[j] # 0 /\ f[j] = f[k] => j = k
    BY <1>1 DEF Embeds
<1>4. ASSUME NEW k \in 1 .. Len(Way'), Ask(k)', Way'[k].from \in alive'
      PROVE  client'[Way'[k].from].stage = "lookup"
    <2>1. Ask(f[k]) /\ Way'[k] = Way[f[k]] /\ Way[f[k]].from \in alive
        BY <1>2, <1>4
    <2>2. f[k] \in 1 .. Len(Way) /\ Way[f[k]].from \in Client
        BY <2>1, AskTypes DEF Ask
    <2>3. client[Way[f[k]].from].stage = "lookup"
        BY <2>1, <2>2 DEF Working
    <2> QED BY <2>1, <2>2, <2>3
<1>5. ASSUME NEW j \in 1 .. Len(Way'), NEW k \in 1 .. Len(Way'), Ask(j)', Ask(k)',
             Way'[j].from = Way'[k].from, Way'[k].from \in alive'
      PROVE  j = k
    <2>0. /\ Ask(f[j]) /\ Ask(f[k]) /\ Way'[j] = Way[f[j]] /\ Way'[k] = Way[f[k]] /\ f[j] # 0
          /\ f[j] \in 1 .. Len(Way) /\ f[k] \in 1 .. Len(Way)
        BY <1>2, <1>5 DEF Ask
    <2>1. f[j] = f[k]
        BY <1>5, <2>0 DEF Working
    <2> QED BY <1>3, <2>0, <2>1
<1> QED BY <1>4, <1>5 DEF Working

-----------------------------------------------------------------------------
(* The processes around the broker.                                        *)

\* The inductive invariant.
BrokerInv == TypeInv /\ Registry /\ Working /\ Dead /\ Taking /\ Core

\* The parts that a step can break, besides the types.
Parts == Registry /\ Working /\ Dead /\ Taking /\ Core

\* Nothing changes but variables that no part is about.
LEMMA StutterKeeps ==
    ASSUME BrokerInv, cache' = cache, inbox' = inbox, groups' = groups, queues' = queues,
           telling' = telling, client' = client, active' = active, involved' = involved,
           ended' \cap alive' = {}, ProxiesKept, owed' = owed, requests' = requests,
           correlation' = correlation, toGroup' = toGroup, merged' = merged, failed' = failed,
           reachable' \subseteq reachable, alive' \subseteq alive
    PROVE  Parts'
<1> USE DEF BrokerInv
<1>1. Moves({}, {})
    BY SameMoves DEF TypeInv
<1>2. InvolvedGrows /\ Arrives({})
    BY DEF InvolvedGrows, Arrives
<1>3. Registry'
    BY RegistryKept
<1>4. Working'
    BY <1>1, WorkingKept
<1>5. Dead'
    BY <1>1, DeadKept
<1>7. Quiet({})
    BY DEF Quiet
<1>9. SameWork
    BY DEF SameWork
<1>6. Taking'
    BY <1>1, <1>2, <1>7, <1>9, TakingKept
<1>8. Core'
    BY <1>1, <1>2, <1>7, CoreKept
<1> QED BY <1>3, <1>4, <1>5, <1>6, <1>8 DEF Parts

\* A message that is neither a request nor a reply is sent: what is left to show.
LEMMA SendKeeps ==
    ASSUME BrokerInv, NEW m \in Message, m.kind \notin {"request", "reply", "exit"},
           inbox' = Append(inbox, m), cache' = cache,
           UNCHANGED <<groups, queues, involved, correlation, ended, alive, reachable, proxy, owed,
                       requests, toGroup, merged, failed>>
    PROVE  /\ Registry' /\ Dead' /\ Core'
           /\ Moves({m}, {}) /\ Quiet({m}) /\ InvolvedGrows /\ Arrives({})
<1> USE DEF BrokerInv
<1>1. Moves({m}, {})
    BY SendMoves DEF TypeInv
<1>2. InvolvedGrows /\ Arrives({})
    BY DEF InvolvedGrows, Arrives
<1>3. Registry'
    BY RegistryKept
<1>5. Dead'
    <2>1. ended' \cap alive' = {} /\ alive' \subseteq alive
        BY DEF Dead
    <2> QED BY <1>1, <2>1, DeadKept
<1>7. Quiet({m})
    BY DEF Quiet
<1>9. ProxiesKept
    BY DEF ProxiesKept
<1>8. Core'
    BY <1>1, <1>2, <1>7, <1>9, CoreKept
<1> QED BY <1>1, <1>2, <1>3, <1>5, <1>7, <1>8

\* queue::Lookup keeps the invariant.
LEMMA LookupKeeps ==
    ASSUME BrokerInv, NEW c \in Client, NEW n \in Name, NEW t \in Trid, Lookup(c, n, t)
    PROVE  Parts'
<1> DEFINE m == [kind |-> "lookup", from |-> c, name |-> n]
<1> USE DEF BrokerInv
<1>1. m \in Message /\ m.kind = "lookup" /\ m.from = c
    BY DEF Message, LookupMessage
<1>2. /\ inbox' = Append(inbox, m) /\ cache' = cache /\ client[c].stage = "idle" /\ c \in alive
      /\ UNCHANGED <<groups, queues, involved, correlation, ended, alive, reachable, proxy, owed,
                     requests, toGroup, merged, failed>>
      /\ telling' = telling /\ active' = active
    BY DEF Lookup, brokerState, tmVars
<1> HIDE DEF m
<1>3. /\ Registry' /\ Dead' /\ Core'
      /\ Moves({m}, {}) /\ Quiet({m}) /\ InvolvedGrows /\ Arrives({})
    BY <1>1, <1>2, SendKeeps
<1>4. PICK s \in ClientState : s.stage = "lookup" /\ s.trid = t /\ client' = [client EXCEPT ![c] = s]
    BY LookupClient
<1>5. /\ client'[c].stage = "lookup" /\ \A d \in Client : d # c => client'[d] = client[d]
      /\ \A g \in Group : c \notin telling[g] /\ telling[g] \subseteq Client
    BY <1>2, <1>4 DEF TypeInv, Working
<1>6. Taking'
    <2>1. SameWork
        BY <1>2, <1>5 DEF SameWork
    <2> QED BY <1>2, <1>3, <2>1, TakingKept
<1>7. /\ Len(Way) \in Nat /\ Len(Way') = Len(Way) + 1 /\ Way'[Len(Way) + 1] = m
      /\ \A k \in 1 .. Len(Way) : Way'[k] = Way[k]
    BY <1>1, <1>2, SendMoves DEF TypeInv
<1>8. \A k \in 1 .. Len(Way) : Ask(k) => Way[k].from # c
    BY <1>2 DEF Working
<1>9. ASSUME NEW k \in 1 .. Len(Way'), Ask(k)', Way'[k].from \in alive'
      PROVE  client'[Way'[k].from].stage = "lookup"
    <2>1. CASE k = Len(Way) + 1
        BY <1>1, <1>5, <1>7, <2>1
    <2>2. CASE k \in 1 .. Len(Way)
        <3>1. Ask(k) /\ Way'[k] = Way[k]
            BY <1>7, <1>9, <2>2 DEF Ask
        <3>2. Way[k].from \in Client /\ Way[k].from # c /\ client[Way[k].from].stage = "lookup"
            BY <1>2, <1>8, <1>9, <2>2, <3>1, AskTypes DEF Working
        <3> QED BY <1>5, <3>1, <3>2
    <2> QED BY <1>7, <2>1, <2>2
<1>10. ASSUME NEW j \in 1 .. Len(Way'), NEW k \in 1 .. Len(Way'), Ask(j)', Ask(k)',
              Way'[j].from = Way'[k].from, Way'[k].from \in alive'
       PROVE  j = k
    <2>1. \A i \in 1 .. Len(Way) : Ask(i)' => Ask(i) /\ Way'[i] = Way[i] /\ Way'[i].from # c
        BY <1>7, <1>8 DEF Ask
    <2>2. \A i \in 1 .. Len(Way') : i \in 1 .. Len(Way) \/ i = Len(Way) + 1
        BY <1>7
    <2>3. Way'[Len(Way) + 1].from = c
        BY <1>1, <1>7
    <2>4. CASE j \in 1 .. Len(Way) /\ k \in 1 .. Len(Way)
        BY <1>2, <1>10, <2>1, <2>4 DEF Working
    <2> QED BY <1>10, <2>1, <2>2, <2>3, <2>4
<1>11. /\ \A g \in Group : \A d \in telling'[g] : client'[d].stage = "work"
       /\ \A g, h \in Group : \A d \in telling'[g], e \in telling'[h] : g = h <=> d = e
    BY <1>2, <1>5 DEF Working
<1>12. Working'
    BY <1>9, <1>10, <1>11 DEF Working
<1> QED BY <1>3, <1>6, <1>12 DEF Parts

\* Work in a group keeps the invariant: the group tells the broker before it answers.
LEMMA WorkKeeps ==
    ASSUME BrokerInv, NEW g \in Group, NEW c \in Client, Work(g, c)
    PROVE  Parts'
<1> USE DEF BrokerInv
<1>1. /\ cache' = cache /\ inbox' = inbox /\ telling[g] = {} /\ client[c].stage = "found"
      /\ active' = [active EXCEPT ![g] = @ \cup {client[c].trid}]
      /\ telling' = [telling EXCEPT ![g] = {c}]
      /\ UNCHANGED <<groups, queues, involved, correlation, ended, alive, reachable, proxy, owed,
                     requests, toGroup, merged, failed>>
    BY DEF Work, brokerState, tmVars
<1>2. PICK s \in ClientState :
          s.stage = "work" /\ s.trid = client[c].trid /\ client' = [client EXCEPT ![c] = s]
    BY WorkClient
<1>3. /\ client'[c].stage = "work" /\ \A d \in Client : d # c => client'[d] = client[d]
      /\ \A d \in Client : client'[d].trid = client[d].trid
      /\ \A h \in Group : c \notin telling[h] /\ telling[h] \subseteq Client
      /\ telling'[g] = {c} /\ \A h \in Group \ {g} : telling'[h] = telling[h]
    BY <1>1, <1>2 DEF TypeInv, Working
<1>4. Moves({}, {}) /\ Way' = Way
    BY <1>1, SameMoves DEF TypeInv
<1>2a. InvolvedGrows /\ Arrives({}) /\ Quiet({})
    BY <1>1 DEF InvolvedGrows, Arrives, Quiet
<1>2b. ProxiesKept
    BY <1>1 DEF ProxiesKept
<1>5. InvolvedGrows /\ Arrives({}) /\ Quiet({}) /\ ProxiesKept
    BY <1>2a, <1>2b
<1>6. Registry'
    BY <1>1, RegistryKept
<1>7. Dead'
    <2>1. ended' \cap alive' = {} /\ alive' \subseteq alive
        BY <1>1 DEF Dead
    <2> QED BY <1>4, <2>1, DeadKept
<1>8. Core'
    BY <1>1, <1>4, <1>5, CoreKept
<1>9. Working'
    <2>1. \A d \in Client : client[d].stage = "lookup" => client'[d].stage = "lookup"
        BY <1>1, <1>3
    <2>2. \A h \in Group : \A d \in telling'[h] : client'[d].stage = "work"
        BY <1>3 DEF Working
    <2>3. \A h, i \in Group : \A d \in telling'[h], e \in telling'[i] : h = i <=> d = e
        BY <1>3 DEF Working
    <2> QED BY <1>1, <1>4, <2>1, <2>2, <2>3, AskingKept
<1>10. Taking'
    <2>1. ASSUME NEW h \in Group, NEW t \in Trid, Left(h, t)'
          PROVE  Left(h, t)
        <3>1. t \in active'[h] /\ \A d \in telling'[h] : client'[d].trid # t
            BY <2>1 DEF Left
        <3>2. h # g \/ t # client[c].trid
            BY <1>3, <3>1
        <3>3. t \in active[h]
            BY <1>1, <3>1, <3>2 DEF TypeInv
        <3>4. \A d \in telling[h] : client[d].trid # t
            BY <1>1, <1>3, <3>1
        <3> QED BY <3>3, <3>4 DEF Left
    <2>2. \A h \in Group, t \in Trid : Asked(h, t) => Asked(h, t)'
        BY <1>1 DEF Asked
    <2>3. \A k \in 1 .. Len(Way') : Done(k)' => \E j \in 1 .. Len(Way) : Done(j) /\ Way[j] = Way'[k]
        BY <1>1, <1>4 DEF Done, Rep
    <2> QED BY <1>1, <1>4, <1>5, <2>1, <2>2, <2>3, TakingStep
<1> QED BY <1>6, <1>7, <1>8, <1>9, <1>10 DEF Parts

\* A client that has no queue to work with keeps the invariant.
LEMMA NoQueueKeeps ==
    ASSUME BrokerInv, NEW c \in Client, NoQueue(c)
    PROVE  Parts'
<1> USE DEF BrokerInv
<1>1. /\ cache' = cache /\ inbox' = inbox /\ client[c].stage \in {"missing", "found"}
      /\ client' = [client EXCEPT ![c] = Freed(c)] /\ telling' = telling /\ active' = active
      /\ UNCHANGED <<groups, queues, involved, correlation, ended, alive, reachable, proxy, owed,
                     requests, toGroup, merged, failed>>
    BY DEF NoQueue, brokerState, tmVars
<1>3. /\ \A d \in Client : d # c => client'[d] = client[d]
      /\ \A h \in Group : c \notin telling[h] /\ telling[h] \subseteq Client
    BY <1>1 DEF TypeInv, Working
<1>4. Moves({}, {}) /\ Way' = Way
    BY <1>1, SameMoves DEF TypeInv
<1>2a. InvolvedGrows /\ Arrives({}) /\ Quiet({})
    BY <1>1 DEF InvolvedGrows, Arrives, Quiet
<1>2b. ProxiesKept
    BY <1>1 DEF ProxiesKept
<1>5. InvolvedGrows /\ Arrives({}) /\ Quiet({}) /\ ProxiesKept
    BY <1>2a, <1>2b
<1>6. Registry'
    BY <1>1, RegistryKept
<1>7. Dead'
    <2>1. ended' \cap alive' = {} /\ alive' \subseteq alive
        BY <1>1 DEF Dead
    <2> QED BY <1>4, <2>1, DeadKept
<1>8. Core'
    BY <1>1, <1>4, <1>5, CoreKept
<1>9. Working'
    <2>1. \A d \in Client : client[d].stage = "lookup" => client'[d].stage = "lookup"
        BY <1>1, <1>3
    <2>2. \A h \in Group : \A d \in telling'[h] : client'[d].stage = "work"
        BY <1>1, <1>3 DEF Working
    <2>3. \A h, i \in Group : \A d \in telling'[h], e \in telling'[i] : h = i <=> d = e
        BY <1>1 DEF Working
    <2> QED BY <1>1, <1>4, <2>1, <2>2, <2>3, AskingKept
<1>10. Taking'
    <2>1. SameWork
        BY <1>1, <1>3 DEF SameWork
    <2> QED BY <1>1, <1>4, <1>5, <2>1, TakingKept
<1> QED BY <1>6, <1>7, <1>8, <1>9, <1>10 DEF Parts

\* A group that tells the broker that it takes part keeps the invariant.
LEMMA TellKeeps ==
    ASSUME BrokerInv, NEW g \in Group, Tell(g)
    PROVE  Parts'
<1> USE DEF BrokerInv
<1>1. PICK c \in telling[g] :
          /\ c \in Client /\ inbox' = Append(inbox, [kind |-> "involved", from |-> g, trid |-> client[c].trid])
          /\ \/ client' = client /\ c \notin alive
             \/ client' = [client EXCEPT ![c] = Freed(c)]
          /\ telling' = [telling EXCEPT ![g] = {}]
          /\ UNCHANGED <<mode, groups, queues, involved, correlation, cache, asked, ended, toGroup,
                         active, proxy, alive, reachable, decision, requests, admins, owed, merged,
                         failed>>
    BY TellClient
<1>2. client[c].stage = "work" /\ client[c].trid \in Trid
    BY <1>1 DEF Working, TypeInv
<1>3. PICK m \in Message : m = [kind |-> "involved", from |-> g, trid |-> client[c].trid]
    BY <1>2 DEF Message, InvolvedMessage
<1>4. m.kind = "involved" /\ m.from = g /\ m.trid = client[c].trid
    BY <1>3
<1>5. inbox' = Append(inbox, m)
    BY <1>1, <1>3
<1>6. /\ Registry' /\ Dead' /\ Core'
      /\ Moves({m}, {}) /\ Quiet({m}) /\ InvolvedGrows /\ Arrives({})
    BY <1>1, <1>4, <1>5, SendKeeps
<1>7. /\ \A d \in Client : d # c => client'[d] = client[d]
      /\ telling'[g] = {} /\ \A h \in Group \ {g} : telling'[h] = telling[h] /\ c \notin telling[h]
      /\ \A h \in Group : telling[h] \subseteq Client
    BY <1>1 DEF TypeInv, Working
<1>8. telling[g] = {c}
    BY <1>1 DEF Working
<1>9. Working'
    <2>1. \A d \in Client : client[d].stage = "lookup" => client'[d].stage = "lookup"
        BY <1>2, <1>7
    <2>2. \A h \in Group : \A d \in telling'[h] : client'[d].stage = "work"
        BY <1>7 DEF Working
    <2>3. \A h, i \in Group : \A d \in telling'[h], e \in telling'[i] : h = i <=> d = e
        BY <1>7 DEF Working
    <2> QED BY <1>1, <1>4, <1>6, <2>1, <2>2, <2>3, AskingKept
<1>10. Taking'
    <2>1. /\ Len(Way) \in Nat /\ Len(Way') = Len(Way) + 1 /\ Way'[Len(Way) + 1] = m
          /\ \A k \in 1 .. Len(Way) : Way'[k] = Way[k]
        BY <1>1, <1>5, SendMoves DEF TypeInv
    <2>2. ASSUME NEW h \in Group, NEW t \in Trid, Left(h, t)'
          PROVE  Left(h, t) \/ Known(h, t)'
        <3>1. CASE h = g /\ t = client[c].trid
            <4>1. PICK k \in 1 .. Len(Way') : k = Len(Way) + 1
                BY <2>1
            <4>2. Inv(k, h, t)'
                BY <1>4, <2>1, <3>1, <4>1 DEF Inv
            <4> QED BY <4>2 DEF Known
        <3>2. CASE ~ (h = g /\ t = client[c].trid)
            <4>1. t \in active'[h] /\ \A d \in telling'[h] : client'[d].trid # t
                BY <2>2 DEF Left
            <4>2. t \in active[h] /\ \A d \in telling[h] : client[d].trid # t
                BY <1>1, <1>7, <1>8, <3>2, <4>1
            <4> QED BY <4>2 DEF Left
        <3> QED BY <3>1, <3>2
    <2>3. \A h \in Group, t \in Trid : Asked(h, t) => Asked(h, t)'
        BY <1>1 DEF Asked
    <2>4. ASSUME NEW k \in 1 .. Len(Way'), Done(k)'
          PROVE  \E j \in 1 .. Len(Way) : Done(j) /\ Way[j] = Way'[k]
        <3>1. k \in 1 .. Len(Way) /\ Way'[k] = Way[k]
            BY <1>4, <2>1, <2>4 DEF Done, Rep
        <3> QED BY <1>1, <2>4, <3>1 DEF Done, Rep
    <2> QED BY <1>1, <1>6, <2>2, <2>3, <2>4, TakingStep
<1> QED BY <1>6, <1>9, <1>10 DEF Parts

\* The answer to broker::queues keeps the invariant.
LEMMA InformKeeps ==
    ASSUME BrokerInv, NEW g \in Group, Inform(g)
    PROVE  Parts'
<1> USE DEF BrokerInv
<1>1. PICK m \in Message : m = [kind |-> "information", from |-> g]
    BY DEF Message, GroupMessage
<1>2. m.kind = "information"
    BY <1>1
<1>3. /\ inbox' = Append(inbox, m) /\ cache' = cache
      /\ UNCHANGED <<groups, queues, involved, correlation, ended, alive, reachable, proxy, owed,
                     requests, toGroup, merged, failed>>
      /\ telling' = telling /\ active' = active /\ client' = client
    BY <1>1 DEF Inform, brokerState, tmVars
<1>4. /\ Registry' /\ Dead' /\ Core'
      /\ Moves({m}, {}) /\ Quiet({m}) /\ InvolvedGrows /\ Arrives({})
    BY <1>2, <1>3, SendKeeps
<1>5. Working'
    BY <1>2, <1>3, <1>4, WorkingKept
<1>6. Taking'
    <2>1. SameWork
        BY <1>3 DEF SameWork
    <2> QED BY <1>3, <1>4, <2>1, TakingKept
<1> QED BY <1>4, <1>5, <1>6 DEF Parts

\* The return of an xa call keeps the invariant.
LEMMA ReturnKeeps ==
    ASSUME BrokerInv, NEW p \in Proxy, Return(p)
    PROVE  Parts'
<1>1. /\ proxy[p].stage = "answered" /\ proxy' = [proxy EXCEPT ![p] = IdleProxy]
      /\ UNCHANGED <<cache, inbox, groups, queues, telling, client, active, involved, ended, alive,
                     owed, requests, correlation, toGroup, merged, failed, reachable>>
    BY DEF Return, brokerState, tmVars
<1>2. IdleProxy.stage = "idle"
    BY DEF IdleProxy
<1>3. ProxiesKept
    BY <1>1, <1>2 DEF ProxiesKept, BrokerInv, TypeInv
<1>4. ended' \cap alive' = {}
    BY <1>1 DEF BrokerInv, Dead
<1> QED BY <1>1, <1>3, <1>4, StutterKeeps

\* The death of a process keeps the invariant.
LEMMA DieKeeps ==
    ASSUME BrokerInv, NEW x \in Mortal, Die(x)
    PROVE  Parts'
<1>1. /\ alive' = alive \ {x} /\ reachable' \subseteq reachable /\ ended' \subseteq ended \cup {x}
      /\ UNCHANGED <<cache, inbox, groups, queues, telling, client, active, involved, proxy,
                     owed, requests, correlation, toGroup, merged, failed>>
    BY DEF Die, brokerState, tmVars
<1>3. ProxiesKept
    BY <1>1 DEF ProxiesKept
<1>4. ended' \cap alive' = {} /\ alive' \subseteq alive
    BY <1>1 DEF BrokerInv, Dead
<1> QED BY <1>1, <1>3, <1>4, StutterKeeps

\* The call of broker::queues keeps the invariant.
LEMMA AdminKeeps ==
    ASSUME BrokerInv, Admin
    PROVE  Parts'
<1>1. /\ UNCHANGED <<cache, inbox, groups, queues, telling, client, active, involved, ended, alive,
                     proxy, owed, requests, correlation, toGroup, merged, failed, reachable>>
    BY DEF Admin, brokerState, tmVars
<1>3. ProxiesKept
    BY <1>1 DEF ProxiesKept
<1>4. ended' \cap alive' = {}
    BY <1>1 DEF BrokerInv, Dead
<1> QED BY <1>1, <1>3, <1>4, StutterKeeps

-----------------------------------------------------------------------------
(* The broker.                                                             *)

\* A group that connects gets the names that are free.
LEMMA ConnectKeeps ==
    ASSUME BrokerInv, NEW g \in Group, Connect(g)
    PROVE  Parts'
<1> USE DEF BrokerInv
<1>1. /\ UNCHANGED <<cache, inbox, telling, client, active, involved, ended, alive,
                     proxy, owed, requests, correlation, toGroup, merged, failed, reachable>>
      /\ g \notin groups /\ groups' = groups \cup {g}
      /\ queues' = [n \in Name |-> IF n \in Owns[g] /\ queues[n] = {} THEN {g} ELSE queues[n]]
    BY DEF Connect, tmVars
<1>2. Registry'
    <2>1. \A n \in Name : \/ queues'[n] = {g} /\ n \in Owns[g] /\ queues[n] = {}
                         \/ queues'[n] = queues[n]
        BY <1>1
    <2>2. \A n \in Name : queues'[n] \subseteq groups'
        BY <1>1, <2>1 DEF Registry, QueuesServed
    <2>3. ASSUME NEW n \in Name, NEW h \in groups', {k \in Group : n \in Owns[k]} = {h}
          PROVE  queues'[n] = {h}
        <3>1. CASE h = g
            <4>1. queues[n] = {}
                BY <1>1, <2>3, <3>1 DEF Registry, QueuesServed, TypeInv
            <4>2. n \in Owns[g]
                BY <2>3, <3>1
            <4> QED BY <1>1, <3>1, <4>1, <4>2
        <3>2. CASE h # g
            <4>1. queues[n] = {h}
                BY <1>1, <2>3, <3>2 DEF Registry, QueuesServed
            <4> QED BY <1>1, <4>1
        <3> QED BY <3>1, <3>2
    <2>4. \A n \in Name : \A h \in queues'[n] : n \in Owns[h]
        BY <2>1 DEF Registry
    <2>5. \A n \in Name : \A h, i \in queues'[n] : h = i
        BY <2>1 DEF Registry
    <2> QED BY <2>2, <2>3, <2>4, <2>5 DEF Registry, QueuesServed
<1>3. ProxiesKept
    BY <1>1 DEF ProxiesKept
<1>4. ended' \cap alive' = {} /\ alive' \subseteq alive
    BY <1>1 DEF Dead
<1>5. Moves({}, {})
    BY <1>1, SameMoves DEF TypeInv
<1>6. InvolvedGrows /\ Arrives({}) /\ Quiet({})
    BY <1>1 DEF InvolvedGrows, Arrives, Quiet
<1>7. Working' /\ Dead'
    BY <1>1, <1>4, <1>5, WorkingKept, DeadKept
<1>8. Taking'
    <2>1. SameWork
        BY <1>1 DEF SameWork
    <2> QED BY <1>1, <1>5, <1>6, <2>1, TakingKept
<1>9. Core'
    BY <1>1, <1>3, <1>4, <1>5, <1>6, CoreKept
<1> QED BY <1>2, <1>7, <1>8, <1>9 DEF Parts

\* The event of a death that is pushed into the cache keeps the invariant.
LEMMA SignalKeeps ==
    ASSUME BrokerInv, NEW g \in Group, Signal(g)
    PROVE  Parts'
<1> USE DEF BrokerInv
<1>1. PICK m \in Message : m = [kind |-> "exit", from |-> g]
    BY DEF Message, GroupMessage
<1>2. m.kind = "exit" /\ m.from = g
    BY <1>1
<1>3. /\ cache' = Append(cache, m) /\ inbox' = inbox /\ g \in ended /\ ended' = ended \ {g}
      /\ UNCHANGED <<groups, queues, telling, client, active, involved, alive,
                     proxy, owed, requests, correlation, toGroup, merged, failed, reachable>>
    BY <1>1 DEF Signal, brokerState, tmVars
<1>4. Moves({m}, {})
    BY <1>3, InsertMoves DEF TypeInv
<1>5. InvolvedGrows /\ Arrives({})
    BY <1>3 DEF InvolvedGrows, Arrives
<1>6. Quiet({m})
    BY <1>2 DEF Quiet
<1>7. ProxiesKept
    BY <1>3 DEF ProxiesKept
<1>8. ended' \cap alive' = {} /\ alive' \subseteq alive /\ g \notin alive'
    BY <1>3 DEF Dead
<1>9. Registry'
    BY <1>3, RegistryKept
<1>10. Working'
    BY <1>2, <1>3, <1>4, <1>8, WorkingKept
<1>11. Dead'
    BY <1>2, <1>4, <1>8, DeadKept
<1>12. Taking'
    <2>1. SameWork
        BY <1>3 DEF SameWork
    <2> QED BY <1>3, <1>4, <1>5, <1>6, <2>1, TakingKept
<1>13. Core'
    BY <1>3, <1>4, <1>5, <1>6, <1>7, <1>8, CoreKept
<1> QED BY <1>9, <1>10, <1>11, <1>12, <1>13 DEF Parts

\* A pledge is its transaction and its number.
LEMMA SamePledge ==
    ASSUME NEW a \in Pledge, NEW b \in Pledge, a.trid = b.trid, a.number = b.number
    PROVE  a = b
<1>1. PICK t \in Trid, n \in Nat : a = [trid |-> t, number |-> n]
    BY DEF Pledge
<1>2. PICK u \in Trid, k \in Nat : b = [trid |-> u, number |-> k]
    BY DEF Pledge
<1>3. t = u /\ n = k
    BY <1>1, <1>2
<1> QED BY <1>1, <1>2, <1>3

\* A group answers: the request before it becomes a reply on the way.
LEMMA ResolveKeeps ==
    ASSUME BrokerInv, NEW g \in Group, Resolve(g)
    PROVE  Parts'
<1> USE DEF BrokerInv
<1> DEFINE r == Head(toGroup[g])
           t == r.trid
           n == r.number
<1>0. PICK state \in {"XA_OK", "XAER_RMFAIL"} : Resolved(g, r, state)
    BY ResolveCases
<1>1. /\ inbox' = Append(inbox, [kind |-> "reply", from |-> g, trid |-> t, number |-> n, state |-> state])
      /\ active' \in {active, [active EXCEPT ![g] = @ \ {t}]}
      /\ state = "XA_OK" => active' = [active EXCEPT ![g] = @ \ {t}]
      /\ owed' = IF state = "XA_OK" /\ n = requests[t]
                 THEN [owed EXCEPT ![t] = @ \ {g}] ELSE owed
    BY <1>0 DEF Resolved
<1>2. /\ g \in alive /\ toGroup[g] # <<>> /\ toGroup' = [toGroup EXCEPT ![g] = Tail(@)]
      /\ UNCHANGED <<cache, groups, queues, involved, correlation, ended, alive, reachable, proxy,
                     requests, merged, failed, telling, client>>
    BY DEF Resolve, brokerState, tmVars
<1>3. /\ toGroup[g] \in Seq(Pledge) /\ r \in Pledge /\ r = toGroup[g][1] /\ 1 \in DOMAIN toGroup[g]
      /\ Tail(toGroup[g]) \in Seq(Pledge) /\ Len(Tail(toGroup[g])) = Len(toGroup[g]) - 1
      /\ \A k \in 1 .. Len(toGroup[g]) - 1 : Tail(toGroup[g])[k] = toGroup[g][k + 1]
      /\ Len(toGroup[g]) \in Nat /\ DOMAIN toGroup[g] = 1 .. Len(toGroup[g])
      /\ DOMAIN Tail(toGroup[g]) = 1 .. Len(toGroup[g]) - 1
    <2>1. toGroup[g] \in Seq(Pledge)
        BY DEF TypeInv
    <2> HIDE DEF Pledge
    <2> QED BY <1>2, <2>1, HeadTail
<1>4. t \in Trid /\ n \in Nat
    BY <1>3 DEF Pledge
<1>5. /\ toGroup'[g] = Tail(toGroup[g]) /\ \A h \in Group \ {g} : toGroup'[h] = toGroup[h]
    BY <1>2 DEF TypeInv
<1>6. ASSUME NEW h \in Group, NEW i \in DOMAIN toGroup'[h]
      PROVE  \E j \in DOMAIN toGroup[h] : toGroup'[h][i] = toGroup[h][j] /\ (h = g => j = i + 1) /\ (h # g => j = i)
    <2>1. CASE h = g
        <3>1. i \in 1 .. Len(toGroup[g]) - 1
            BY <1>3, <1>5, <1>6, <2>1
        <3>2. i + 1 \in DOMAIN toGroup[g]
            BY <1>3, <3>1
        <3> QED BY <1>3, <1>5, <2>1, <3>1, <3>2
    <2>2. CASE h # g
        BY <1>5, <1>6, <2>2
    <2> QED BY <2>1, <2>2
<1>7. \A i \in DOMAIN toGroup[g] : i # 1 => i - 1 \in DOMAIN toGroup'[g] /\ toGroup'[g][i - 1] = toGroup[g][i]
    <2> SUFFICES ASSUME NEW i \in DOMAIN toGroup[g], i # 1
                 PROVE  i - 1 \in DOMAIN toGroup'[g] /\ toGroup'[g][i - 1] = toGroup[g][i]
        OBVIOUS
    <2>1. i - 1 \in 1 .. Len(toGroup[g]) - 1 /\ (i - 1) + 1 = i
        BY <1>3
    <2> QED BY <1>3, <1>5, <2>1
<1>7a. \A h \in Group : \A i \in DOMAIN toGroup[h] : toGroup[h][i] \in Pledge
    BY DEF TypeInv
<1>8. PICK m \in Message :
          /\ m = [kind |-> "reply", from |-> g, trid |-> t, number |-> n, state |-> state]
          /\ m.kind = "reply" /\ m.from = g /\ m.trid = t /\ m.number = n /\ m.state = state
    <2> HIDE DEF r
    <2> QED BY <1>1, <1>4 DEF Message, ReplyMessage
<1>9. inbox' = Append(inbox, m)
    BY <1>1, <1>8
<1> HIDE DEF r
<1>10. /\ Len(Way) \in Nat /\ Len(Way') = Len(Way) + 1 /\ Way'[Len(Way) + 1] = m
       /\ \A k \in 1 .. Len(Way) : Way'[k] = Way[k]
       /\ Moves({m}, {})
    BY <1>2, <1>9, SendMoves DEF TypeInv
<1>11. \A k \in 1 .. Len(Way') : k = Len(Way) + 1 \/ (k \in 1 .. Len(Way) /\ Way'[k] = Way[k])
    BY <1>10
<1>12. \A k \in 1 .. Len(Way) : k \in 1 .. Len(Way') /\ Way'[k] = Way[k] /\ (Rep(k) => Rep(k)')
    BY <1>10 DEF Rep
<1>13. \A k \in 1 .. Len(Way') : Req(k)' => k \in 1 .. Len(Way) /\ Req(k) /\ Way'[k] = Way[k]
    BY <1>8, <1>10, <1>11 DEF Req
<1>14. \A k \in 1 .. Len(Way') : Rep(k)' =>
          \/ k = Len(Way) + 1 /\ Way'[k] = m
          \/ k \in 1 .. Len(Way) /\ Rep(k) /\ Way'[k] = Way[k]
    BY <1>10, <1>11 DEF Rep
<1>15. \A x \in Trid : owed'[x] \subseteq owed[x]
    BY <1>1, <1>4 DEF TypeInv
<1>16. state = "XA_OK" /\ n = requests[t] => g \notin owed'[t]
    BY <1>1, <1>4 DEF TypeInv
<1>17. InvolvedGrows /\ Arrives({})
    BY <1>2 DEF InvolvedGrows, Arrives
<1>18. ended' \cap alive' = {} /\ alive' \subseteq alive
    BY <1>2 DEF Dead
<1>19. Registry'
    BY <1>2, RegistryKept
<1>20. Working'
    BY <1>2, <1>8, <1>10, WorkingKept
<1>21. Dead'
    BY <1>8, <1>10, <1>18, DeadKept
<1>22. Taking'
    <2>1. (\A h \in Group : active'[h] \subseteq active[h]) /\ (state = "XA_OK" => t \notin active'[g])
        BY <1>1 DEF TypeInv
    <2>2. SameWork
        BY <1>2, <2>1 DEF SameWork
    <2>3. \A h \in Group, x \in Trid : Left(h, x)' => Left(h, x)
        BY <2>2, LeftKept
    <2>4. \A h \in Group, x \in Trid : Asked(h, x) => Asked(h, x)'
        BY <1>2 DEF Asked
    <2>5. ASSUME NEW k \in 1 .. Len(Way'), Done(k)'
          PROVE  \/ \E j \in 1 .. Len(Way) : Done(j) /\ Way[j] = Way'[k]
                 \/ Way'[k].from \in Group /\ Way'[k].trid \in Trid /\ ~ Left(Way[k].from, Way[k].trid)'
        <3>1. CASE Way'[k] = m
            <4>1. state = "XA_OK"
                BY <1>8, <2>5, <3>1 DEF Done
            <4> QED BY <1>4, <1>8, <2>1, <3>1, <4>1 DEF Left
        <3>2. CASE k \in 1 .. Len(Way) /\ Rep(k) /\ Way'[k] = Way[k]
            BY <1>2, <2>5, <3>2 DEF Done
        <3>3. Rep(k)'
            BY <2>5 DEF Done
        <3> QED BY <1>14, <3>1, <3>2, <3>3
    <2> QED BY <1>2, <1>10, <1>17, <2>3, <2>4, <2>5, TakingStep
<1>23. Waiting'
    <2>1. ProxiesKept /\ CallersKept
        BY <1>2 DEF ProxiesKept, CallersKept, Core, Waiting
    <2> QED BY <1>2, <1>8, <1>10, <2>1, WaitingKept DEF Core
<1>24. Owing'
    <2>1. ASSUME NEW k \in 1 .. Len(Way'), Req(k)', Way'[k].trid \notin failed', NEW h \in owed'[Way'[k].trid]
          PROVE  \/ h \in involved'[Way'[k].trid]
                 \/ \E j \in 1 .. Len(Way') : j < k /\ Inv(j, h, Way[k].trid)'
        <3>1. k \in 1 .. Len(Way) /\ Req(k) /\ Way'[k] = Way[k] /\ Way[k].trid \in Trid
            BY <1>13, <2>1, ReqTypes
        <3>2. \/ h \in involved[Way[k].trid]
              \/ \E j \in 1 .. Len(Way) : j < k /\ Inv(j, h, Way[k].trid)
            BY <1>2, <1>15, <2>1, <3>1 DEF Core, Owing
        <3>3. \A j \in 1 .. Len(Way) : Inv(j, h, Way[k].trid) => Inv(j, h, Way[k].trid)'
            BY <1>12, <3>1 DEF Inv
        <3> QED BY <1>2, <1>12, <3>1, <3>2, <3>3
    <2>2. \A x \in Trid \ failed' : \A corr \in correlation'[x] :
              /\ owed'[x] \subseteq DOMAIN corr.stage
              /\ \A h \in owed'[x] : corr.stage[h] # "replied"
        BY <1>2, <1>15 DEF Core, Owing
    <2>3. ASSUME NEW k \in 1 .. Len(Way'), Rep(k)', Way'[k].number = requests'[Way'[k].trid],
                 Way'[k].state = "XA_OK"
          PROVE  Way'[k].from \notin owed'[Way'[k].trid]
        <3>1. CASE Way'[k] = m
            BY <1>2, <1>8, <1>16, <2>3, <3>1
        <3>2. CASE k \in 1 .. Len(Way) /\ Rep(k) /\ Way'[k] = Way[k]
            <4>1. Way[k].trid \in Trid
                BY <3>2, RepTypes
            <4>2. Way[k].from \notin owed[Way[k].trid]
                BY <1>2, <2>3, <3>2 DEF Core, Owing
            <4> QED BY <1>15, <3>2, <4>1, <4>2
        <3> QED BY <1>14, <2>3, <3>1, <3>2
    <2>4. AnswerTrue'
        <3> SUFFICES ASSUME NEW p \in Proxy, proxy'[p].stage = "answered",
                            proxy'[p].result \in {"XA_OK", "XAER_NOTA"},
                            proxy'[p].trid \notin failed'
                     PROVE  owed'[proxy'[p].trid] = {}
            BY DEF AnswerTrue
        <3>1. owed[proxy[p].trid] = {} /\ proxy[p].trid \in Trid
            BY <1>2 DEF Core, Owing, AnswerTrue, TypeInv
        <3> QED BY <1>2, <1>15, <3>1
    <2> QED BY <2>1, <2>2, <2>3, <2>4 DEF Owing
<1>25. Tokens'
    <2>1. /\ \A h \in Group : \A i \in DOMAIN toGroup[h] : toGroup[h][i].number <= requests[toGroup[h][i].trid]
          /\ \A k \in 1 .. Len(Way) : Rep(k) => Way[k].number <= requests[Way[k].trid]
          /\ \A h \in Group : \A i, j \in DOMAIN toGroup[h] : toGroup[h][i] = toGroup[h][j] => i = j
          /\ \A h \in Group : \A i \in DOMAIN toGroup[h] : \A k \in 1 .. Len(Way) :
                ~ (/\ Rep(k) /\ Way[k].from = h
                   /\ Way[k].trid = toGroup[h][i].trid /\ Way[k].number = toGroup[h][i].number)
          /\ \A j, k \in 1 .. Len(Way) :
                Rep(j) /\ Rep(k) /\ Way[j].from = Way[k].from /\ Way[j].trid = Way[k].trid
                    /\ Way[j].number = Way[k].number => j = k
          /\ \A k \in 1 .. Len(Way) : Req(k) =>
                /\ \A h \in Group : \A i \in DOMAIN toGroup[h] :
                      toGroup[h][i].trid = Way[k].trid => toGroup[h][i].number # Way[k].number
                /\ \A j \in 1 .. Len(Way) :
                      Rep(j) /\ Way[j].trid = Way[k].trid => Way[j].number # Way[k].number
        BY DEF Core, Tokens
    <2>2. ASSUME NEW h \in Group, NEW i \in DOMAIN toGroup'[h]
          PROVE  toGroup'[h][i].number <= requests'[toGroup'[h][i].trid]
        <3>1. PICK j \in DOMAIN toGroup[h] : toGroup'[h][i] = toGroup[h][j]
            BY <1>6
        <3> QED BY <1>2, <2>1, <3>1
    <2>3. ASSUME NEW k \in 1 .. Len(Way'), Rep(k)'
          PROVE  Way'[k].number <= requests'[Way'[k].trid]
        <3>1. n <= requests[t]
            BY <1>3, <2>1
        <3> QED BY <1>2, <1>8, <1>14, <2>1, <2>3, <3>1
    <2>4. ASSUME NEW h \in Group, NEW i \in DOMAIN toGroup'[h], NEW j \in DOMAIN toGroup'[h],
                 toGroup'[h][i] = toGroup'[h][j]
          PROVE  i = j
        <3>1. PICK a \in DOMAIN toGroup[h] : toGroup'[h][i] = toGroup[h][a] /\ (h = g => a = i + 1) /\ (h # g => a = i)
            BY <1>6
        <3>2. PICK b \in DOMAIN toGroup[h] : toGroup'[h][j] = toGroup[h][b] /\ (h = g => b = j + 1) /\ (h # g => b = j)
            BY <1>6
        <3>3. a = b
            BY <2>1, <2>4, <3>1, <3>2
        <3>4. CASE h = g
            <4>1. i \in Nat /\ j \in Nat
                BY <1>3, <1>5, <3>4
            <4> QED BY <3>1, <3>2, <3>3, <3>4, <4>1
        <3>5. CASE h # g
            BY <3>1, <3>2, <3>3, <3>5
        <3> QED BY <3>4, <3>5
    <2>5. ASSUME NEW h \in Group, NEW i \in DOMAIN toGroup'[h], NEW k \in 1 .. Len(Way'), Rep(k)',
                 Way'[k].from = h, Way'[k].trid = toGroup'[h][i].trid, Way'[k].number = toGroup'[h][i].number
          PROVE  FALSE
        <3>1. PICK a \in DOMAIN toGroup[h] : toGroup'[h][i] = toGroup[h][a] /\ (h = g => a = i + 1) /\ (h # g => a = i)
            BY <1>6
        <3>2. CASE Way'[k] = m
            <4>1. h = g /\ toGroup[g][a].trid = t /\ toGroup[g][a].number = n
                BY <1>8, <2>5, <3>1, <3>2
            <4>2. toGroup[g][a] \in Pledge /\ toGroup[g][a].trid = r.trid /\ toGroup[g][a].number = r.number
                BY <1>7a, <3>1, <4>1
            <4>3. toGroup[g][a] = r
                BY <1>3, <4>2, SamePledge
            <4>4. a = 1
                BY <1>3, <2>1, <3>1, <4>1, <4>3
            <4>5. i \in 1 .. Len(toGroup[g]) - 1 /\ i + 1 = 1
                <5>1. i \in DOMAIN Tail(toGroup[g])
                    BY <1>5, <4>1
                <5> QED BY <1>3, <3>1, <4>1, <4>4, <5>1
            <4> QED BY <1>3, <4>5
        <3>3. CASE k \in 1 .. Len(Way) /\ Rep(k) /\ Way'[k] = Way[k]
            BY <2>1, <2>5, <3>1, <3>3
        <3> QED BY <1>14, <2>5, <3>2, <3>3
    <2>6. \A j \in 1 .. Len(Way) : ~ (Rep(j) /\ Way[j].from = m.from /\ Way[j].trid = m.trid /\ Way[j].number = m.number)
        BY <1>3, <1>8, <2>1
    <2>7. ASSUME NEW j \in 1 .. Len(Way'), NEW k \in 1 .. Len(Way'), Rep(j)', Rep(k)',
                 Way'[j].from = Way'[k].from, Way'[j].trid = Way'[k].trid, Way'[j].number = Way'[k].number
          PROVE  j = k
        <3>1. \/ j = Len(Way) + 1 /\ Way'[j] = m
              \/ j \in 1 .. Len(Way) /\ Rep(j) /\ Way'[j] = Way[j]
            BY <1>14, <2>7
        <3>2. \/ k = Len(Way) + 1 /\ Way'[k] = m
              \/ k \in 1 .. Len(Way) /\ Rep(k) /\ Way'[k] = Way[k]
            BY <1>14, <2>7
        <3> QED BY <2>1, <2>6, <2>7, <3>1, <3>2
    <2>8. ASSUME NEW k \in 1 .. Len(Way'), Req(k)'
          PROVE  /\ \A h \in Group : \A i \in DOMAIN toGroup'[h] :
                       toGroup'[h][i].trid = Way'[k].trid => toGroup'[h][i].number # Way'[k].number
                 /\ \A j \in 1 .. Len(Way') :
                       Rep(j)' /\ Way'[j].trid = Way'[k].trid => Way'[j].number # Way'[k].number
        <3>1. k \in 1 .. Len(Way) /\ Req(k) /\ Way'[k] = Way[k]
            BY <1>13, <2>8
        <3>2. ASSUME NEW h \in Group, NEW i \in DOMAIN toGroup'[h], toGroup'[h][i].trid = Way'[k].trid
              PROVE  toGroup'[h][i].number # Way'[k].number
            <4>1. PICK a \in DOMAIN toGroup[h] : toGroup'[h][i] = toGroup[h][a]
                BY <1>6
            <4> QED BY <2>1, <3>1, <3>2, <4>1
        <3>3. ASSUME NEW j \in 1 .. Len(Way'), Rep(j)', Way'[j].trid = Way'[k].trid
              PROVE  Way'[j].number # Way'[k].number
            <4>1. CASE Way'[j] = m
                BY <1>3, <1>8, <2>1, <3>1, <3>3, <4>1
            <4>2. CASE j \in 1 .. Len(Way) /\ Rep(j) /\ Way'[j] = Way[j]
                BY <2>1, <3>1, <3>3, <4>2
            <4> QED BY <1>14, <3>3, <4>1, <4>2
        <3> QED BY <3>2, <3>3
    <2> QED BY <2>2, <2>3, <2>4, <2>5, <2>7, <2>8 DEF Tokens
<1>26. Stale'
    <2>0. \A x \in Trid : Broken(x) => Broken(x)'
        BY <1>2 DEF Broken
    <2>1. ASSUME NEW j \in 1 .. Len(Way'), NEW k \in 1 .. Len(Way'), Req(k)', Rep(j)', k < j,
                 Way'[j].trid = Way'[k].trid
          PROVE  Broken(Way[k].trid)'
        <3>1. k \in 1 .. Len(Way) /\ Req(k) /\ Way'[k] = Way[k] /\ Way[k].trid \in Trid
            BY <1>13, <2>1, ReqTypes
        <3>2. CASE Way'[j] = m
            <4>1. Way[k].trid = t /\ correlation[t] = {}
                BY <1>8, <2>1, <3>1, <3>2 DEF Core, Waiting
            <4>2. Broken(t)
                BY <1>2, <1>3, <4>1 DEF Core, Stale
            <4> QED BY <1>2, <3>1, <4>1, <4>2 DEF Broken
        <3>3. CASE j \in 1 .. Len(Way) /\ Rep(j) /\ Way'[j] = Way[j]
            <4>1. Broken(Way[k].trid)
                BY <2>1, <3>1, <3>3 DEF Core, Stale
            <4> QED BY <1>2, <3>1, <4>1 DEF Broken
        <3> QED BY <1>14, <2>1, <3>2, <3>3
    <2>2. ASSUME NEW h \in alive' \cap Group, NEW i \in DOMAIN toGroup'[h],
                 correlation'[toGroup'[h][i].trid] = {}
          PROVE  Broken(toGroup[h][i].trid)'
        <3>1. PICK a \in DOMAIN toGroup[h] : toGroup'[h][i] = toGroup[h][a]
            BY <1>6
        <3>2. Broken(toGroup[h][a].trid)
            BY <1>2, <2>2, <3>1 DEF Core, Stale
        <3> QED BY <1>2, <3>1, <3>2 DEF Broken
    <2> QED BY <2>1, <2>2 DEF Stale
<1>27. Pending'
    <2>1. ASSUME NEW x \in Trid, NEW corr \in correlation'[x], NEW k \in 1 .. Len(Way'), Rep(k)',
                 Way'[k].trid = x
          PROVE  /\ Way'[k].number = requests'[x] /\ Way'[k].from \in DOMAIN corr.stage
                 /\ Way'[k].from \in alive' => corr.stage[Way'[k].from] = "pending"
        <3>1. CASE Way'[k] = m
            <4>1. x = t /\ corr \in correlation[t] /\ Way'[k].from = g /\ Way'[k].number = n
                BY <1>2, <1>8, <2>1, <3>1
            <4>2. n = requests[t] /\ g \in DOMAIN corr.stage /\ corr.stage[g] = "pending"
                BY <1>2, <1>3, <1>4, <4>1 DEF Core, Pending
            <4> QED BY <1>2, <4>1, <4>2
        <3>2. CASE k \in 1 .. Len(Way) /\ Rep(k) /\ Way'[k] = Way[k]
            BY <1>2, <2>1, <3>2 DEF Core, Pending
        <3> QED BY <1>14, <2>1, <3>1, <3>2
    <2>2. ASSUME NEW x \in Trid, NEW corr \in correlation'[x], NEW h \in alive' \cap Group,
                 NEW i \in DOMAIN toGroup'[h], toGroup'[h][i].trid = x
          PROVE  /\ toGroup'[h][i].number = requests'[x] /\ h \in DOMAIN corr.stage
                 /\ corr.stage[h] = "pending"
        <3>1. PICK a \in DOMAIN toGroup[h] : toGroup'[h][i] = toGroup[h][a]
            BY <1>6
        <3> QED BY <1>2, <2>2, <3>1 DEF Core, Pending
    <2>3. ASSUME NEW x \in Trid \ merged', NEW corr \in correlation'[x], NEW h \in alive' \cap DOMAIN corr.stage,
                 corr.stage[h] = "pending"
          PROVE  \/ \E i \in DOMAIN toGroup'[h] : toGroup'[h][i].trid = x
                 \/ \E k \in 1 .. Len(Way') : Rep(k)' /\ Way'[k].trid = x /\ Way'[k].from = h
        <3>0. h \in Group
            BY <1>2 DEF TypeInv, CorrelationType
        <3>1. \/ \E i \in DOMAIN toGroup[h] : toGroup[h][i].trid = x
              \/ \E k \in 1 .. Len(Way) : Rep(k) /\ Way[k].trid = x /\ Way[k].from = h
            BY <1>2, <2>3 DEF Core, Pending
        <3>2. CASE \E k \in 1 .. Len(Way) : Rep(k) /\ Way[k].trid = x /\ Way[k].from = h
            BY <1>12, <3>2
        <3>3. CASE \E i \in DOMAIN toGroup[h] : toGroup[h][i].trid = x
            <4>1. PICK i \in DOMAIN toGroup[h] : toGroup[h][i].trid = x
                BY <3>3
            <4>2. CASE h # g
                BY <1>5, <3>0, <4>1, <4>2
            <4>3. CASE h = g /\ i # 1
                BY <1>7, <4>1, <4>3
            <4>4. CASE h = g /\ i = 1
                <5>1. PICK k \in 1 .. Len(Way') : k = Len(Way) + 1
                    BY <1>10
                <5>2. Way'[k] = m /\ x = t
                    BY <1>3, <1>10, <4>1, <4>4, <5>1
                <5>3. Rep(k)'
                    BY <1>8, <5>2 DEF Rep
                <5> QED BY <1>8, <4>4, <5>2, <5>3
            <4> QED BY <4>2, <4>3, <4>4
        <3> QED BY <3>1, <3>2, <3>3
    <2> QED BY <2>1, <2>2, <2>3 DEF Pending
<1> QED BY <1>19, <1>20, <1>21, <1>22, <1>23, <1>24, <1>25, <1>26, <1>27 DEF Parts, Core

\* The transaction manager asks for the end of a transaction.
LEMMA RequestKeeps ==
    ASSUME BrokerInv, NEW p \in Proxy, NEW t \in Trid, NEW op \in Operation, Request(p, t, op)
    PROVE  Parts'
<1> USE DEF BrokerInv
<1> DEFINE n == requests[t] + 1
           s == [stage |-> "waiting", trid |-> t, op |-> op, result |-> "none"]
<1>1. /\ proxy[p].stage = "idle" /\ \A o \in Proxy : proxy[o].stage # "idle" => proxy[o].trid # t
      /\ requests' = [requests EXCEPT ![t] = n]
      /\ proxy' = [proxy EXCEPT ![p] = s]
      /\ inbox' = Append(inbox, [kind |-> "request", from |-> p, trid |-> t, op |-> op, number |-> n])
      /\ owed' = [owed EXCEPT ![t] =
                    {g \in Group : t \in active[g] /\ \A c \in telling[g] : client[c].trid # t}]
      /\ UNCHANGED <<cache, groups, queues, involved, correlation, ended, alive, reachable, toGroup,
                     active, merged, failed, telling, client>>
    BY DEF Request, brokerState
<1>2. requests[t] \in Nat /\ n \in Nat /\ n = requests[t] + 1
    BY DEF TypeInv
<1>3. s.stage = "waiting" /\ s.trid = t
    OBVIOUS
<1>4. PICK m \in Message :
          /\ m = [kind |-> "request", from |-> p, trid |-> t, op |-> op, number |-> n]
          /\ m.kind = "request" /\ m.from = p /\ m.trid = t /\ m.number = n
    <2>1. n \in Nat
        BY <1>2
    <2> HIDE DEF n
    <2> DEFINE m == [kind |-> "request", from |-> p, trid |-> t, op |-> op, number |-> n]
    <2>2. m \in RequestMessage
        BY <2>1 DEF RequestMessage
    <2>3. m \in Message
        BY <2>2 DEF Message
    <2>4. m.kind = "request" /\ m.from = p /\ m.trid = t /\ m.number = n
        OBVIOUS
    <2> QED BY <2>3, <2>4
<1> HIDE DEF n, s
<1>5. /\ proxy'[p] = s /\ \A o \in Proxy \ {p} : proxy'[o] = proxy[o]
      /\ requests'[t] = n /\ \A x \in Trid \ {t} : requests'[x] = requests[x]
      /\ owed'[t] = {g \in Group : t \in active[g] /\ \A c \in telling[g] : client[c].trid # t}
      /\ \A x \in Trid \ {t} : owed'[x] = owed[x]
    BY <1>1 DEF TypeInv
<1>6. /\ Len(Way) \in Nat /\ Len(Way') = Len(Way) + 1 /\ Way'[Len(Way) + 1] = m
      /\ \A k \in 1 .. Len(Way) : Way'[k] = Way[k]
      /\ Moves({m}, {})
    BY <1>1, <1>4, SendMoves DEF TypeInv
<1>7. \A k \in 1 .. Len(Way') : k = Len(Way) + 1 \/ (k \in 1 .. Len(Way) /\ Way'[k] = Way[k])
    BY <1>6
<1>8. \A k \in 1 .. Len(Way) : k \in 1 .. Len(Way') /\ Way'[k] = Way[k] /\ (Rep(k) => Rep(k)')
    BY <1>6 DEF Rep
<1>9. \A k \in 1 .. Len(Way') : Rep(k)' => k \in 1 .. Len(Way) /\ Rep(k) /\ Way'[k] = Way[k]
    BY <1>4, <1>6, <1>7 DEF Rep
<1>10. \A k \in 1 .. Len(Way') : Req(k)' =>
          \/ k = Len(Way) + 1 /\ Way'[k] = m
          \/ k \in 1 .. Len(Way) /\ Req(k) /\ Way'[k] = Way[k]
    BY <1>6, <1>7 DEF Req
\* Nobody else is at the transaction.
<1>11. correlation[t] = {}
    <2> SUFFICES ASSUME NEW corr \in correlation[t] PROVE FALSE
        OBVIOUS
    <2>1. corr.caller \in Proxy
        BY DEF TypeInv, CorrelationType
    <2>2. proxy[corr.caller].stage = "waiting" /\ proxy[corr.caller].trid = t
        BY DEF Core, Waiting
    <2> QED BY <1>1, <2>1, <2>2
<1>12. \A k \in 1 .. Len(Way) : Req(k) =>
           /\ Way[k].trid \in Trid \ {t} /\ Way[k].from \in Proxy \ {p}
    <2> SUFFICES ASSUME NEW k \in 1 .. Len(Way), Req(k)
                 PROVE  Way[k].trid \in Trid \ {t} /\ Way[k].from \in Proxy \ {p}
        OBVIOUS
    <2>1. Way[k].from \in Proxy /\ Way[k].trid \in Trid
        BY ReqTypes
    <2>2. proxy[Way[k].from].stage = "waiting" /\ proxy[Way[k].from].trid = Way[k].trid
        BY DEF Core, Waiting
    <2> QED BY <1>1, <2>1, <2>2
<1>13. InvolvedGrows /\ Arrives({})
    BY <1>1 DEF InvolvedGrows, Arrives
<1>14. ended' \cap alive' = {} /\ alive' \subseteq alive
    BY <1>1 DEF Dead
<1>15. Registry'
    BY <1>1, RegistryKept
<1>16. Working'
    BY <1>1, <1>4, <1>6, WorkingKept
<1>17. Dead'
    BY <1>4, <1>6, <1>14, DeadKept
<1>18. Taking'
    <2>1. \A g \in Group, x \in Trid : Left(g, x)' => Left(g, x)
        BY <1>1 DEF Left
    <2>2. \A g \in Group, x \in Trid : Asked(g, x) => Asked(g, x)'
        BY <1>1 DEF Asked
    <2>3. ASSUME NEW k \in 1 .. Len(Way'), Done(k)'
          PROVE  \E j \in 1 .. Len(Way) : Done(j) /\ Way[j] = Way'[k]
        <3>1. k \in 1 .. Len(Way) /\ Rep(k) /\ Way'[k] = Way[k]
            BY <1>9, <2>3 DEF Done
        <3>2. Way[k].trid \in Trid /\ Way[k].number \in Nat /\ Way[k].number <= requests[Way[k].trid]
            BY <3>1, RepTypes DEF Core, Tokens
        <3>3. Way[k].number = requests'[Way[k].trid]
            BY <2>3, <3>1 DEF Done
        <3>4. Way[k].trid # t
            BY <1>2, <1>5, <3>2, <3>3
        <3>5. Way[k].number = requests[Way[k].trid]
            BY <1>5, <3>2, <3>3, <3>4
        <3> QED BY <2>3, <3>1, <3>5 DEF Done
    <2> QED BY <1>1, <1>6, <1>13, <2>1, <2>2, <2>3, TakingStep
<1>19. Waiting'
    <2>1. \A o, q \in Proxy :
              proxy'[o].stage # "idle" /\ proxy'[q].stage # "idle" /\ proxy'[o].trid = proxy'[q].trid => o = q
        <3> SUFFICES ASSUME NEW o \in Proxy, NEW q \in Proxy, proxy'[o].stage # "idle", proxy'[q].stage # "idle",
                            proxy'[o].trid = proxy'[q].trid, o # q
                     PROVE  FALSE
            OBVIOUS
        <3>1. CASE o = p
            BY <1>1, <1>3, <1>5, <3>1
        <3>2. CASE q = p
            BY <1>1, <1>3, <1>5, <3>2
        <3>3. CASE o # p /\ q # p
            BY <1>5, <3>3 DEF Core, Waiting
        <3> QED BY <3>1, <3>2, <3>3
    <2>2. ASSUME NEW k \in 1 .. Len(Way'), Req(k)'
          PROVE  /\ proxy'[Way'[k].from].stage = "waiting" /\ proxy'[Way'[k].from].trid = Way'[k].trid
                 /\ Way'[k].number = requests'[Way'[k].trid] /\ correlation'[Way'[k].trid] = {}
        <3>1. CASE Way'[k] = m
            BY <1>1, <1>3, <1>4, <1>5, <1>11, <3>1
        <3>2. CASE k \in 1 .. Len(Way) /\ Req(k) /\ Way'[k] = Way[k]
            <4>1. /\ proxy[Way[k].from].stage = "waiting" /\ proxy[Way[k].from].trid = Way[k].trid
                  /\ Way[k].number = requests[Way[k].trid] /\ correlation[Way[k].trid] = {}
                BY <3>2 DEF Core, Waiting
            <4> QED BY <1>1, <1>5, <1>12, <3>2, <4>1
        <3> QED BY <1>10, <2>2, <3>1, <3>2
    <2>3. ASSUME NEW j \in 1 .. Len(Way'), NEW k \in 1 .. Len(Way'), Req(j)', Req(k)', Way'[j].trid = Way'[k].trid
          PROVE  j = k
        <3>1. \/ j = Len(Way) + 1 /\ Way'[j] = m
              \/ j \in 1 .. Len(Way) /\ Req(j) /\ Way'[j] = Way[j]
            BY <1>10, <2>3
        <3>2. \/ k = Len(Way) + 1 /\ Way'[k] = m
              \/ k \in 1 .. Len(Way) /\ Req(k) /\ Way'[k] = Way[k]
            BY <1>10, <2>3
        <3>3. CASE j \in 1 .. Len(Way) /\ Req(j) /\ Way'[j] = Way[j] /\ k \in 1 .. Len(Way) /\ Req(k) /\ Way'[k] = Way[k]
            BY <2>3, <3>3 DEF Core, Waiting
        <3> QED BY <1>4, <1>12, <2>3, <3>1, <3>2, <3>3
    <2>4. ASSUME NEW x \in Trid, NEW corr \in correlation'[x]
          PROVE  proxy'[corr.caller].stage = "waiting" /\ proxy'[corr.caller].trid = x
        <3>1. corr.caller \in Proxy
            BY <1>1, <2>4 DEF TypeInv, CorrelationType
        <3>2. proxy[corr.caller].stage = "waiting" /\ proxy[corr.caller].trid = x
            BY <1>1, <2>4 DEF Core, Waiting
        <3> QED BY <1>1, <1>5, <3>1, <3>2
    <2>5. \A x \in Trid : \A a, b \in correlation'[x] : a = b
        BY <1>1 DEF Core, Waiting
    <2> QED BY <2>1, <2>2, <2>3, <2>4, <2>5 DEF Waiting
<1>20. Owing'
    <2>1. ASSUME NEW k \in 1 .. Len(Way'), Req(k)', Way'[k].trid \notin failed', NEW g \in owed'[Way'[k].trid]
          PROVE  \/ g \in involved'[Way'[k].trid]
                 \/ \E j \in 1 .. Len(Way') : j < k /\ Inv(j, g, Way[k].trid)'
        <3>1. CASE k = Len(Way) + 1 /\ Way'[k] = m
            <4>1. g \in Group /\ t \in active[g] /\ \A c \in telling[g] : client[c].trid # t
                BY <1>4, <1>5, <2>1, <3>1
            <4>4. Left(g, t) /\ ~ Asked(g, t) /\ t \notin failed
                BY <1>1, <1>4, <1>11, <2>1, <3>1, <4>1 DEF Left, Asked
            <4>2. g \in involved[t] \/ \E j \in 1 .. Len(Way) : Inv(j, g, t)
                BY <4>1, <4>4 DEF Taking, Known
            <4>3. \A j \in 1 .. Len(Way) : Inv(j, g, t) => j \in 1 .. Len(Way') /\ j < k /\ Inv(j, g, Way[k].trid)'
                BY <1>4, <1>6, <1>8, <3>1 DEF Inv
            <4> QED BY <1>1, <1>4, <3>1, <4>2, <4>3
        <3>2. CASE k \in 1 .. Len(Way) /\ Req(k) /\ Way'[k] = Way[k]
            <4>1. Way[k].trid \in Trid \ {t} /\ g \in owed[Way[k].trid]
                BY <1>5, <1>12, <2>1, <3>2
            <4>2. \/ g \in involved[Way[k].trid]
                  \/ \E j \in 1 .. Len(Way) : j < k /\ Inv(j, g, Way[k].trid)
                BY <1>1, <2>1, <3>2, <4>1 DEF Core, Owing
            <4>3. \A j \in 1 .. Len(Way) : Inv(j, g, Way[k].trid) => Inv(j, g, Way[k].trid)'
                BY <1>8, <3>2 DEF Inv
            <4> QED BY <1>1, <1>8, <3>2, <4>2, <4>3
        <3> QED BY <1>10, <2>1, <3>1, <3>2
    <2>2. ASSUME NEW x \in Trid \ failed', NEW corr \in correlation'[x]
          PROVE  /\ owed'[x] \subseteq DOMAIN corr.stage
                 /\ \A g \in owed'[x] : corr.stage[g] # "replied"
        <3>1. x # t /\ corr \in correlation[x] /\ owed'[x] = owed[x]
            BY <1>1, <1>5, <1>11, <2>2
        <3> QED BY <1>1, <2>2, <3>1 DEF Core, Owing
    <2>3. ASSUME NEW k \in 1 .. Len(Way'), Rep(k)', Way'[k].number = requests'[Way'[k].trid],
                 Way'[k].state = "XA_OK"
          PROVE  Way'[k].from \notin owed'[Way'[k].trid]
        <3>1. k \in 1 .. Len(Way) /\ Rep(k) /\ Way'[k] = Way[k] /\ Way[k].trid \in Trid /\ Way[k].number \in Nat
            BY <1>9, <2>3, RepTypes
        <3>2. Way[k].number <= requests[Way[k].trid]
            BY <3>1 DEF Core, Tokens
        <3>3. Way[k].trid # t
            BY <1>2, <1>5, <2>3, <3>1, <3>2
        <3> QED BY <1>5, <2>3, <3>1, <3>3 DEF Core, Owing
    <2>4. AnswerTrue'
        <3> SUFFICES ASSUME NEW q \in Proxy, proxy'[q].stage = "answered",
                            proxy'[q].result \in {"XA_OK", "XAER_NOTA"},
                            proxy'[q].trid \notin failed'
                     PROVE  owed'[proxy'[q].trid] = {}
            BY DEF AnswerTrue
        <3>1. q # p /\ proxy'[q] = proxy[q]
            BY <1>3, <1>5
        <3>2. owed[proxy[q].trid] = {} /\ proxy[q].trid \in Trid /\ proxy[q].trid # t
            BY <1>1, <3>1 DEF Core, Owing, AnswerTrue, TypeInv
        <3> QED BY <1>5, <3>1, <3>2
    <2> QED BY <2>1, <2>2, <2>3, <2>4 DEF Owing
<1>21. Tokens'
    <2>0. \A x \in Trid : requests[x] <= requests'[x] /\ requests[x] \in Nat /\ requests'[x] \in Nat
        <3> SUFFICES ASSUME NEW x \in Trid
                     PROVE  requests[x] <= requests'[x] /\ requests[x] \in Nat /\ requests'[x] \in Nat
            OBVIOUS
        <3>1. requests[x] \in Nat
            BY DEF TypeInv
        <3>2. CASE x = t
            BY <1>2, <1>5, <3>1, <3>2
        <3>3. CASE x # t
            BY <1>5, <3>1, <3>3
        <3> QED BY <3>2, <3>3
    <2>00. \A g \in Group : \A i \in DOMAIN toGroup[g] : toGroup[g][i].trid \in Trid /\ toGroup[g][i].number \in Nat
        <3>1. \A g \in Group : \A i \in DOMAIN toGroup[g] : toGroup[g][i] \in Pledge
            BY DEF TypeInv
        <3> QED BY <3>1 DEF Pledge
    <2>1. ASSUME NEW g \in Group, NEW i \in DOMAIN toGroup'[g]
          PROVE  toGroup'[g][i].number <= requests'[toGroup'[g][i].trid]
        <3>1. toGroup[g][i].number <= requests[toGroup[g][i].trid] /\ toGroup'[g] = toGroup[g]
            BY <1>1, <2>1 DEF Core, Tokens
        <3> QED BY <1>1, <2>0, <2>00, <3>1
    <2>2. ASSUME NEW k \in 1 .. Len(Way'), Rep(k)'
          PROVE  Way'[k].number <= requests'[Way'[k].trid]
        <3>1. k \in 1 .. Len(Way) /\ Rep(k) /\ Way'[k] = Way[k] /\ Way[k].trid \in Trid /\ Way[k].number \in Nat
            BY <1>9, <2>2, RepTypes
        <3>2. Way[k].number <= requests[Way[k].trid]
            BY <3>1 DEF Core, Tokens
        <3> QED BY <2>0, <3>1, <3>2
    <2>3. \A g \in Group : \A i, j \in DOMAIN toGroup'[g] : toGroup'[g][i] = toGroup'[g][j] => i = j
        BY <1>1 DEF Core, Tokens
    <2>4. \A g \in Group : \A i \in DOMAIN toGroup'[g] : \A k \in 1 .. Len(Way') :
              ~ (/\ Rep(k)' /\ Way'[k].from = g
                 /\ Way'[k].trid = toGroup'[g][i].trid /\ Way'[k].number = toGroup'[g][i].number)
        BY <1>1, <1>9 DEF Core, Tokens
    <2>5. \A j, k \in 1 .. Len(Way') :
              Rep(j)' /\ Rep(k)' /\ Way'[j].from = Way'[k].from /\ Way'[j].trid = Way'[k].trid
                  /\ Way'[j].number = Way'[k].number => j = k
        BY <1>9 DEF Core, Tokens
    <2>6. ASSUME NEW k \in 1 .. Len(Way'), Req(k)'
          PROVE  /\ \A g \in Group : \A i \in DOMAIN toGroup'[g] :
                       toGroup'[g][i].trid = Way'[k].trid => toGroup'[g][i].number # Way'[k].number
                 /\ \A j \in 1 .. Len(Way') :
                       Rep(j)' /\ Way'[j].trid = Way'[k].trid => Way'[j].number # Way'[k].number
        <3>1. CASE Way'[k] = m
            <4>1. ASSUME NEW g \in Group, NEW i \in DOMAIN toGroup[g], toGroup[g][i].trid = t
                  PROVE  toGroup[g][i].number # n
                <5>1. toGroup[g][i].number <= requests[t]
                    BY <4>1 DEF Core, Tokens
                <5> QED BY <1>2, <2>00, <5>1
            <4>2. ASSUME NEW j \in 1 .. Len(Way'), Rep(j)', Way'[j].trid = t
                  PROVE  Way'[j].number # n
                <5>1. j \in 1 .. Len(Way) /\ Rep(j) /\ Way'[j] = Way[j] /\ Way[j].number \in Nat
                    BY <1>9, <4>2, RepTypes
                <5>2. Way[j].number <= requests[t]
                    BY <4>2, <5>1 DEF Core, Tokens
                <5> QED BY <1>2, <5>1, <5>2
            <4> QED BY <1>1, <1>4, <3>1, <4>1, <4>2
        <3>2. CASE k \in 1 .. Len(Way) /\ Req(k) /\ Way'[k] = Way[k]
            BY <1>1, <1>9, <3>2 DEF Core, Tokens
        <3> QED BY <1>10, <2>6, <3>1, <3>2
    <2> QED BY <2>1, <2>2, <2>3, <2>4, <2>5, <2>6 DEF Tokens
<1>22. Stale'
    <2>1. ASSUME NEW j \in 1 .. Len(Way'), NEW k \in 1 .. Len(Way'), Req(k)', Rep(j)', k < j,
                 Way'[j].trid = Way'[k].trid
          PROVE  Broken(Way[k].trid)'
        <3>1. j \in 1 .. Len(Way) /\ Rep(j) /\ Way'[j] = Way[j]
            BY <1>9, <2>1
        <3>2. k \in 1 .. Len(Way) /\ Req(k) /\ Way'[k] = Way[k]
            BY <1>6, <1>10, <2>1, <3>1
        <3>3. Broken(Way[k].trid)
            BY <2>1, <3>1, <3>2 DEF Core, Stale
        <3> QED BY <1>1, <3>2, <3>3 DEF Broken
    <2>2. ASSUME NEW g \in alive' \cap Group, NEW i \in DOMAIN toGroup'[g],
                 correlation'[toGroup'[g][i].trid] = {}
          PROVE  Broken(toGroup[g][i].trid)'
        <3>1. Broken(toGroup[g][i].trid)
            BY <1>1, <2>2 DEF Core, Stale
        <3> QED BY <1>1, <3>1 DEF Broken
    <2> QED BY <2>1, <2>2 DEF Stale
<1>23. Pending'
    <2>0. \A x \in Trid : \A corr \in correlation'[x] : x # t /\ corr \in correlation[x] /\ requests'[x] = requests[x]
        BY <1>1, <1>5, <1>11
    <2>1. ASSUME NEW x \in Trid, NEW corr \in correlation'[x], NEW k \in 1 .. Len(Way'), Rep(k)',
                 Way'[k].trid = x
          PROVE  /\ Way'[k].number = requests'[x] /\ Way'[k].from \in DOMAIN corr.stage
                 /\ Way'[k].from \in alive' => corr.stage[Way'[k].from] = "pending"
        <3>1. k \in 1 .. Len(Way) /\ Rep(k) /\ Way'[k] = Way[k]
            BY <1>9, <2>1
        <3>2. corr \in correlation[x] /\ requests'[x] = requests[x]
            BY <2>0
        <3>3. /\ Way[k].number = requests[x] /\ Way[k].from \in DOMAIN corr.stage
              /\ Way[k].from \in alive => corr.stage[Way[k].from] = "pending"
            BY <2>1, <3>1, <3>2 DEF Core, Pending
        <3> QED BY <1>1, <3>1, <3>2, <3>3
    <2>2. \A x \in Trid : \A corr \in correlation'[x] : \A g \in alive' \cap Group :
              \A i \in DOMAIN toGroup'[g] :
                  toGroup'[g][i].trid = x =>
                      /\ toGroup'[g][i].number = requests'[x] /\ g \in DOMAIN corr.stage
                      /\ corr.stage[g] = "pending"
        BY <1>1, <2>0 DEF Core, Pending
    <2>3. ASSUME NEW x \in Trid \ merged', NEW corr \in correlation'[x], NEW g \in alive' \cap DOMAIN corr.stage,
                 corr.stage[g] = "pending"
          PROVE  \/ \E i \in DOMAIN toGroup'[g] : toGroup'[g][i].trid = x
                 \/ \E k \in 1 .. Len(Way') : Rep(k)' /\ Way'[k].trid = x /\ Way'[k].from = g
        <3>1. \/ \E i \in DOMAIN toGroup[g] : toGroup[g][i].trid = x
              \/ \E k \in 1 .. Len(Way) : Rep(k) /\ Way[k].trid = x /\ Way[k].from = g
            BY <1>1, <2>3 DEF Core, Pending
        <3> QED BY <1>1, <1>8, <3>1
    <2> QED BY <2>1, <2>2, <2>3 DEF Pending
<1> QED BY <1>15, <1>16, <1>17, <1>18, <1>19, <1>20, <1>21, <1>22, <1>23 DEF Parts, Core

\* An answered lookup.
LEMMA LookupHandled ==
    ASSUME BrokerInv, NEW m, Dequeued(m), HandleLookup(m), Handling
    PROVE  Parts'
<1> USE DEF BrokerInv
<1>1. /\ m \in Message /\ 1 \in 1 .. Len(Way) /\ Way[1] = m
      /\ Len(Way') \in Nat /\ Len(Way') = Len(Way) - 1
      /\ \A k \in 1 .. Len(Way') : Way'[k] = Way[k + 1]
      /\ Moves({}, {m})
    BY ReadMoves DEF TypeInv
<1>2. /\ m.kind = "lookup"
      /\ UNCHANGED <<groups, queues, involved, correlation, toGroup, active, proxy, failed>>
    BY DEF HandleLookup, brokerState
<1>3. /\ UNCHANGED <<ended, telling, alive, reachable, requests, owed, merged>>
    BY DEF Handling
<1>4. m \in LookupMessage
    BY <1>1, <1>2, Kinds
<1>5. \/ client' = client
      \/ m.from \in alive /\ \E s \in ClientState :
            /\ s.stage \in {"missing", "found"} /\ s.trid = client[m.from].trid
            /\ client' = [client EXCEPT ![m.from] = s]
    BY <1>4, HandleLookupClient
<1>6. /\ \A c \in Client : c # m.from => client'[c] = client[c]
      /\ \A c \in Client : client'[c].trid = client[c].trid
      /\ m.from \in Client /\ (m.from \notin alive => client' = client)
    BY <1>4, <1>5 DEF TypeInv, LookupMessage
<1>7. m.from \in alive => /\ client[m.from].stage = "lookup"
                          /\ \A k \in 1 .. Len(Way) : Ask(k) /\ Way[k].from = m.from => k = 1
    BY <1>1, <1>2 DEF Working, Ask
<1>8. /\ \A g \in Group : \A c \in telling[g] : c \in Client /\ client'[c].stage = "work"
    BY <1>6, <1>7 DEF Working, TypeInv
<1>9. Registry'
    BY <1>2, RegistryKept
<1>10. InvolvedGrows /\ Arrives({m}) /\ Quiet({}) /\ (m.kind # "reply")
    BY <1>2 DEF InvolvedGrows, Arrives, Quiet
<1>11. Dead'
    <2>1. ended' \cap alive' = {} /\ alive' \subseteq alive
        BY <1>3 DEF Dead
    <2> QED BY <1>1, <2>1, DeadKept
<1>12. Core'
    <2>1. ProxiesKept
        BY <1>2 DEF ProxiesKept
    <2> QED BY <1>1, <1>2, <1>3, <1>10, <2>1, CoreKept
<1>13. Taking'
    <2>1. SameWork
        BY <1>2, <1>3, <1>6, <1>8 DEF SameWork
    <2> QED BY <1>1, <1>2, <1>3, <1>10, <2>1, TakingKept
<1>14. \A k \in 1 .. Len(Way') : Ask(k)' => k + 1 \in 1 .. Len(Way) /\ Ask(k + 1) /\ Way'[k] = Way[k + 1]
    BY <1>1 DEF Ask
<1>15. ASSUME NEW k \in 1 .. Len(Way'), Ask(k)', Way'[k].from \in alive'
       PROVE  client'[Way'[k].from].stage = "lookup"
    <2>1. PICK j \in 1 .. Len(Way) : j = k + 1 /\ Ask(j) /\ Way'[k] = Way[j] /\ j # 1
        BY <1>14, <1>15
    <2>2. Way[j].from \in Client /\ Way[j].from \in alive
        BY <1>3, <1>15, <2>1, AskTypes
    <2>3. client[Way[j].from].stage = "lookup" /\ Way[j].from # m.from
        BY <1>7, <2>1, <2>2 DEF Working
    <2> QED BY <1>6, <2>1, <2>2, <2>3
<1>16. ASSUME NEW j \in 1 .. Len(Way'), NEW k \in 1 .. Len(Way'), Ask(j)', Ask(k)',
              Way'[j].from = Way'[k].from, Way'[k].from \in alive'
       PROVE  j = k
    <2>1. PICK a \in 1 .. Len(Way) : a = j + 1 /\ Ask(a) /\ Way'[j] = Way[a]
        BY <1>14, <1>16
    <2>2. PICK b \in 1 .. Len(Way) : b = k + 1 /\ Ask(b) /\ Way'[k] = Way[b]
        BY <1>14, <1>16
    <2>3. a = b
        BY <1>3, <1>16, <2>1, <2>2 DEF Working
    <2> QED BY <2>1, <2>2, <2>3
<1>17. \A g, h \in Group : \A c \in telling'[g], d \in telling'[h] : g = h <=> c = d
    BY <1>3 DEF Working
<1>18. Working'
    BY <1>3, <1>8, <1>15, <1>16, <1>17 DEF Working
<1> QED BY <1>9, <1>11, <1>12, <1>13, <1>18 DEF Parts

\* A group that is told to take part.
LEMMA InvolvedHandled ==
    ASSUME BrokerInv, NEW m, Dequeued(m), HandleInvolved(m), Handling
    PROVE  Parts'
<1> USE DEF BrokerInv
<1>1. m \in Message /\ Moves({}, {m})
    BY ReadMoves DEF TypeInv
<1>2. /\ m.kind = "involved" /\ involved' = [involved EXCEPT ![m.trid] = @ \cup {m.from}]
      /\ UNCHANGED <<groups, queues, correlation, toGroup, active, client, proxy, failed>>
    BY DEF HandleInvolved
<1>3. /\ UNCHANGED <<ended, telling, alive, reachable, requests, owed, merged>>
    BY DEF Handling
<1>4. InvolvedGrows
    BY <1>2 DEF InvolvedGrows, TypeInv
<1>5. Arrives({m})
    BY <1>2 DEF Arrives, TypeInv
<1>6. Quiet({}) /\ m.kind # "reply"
    BY <1>2 DEF Quiet
<1>7. ProxiesKept
    BY <1>2 DEF ProxiesKept
<1>8. ended' \cap alive' = {} /\ alive' \subseteq alive
    BY <1>3 DEF Dead
<1>9. Registry'
    BY <1>2, RegistryKept
<1>10. Working' /\ Dead'
    BY <1>1, <1>2, <1>3, <1>8, WorkingKept, DeadKept
<1>11. Taking'
    <2>1. SameWork
        BY <1>2, <1>3 DEF SameWork
    <2> QED BY <1>1, <1>2, <1>3, <1>4, <1>5, <1>6, <2>1, TakingKept
<1>12. Core'
    BY <1>1, <1>2, <1>3, <1>4, <1>5, <1>6, <1>7, CoreKept
<1> QED BY <1>9, <1>10, <1>11, <1>12 DEF Parts

\* A group that has ended.
LEMMA ExitHandled ==
    ASSUME BrokerInv, NEW m, Dequeued(m), HandleExit(m), Handling
    PROVE  Parts'
<1> USE DEF BrokerInv
<1>1. /\ m \in Message /\ 1 \in 1 .. Len(Way) /\ Way[1] = m /\ Moves({}, {m})
    BY ReadMoves DEF TypeInv
<1>2. /\ m.kind = "exit"
      /\ groups' = groups \ {m.from}
      /\ queues' = [n \in Name |-> queues[n] \ {m.from}]
      /\ correlation' = [t \in Trid |-> {Fail(corr, m.from) : corr \in correlation[t]}]
      /\ UNCHANGED <<involved, toGroup, active, client, proxy, failed>>
    BY ExitCases
<1>3. /\ UNCHANGED <<ended, telling, alive, reachable, requests, owed, merged>>
    BY DEF Handling
<1>4. InvolvedGrows /\ Arrives({m})
    BY <1>2 DEF InvolvedGrows, Arrives
<1>6. Quiet({}) /\ m.kind # "reply"
    BY <1>2 DEF Quiet
<1>7. ProxiesKept
    BY <1>2 DEF ProxiesKept
<1>8. ended' \cap alive' = {} /\ alive' \subseteq alive /\ m.from \notin alive
    BY <1>1, <1>2, <1>3 DEF Dead
<1>9. Registry'
    <2>1. \A n \in Name : queues'[n] \subseteq groups'
        BY <1>2 DEF Registry, QueuesServed
    <2>2. ASSUME NEW n \in Name, NEW g \in groups', {h \in Group : n \in Owns[h]} = {g}
          PROVE  queues'[n] = {g}
        <3>1. queues[n] = {g} /\ g # m.from
            BY <1>2, <2>2 DEF Registry, QueuesServed
        <3> QED BY <1>2, <3>1
    <2>3. \A n \in Name : \A g \in queues'[n] : n \in Owns[g]
        BY <1>2 DEF Registry
    <2>4. \A n \in Name : \A g, h \in queues'[n] : g = h
        BY <1>2 DEF Registry
    <2> QED BY <2>1, <2>2, <2>3, <2>4 DEF Registry, QueuesServed
<1>10. Working' /\ Dead'
    BY <1>1, <1>2, <1>3, <1>8, WorkingKept, DeadKept
\* The records: the same transactions and callers, the stages of the groups that run.
<1>12. ASSUME NEW t \in Trid, NEW c \in correlation'[t]
       PROVE  \E corr \in correlation[t] :
                 /\ c.caller = corr.caller /\ DOMAIN c.stage = DOMAIN corr.stage
                 /\ \A g \in DOMAIN corr.stage : g # m.from => c.stage[g] = corr.stage[g]
                 /\ \A g \in DOMAIN corr.stage : c.stage[g] = corr.stage[g] \/ c.stage[g] = "error"
    <2>1. PICK corr \in correlation[t] : c = Fail(corr, m.from)
        BY <1>2, <1>12
    <2>2. /\ c.caller = corr.caller
          /\ c.stage = [g \in DOMAIN corr.stage |->
                IF g = m.from /\ corr.stage[g] = "pending" THEN "error" ELSE corr.stage[g]]
        BY <2>1, FailIs DEF TypeInv
    <2> QED BY <2>2
<1>13. \A t \in Trid : correlation'[t] = {} => correlation[t] = {}
    BY <1>2
<1>11. Taking'
    <2>1. SameWork
        BY <1>2, <1>3 DEF SameWork
    <2>2. \A g \in Group, t \in Trid : Left(g, t)' => Left(g, t)
        BY <2>1, LeftKept
    <2>3. ASSUME NEW g \in Group, NEW t \in Trid, Asked(g, t)
          PROVE  Asked(g, t)'
        <3>1. PICK corr \in correlation[t] : g \in DOMAIN corr.stage /\ corr.stage[g] # "replied"
            BY <2>3 DEF Asked
        <3>2. Fail(corr, m.from) \in correlation'[t]
            BY <1>2
        <3>3. Fail(corr, m.from).stage = [h \in DOMAIN corr.stage |->
                  IF h = m.from /\ corr.stage[h] = "pending" THEN "error" ELSE corr.stage[h]]
            BY FailIs DEF TypeInv
        <3>4. /\ g \in DOMAIN Fail(corr, m.from).stage
              /\ Fail(corr, m.from).stage[g] # "replied"
            BY <3>1, <3>3
        <3> QED BY <3>2, <3>4 DEF Asked
    <2>4. \A k \in 1 .. Len(Way') : Done(k)' => \E j \in 1 .. Len(Way) : Done(j) /\ Way[j] = Way'[k]
        BY <1>1, <1>3, <1>6, QuietDone
    <2> QED BY <1>1, <1>2, <1>4, <2>2, <2>3, <2>4, TakingStep
<1>14. CallersKept
    <2>1. ASSUME NEW t \in Trid, NEW x \in correlation'[t], NEW y \in correlation'[t]
          PROVE  x = y
        <3>1. PICK c \in correlation[t] : x = Fail(c, m.from)
            BY <1>2, <2>1
        <3>2. PICK d \in correlation[t] : y = Fail(d, m.from)
            BY <1>2, <2>1
        <3>3. c = d
            BY DEF Core, Waiting
        <3> QED BY <3>1, <3>2, <3>3
    <2> QED BY <1>12, <2>1 DEF CallersKept
<1>15. Waiting'
    BY <1>1, <1>3, <1>7, <1>14, WaitingKept DEF Core
<1>16. Owing'
    <2>1. AnswerTrue'
        BY <1>2, <1>3 DEF Core, Owing, AnswerTrue
    <2>2. OwedStaged'
        <3> SUFFICES ASSUME NEW t \in Trid \ failed', NEW c \in correlation'[t]
                     PROVE  owed'[t] \subseteq DOMAIN c.stage /\ \A g \in owed'[t] : c.stage[g] # "replied"
            BY DEF OwedStaged
        <3>1. PICK corr \in correlation[t] :
                 /\ DOMAIN c.stage = DOMAIN corr.stage
                 /\ \A g \in DOMAIN corr.stage : c.stage[g] = corr.stage[g] \/ c.stage[g] = "error"
            BY <1>12
        <3>2. owed[t] \subseteq DOMAIN corr.stage /\ \A g \in owed[t] : corr.stage[g] # "replied"
            BY <1>2 DEF Core, Owing
        <3> QED BY <1>3, <3>1, <3>2
    <2> QED BY <1>1, <1>2, <1>3, <1>4, <1>6, <2>1, <2>2, OwingKept DEF Core
<1>17. Tokens'
    BY <1>1, <1>2, <1>3, <1>6, QuietTracks, TokensKept DEF Core
<1>18. Stale'
    BY <1>1, <1>2, <1>3, <1>4, <1>6, <1>13, StaleKept DEF Core
<1>19. Pending'
    <2>1. PICK f \in [1 .. Len(Way') -> Nat] :
              /\ Embeds(f, {}, {m})
              /\ \A k \in 1 .. Len(Way') : Req(k)' \/ Rep(k)' =>
                    f[k] # 0 /\ f[k] \in 1 .. Len(Way) /\ Way'[k] = Way[f[k]]
              /\ \A k \in 1 .. Len(Way') : Rep(k)' => Rep(f[k])
        BY <1>1, <1>6, QuietEmbeds
    <2>2. ASSUME NEW x \in Trid, NEW c \in correlation'[x], NEW k \in 1 .. Len(Way'), Rep(k)', Way'[k].trid = x
          PROVE  /\ Way'[k].number = requests'[x] /\ Way'[k].from \in DOMAIN c.stage
                 /\ Way'[k].from \in alive' => c.stage[Way'[k].from] = "pending"
        <3>1. Rep(f[k]) /\ f[k] \in 1 .. Len(Way) /\ Way'[k] = Way[f[k]]
            BY <2>1, <2>2
        <3>2. PICK corr \in correlation[x] :
                 /\ DOMAIN c.stage = DOMAIN corr.stage
                 /\ \A g \in DOMAIN corr.stage : g # m.from => c.stage[g] = corr.stage[g]
            BY <1>12
        <3>3. /\ Way[f[k]].number = requests[x] /\ Way[f[k]].from \in DOMAIN corr.stage
              /\ Way[f[k]].from \in alive => corr.stage[Way[f[k]].from] = "pending"
            BY <2>2, <3>1 DEF Core, Pending
        <3> QED BY <1>3, <1>8, <3>1, <3>2, <3>3
    <2>3. ASSUME NEW x \in Trid, NEW c \in correlation'[x], NEW g \in alive' \cap Group,
                 NEW i \in DOMAIN toGroup'[g], toGroup'[g][i].trid = x
          PROVE  /\ toGroup'[g][i].number = requests'[x] /\ g \in DOMAIN c.stage
                 /\ c.stage[g] = "pending"
        <3>2. PICK corr \in correlation[x] :
                 /\ DOMAIN c.stage = DOMAIN corr.stage
                 /\ \A h \in DOMAIN corr.stage : h # m.from => c.stage[h] = corr.stage[h]
            BY <1>12
        <3>3. toGroup[g][i].number = requests[x] /\ g \in DOMAIN corr.stage /\ corr.stage[g] = "pending"
            BY <1>2, <1>3, <2>3 DEF Core, Pending
        <3> QED BY <1>2, <1>3, <1>8, <3>2, <3>3
    <2>4. ASSUME NEW x \in Trid \ merged', NEW c \in correlation'[x], NEW g \in alive' \cap DOMAIN c.stage,
                 c.stage[g] = "pending"
          PROVE  \/ \E i \in DOMAIN toGroup'[g] : toGroup'[g][i].trid = x
                 \/ \E k \in 1 .. Len(Way') : Rep(k)' /\ Way'[k].trid = x /\ Way'[k].from = g
        <3>2. PICK corr \in correlation[x] :
                 /\ DOMAIN c.stage = DOMAIN corr.stage
                 /\ \A h \in DOMAIN corr.stage : h # m.from => c.stage[h] = corr.stage[h]
            BY <1>12
        <3>3. g \in alive \cap DOMAIN corr.stage /\ corr.stage[g] = "pending"
            BY <1>3, <1>8, <2>4, <3>2
        <3>4. \/ \E i \in DOMAIN toGroup[g] : toGroup[g][i].trid = x
              \/ \E k \in 1 .. Len(Way) : Rep(k) /\ Way[k].trid = x /\ Way[k].from = g
            BY <1>3, <3>3 DEF Core, Pending
        <3>5. CASE \E k \in 1 .. Len(Way) : Rep(k) /\ Way[k].trid = x /\ Way[k].from = g
            <4>1. PICK j \in 1 .. Len(Way) : Rep(j) /\ Way[j].trid = x /\ Way[j].from = g
                BY <3>5
            <4>2. Way[j] # m
                BY <1>6, <4>1 DEF Rep
            <4>3. PICK k \in 1 .. Len(Way') : f[k] = j
                BY <2>1, <4>2 DEF Embeds
            <4>4. Way'[k] = Way[j]
                BY <2>1, <4>1, <4>3 DEF Embeds
            <4> QED BY <4>1, <4>4 DEF Rep
        <3> QED BY <1>2, <3>4, <3>5
    <2> QED BY <2>2, <2>3, <2>4 DEF Pending
<1> QED BY <1>9, <1>10, <1>11, <1>15, <1>16, <1>17, <1>18, <1>19 DEF Parts, Core

-----------------------------------------------------------------------------
(* transaction::request.                                                   *)

\* What the requests that are forwarded change.
LEMMA ForwardFacts ==
    ASSUME TypeInv, NEW m \in RequestMessage, NEW gs \in SUBSET Group, Forward(m, gs)
    PROVE  /\ \A g \in Group : \A i \in DOMAIN toGroup[g] :
                 i \in DOMAIN toGroup'[g] /\ toGroup'[g][i] = toGroup[g][i]
           /\ \A g \in Group : \A i \in DOMAIN toGroup'[g] :
                 \/ i \in DOMAIN toGroup[g] /\ toGroup'[g][i] = toGroup[g][i]
                 \/ /\ g \in gs /\ i = Len(toGroup[g]) + 1
                    /\ toGroup'[g][i].trid = m.trid /\ toGroup'[g][i].number = m.number
           /\ \A g \in gs : \E i \in DOMAIN toGroup'[g] : toGroup'[g][i].trid = m.trid
<1> DEFINE r == [trid |-> m.trid, number |-> m.number]
<1>1. r \in Pledge /\ r.trid = m.trid /\ r.number = m.number
    BY DEF RequestMessage, Pledge
<1> HIDE DEF r
<1>2. toGroup' = [g \in Group |-> IF g \in gs THEN Append(toGroup[g], r) ELSE toGroup[g]]
    BY DEF Forward, r
<1>3. \A g \in Group : toGroup[g] \in Seq(Pledge)
    BY DEF TypeInv
<1>4. ASSUME NEW g \in gs
      PROVE  /\ toGroup'[g] = Append(toGroup[g], r)
             /\ DOMAIN toGroup[g] = 1 .. Len(toGroup[g]) /\ Len(toGroup[g]) \in Nat
             /\ DOMAIN toGroup'[g] = 1 .. Len(toGroup[g]) + 1
             /\ \A i \in 1 .. Len(toGroup[g]) : toGroup'[g][i] = toGroup[g][i]
             /\ toGroup'[g][Len(toGroup[g]) + 1] = r
    <2>1. toGroup'[g] = Append(toGroup[g], r) /\ toGroup[g] \in Seq(Pledge)
        BY <1>2, <1>3
    <2> HIDE DEF Pledge
    <2> QED BY <1>1, <2>1
<1>5. \A g \in Group \ gs : toGroup'[g] = toGroup[g]
    BY <1>2
<1>6. ASSUME NEW g \in Group, NEW i \in DOMAIN toGroup[g]
      PROVE  i \in DOMAIN toGroup'[g] /\ toGroup'[g][i] = toGroup[g][i]
    <2>1. CASE g \in gs
        BY <1>4, <1>6, <2>1
    <2>2. CASE g \notin gs
        BY <1>5, <1>6, <2>2
    <2> QED BY <2>1, <2>2
<1>7. ASSUME NEW g \in Group, NEW i \in DOMAIN toGroup'[g]
      PROVE  \/ i \in DOMAIN toGroup[g] /\ toGroup'[g][i] = toGroup[g][i]
             \/ /\ g \in gs /\ i = Len(toGroup[g]) + 1
                /\ toGroup'[g][i].trid = m.trid /\ toGroup'[g][i].number = m.number
    <2>1. CASE g \in gs
        <3>1. i \in 1 .. Len(toGroup[g]) \/ i = Len(toGroup[g]) + 1
            BY <1>4, <1>7, <2>1
        <3> QED BY <1>1, <1>4, <2>1, <3>1
    <2>2. CASE g \notin gs
        BY <1>5, <1>7, <2>2
    <2> QED BY <2>1, <2>2
<1>8. ASSUME NEW g \in gs
      PROVE  \E i \in DOMAIN toGroup'[g] : toGroup'[g][i].trid = m.trid
    <2>1. PICK i \in DOMAIN toGroup'[g] : i = Len(toGroup[g]) + 1
        BY <1>4
    <2> QED BY <1>1, <1>4, <2>1
<1> QED BY <1>6, <1>7, <1>8

\* What holds when the request is read: no other request of the transaction is under way, no
\* record is there, and what came before it has arrived.
LEMMA RequestFacts ==
    ASSUME BrokerInv, NEW m \in RequestMessage, Dequeued(m), Handling
    PROVE  /\ m.trid \in Trid /\ m.from \in Proxy /\ Moves({}, {m})
           /\ proxy[m.from].stage = "waiting" /\ proxy[m.from].trid = m.trid
           /\ m.number = requests[m.trid] /\ correlation[m.trid] = {}
           /\ \A k \in 1 .. Len(Way') : Req(k)' \/ Rep(k)' => k + 1 \in 1 .. Len(Way) /\ Way'[k] = Way[k + 1]
           /\ \A k \in 1 .. Len(Way') : Req(k)' => Req(k + 1) /\ Way'[k].trid \in Trid \ {m.trid}
           /\ \A k \in 1 .. Len(Way') : Rep(k)' => Rep(k + 1)
           /\ \A j \in 1 .. Len(Way') : Rep(j)' /\ Way'[j].trid = m.trid =>
                 Broken(m.trid) /\ Way'[j].number # m.number
           /\ \A g \in Group : \A i \in DOMAIN toGroup[g] :
                 toGroup[g][i].trid = m.trid => toGroup[g][i].number # m.number
           /\ \A g \in alive \cap Group : \A i \in DOMAIN toGroup[g] :
                 toGroup[g][i].trid = m.trid => Broken(m.trid)
           /\ m.trid \notin failed => owed[m.trid] \subseteq involved[m.trid]
<1> USE DEF BrokerInv
<1>1. /\ 1 \in 1 .. Len(Way) /\ Way[1] = m
      /\ Len(Way') \in Nat /\ Len(Way') = Len(Way) - 1
      /\ \A k \in 1 .. Len(Way') : Way'[k] = Way[k + 1]
      /\ Moves({}, {m})
    BY ReadMoves DEF TypeInv
<1>2. m.kind = "request" /\ m.trid \in Trid /\ m.from \in Proxy
    BY DEF RequestMessage
<1>3. Req(1)
    BY <1>1, <1>2 DEF Req
<1>4. /\ proxy[m.from].stage = "waiting" /\ proxy[m.from].trid = m.trid
      /\ m.number = requests[m.trid] /\ correlation[m.trid] = {}
    BY <1>1, <1>3 DEF Core, Waiting
<1>5. \A k \in 1 .. Len(Way') : k + 1 \in 1 .. Len(Way) /\ k + 1 # 1 /\ 1 < k + 1 /\ Way'[k] = Way[k + 1]
    BY <1>1
<1>6. \A k \in 1 .. Len(Way') : Rep(k)' => Rep(k + 1)
    BY <1>5 DEF Rep
<1>7. \A k \in 1 .. Len(Way') : Req(k)' => Req(k + 1)
    BY <1>5 DEF Req
<1>8. ASSUME NEW k \in 1 .. Len(Way'), Req(k)'
      PROVE  Way'[k].trid \in Trid \ {m.trid}
    <2>1. PICK j \in 1 .. Len(Way) : j # 1 /\ Req(j) /\ Way'[k] = Way[j]
        BY <1>5, <1>7, <1>8
    <2>2. Way[j].trid \in Trid
        BY <2>1, ReqTypes
    <2> QED BY <1>1, <1>3, <2>1, <2>2 DEF Core, Waiting
<1>9. ASSUME NEW k \in 1 .. Len(Way'), Rep(k)', Way'[k].trid = m.trid
      PROVE  Broken(m.trid) /\ Way'[k].number # m.number
    <2>1. PICK j \in 1 .. Len(Way) : 1 < j /\ Rep(j) /\ Way'[k] = Way[j]
        BY <1>5, <1>6, <1>9
    <2>2. Broken(Way[1].trid)
        BY <1>1, <1>3, <1>9, <2>1 DEF Core, Stale
    <2>3. Way[j].number # Way[1].number
        BY <1>1, <1>3, <1>9, <2>1 DEF Core, Tokens
    <2> QED BY <1>1, <2>1, <2>2, <2>3
<1>10. \A g \in Group : \A i \in DOMAIN toGroup[g] :
           toGroup[g][i].trid = m.trid => toGroup[g][i].number # m.number
    BY <1>1, <1>3 DEF Core, Tokens
<1>11. \A g \in alive \cap Group : \A i \in DOMAIN toGroup[g] :
           toGroup[g][i].trid = m.trid => Broken(m.trid)
    BY <1>4 DEF Core, Stale
<1>12. \A j \in 1 .. Len(Way) : ~ j < 1
    BY <1>1
<1>13. m.trid \notin failed => owed[m.trid] \subseteq involved[m.trid]
    BY <1>1, <1>3, <1>12 DEF Core, Owing
<1> QED BY <1>1, <1>2, <1>4, <1>5, <1>6, <1>7, <1>8, <1>9, <1>10, <1>11, <1>13

\* The requests that are forwarded have a number of their own.
LEMMA ForwardTokens ==
    ASSUME BrokerInv, NEW m \in RequestMessage, Dequeued(m), Handling,
           NEW gs \in SUBSET Group, Forward(m, gs)
    PROVE  Tokens'
<1> USE DEF BrokerInv
<1>1. requests' = requests /\ m.trid \in Trid /\ m.number = requests[m.trid] /\ requests[m.trid] \in Nat
    BY RequestFacts DEF Handling, TypeInv
<1>2. /\ \A k \in 1 .. Len(Way') : Req(k)' \/ Rep(k)' => k + 1 \in 1 .. Len(Way) /\ Way'[k] = Way[k + 1]
      /\ \A k \in 1 .. Len(Way') : Req(k)' => Req(k + 1) /\ Way'[k].trid \in Trid \ {m.trid}
      /\ \A k \in 1 .. Len(Way') : Rep(k)' => Rep(k + 1)
      /\ \A j \in 1 .. Len(Way') : Rep(j)' /\ Way'[j].trid = m.trid => Way'[j].number # m.number
      /\ \A g \in Group : \A i \in DOMAIN toGroup[g] :
            toGroup[g][i].trid = m.trid => toGroup[g][i].number # m.number
    BY RequestFacts
<1>3. \A g \in Group : \A i \in DOMAIN toGroup'[g] :
          \/ i \in DOMAIN toGroup[g] /\ toGroup'[g][i] = toGroup[g][i]
          \/ /\ g \in gs /\ i = Len(toGroup[g]) + 1
             /\ toGroup'[g][i].trid = m.trid /\ toGroup'[g][i].number = m.number
    BY ForwardFacts
<1>4. ASSUME NEW g \in Group, NEW i \in DOMAIN toGroup'[g]
      PROVE  toGroup'[g][i].number <= requests'[toGroup'[g][i].trid]
    <2>1. CASE i \in DOMAIN toGroup[g] /\ toGroup'[g][i] = toGroup[g][i]
        BY <1>1, <2>1 DEF Core, Tokens
    <2>2. CASE toGroup'[g][i].trid = m.trid /\ toGroup'[g][i].number = m.number
        BY <1>1, <2>2
    <2> QED BY <1>3, <1>4, <2>1, <2>2
<1>5. ASSUME NEW g \in Group, NEW i \in DOMAIN toGroup'[g], NEW j \in DOMAIN toGroup'[g],
             toGroup'[g][i] = toGroup'[g][j]
      PROVE  i = j
    <2>1. CASE i \in DOMAIN toGroup[g] /\ toGroup'[g][i] = toGroup[g][i]
               /\ j \in DOMAIN toGroup[g] /\ toGroup'[g][j] = toGroup[g][j]
        BY <1>5, <2>1 DEF Core, Tokens
    <2> QED BY <1>2, <1>3, <1>5, <2>1
<1>6. ASSUME NEW k \in 1 .. Len(Way'), Rep(k)'
      PROVE  Way'[k].number <= requests'[Way'[k].trid]
    <2>1. PICK a \in 1 .. Len(Way) : Rep(a) /\ Way'[k] = Way[a]
        BY <1>2, <1>6
    <2> QED BY <1>1, <2>1 DEF Core, Tokens
<1>7. ASSUME NEW g \in Group, NEW i \in DOMAIN toGroup'[g], NEW k \in 1 .. Len(Way'), Rep(k)',
             Way'[k].from = g, Way'[k].trid = toGroup'[g][i].trid, Way'[k].number = toGroup'[g][i].number
      PROVE  FALSE
    <2>1. PICK a \in 1 .. Len(Way) : Rep(a) /\ Way'[k] = Way[a]
        BY <1>2, <1>7
    <2>2. CASE i \in DOMAIN toGroup[g] /\ toGroup'[g][i] = toGroup[g][i]
        BY <1>7, <2>1, <2>2 DEF Core, Tokens
    <2>3. CASE toGroup'[g][i].trid = m.trid /\ toGroup'[g][i].number = m.number
        BY <1>2, <1>7, <2>3
    <2> QED BY <1>3, <2>2, <2>3
<1>8. ASSUME NEW j \in 1 .. Len(Way'), NEW k \in 1 .. Len(Way'), Rep(j)', Rep(k)',
             Way'[j].from = Way'[k].from, Way'[j].trid = Way'[k].trid, Way'[j].number = Way'[k].number
      PROVE  j = k
    <2>1. PICK a \in 1 .. Len(Way) : a = j + 1 /\ Rep(a) /\ Way'[j] = Way[a]
        BY <1>2, <1>8
    <2>2. PICK b \in 1 .. Len(Way) : b = k + 1 /\ Rep(b) /\ Way'[k] = Way[b]
        BY <1>2, <1>8
    <2>3. a = b
        BY <1>8, <2>1, <2>2 DEF Core, Tokens
    <2> QED BY <2>1, <2>2, <2>3
<1>9. ASSUME NEW k \in 1 .. Len(Way'), Req(k)'
      PROVE  /\ \A g \in Group : \A i \in DOMAIN toGroup'[g] :
                   toGroup'[g][i].trid = Way'[k].trid => toGroup'[g][i].number # Way'[k].number
             /\ \A j \in 1 .. Len(Way') :
                   Rep(j)' /\ Way'[j].trid = Way'[k].trid => Way'[j].number # Way'[k].number
    <2>1. PICK a \in 1 .. Len(Way) : Req(a) /\ Way'[k] = Way[a] /\ Way[a].trid # m.trid
        BY <1>2, <1>9
    <2>2. ASSUME NEW g \in Group, NEW i \in DOMAIN toGroup'[g], toGroup'[g][i].trid = Way'[k].trid
          PROVE  toGroup'[g][i].number # Way'[k].number
        <3>1. i \in DOMAIN toGroup[g] /\ toGroup'[g][i] = toGroup[g][i]
            BY <1>3, <2>1, <2>2
        <3> QED BY <2>1, <2>2, <3>1 DEF Core, Tokens
    <2>3. ASSUME NEW j \in 1 .. Len(Way'), Rep(j)', Way'[j].trid = Way'[k].trid
          PROVE  Way'[j].number # Way'[k].number
        <3>1. PICK b \in 1 .. Len(Way) : Rep(b) /\ Way'[j] = Way[b]
            BY <1>2, <2>3
        <3> QED BY <2>1, <2>3, <3>1 DEF Core, Tokens
    <2> QED BY <2>2, <2>3
<1> QED BY <1>4, <1>5, <1>6, <1>7, <1>8, <1>9 DEF Tokens

\* What an answer changes for the proxies.
LEMMA AnswerFacts ==
    ASSUME TypeInv, NEW p \in Proxy, NEW r \in Result, Answer(p, r), proxy[p].stage = "waiting"
    PROVE  /\ \A q \in Proxy \ {p} : proxy'[q] = proxy[q]
           /\ proxy'[p].trid = proxy[p].trid
           /\ \/ proxy'[p].stage = "waiting"
              \/ proxy'[p].stage = "answered" /\ proxy'[p].result = r
BY AnswerProxy DEF TypeInv

\* The proxy of transaction t is answered and nothing is left of its request.
LEMMA WaitingAnswered ==
    ASSUME BrokerInv, NEW L, Moves({}, L), NEW p \in Proxy, NEW t \in Trid,
           proxy[p].stage = "waiting", proxy[p].trid = t,
           \A q \in Proxy \ {p} : proxy'[q] = proxy[q],
           proxy'[p].trid = t, proxy'[p].stage # "idle",
           \A k \in 1 .. Len(Way') : Req(k)' => Way'[k].trid # t,
           correlation'[t] = {}, \A x \in Trid \ {t} : correlation'[x] = correlation[x],
           requests' = requests
    PROVE  Waiting'
<1> USE DEF BrokerInv
<1>1. PICK f : Tracks(f)
    BY QuietTracks DEF Quiet
<1>2. ASSUME NEW k \in 1 .. Len(Way'), Req(k)'
      PROVE  /\ Req(f[k]) /\ f[k] # 0 /\ f[k] \in 1 .. Len(Way) /\ Way'[k] = Way[f[k]]
             /\ Way[f[k]].trid \in Trid \ {t} /\ Way[f[k]].from \in Proxy \ {p}
    <2>1. Req(f[k]) /\ f[k] # 0 /\ f[k] \in 1 .. Len(Way) /\ Way'[k] = Way[f[k]]
        BY <1>1, <1>2 DEF Tracks
    <2>2. Way[f[k]].from \in Proxy /\ Way[f[k]].trid \in Trid
        BY <2>1, ReqTypes
    <2>3. proxy[Way[f[k]].from].trid = Way[f[k]].trid
        BY <2>1 DEF Core, Waiting
    <2>4. Way[f[k]].trid # t
        BY <1>2, <2>1
    <2> QED BY <2>1, <2>2, <2>3, <2>4
<1>3. \A o, q \in Proxy :
          proxy'[o].stage # "idle" /\ proxy'[q].stage # "idle" /\ proxy'[o].trid = proxy'[q].trid => o = q
    <2> SUFFICES ASSUME NEW o \in Proxy, NEW q \in Proxy, proxy'[o].stage # "idle", proxy'[q].stage # "idle",
                        proxy'[o].trid = proxy'[q].trid
                 PROVE  o = q
        OBVIOUS
    <2>1. proxy[o].stage # "idle" /\ proxy[q].stage # "idle" /\ proxy[o].trid = proxy[q].trid
        OBVIOUS
    <2> QED BY <2>1 DEF Core, Waiting
<1>4. ASSUME NEW k \in 1 .. Len(Way'), Req(k)'
      PROVE  /\ proxy'[Way'[k].from].stage = "waiting" /\ proxy'[Way'[k].from].trid = Way'[k].trid
             /\ Way'[k].number = requests'[Way'[k].trid] /\ correlation'[Way'[k].trid] = {}
    <2>1. /\ Req(f[k]) /\ f[k] \in 1 .. Len(Way) /\ Way'[k] = Way[f[k]]
          /\ Way[f[k]].trid \in Trid \ {t} /\ Way[f[k]].from \in Proxy \ {p}
        BY <1>2, <1>4
    <2>2. /\ proxy[Way[f[k]].from].stage = "waiting" /\ proxy[Way[f[k]].from].trid = Way[f[k]].trid
          /\ Way[f[k]].number = requests[Way[f[k]].trid] /\ correlation[Way[f[k]].trid] = {}
        BY <2>1 DEF Core, Waiting
    <2>3. /\ proxy'[Way[f[k]].from] = proxy[Way[f[k]].from]
          /\ correlation'[Way[f[k]].trid] = correlation[Way[f[k]].trid]
        BY <2>1
    <2> QED BY <2>1, <2>2, <2>3
<1>5. ASSUME NEW j \in 1 .. Len(Way'), NEW k \in 1 .. Len(Way'), Req(j)', Req(k)', Way'[j].trid = Way'[k].trid
      PROVE  j = k
    <2>1. Req(f[j]) /\ f[j] # 0 /\ f[j] \in 1 .. Len(Way) /\ Way'[j] = Way[f[j]]
        BY <1>2, <1>5
    <2>2. Req(f[k]) /\ f[k] \in 1 .. Len(Way) /\ Way'[k] = Way[f[k]]
        BY <1>2, <1>5
    <2>3. f[j] = f[k]
        BY <1>5, <2>1, <2>2 DEF Core, Waiting
    <2> QED BY <1>1, <2>1, <2>3 DEF Tracks
<1>6. ASSUME NEW x \in Trid, NEW corr \in correlation'[x]
      PROVE  proxy'[corr.caller].stage = "waiting" /\ proxy'[corr.caller].trid = x
    <2>1. x # t /\ corr \in correlation[x]
        BY <1>6
    <2>2. corr.caller \in Proxy
        BY <2>1 DEF TypeInv, CorrelationType
    <2>3. proxy[corr.caller].stage = "waiting" /\ proxy[corr.caller].trid = x
        BY <2>1 DEF Core, Waiting
    <2> QED BY <2>1, <2>2, <2>3
<1>7. \A x \in Trid : \A a, b \in correlation'[x] : a = b
    <2> SUFFICES ASSUME NEW x \in Trid, NEW a \in correlation'[x], NEW b \in correlation'[x] PROVE a = b
        OBVIOUS
    <2>1. x # t
        OBVIOUS
    <2> QED BY <2>1 DEF Core, Waiting
<1> QED BY <1>3, <1>4, <1>5, <1>6, <1>7 DEF Waiting

\* A proxy that is answered has a true answer.
LEMMA TrueAnswered ==
    ASSUME BrokerInv, NEW p \in Proxy, NEW t \in Trid, NEW r \in Result,
           \A q \in Proxy \ {p} : proxy'[q] = proxy[q],
           proxy'[p].trid = t,
           \/ proxy'[p].stage = "waiting"
           \/ proxy'[p].stage = "answered" /\ proxy'[p].result = r,
           t \notin failed' /\ r \in {"XA_OK", "XAER_NOTA"} => owed[t] = {},
           owed' = owed, failed \subseteq failed'
    PROVE  AnswerTrue'
<1> SUFFICES ASSUME NEW q \in Proxy, proxy'[q].stage = "answered", proxy'[q].result \in {"XA_OK", "XAER_NOTA"},
                    proxy'[q].trid \notin failed'
             PROVE  owed[proxy'[q].trid] = {}
    BY DEF AnswerTrue
<1>1. CASE q = p
    BY <1>1
<1>2. CASE q # p
    BY <1>2 DEF BrokerInv, Core, Owing, AnswerTrue
<1> QED BY <1>1, <1>2

\* A request that is not forwarded to all groups is answered.
LEMMA RequestAnswered ==
    ASSUME BrokerInv, NEW m \in RequestMessage, Dequeued(m), Handling,
           UNCHANGED <<groups, queues, client, involved, correlation, active, failed>>,
           NEW r \in Result, Answer(m.from, r),
           m.trid \notin failed /\ r \in {"XA_OK", "XAER_NOTA"} => owed[m.trid] = {}
    PROVE  Registry' /\ Working' /\ Dead' /\ Taking' /\ Waiting' /\ Owing'
<1> USE DEF BrokerInv
<1>1. /\ m.trid \in Trid /\ m.from \in Proxy /\ Moves({}, {m})
      /\ proxy[m.from].stage = "waiting" /\ proxy[m.from].trid = m.trid
      /\ correlation[m.trid] = {}
      /\ \A k \in 1 .. Len(Way') : Req(k)' => Way'[k].trid # m.trid
    BY RequestFacts
<1>2. UNCHANGED <<ended, telling, alive, reachable, requests, owed, merged>>
    BY DEF Handling
<1>3. m.kind = "request"
    BY DEF RequestMessage
<1>4. InvolvedGrows /\ Arrives({m}) /\ Quiet({})
    BY <1>3 DEF InvolvedGrows, Arrives, Quiet
<1>5. ended' \cap alive' = {} /\ alive' \subseteq alive
    BY <1>2 DEF Dead
<1>6. Registry'
    BY RegistryKept
<1>7. Working' /\ Dead'
    BY <1>1, <1>2, <1>5, WorkingKept, DeadKept
<1>8. Taking'
    <2>1. SameWork
        BY <1>2 DEF SameWork
    <2> QED BY <1>1, <1>2, <1>4, <2>1, TakingKept
<1>9. /\ \A q \in Proxy \ {m.from} : proxy'[q] = proxy[q]
      /\ proxy'[m.from].trid = m.trid
      /\ \/ proxy'[m.from].stage = "waiting"
         \/ proxy'[m.from].stage = "answered" /\ proxy'[m.from].result = r
    BY <1>1, AnswerFacts
<1>10. Waiting'
    <2>1. proxy'[m.from].stage # "idle"
        BY <1>9
    <2> QED BY <1>1, <1>2, <1>9, <2>1, WaitingAnswered
<1>11. AnswerTrue'
    BY <1>1, <1>2, <1>9, TrueAnswered
<1>12. OwedStaged'
    BY <1>2 DEF Core, Owing, OwedStaged
<1>13. Owing'
    BY <1>1, <1>2, <1>4, <1>11, <1>12, OwingKept DEF Core
<1> QED BY <1>6, <1>7, <1>8, <1>10, <1>13

\* No group is involved: XAER_NOTA.
LEMMA NoneInvolved ==
    ASSUME BrokerInv, NEW m \in RequestMessage, Dequeued(m), Handling,
           UNCHANGED <<groups, queues, client, involved, correlation, toGroup, active, failed>>,
           involved[m.trid] = {}, Answer(m.from, "XAER_NOTA")
    PROVE  Parts'
<1> USE DEF BrokerInv
<1>1. Moves({}, {m}) /\ (m.trid \notin failed => owed[m.trid] \subseteq involved[m.trid])
    BY RequestFacts
<1>2. (m.trid \notin failed => owed[m.trid] = {}) /\ "XAER_NOTA" \in Result
    BY <1>1 DEF Result
<1>3. Registry' /\ Working' /\ Dead' /\ Taking' /\ Waiting' /\ Owing'
    BY <1>2, RequestAnswered
<1>4. UNCHANGED <<ended, telling, alive, reachable, requests, owed, merged>>
    BY DEF Handling
<1>5. InvolvedGrows /\ Quiet({}) /\ m.kind # "reply"
    BY DEF InvolvedGrows, Quiet, RequestMessage
<1>6. Tokens'
    BY <1>1, <1>4, <1>5, QuietTracks, TokensKept DEF Core
<1>7. Stale'
    BY <1>1, <1>4, <1>5, StaleKept DEF Core
<1>8. Pending'
    BY <1>1, <1>4, <1>5, PendingKept DEF Core
<1> QED BY <1>3, <1>6, <1>7, <1>8 DEF Parts, Core

\* A group cannot be reached: XAER_RMFAIL, and some groups have the request.
LEMMA SomeUnreachable ==
    ASSUME BrokerInv, NEW m \in RequestMessage, Dequeued(m), Handling,
           UNCHANGED <<groups, queues, client, involved, correlation, active, failed>>,
           ~ involved[m.trid] \subseteq reachable,
           NEW some \in SUBSET involved[m.trid], Forward(m, some), Answer(m.from, "XAER_RMFAIL")
    PROVE  Parts'
<1> USE DEF BrokerInv
<1>1. /\ m.trid \in Trid /\ Moves({}, {m}) /\ correlation[m.trid] = {}
      /\ \A k \in 1 .. Len(Way') : Req(k)' \/ Rep(k)' => k + 1 \in 1 .. Len(Way) /\ Way'[k] = Way[k + 1]
      /\ \A k \in 1 .. Len(Way') : Req(k)' => Req(k + 1)
      /\ \A k \in 1 .. Len(Way') : Rep(k)' => Rep(k + 1)
    BY RequestFacts
<1>2. some \in SUBSET Group
    BY <1>1 DEF TypeInv
<1>3. /\ \A g \in Group : \A i \in DOMAIN toGroup[g] :
             i \in DOMAIN toGroup'[g] /\ toGroup'[g][i] = toGroup[g][i]
      /\ \A g \in Group : \A i \in DOMAIN toGroup'[g] :
            \/ i \in DOMAIN toGroup[g] /\ toGroup'[g][i] = toGroup[g][i]
            \/ toGroup'[g][i].trid = m.trid
    BY <1>2, ForwardFacts
<1>4. Registry' /\ Working' /\ Dead' /\ Taking' /\ Waiting' /\ Owing'
    BY RequestAnswered DEF Result
<1>5. UNCHANGED <<ended, telling, alive, reachable, requests, owed, merged>>
    BY DEF Handling
<1>6. Tokens'
    BY <1>2, ForwardTokens
<1>7. Broken(m.trid)
    BY DEF Broken
<1>8. Stale'
    <2>1. ASSUME NEW j \in 1 .. Len(Way'), NEW k \in 1 .. Len(Way'), Req(k)', Rep(j)', k < j,
                 Way'[j].trid = Way'[k].trid
          PROVE  Broken(Way[k].trid)'
        <3>1. PICK a \in 1 .. Len(Way) : a = j + 1 /\ Rep(a) /\ Way'[j] = Way[a]
            BY <1>1, <2>1
        <3>2. PICK b \in 1 .. Len(Way) : b = k + 1 /\ Req(b) /\ Way'[k] = Way[b]
            BY <1>1, <2>1
        <3>3. b < a
            BY <2>1, <3>1, <3>2
        <3>4. Broken(Way[b].trid)
            BY <2>1, <3>1, <3>2, <3>3 DEF Core, Stale
        <3> QED BY <1>5, <3>2, <3>4 DEF Broken
    <2>2. ASSUME NEW g \in alive' \cap Group, NEW i \in DOMAIN toGroup'[g],
                 correlation'[toGroup'[g][i].trid] = {}
          PROVE  Broken(toGroup[g][i].trid)'
        <3>1. CASE i \in DOMAIN toGroup[g] /\ toGroup'[g][i] = toGroup[g][i]
            <4>1. Broken(toGroup[g][i].trid)
                BY <1>5, <2>2, <3>1 DEF Core, Stale
            <4> QED BY <1>5, <3>1, <4>1 DEF Broken
        <3>2. CASE toGroup'[g][i].trid = m.trid
            BY <1>5, <1>7, <3>2 DEF Broken
        <3> QED BY <1>3, <2>2, <3>1, <3>2
    <2> QED BY <2>1, <2>2 DEF Stale
<1>9. Pending'
    <2>1. ASSUME NEW x \in Trid, NEW corr \in correlation'[x], NEW k \in 1 .. Len(Way'), Rep(k)', Way'[k].trid = x
          PROVE  /\ Way'[k].number = requests'[x] /\ Way'[k].from \in DOMAIN corr.stage
                 /\ Way'[k].from \in alive' => corr.stage[Way'[k].from] = "pending"
        <3>1. PICK a \in 1 .. Len(Way) : Rep(a) /\ Way'[k] = Way[a]
            BY <1>1, <2>1
        <3> QED BY <1>5, <2>1, <3>1 DEF Core, Pending
    <2>2. ASSUME NEW x \in Trid, NEW corr \in correlation'[x], NEW g \in alive' \cap Group,
                 NEW i \in DOMAIN toGroup'[g], toGroup'[g][i].trid = x
          PROVE  /\ toGroup'[g][i].number = requests'[x] /\ g \in DOMAIN corr.stage
                 /\ corr.stage[g] = "pending"
        <3>1. x # m.trid
            BY <1>1
        <3>2. i \in DOMAIN toGroup[g] /\ toGroup'[g][i] = toGroup[g][i]
            BY <1>3, <2>2, <3>1
        <3> QED BY <1>5, <2>2, <3>2 DEF Core, Pending
    <2>3. ASSUME NEW x \in Trid \ merged', NEW corr \in correlation'[x], NEW g \in alive' \cap DOMAIN corr.stage,
                 corr.stage[g] = "pending"
          PROVE  \/ \E i \in DOMAIN toGroup'[g] : toGroup'[g][i].trid = x
                 \/ \E k \in 1 .. Len(Way') : Rep(k)' /\ Way'[k].trid = x /\ Way'[k].from = g
        <3>0. g \in Group
            BY DEF TypeInv, CorrelationType
        <3>1. \/ \E i \in DOMAIN toGroup[g] : toGroup[g][i].trid = x
              \/ \E k \in 1 .. Len(Way) : Rep(k) /\ Way[k].trid = x /\ Way[k].from = g
            BY <1>5, <2>3 DEF Core, Pending
        <3>2. CASE \E i \in DOMAIN toGroup[g] : toGroup[g][i].trid = x
            BY <1>3, <3>0, <3>2
        <3>3. CASE \E k \in 1 .. Len(Way) : Rep(k) /\ Way[k].trid = x /\ Way[k].from = g
            <4>1. PICK j \in 1 .. Len(Way) : Rep(j) /\ Way[j].trid = x /\ Way[j].from = g
                BY <3>3
            <4>2. Way[j] # m
                BY <4>1 DEF Rep, RequestMessage
            <4>3. PICK f \in [1 .. Len(Way') -> Nat] : Embeds(f, {}, {m})
                BY <1>1 DEF Moves
            <4>4. PICK k \in 1 .. Len(Way') : f[k] = j
                BY <4>2, <4>3 DEF Embeds
            <4>5. Way'[k] = Way[j]
                BY <4>1, <4>3, <4>4 DEF Embeds
            <4> QED BY <4>1, <4>5 DEF Rep
        <3> QED BY <3>1, <3>2, <3>3
    <2> QED BY <2>1, <2>2, <2>3 DEF Pending
<1> QED BY <1>4, <1>6, <1>8, <1>9 DEF Parts, Core

\* A reply that the step does not take stays on the way.
LEMMA ReplyStays ==
    ASSUME NEW N, NEW L, Moves(N, L), NEW j \in 1 .. Len(Way), Rep(j), Way[j] \notin L
    PROVE  \E k \in 1 .. Len(Way') : Rep(k)' /\ Way'[k] = Way[j]
<1>1. PICK f \in [1 .. Len(Way') -> Nat] : Embeds(f, N, L)
    BY DEF Moves
<1>2. PICK k \in 1 .. Len(Way') : f[k] = j
    BY <1>1 DEF Embeds
<1>3. Way'[k] = Way[j]
    BY <1>1, <1>2 DEF Embeds
<1> QED BY <1>3 DEF Rep

\* All groups that are involved get the request, and a record is made.
LEMMA AllAsked ==
    ASSUME BrokerInv, NEW m \in RequestMessage, Dequeued(m), Handling,
           UNCHANGED <<groups, queues, client, proxy, active, failed>>,
           involved[m.trid] \subseteq reachable,
           Forward(m, involved[m.trid]),
           involved' = [involved EXCEPT ![m.trid] = {}],
           correlation' = [correlation EXCEPT ![m.trid] =
               {[caller |-> m.from, stage |-> [g \in involved[m.trid] |-> "pending"]]}]
    PROVE  Parts'
<1> USE DEF BrokerInv
<1> DEFINE t == m.trid
           gs == involved[t]
           rec == [caller |-> m.from, stage |-> [g \in gs |-> "pending"]]
<1>1. /\ t \in Trid /\ m.from \in Proxy /\ Moves({}, {m})
      /\ proxy[m.from].stage = "waiting" /\ proxy[m.from].trid = t
      /\ m.number = requests[t] /\ correlation[t] = {}
      /\ \A k \in 1 .. Len(Way') : Req(k)' \/ Rep(k)' => k + 1 \in 1 .. Len(Way) /\ Way'[k] = Way[k + 1]
      /\ \A k \in 1 .. Len(Way') : Req(k)' => Req(k + 1) /\ Way'[k].trid \in Trid \ {t}
      /\ \A k \in 1 .. Len(Way') : Rep(k)' => Rep(k + 1)
      /\ \A j \in 1 .. Len(Way') : Rep(j)' /\ Way'[j].trid = t => Broken(t)
      /\ \A g \in alive \cap Group : \A i \in DOMAIN toGroup[g] :
            toGroup[g][i].trid = t => Broken(t)
      /\ t \notin failed => owed[t] \subseteq gs
    BY RequestFacts
<1>2. ~ Broken(t)
    BY DEF Broken
<1>3. gs \in SUBSET Group
    BY <1>1 DEF TypeInv
<1>4. /\ \A g \in Group : \A i \in DOMAIN toGroup[g] :
             i \in DOMAIN toGroup'[g] /\ toGroup'[g][i] = toGroup[g][i]
      /\ \A g \in Group : \A i \in DOMAIN toGroup'[g] :
            \/ i \in DOMAIN toGroup[g] /\ toGroup'[g][i] = toGroup[g][i]
            \/ /\ g \in gs /\ i = Len(toGroup[g]) + 1
               /\ toGroup'[g][i].trid = t /\ toGroup'[g][i].number = m.number
      /\ \A g \in gs : \E i \in DOMAIN toGroup'[g] : toGroup'[g][i].trid = t
    BY <1>3, ForwardFacts
<1>5. UNCHANGED <<ended, telling, alive, reachable, requests, owed, merged>>
    BY DEF Handling
<1>6. m.kind = "request"
    BY DEF RequestMessage
<1>7. rec.caller = m.from /\ DOMAIN rec.stage = gs /\ \A g \in gs : rec.stage[g] = "pending"
    OBVIOUS
<1>8. /\ correlation'[t] = {rec} /\ \A x \in Trid \ {t} : correlation'[x] = correlation[x]
      /\ involved'[t] = {} /\ \A x \in Trid \ {t} : involved'[x] = involved[x]
    BY <1>1 DEF TypeInv
<1> HIDE DEF rec, gs
<1>9. Arrives({m}) /\ Quiet({})
    BY <1>6 DEF Arrives, Quiet
<1>10. ended' \cap alive' = {} /\ alive' \subseteq alive
    BY <1>5 DEF Dead
<1>11. Registry'
    BY RegistryKept
<1>12. Working' /\ Dead'
    BY <1>1, <1>5, <1>10, WorkingKept, DeadKept
\* What the broker knows it still knows, or it has asked the group.
<1>13. ASSUME NEW g \in Group, NEW x \in Trid, Known(g, x)
       PROVE  Known(g, x)' \/ (x = t /\ Asked(g, x)')
    <2>1. CASE x \in failed
        BY <2>1 DEF Known
    <2>2. CASE \E j \in 1 .. Len(Way) : Inv(j, g, x)
        <3>1. PICK f \in [1 .. Len(Way') -> Nat] : Embeds(f, {}, {m})
            BY <1>1 DEF Moves
        <3>2. g \in involved'[x] \/ \E k \in 1 .. Len(Way') : Inv(k, g, x)'
            BY <1>9, <2>2, <3>1, InvolvedKept
        <3> QED BY <3>2 DEF Known
    <2>3. CASE g \in involved[x] /\ x # t
        BY <1>8, <2>3 DEF Known
    <2>4. CASE g \in involved[x] /\ x = t
        <3>1. g \in DOMAIN rec.stage /\ rec.stage[g] # "replied" /\ rec \in correlation'[x]
            BY <1>7, <1>8, <2>4 DEF gs
        <3> QED BY <2>4, <3>1 DEF Asked
    <2> QED BY <1>13, <2>1, <2>2, <2>3, <2>4 DEF Known
<1>19. Taking'
    <2>1. ASSUME NEW g \in Group, NEW x \in Trid, Left(g, x)'
          PROVE  Known(g, x)' \/ Asked(g, x)'
        <3>1. Left(g, x)
            BY <1>5, <2>1 DEF Left
        <3>2. CASE Known(g, x)
            BY <1>13, <3>2
        <3>3. CASE Asked(g, x)
            <4>1. x # t
                BY <1>1, <3>3 DEF Asked
            <4>2. correlation'[x] = correlation[x]
                BY <1>8, <4>1
            <4> QED BY <3>3, <4>2 DEF Asked
        <3> QED BY <3>1, <3>2, <3>3 DEF Taking
    <2>2. ASSUME NEW k \in 1 .. Len(Way'), Done(k)', Left(Way[k].from, Way[k].trid)'
          PROVE  Known(Way[k].from, Way[k].trid)'
        <3>1. PICK j \in 1 .. Len(Way) : Rep(j) /\ Way'[k] = Way[j]
            BY <1>1, <2>2 DEF Done
        <3>2. Done(j)
            BY <1>5, <2>2, <3>1 DEF Done
        <3>3. PICK g \in Group, x \in Trid : g = Way[j].from /\ x = Way[j].trid
            BY <3>1, RepTypes
        <3>4. x # t
            BY <1>1, <1>2, <2>2, <3>1, <3>3 DEF Done
        <3>5. Left(g, x)
            BY <1>5, <2>2, <3>1, <3>3 DEF Left
        <3>6. Known(g, x)
            BY <3>2, <3>3, <3>5 DEF Taking
        <3>7. Known(g, x)'
            BY <1>13, <3>4, <3>6
        <3> QED BY <3>1, <3>3, <3>7 DEF Known, Inv
    <2> QED BY <2>1, <2>2 DEF Taking
<1>14. Waiting'
    <2>1. \A p, q \in Proxy :
              proxy'[p].stage # "idle" /\ proxy'[q].stage # "idle" /\ proxy'[p].trid = proxy'[q].trid => p = q
        BY DEF Core, Waiting
    <2>2. ASSUME NEW k \in 1 .. Len(Way'), Req(k)'
          PROVE  /\ proxy'[Way'[k].from].stage = "waiting" /\ proxy'[Way'[k].from].trid = Way'[k].trid
                 /\ Way'[k].number = requests'[Way'[k].trid] /\ correlation'[Way'[k].trid] = {}
        <3>1. PICK a \in 1 .. Len(Way) : Req(a) /\ Way'[k] = Way[a] /\ Way[a].trid \in Trid \ {t}
            BY <1>1, <2>2
        <3>2. /\ proxy[Way[a].from].stage = "waiting" /\ proxy[Way[a].from].trid = Way[a].trid
              /\ Way[a].number = requests[Way[a].trid] /\ correlation[Way[a].trid] = {}
            BY <3>1 DEF Core, Waiting
        <3> QED BY <1>5, <1>8, <3>1, <3>2
    <2>3. ASSUME NEW j \in 1 .. Len(Way'), NEW k \in 1 .. Len(Way'), Req(j)', Req(k)', Way'[j].trid = Way'[k].trid
          PROVE  j = k
        <3>1. PICK a \in 1 .. Len(Way) : a = j + 1 /\ Req(a) /\ Way'[j] = Way[a]
            BY <1>1, <2>3
        <3>2. PICK b \in 1 .. Len(Way) : b = k + 1 /\ Req(b) /\ Way'[k] = Way[b]
            BY <1>1, <2>3
        <3>3. a = b
            BY <2>3, <3>1, <3>2 DEF Core, Waiting
        <3> QED BY <3>1, <3>2, <3>3
    <2>4. ASSUME NEW x \in Trid, NEW corr \in correlation'[x]
          PROVE  proxy'[corr.caller].stage = "waiting" /\ proxy'[corr.caller].trid = x
        <3>1. CASE x = t
            BY <1>1, <1>7, <1>8, <2>4, <3>1
        <3>2. CASE x # t
            BY <1>8, <2>4, <3>2 DEF Core, Waiting
        <3> QED BY <3>1, <3>2
    <2>5. \A x \in Trid : \A a, b \in correlation'[x] : a = b
        <3> SUFFICES ASSUME NEW x \in Trid, NEW a \in correlation'[x], NEW b \in correlation'[x] PROVE a = b
            OBVIOUS
        <3>1. CASE x = t
            BY <1>8, <3>1
        <3>2. CASE x # t
            BY <1>8, <3>2 DEF Core, Waiting
        <3> QED BY <3>1, <3>2
    <2> QED BY <2>1, <2>2, <2>3, <2>4, <2>5 DEF Waiting
<1>15. Owing'
    <2>1. AnswerTrue'
        BY <1>5 DEF Core, Owing, AnswerTrue
    <2>2. OwedStaged'
        <3> SUFFICES ASSUME NEW x \in Trid \ failed', NEW corr \in correlation'[x]
                     PROVE  owed'[x] \subseteq DOMAIN corr.stage /\ \A g \in owed'[x] : corr.stage[g] # "replied"
            BY DEF OwedStaged
        <3>1. CASE x = t
            <4>1. corr = rec /\ owed'[x] \subseteq gs
                BY <1>1, <1>5, <1>8, <3>1
            <4> QED BY <1>7, <4>1
        <3>2. CASE x # t
            BY <1>5, <1>8, <3>2 DEF Core, Owing
        <3> QED BY <3>1, <3>2
    <2>3. \A x \in Trid : (\E k \in 1 .. Len(Way') : Req(k)' /\ Way'[k].trid = x) => involved[x] \subseteq involved'[x]
        <3> SUFFICES ASSUME NEW x \in Trid, NEW k \in 1 .. Len(Way'), Req(k)', Way'[k].trid = x
                     PROVE  involved[x] \subseteq involved'[x]
            OBVIOUS
        <3>1. x # t
            BY <1>1
        <3> QED BY <1>8, <3>1
    <2> QED BY <1>1, <1>5, <1>9, <2>1, <2>2, <2>3, OwingKept DEF Core
<1>16. Tokens'
    <2>1. Forward(m, gs)
        BY DEF gs
    <2> QED BY <1>3, <2>1, ForwardTokens
<1>17. Stale'
    <2>1. ASSUME NEW j \in 1 .. Len(Way'), NEW k \in 1 .. Len(Way'), Req(k)', Rep(j)', k < j,
                 Way'[j].trid = Way'[k].trid
          PROVE  Broken(Way[k].trid)'
        <3>1. PICK a \in 1 .. Len(Way) : a = j + 1 /\ Rep(a) /\ Way'[j] = Way[a]
            BY <1>1, <2>1
        <3>2. PICK b \in 1 .. Len(Way) : b = k + 1 /\ Req(b) /\ Way'[k] = Way[b] /\ Way[b].trid \in Trid \ {t}
            BY <1>1, <2>1
        <3>3. b < a
            BY <2>1, <3>1, <3>2
        <3>4. Broken(Way[b].trid)
            BY <2>1, <3>1, <3>2, <3>3 DEF Core, Stale
        <3>5. involved'[Way[b].trid] = involved[Way[b].trid]
            BY <1>8, <3>2
        <3> QED BY <1>5, <3>2, <3>4, <3>5 DEF Broken
    <2>2. ASSUME NEW g \in alive' \cap Group, NEW i \in DOMAIN toGroup'[g],
                 correlation'[toGroup'[g][i].trid] = {}
          PROVE  Broken(toGroup[g][i].trid)'
        <3>1. toGroup'[g][i].trid # t
            BY <1>8, <2>2
        <3>2. i \in DOMAIN toGroup[g] /\ toGroup'[g][i] = toGroup[g][i]
            BY <1>4, <2>2, <3>1
        <3>3. PICK x \in Trid : x = toGroup[g][i].trid
            <4>1. toGroup[g][i] \in Pledge
                BY <2>2, <3>2 DEF TypeInv
            <4> QED BY <4>1 DEF Pledge
        <3>4. x # t /\ correlation[x] = {}
            BY <1>8, <2>2, <3>1, <3>2, <3>3
        <3>5. Broken(x)
            BY <1>5, <2>2, <3>2, <3>3, <3>4 DEF Core, Stale
        <3> QED BY <1>5, <1>8, <3>2, <3>3, <3>4, <3>5 DEF Broken
    <2> QED BY <2>1, <2>2 DEF Stale
<1>18. Pending'
    <2>1. ASSUME NEW x \in Trid, NEW corr \in correlation'[x], NEW k \in 1 .. Len(Way'), Rep(k)', Way'[k].trid = x
          PROVE  /\ Way'[k].number = requests'[x] /\ Way'[k].from \in DOMAIN corr.stage
                 /\ Way'[k].from \in alive' => corr.stage[Way'[k].from] = "pending"
        <3>1. PICK a \in 1 .. Len(Way) : Rep(a) /\ Way'[k] = Way[a]
            BY <1>1, <2>1
        <3>2. x # t
            BY <1>1, <1>2, <2>1
        <3> QED BY <1>5, <1>8, <2>1, <3>1, <3>2 DEF Core, Pending
    <2>2. ASSUME NEW x \in Trid, NEW corr \in correlation'[x], NEW g \in alive' \cap Group,
                 NEW i \in DOMAIN toGroup'[g], toGroup'[g][i].trid = x
          PROVE  /\ toGroup'[g][i].number = requests'[x] /\ g \in DOMAIN corr.stage
                 /\ corr.stage[g] = "pending"
        <3>1. CASE x = t
            <4>1. ~ (i \in DOMAIN toGroup[g] /\ toGroup'[g][i] = toGroup[g][i])
                BY <1>1, <1>2, <1>5, <2>2, <3>1
            <4>2. g \in gs /\ toGroup'[g][i].number = m.number
                BY <1>4, <2>2, <4>1
            <4>3. corr = rec
                BY <1>8, <2>2, <3>1
            <4> QED BY <1>1, <1>5, <1>7, <3>1, <4>2, <4>3
        <3>2. CASE x # t
            <4>1. i \in DOMAIN toGroup[g] /\ toGroup'[g][i] = toGroup[g][i]
                BY <1>4, <2>2, <3>2
            <4> QED BY <1>5, <1>8, <2>2, <3>2, <4>1 DEF Core, Pending
        <3> QED BY <3>1, <3>2
    <2>3. ASSUME NEW x \in Trid \ merged', NEW corr \in correlation'[x], NEW g \in alive' \cap DOMAIN corr.stage,
                 corr.stage[g] = "pending"
          PROVE  \/ \E i \in DOMAIN toGroup'[g] : toGroup'[g][i].trid = x
                 \/ \E k \in 1 .. Len(Way') : Rep(k)' /\ Way'[k].trid = x /\ Way'[k].from = g
        <3>1. CASE x = t
            <4>1. g \in gs
                BY <1>7, <1>8, <2>3, <3>1
            <4> QED BY <1>4, <3>1, <4>1
        <3>2. CASE x # t
            <4>0. corr \in correlation[x]
                BY <1>8, <2>3, <3>2
            <4>1. g \in Group
                BY <4>0 DEF TypeInv, CorrelationType
            <4>2. \/ \E i \in DOMAIN toGroup[g] : toGroup[g][i].trid = x
                  \/ \E k \in 1 .. Len(Way) : Rep(k) /\ Way[k].trid = x /\ Way[k].from = g
                BY <1>5, <2>3, <4>0 DEF Core, Pending
            <4>3. CASE \E i \in DOMAIN toGroup[g] : toGroup[g][i].trid = x
                BY <1>4, <4>1, <4>3
            <4>4. CASE \E k \in 1 .. Len(Way) : Rep(k) /\ Way[k].trid = x /\ Way[k].from = g
                <5>1. PICK j \in 1 .. Len(Way) : Rep(j) /\ Way[j].trid = x /\ Way[j].from = g
                    BY <4>4
                <5>2. Way[j] \notin {m}
                    BY <1>6, <5>1 DEF Rep
                <5>3. PICK k \in 1 .. Len(Way') : Rep(k)' /\ Way'[k] = Way[j]
                    BY <1>1, <5>1, <5>2, ReplyStays
                <5> QED BY <5>1, <5>3
            <4> QED BY <4>2, <4>3, <4>4
        <3> QED BY <3>1, <3>2
    <2> QED BY <2>1, <2>2, <2>3 DEF Pending
<1> QED BY <1>11, <1>12, <1>14, <1>15, <1>16, <1>17, <1>18, <1>19 DEF Parts, Core

\* transaction::request keeps the invariant: no group involved, one that cannot be reached, or all
\* that are involved are asked.
LEMMA RequestHandled ==
    ASSUME BrokerInv, NEW m, Dequeued(m), HandleRequest(m), Handling
    PROVE  Parts'
<1> USE DEF BrokerInv
<1>1. m \in RequestMessage /\ UNCHANGED <<groups, queues, client, active, failed>>
    BY ReadMoves, RequestCases, Kinds DEF TypeInv
<1>2. correlation[m.trid] = {} /\ m.trid \in Trid
    BY <1>1, RequestFacts
<1>3. CASE /\ involved[m.trid] \subseteq reachable
           /\ Forward(m, involved[m.trid])
           /\ correlation' = [correlation EXCEPT ![m.trid] =
                IF correlation[m.trid] # {} THEN correlation[m.trid]
                ELSE {[caller |-> m.from, stage |-> [g \in involved[m.trid] |-> "pending"]]}]
           /\ involved' = [involved EXCEPT ![m.trid] = {}]
           /\ mode' = mode /\ proxy' = proxy
    <2>1. correlation' = [correlation EXCEPT ![m.trid] =
              {[caller |-> m.from, stage |-> [g \in involved[m.trid] |-> "pending"]]}]
        BY <1>2, <1>3, Zenon
    <2> QED BY <1>1, <1>3, <2>1, AllAsked
<1>4. CASE /\ ~ involved[m.trid] \subseteq reachable
           /\ \E some \in SUBSET (involved[m.trid] \cap reachable) : Forward(m, some)
           /\ Answer(m.from, "XAER_RMFAIL")
           /\ involved' = involved /\ correlation' = correlation
    <2>1. PICK some \in SUBSET involved[m.trid] : Forward(m, some)
        BY <1>4
    <2> QED BY <1>1, <1>4, <2>1, SomeUnreachable
<1>5. CASE /\ involved[m.trid] = {}
           /\ Answer(m.from, "XAER_NOTA")
           /\ involved' = involved /\ correlation' = correlation
           /\ toGroup' = toGroup
    BY <1>1, <1>5, NoneInvolved
<1> QED BY <1>3, <1>4, <1>5, RequestCases

-----------------------------------------------------------------------------
(* transaction::reply.                                                     *)

\* What holds when a reply is read: it is the only one of its kind, and the request it
\* answers is not before the group any more.
LEMMA ReplyFacts ==
    ASSUME BrokerInv, NEW m \in ReplyMessage, Dequeued(m), Handling
    PROVE  /\ m.trid \in Trid /\ m.from \in Group /\ m.kind = "reply" /\ Moves({}, {m})
           /\ \A k \in 1 .. Len(Way') : Rep(k)' =>
                 \E a \in 1 .. Len(Way) : a = k + 1 /\ a # 1 /\ Rep(a) /\ Way'[k] = Way[a]
           /\ \A k \in 1 .. Len(Way') : Req(k)' =>
                 \E a \in 1 .. Len(Way) : a = k + 1 /\ Req(a) /\ Way'[k] = Way[a]
           /\ \A a \in 1 .. Len(Way) : Rep(a) /\ Way[a] # m =>
                 \E k \in 1 .. Len(Way') : Rep(k)' /\ Way'[k] = Way[a]
           /\ \A a \in 1 .. Len(Way) : a # 1 /\ Rep(a) =>
                 ~ (Way[a].from = m.from /\ Way[a].trid = m.trid /\ Way[a].number = m.number)
           /\ \A i \in DOMAIN toGroup[m.from] :
                 ~ (toGroup[m.from][i].trid = m.trid /\ toGroup[m.from][i].number = m.number)
           /\ \A corr \in correlation[m.trid] :
                 /\ m.number = requests[m.trid] /\ m.from \in DOMAIN corr.stage
                 /\ m.from \in alive => corr.stage[m.from] = "pending"
                 /\ m.state = "XA_OK" => m.from \notin owed[m.trid]
<1> USE DEF BrokerInv
<1>1. /\ 1 \in 1 .. Len(Way) /\ Way[1] = m
      /\ Len(Way') \in Nat /\ Len(Way') = Len(Way) - 1
      /\ \A k \in 1 .. Len(Way') : Way'[k] = Way[k + 1]
      /\ Moves({}, {m})
    BY ReadMoves DEF TypeInv
<1>2. m.kind = "reply" /\ m.trid \in Trid /\ m.from \in Group
    BY DEF ReplyMessage
<1>3. Rep(1)
    BY <1>1, <1>2 DEF Rep
<1>4. \A k \in 1 .. Len(Way') : k + 1 \in 1 .. Len(Way) /\ k + 1 # 1 /\ Way'[k] = Way[k + 1]
    BY <1>1
<1>5. \A k \in 1 .. Len(Way') : Rep(k)' =>
          \E a \in 1 .. Len(Way) : a = k + 1 /\ a # 1 /\ Rep(a) /\ Way'[k] = Way[a]
    BY <1>4 DEF Rep
<1>6. \A k \in 1 .. Len(Way') : Req(k)' =>
          \E a \in 1 .. Len(Way) : a = k + 1 /\ Req(a) /\ Way'[k] = Way[a]
    BY <1>4 DEF Req
<1>7. ASSUME NEW a \in 1 .. Len(Way), Rep(a), Way[a] # m
      PROVE  \E k \in 1 .. Len(Way') : Rep(k)' /\ Way'[k] = Way[a]
    <2>1. Way[a] \notin {m}
        BY <1>7
    <2> QED BY <1>1, <1>7, <2>1, ReplyStays
<1>8. \A a \in 1 .. Len(Way) : a # 1 /\ Rep(a) =>
          ~ (Way[a].from = m.from /\ Way[a].trid = m.trid /\ Way[a].number = m.number)
    BY <1>1, <1>3 DEF Core, Tokens
<1>9. \A i \in DOMAIN toGroup[m.from] :
          ~ (toGroup[m.from][i].trid = m.trid /\ toGroup[m.from][i].number = m.number)
    BY <1>1, <1>2, <1>3 DEF Core, Tokens
<1>10. ASSUME NEW corr \in correlation[m.trid]
       PROVE  /\ m.number = requests[m.trid] /\ m.from \in DOMAIN corr.stage
              /\ m.from \in alive => corr.stage[m.from] = "pending"
              /\ m.state = "XA_OK" => m.from \notin owed[m.trid]
    <2>1. /\ m.number = requests[m.trid] /\ m.from \in DOMAIN corr.stage
          /\ m.from \in alive => corr.stage[m.from] = "pending"
        BY <1>1, <1>2, <1>3 DEF Core, Pending
    <2>2. m.state = "XA_OK" => m.from \notin owed[m.trid]
        BY <1>1, <1>3, <2>1 DEF Core, Owing
    <2> QED BY <2>1, <2>2
<1> QED BY <1>1, <1>2, <1>5, <1>6, <1>7, <1>8, <1>9, <1>10

\* The stages after a reply: no group that owes work has replied.
LEMMA StageOwed ==
    ASSUME BrokerInv, NEW m \in ReplyMessage, Dequeued(m), Handling, NEW corr \in correlation[m.trid]
    PROVE  /\ Stage(corr, m.from, Outcome(m)).caller = corr.caller
           /\ DOMAIN Stage(corr, m.from, Outcome(m)).stage = DOMAIN corr.stage
           /\ \A g \in DOMAIN corr.stage : g # m.from =>
                 Stage(corr, m.from, Outcome(m)).stage[g] = corr.stage[g]
           /\ m.from \in DOMAIN corr.stage /\ Stage(corr, m.from, Outcome(m)).stage[m.from] \in {"error", "replied"}
           /\ m.state # "XA_OK" => Stage(corr, m.from, Outcome(m)).stage[m.from] = "error"
           /\ m.trid \notin failed =>
                 /\ owed[m.trid] \subseteq DOMAIN corr.stage
                 /\ \A g \in owed[m.trid] : Stage(corr, m.from, Outcome(m)).stage[g] # "replied"
           /\ CorrelationType(Stage(corr, m.from, Outcome(m)))
<1> DEFINE now == Stage(corr, m.from, Outcome(m))
<1>1. m.trid \in Trid /\ m.from \in DOMAIN corr.stage /\ (m.state = "XA_OK" => m.from \notin owed[m.trid])
    BY ReplyFacts
<1>2. CorrelationType(corr) /\ Outcome(m) \in {"error", "replied"}
    BY <1>1 DEF BrokerInv, TypeInv, Outcome
<1>3. /\ now.caller = corr.caller
      /\ now.stage = [h \in DOMAIN corr.stage |-> IF h = m.from THEN Outcome(m) ELSE corr.stage[h]]
      /\ CorrelationType(now)
    <2>1. Outcome(m) \in {"pending", "error", "replied"}
        BY <1>2
    <2>2. CorrelationType(corr)
        BY <1>2
    <2>3. /\ now.caller = corr.caller
          /\ now.stage = [h \in DOMAIN corr.stage |-> IF h = m.from THEN Outcome(m) ELSE corr.stage[h]]
        BY DEF Stage
    <2>4. CorrelationType(now)
        BY <2>1, <2>2, StagedIs
    <2> QED BY <2>3, <2>4
<1>4. m.trid \notin failed =>
          owed[m.trid] \subseteq DOMAIN corr.stage /\ \A g \in owed[m.trid] : corr.stage[g] # "replied"
    BY <1>1 DEF BrokerInv, Core, Owing
<1>5. /\ Outcome(m) = "replied" => m.from \notin owed[m.trid]
      /\ m.state # "XA_OK" => Outcome(m) = "error"
    BY <1>1 DEF Outcome
<1> HIDE DEF now
<1>6. /\ DOMAIN now.stage = DOMAIN corr.stage
      /\ \A g \in DOMAIN corr.stage : g # m.from => now.stage[g] = corr.stage[g]
      /\ now.stage[m.from] \in {"error", "replied"}
      /\ m.state # "XA_OK" => now.stage[m.from] = "error"
      /\ m.trid \notin failed => \A g \in owed[m.trid] : now.stage[g] # "replied"
    BY <1>1, <1>2, <1>3, <1>4, <1>5
<1> QED BY <1>1, <1>3, <1>4, <1>6 DEF now

\* The parts a reply does not touch.
LEMMA ReplyRest ==
    ASSUME BrokerInv, NEW m \in ReplyMessage, Dequeued(m), Handling,
           UNCHANGED <<groups, queues, involved, toGroup, active, client>>
    PROVE  Registry' /\ Working' /\ Dead' /\ Tokens' /\ InvolvedGrows /\ Arrives({m}) /\ Quiet({})
<1> USE DEF BrokerInv
<1>1. Moves({}, {m}) /\ m.kind = "reply"
    BY ReplyFacts
<1>2. UNCHANGED <<ended, telling, alive, reachable, requests, owed, merged>>
    BY DEF Handling
<1>3. InvolvedGrows /\ Arrives({m}) /\ Quiet({})
    BY <1>1 DEF InvolvedGrows, Arrives, Quiet
<1>4. ended' \cap alive' = {} /\ alive' \subseteq alive
    BY <1>2 DEF Dead
<1>5. Registry'
    BY RegistryKept
<1>6. Working' /\ Dead'
    BY <1>1, <1>2, <1>4, WorkingKept, DeadKept
<1>8. Tokens'
    BY <1>1, <1>2, <1>3, QuietTracks, TokensKept DEF Core
<1> QED BY <1>3, <1>5, <1>6, <1>8

\* A group that has work left again since it did its part has told so.
LEMMA ReplyKnown ==
    ASSUME BrokerInv, NEW m \in ReplyMessage, Dequeued(m), m.state = "XA_OK",
           m.number = requests[m.trid], Left(m.from, m.trid)
    PROVE  Known(m.from, m.trid)
<1>1. 1 \in 1 .. Len(Way) /\ Way[1] = m
    BY ReadMoves DEF BrokerInv, TypeInv
<1>2. m.kind = "reply"
    BY DEF ReplyMessage
<1>3. Done(1)
    BY <1>1, <1>2 DEF Done, Rep
<1> QED BY <1>1, <1>3 DEF BrokerInv, Taking

\* The groups that are asked no more are known, or the proxy is told that one has failed.
LEMMA ReplyTaking ==
    ASSUME BrokerInv, NEW m \in ReplyMessage, Dequeued(m), Handling,
           UNCHANGED <<groups, queues, involved, toGroup, active, client>>, failed \subseteq failed',
           \A g \in Group, x \in Trid :
              Left(g, x) /\ Asked(g, x) => Known(g, x) \/ x \in failed' \/ Asked(g, x)'
    PROVE  Taking'
<1> USE DEF BrokerInv
<1>1. Moves({}, {m})
    BY ReplyFacts
<1>2. UNCHANGED <<telling, requests>>
    BY DEF Handling
<1>3. InvolvedGrows /\ Arrives({m}) /\ Quiet({})
    BY ReplyRest
<1>4. SameWork
    BY <1>2 DEF SameWork
<1>5. \A g \in Group, x \in Trid : Left(g, x)' => Left(g, x)
    BY <1>4, LeftKept
<1>6. \A g \in Group, x \in Trid : Left(g, x)' /\ Asked(g, x) => Known(g, x)' \/ Asked(g, x)'
    <2> SUFFICES ASSUME NEW g \in Group, NEW x \in Trid, Left(g, x)', Asked(g, x)
                 PROVE  Known(g, x)' \/ Asked(g, x)'
        OBVIOUS
    <2>1. Known(g, x) \/ x \in failed' \/ Asked(g, x)'
        BY <1>5
    <2>2. Known(g, x) => Known(g, x)'
        BY <1>1, <1>3, KnownKept
    <2>3. x \in failed' => Known(g, x)'
        BY DEF Known
    <2> QED BY <2>1, <2>2, <2>3
<1>7. \A k \in 1 .. Len(Way') : Done(k)' => \E j \in 1 .. Len(Way) : Done(j) /\ Way[j] = Way'[k]
    BY <1>1, <1>2, <1>3, QuietDone
<1> QED BY <1>1, <1>3, <1>5, <1>6, <1>7, TakingStep

\* Nobody waits for the reply.
LEMMA ReplyLate ==
    ASSUME BrokerInv, NEW m \in ReplyMessage, Dequeued(m), Handling,
           UNCHANGED <<groups, queues, involved, toGroup, active, client, correlation, proxy, failed>>,
           correlation[m.trid] = {}
    PROVE  Parts'
<1> USE DEF BrokerInv
<1>1. /\ m.trid \in Trid /\ Moves({}, {m})
      /\ \A k \in 1 .. Len(Way') : Rep(k)' =>
            \E a \in 1 .. Len(Way) : a = k + 1 /\ a # 1 /\ Rep(a) /\ Way'[k] = Way[a]
      /\ \A a \in 1 .. Len(Way) : Rep(a) /\ Way[a] # m =>
            \E k \in 1 .. Len(Way') : Rep(k)' /\ Way'[k] = Way[a]
    BY ReplyFacts
<1>2. UNCHANGED <<ended, telling, alive, reachable, requests, owed, merged>>
    BY DEF Handling
<1>3. Registry' /\ Working' /\ Dead' /\ Tokens' /\ InvolvedGrows /\ Arrives({m}) /\ Quiet({})
    BY ReplyRest
<1>9. Taking'
    <2>1. \A g \in Group, x \in Trid : Asked(g, x) => Asked(g, x)'
        BY DEF Asked
    <2> QED BY <2>1, ReplyTaking
<1>4. ProxiesKept /\ CallersKept
    BY DEF ProxiesKept, CallersKept, Core, Waiting
<1>5. Waiting'
    BY <1>1, <1>2, <1>4, WaitingKept DEF Core
<1>6. Owing'
    <2>1. AnswerTrue'
        BY <1>2 DEF Core, Owing, AnswerTrue
    <2>2. OwedStaged'
        BY <1>2 DEF Core, Owing, OwedStaged
    <2> QED BY <1>1, <1>2, <1>3, <2>1, <2>2, OwingKept DEF Core
<1>7. Stale'
    BY <1>1, <1>2, <1>3, StaleKept DEF Core
<1>8. Pending'
    <2>1. ASSUME NEW x \in Trid, NEW corr \in correlation'[x], NEW k \in 1 .. Len(Way'), Rep(k)', Way'[k].trid = x
          PROVE  /\ Way'[k].number = requests'[x] /\ Way'[k].from \in DOMAIN corr.stage
                 /\ Way'[k].from \in alive' => corr.stage[Way'[k].from] = "pending"
        <3>1. PICK a \in 1 .. Len(Way) : Rep(a) /\ Way'[k] = Way[a]
            BY <1>1, <2>1
        <3> QED BY <1>2, <2>1, <3>1 DEF Core, Pending
    <2>2. \A x \in Trid : \A corr \in correlation'[x] : \A g \in alive' \cap Group :
              \A i \in DOMAIN toGroup'[g] :
                  toGroup'[g][i].trid = x =>
                      /\ toGroup'[g][i].number = requests'[x] /\ g \in DOMAIN corr.stage
                      /\ corr.stage[g] = "pending"
        BY <1>2 DEF Core, Pending
    <2>3. ASSUME NEW x \in Trid \ merged', NEW corr \in correlation'[x], NEW g \in alive' \cap DOMAIN corr.stage,
                 corr.stage[g] = "pending"
          PROVE  \/ \E i \in DOMAIN toGroup'[g] : toGroup'[g][i].trid = x
                 \/ \E k \in 1 .. Len(Way') : Rep(k)' /\ Way'[k].trid = x /\ Way'[k].from = g
        <3>1. \/ \E i \in DOMAIN toGroup[g] : toGroup[g][i].trid = x
              \/ \E a \in 1 .. Len(Way) : Rep(a) /\ Way[a].trid = x /\ Way[a].from = g
            BY <1>2, <2>3 DEF Core, Pending
        <3>2. x # m.trid
            BY <2>3
        <3> QED BY <1>1, <3>1, <3>2
    <2> QED BY <2>1, <2>2, <2>3 DEF Pending
<1> QED BY <1>3, <1>5, <1>6, <1>7, <1>8, <1>9 DEF Parts, Core

\* Other groups are still pending.
LEMMA ReplyStaged ==
    ASSUME BrokerInv, NEW m \in ReplyMessage, Dequeued(m), Handling,
           UNCHANGED <<groups, queues, involved, toGroup, active, client, proxy, failed>>,
           NEW corr \in correlation[m.trid],
           correlation' = [correlation EXCEPT ![m.trid] = {Stage(corr, m.from, Outcome(m))}]
    PROVE  Parts'
<1> USE DEF BrokerInv
<1> DEFINE now == Stage(corr, m.from, Outcome(m))
<1>1. /\ m.trid \in Trid /\ Moves({}, {m}) /\ m.from \in Group
      /\ \A k \in 1 .. Len(Way') : Rep(k)' =>
            \E a \in 1 .. Len(Way) : a = k + 1 /\ a # 1 /\ Rep(a) /\ Way'[k] = Way[a]
      /\ \A a \in 1 .. Len(Way) : Rep(a) /\ Way[a] # m =>
            \E k \in 1 .. Len(Way') : Rep(k)' /\ Way'[k] = Way[a]
      /\ \A a \in 1 .. Len(Way) : a # 1 /\ Rep(a) =>
            ~ (Way[a].from = m.from /\ Way[a].trid = m.trid /\ Way[a].number = m.number)
      /\ \A i \in DOMAIN toGroup[m.from] :
            ~ (toGroup[m.from][i].trid = m.trid /\ toGroup[m.from][i].number = m.number)
      /\ m.number = requests[m.trid]
    BY ReplyFacts
<1>2. UNCHANGED <<ended, telling, alive, reachable, requests, owed, merged>>
    BY DEF Handling
<1>3. Registry' /\ Working' /\ Dead' /\ Tokens' /\ InvolvedGrows /\ Arrives({m}) /\ Quiet({})
    BY ReplyRest
<1>4. /\ now.caller = corr.caller /\ DOMAIN now.stage = DOMAIN corr.stage
      /\ \A g \in DOMAIN corr.stage : g # m.from => now.stage[g] = corr.stage[g]
      /\ m.from \in DOMAIN corr.stage /\ now.stage[m.from] \in {"error", "replied"}
      /\ m.state # "XA_OK" => now.stage[m.from] = "error"
      /\ m.trid \notin failed => /\ owed[m.trid] \subseteq DOMAIN corr.stage
                                /\ \A g \in owed[m.trid] : now.stage[g] # "replied"
    BY StageOwed
<1>5. correlation'[m.trid] = {now} /\ \A x \in Trid \ {m.trid} : correlation'[x] = correlation[x]
    BY <1>1 DEF TypeInv
<1> HIDE DEF now
<1>12. Taking'
    <2>1. ASSUME NEW g \in Group, NEW x \in Trid, Left(g, x), Asked(g, x)
          PROVE  Known(g, x) \/ Asked(g, x)'
        <3>1. PICK c \in correlation[x] : g \in DOMAIN c.stage /\ c.stage[g] # "replied"
            BY <2>1 DEF Asked
        <3>2. CASE x # m.trid
            <4>1. c \in correlation'[x]
                BY <1>5, <3>2
            <4> QED BY <3>1, <4>1 DEF Asked
        <3>3. CASE x = m.trid /\ now.stage[g] # "replied"
            <4>1. c = corr
                BY <3>1, <3>3 DEF Core, Waiting
            <4>2. now \in correlation'[x] /\ g \in DOMAIN now.stage
                BY <1>4, <1>5, <3>1, <3>3, <4>1
            <4> QED BY <3>3, <4>2 DEF Asked
        <3>4. CASE x = m.trid /\ now.stage[g] = "replied"
            <4>1. c = corr
                BY <3>1, <3>4 DEF Core, Waiting
            <4>2. g = m.from
                BY <1>4, <3>1, <3>4, <4>1
            <4>3. m.state = "XA_OK"
                BY <1>4, <3>4, <4>2
            <4> QED BY <1>1, <2>1, <3>4, <4>2, <4>3, ReplyKnown
        <3> QED BY <3>2, <3>3, <3>4
    <2> QED BY <2>1, ReplyTaking
<1>6. ProxiesKept
    BY DEF ProxiesKept
<1>7. CallersKept
    <2>1. ASSUME NEW x \in Trid
          PROVE  /\ \A a, b \in correlation'[x] : a = b
                 /\ \A a \in correlation'[x] : \E c \in correlation[x] : a.caller = c.caller
        <3>1. CASE x = m.trid
            BY <1>4, <1>5, <3>1
        <3>2. CASE x # m.trid
            BY <1>5, <3>2 DEF Core, Waiting
        <3> QED BY <3>1, <3>2
    <2> QED BY <2>1 DEF CallersKept
<1>8. Waiting'
    BY <1>1, <1>2, <1>6, <1>7, WaitingKept DEF Core
<1>9. Owing'
    <2>1. AnswerTrue'
        BY <1>2 DEF Core, Owing, AnswerTrue
    <2>2. OwedStaged'
        <3> SUFFICES ASSUME NEW x \in Trid \ failed', NEW c \in correlation'[x]
                     PROVE  owed'[x] \subseteq DOMAIN c.stage /\ \A g \in owed'[x] : c.stage[g] # "replied"
            BY DEF OwedStaged
        <3>1. CASE x = m.trid
            BY <1>2, <1>4, <1>5, <3>1
        <3>2. CASE x # m.trid
            BY <1>2, <1>5, <3>2 DEF Core, Owing
        <3> QED BY <3>1, <3>2
    <2> QED BY <1>1, <1>2, <1>3, <2>1, <2>2, OwingKept DEF InvolvedGrows, Core
<1>10. Stale'
    <2>1. \A x \in Trid : correlation'[x] = {} => correlation[x] = {}
        BY <1>5
    <2> QED BY <1>1, <1>2, <1>3, <2>1, StaleKept DEF Core
<1>11. Pending'
    <2>1. ASSUME NEW x \in Trid, NEW c \in correlation'[x], NEW k \in 1 .. Len(Way'), Rep(k)', Way'[k].trid = x
          PROVE  /\ Way'[k].number = requests'[x] /\ Way'[k].from \in DOMAIN c.stage
                 /\ Way'[k].from \in alive' => c.stage[Way'[k].from] = "pending"
        <3>1. PICK a \in 1 .. Len(Way) : a # 1 /\ Rep(a) /\ Way'[k] = Way[a]
            BY <1>1, <2>1
        <3>2. CASE x = m.trid
            <4>1. /\ Way[a].number = requests[x] /\ Way[a].from \in DOMAIN corr.stage
                  /\ Way[a].from \in alive => corr.stage[Way[a].from] = "pending"
                BY <2>1, <3>1, <3>2 DEF Core, Pending
            <4>2. Way[a].from # m.from
                BY <1>1, <2>1, <3>1, <3>2, <4>1
            <4>3. c = now
                BY <1>5, <2>1, <3>2
            <4> QED BY <1>2, <1>4, <3>1, <4>1, <4>2, <4>3
        <3>3. CASE x # m.trid
            BY <1>2, <1>5, <2>1, <3>1, <3>3 DEF Core, Pending
        <3> QED BY <3>2, <3>3
    <2>2. ASSUME NEW x \in Trid, NEW c \in correlation'[x], NEW g \in alive' \cap Group,
                 NEW i \in DOMAIN toGroup'[g], toGroup'[g][i].trid = x
          PROVE  /\ toGroup'[g][i].number = requests'[x] /\ g \in DOMAIN c.stage
                 /\ c.stage[g] = "pending"
        <3>1. CASE x = m.trid
            <4>1. toGroup[g][i].number = requests[x] /\ g \in DOMAIN corr.stage /\ corr.stage[g] = "pending"
                BY <1>2, <2>2, <3>1 DEF Core, Pending
            <4>2. g # m.from
                BY <1>1, <2>2, <3>1, <4>1
            <4>3. c = now
                BY <1>5, <2>2, <3>1
            <4> QED BY <1>2, <1>4, <4>1, <4>2, <4>3
        <3>2. CASE x # m.trid
            BY <1>2, <1>5, <2>2, <3>2 DEF Core, Pending
        <3> QED BY <3>1, <3>2
    <2>3. ASSUME NEW x \in Trid \ merged', NEW c \in correlation'[x], NEW g \in alive' \cap DOMAIN c.stage,
                 c.stage[g] = "pending"
          PROVE  \/ \E i \in DOMAIN toGroup'[g] : toGroup'[g][i].trid = x
                 \/ \E k \in 1 .. Len(Way') : Rep(k)' /\ Way'[k].trid = x /\ Way'[k].from = g
        <3>1. PICK d \in correlation[x] : /\ g \in DOMAIN d.stage /\ d.stage[g] = "pending"
                                          /\ (x = m.trid => g # m.from)
            <4>1. CASE x = m.trid
                <5>1. c = now
                    BY <1>5, <2>3, <4>1
                <5>2. g # m.from
                    BY <1>4, <2>3, <5>1
                <5> QED BY <1>4, <2>3, <4>1, <5>1, <5>2
            <4>2. CASE x # m.trid
                BY <1>5, <2>3, <4>2
            <4> QED BY <4>1, <4>2
        <3>2. \/ \E i \in DOMAIN toGroup[g] : toGroup[g][i].trid = x
              \/ \E a \in 1 .. Len(Way) : Rep(a) /\ Way[a].trid = x /\ Way[a].from = g
            BY <1>2, <2>3, <3>1 DEF Core, Pending
        <3> QED BY <1>1, <3>1, <3>2
    <2> QED BY <2>1, <2>2, <2>3 DEF Pending
<1> QED BY <1>3, <1>8, <1>9, <1>10, <1>11, <1>12 DEF Parts, Core

\* All groups have answered: the caller is told the verdict.
LEMMA ReplyAnswered ==
    ASSUME BrokerInv, NEW m \in ReplyMessage, Dequeued(m), Handling,
           UNCHANGED <<groups, queues, involved, toGroup, active, client>>,
           NEW corr \in correlation[m.trid],
           Settled(Stage(corr, m.from, Outcome(m))),
           correlation' = [correlation EXCEPT ![m.trid] = {}],
           Answer(corr.caller, Verdict(Stage(corr, m.from, Outcome(m)))),
           failed' = IF Verdict(Stage(corr, m.from, Outcome(m))) = "XAER_RMFAIL"
                     THEN failed \cup {m.trid} ELSE failed
    PROVE  Parts'
<1> USE DEF BrokerInv
<1> DEFINE now == Stage(corr, m.from, Outcome(m))
           r == Verdict(now)
<1>1. /\ m.trid \in Trid /\ Moves({}, {m}) /\ m.from \in Group
      /\ \A k \in 1 .. Len(Way') : Rep(k)' =>
            \E a \in 1 .. Len(Way) : a = k + 1 /\ a # 1 /\ Rep(a) /\ Way'[k] = Way[a]
      /\ \A k \in 1 .. Len(Way') : Req(k)' =>
            \E a \in 1 .. Len(Way) : a = k + 1 /\ Req(a) /\ Way'[k] = Way[a]
      /\ \A a \in 1 .. Len(Way) : Rep(a) /\ Way[a] # m =>
            \E k \in 1 .. Len(Way') : Rep(k)' /\ Way'[k] = Way[a]
      /\ \A i \in DOMAIN toGroup[m.from] :
            ~ (toGroup[m.from][i].trid = m.trid /\ toGroup[m.from][i].number = m.number)
      /\ m.number = requests[m.trid]
    BY ReplyFacts
<1>2. UNCHANGED <<ended, telling, alive, reachable, requests, owed, merged>>
    BY DEF Handling
<1>3. Registry' /\ Working' /\ Dead' /\ Tokens' /\ InvolvedGrows /\ Arrives({m}) /\ Quiet({})
    BY ReplyRest
<1>4. /\ DOMAIN now.stage = DOMAIN corr.stage
      /\ \A g \in DOMAIN corr.stage : g # m.from => now.stage[g] = corr.stage[g]
      /\ m.from \in DOMAIN corr.stage /\ (m.state # "XA_OK" => now.stage[m.from] = "error")
      /\ m.trid \notin failed => /\ owed[m.trid] \subseteq DOMAIN corr.stage
                                /\ \A g \in owed[m.trid] : now.stage[g] # "replied"
      /\ now.stage \in [DOMAIN now.stage -> {"pending", "error", "replied"}]
    BY StageOwed DEF CorrelationType
<1>5. correlation'[m.trid] = {} /\ \A x \in Trid \ {m.trid} : correlation'[x] = correlation[x]
    BY <1>1 DEF TypeInv
<1>6. \A g \in DOMAIN now.stage : now.stage[g] # "pending"
    BY DEF Settled
<1>7. r \in Result /\ (r # "XAER_RMFAIL" => \A g \in DOMAIN now.stage : now.stage[g] # "error")
    BY DEF Verdict, Result
<1>17. failed \subseteq failed' /\ (r = "XAER_RMFAIL" => m.trid \in failed')
    OBVIOUS
<1>8. Answer(corr.caller, r)
    OBVIOUS
<1> HIDE DEF now, r
<1>9. m.trid \notin failed' /\ r \in {"XA_OK", "XAER_NOTA"} => owed[m.trid] = {}
    <2> SUFFICES ASSUME m.trid \notin failed', r \in {"XA_OK", "XAER_NOTA"}, NEW g \in owed[m.trid] PROVE FALSE
        OBVIOUS
    <2>0. m.trid \notin failed
        BY <1>17
    <2>1. g \in DOMAIN now.stage /\ now.stage[g] \in {"pending", "error", "replied"}
        BY <1>4, <2>0
    <2> QED BY <1>4, <1>6, <1>7, <2>0, <2>1
<1>18. Taking'
    <2>1. ASSUME NEW g \in Group, NEW x \in Trid, Left(g, x), Asked(g, x)
          PROVE  Known(g, x) \/ x \in failed' \/ Asked(g, x)'
        <3>1. PICK c \in correlation[x] : g \in DOMAIN c.stage /\ c.stage[g] # "replied"
            BY <2>1 DEF Asked
        <3>2. CASE x # m.trid
            <4>1. c \in correlation'[x]
                BY <1>5, <3>2
            <4> QED BY <3>1, <4>1 DEF Asked
        <3>3. CASE x = m.trid /\ r # "XAER_RMFAIL"
            <4>1. c = corr
                BY <3>1, <3>3 DEF Core, Waiting
            <4>2. now.stage[g] = "replied"
                BY <1>4, <1>6, <1>7, <3>1, <3>3, <4>1
            <4>3. g = m.from
                BY <1>4, <3>1, <4>1, <4>2
            <4>4. m.state = "XA_OK"
                BY <1>4, <4>2, <4>3
            <4> QED BY <1>1, <2>1, <3>3, <4>3, <4>4, ReplyKnown
        <3> QED BY <1>17, <3>2, <3>3
    <2> QED BY <1>17, <2>1, ReplyTaking
<1>10. corr.caller \in Proxy /\ proxy[corr.caller].stage = "waiting" /\ proxy[corr.caller].trid = m.trid
    BY <1>1 DEF TypeInv, CorrelationType, Core, Waiting
<1>11. /\ \A q \in Proxy \ {corr.caller} : proxy'[q] = proxy[q]
       /\ proxy'[corr.caller].trid = m.trid
       /\ \/ proxy'[corr.caller].stage = "waiting"
          \/ proxy'[corr.caller].stage = "answered" /\ proxy'[corr.caller].result = r
    BY <1>7, <1>8, <1>10, AnswerFacts
<1>12. \A k \in 1 .. Len(Way') : Req(k)' => Way'[k].trid # m.trid
    <2> SUFFICES ASSUME NEW k \in 1 .. Len(Way'), Req(k)', Way'[k].trid = m.trid PROVE FALSE
        OBVIOUS
    <2>1. PICK a \in 1 .. Len(Way) : Req(a) /\ Way'[k] = Way[a]
        BY <1>1
    <2> QED BY <2>1 DEF Core, Waiting
<1>13. Waiting'
    <2>1. proxy'[corr.caller].stage # "idle"
        BY <1>11
    <2> QED BY <1>1, <1>2, <1>5, <1>10, <1>11, <1>12, <2>1, WaitingAnswered
<1>14. Owing'
    <2>1. AnswerTrue'
        BY <1>1, <1>2, <1>7, <1>9, <1>10, <1>11, <1>17, TrueAnswered
    <2>2. OwedStaged'
        <3> SUFFICES ASSUME NEW x \in Trid \ failed', NEW c \in correlation'[x]
                     PROVE  owed'[x] \subseteq DOMAIN c.stage /\ \A g \in owed'[x] : c.stage[g] # "replied"
            BY DEF OwedStaged
        <3>1. x # m.trid
            BY <1>5
        <3> QED BY <1>2, <1>5, <1>17, <3>1 DEF Core, Owing
    <2> QED BY <1>1, <1>2, <1>3, <1>17, <2>1, <2>2, OwingKept DEF InvolvedGrows, Core
<1>15. Stale'
    <2>1. ASSUME NEW j \in 1 .. Len(Way'), NEW k \in 1 .. Len(Way'), Req(k)', Rep(j)', k < j,
                 Way'[j].trid = Way'[k].trid
          PROVE  Broken(Way[k].trid)'
        <3>1. PICK a \in 1 .. Len(Way) : a = j + 1 /\ Rep(a) /\ Way'[j] = Way[a]
            BY <1>1, <2>1
        <3>2. PICK b \in 1 .. Len(Way) : b = k + 1 /\ Req(b) /\ Way'[k] = Way[b]
            BY <1>1, <2>1
        <3>3. b < a
            BY <2>1, <3>1, <3>2
        <3>4. Broken(Way[b].trid)
            BY <2>1, <3>1, <3>2, <3>3 DEF Core, Stale
        <3> QED BY <1>2, <3>2, <3>4 DEF Broken
    <2>2. ASSUME NEW g \in alive' \cap Group, NEW i \in DOMAIN toGroup'[g],
                 correlation'[toGroup'[g][i].trid] = {}
          PROVE  Broken(toGroup[g][i].trid)'
        <3>1. PICK x \in Trid : x = toGroup[g][i].trid
            <4>1. toGroup[g][i] \in Pledge
                BY <2>2 DEF TypeInv
            <4> QED BY <4>1 DEF Pledge
        <3>2. CASE x = m.trid
            <4>0. /\ corr \in correlation[x] /\ g \in alive \cap Group
                  /\ i \in DOMAIN toGroup[g] /\ toGroup[g][i].trid = x
                BY <1>2, <2>2, <3>1, <3>2
            <4>1. toGroup[g][i].number = requests[x] /\ g \in DOMAIN corr.stage /\ corr.stage[g] = "pending"
                BY <4>0 DEF Core, Pending
            <4>2. g # m.from
                BY <1>1, <2>2, <3>1, <3>2, <4>1
            <4> QED BY <1>4, <1>6, <4>1, <4>2
        <3>3. CASE x # m.trid
            <4>1. Broken(x)
                BY <1>2, <1>5, <2>2, <3>1, <3>3 DEF Core, Stale
            <4> QED BY <1>2, <3>1, <4>1 DEF Broken
        <3> QED BY <3>2, <3>3
    <2> QED BY <2>1, <2>2 DEF Stale
<1>16. Pending'
    <2>0. \A x \in Trid : \A c \in correlation'[x] : x # m.trid /\ c \in correlation[x]
        BY <1>5
    <2>1. ASSUME NEW x \in Trid, NEW c \in correlation'[x], NEW k \in 1 .. Len(Way'), Rep(k)', Way'[k].trid = x
          PROVE  /\ Way'[k].number = requests'[x] /\ Way'[k].from \in DOMAIN c.stage
                 /\ Way'[k].from \in alive' => c.stage[Way'[k].from] = "pending"
        <3>1. PICK a \in 1 .. Len(Way) : Rep(a) /\ Way'[k] = Way[a]
            BY <1>1, <2>1
        <3> QED BY <1>2, <2>0, <2>1, <3>1 DEF Core, Pending
    <2>2. \A x \in Trid : \A c \in correlation'[x] : \A g \in alive' \cap Group :
              \A i \in DOMAIN toGroup'[g] :
                  toGroup'[g][i].trid = x =>
                      /\ toGroup'[g][i].number = requests'[x] /\ g \in DOMAIN c.stage
                      /\ c.stage[g] = "pending"
        BY <1>2, <2>0 DEF Core, Pending
    <2>3. ASSUME NEW x \in Trid \ merged', NEW c \in correlation'[x], NEW g \in alive' \cap DOMAIN c.stage,
                 c.stage[g] = "pending"
          PROVE  \/ \E i \in DOMAIN toGroup'[g] : toGroup'[g][i].trid = x
                 \/ \E k \in 1 .. Len(Way') : Rep(k)' /\ Way'[k].trid = x /\ Way'[k].from = g
        <3>1. \/ \E i \in DOMAIN toGroup[g] : toGroup[g][i].trid = x
              \/ \E a \in 1 .. Len(Way) : Rep(a) /\ Way[a].trid = x /\ Way[a].from = g
            BY <1>2, <2>0, <2>3 DEF Core, Pending
        <3> QED BY <1>1, <2>0, <2>3, <3>1
    <2> QED BY <2>1, <2>2, <2>3 DEF Pending
<1> QED BY <1>3, <1>13, <1>14, <1>15, <1>16, <1>18 DEF Parts, Core

\* transaction::reply keeps the invariant: late, one of several, or the last one.
LEMMA ReplyHandled ==
    ASSUME BrokerInv, NEW m, Dequeued(m), HandleReply(m), Handling
    PROVE  Parts'
<1>1. m \in ReplyMessage
    BY ReadMoves, Kinds DEF BrokerInv, TypeInv, HandleReply
<1>2. UNCHANGED <<groups, queues, involved, asked, toGroup, active, client>>
    BY <1>1, ReplyCases DEF BrokerInv, Core
<1>3. CASE correlation[m.trid] = {} /\ UNCHANGED <<mode, correlation, proxy, failed>>
    BY <1>1, <1>2, <1>3, ReplyLate
<1>4. CASE \E corr \in correlation[m.trid] :
              /\ correlation' = [correlation EXCEPT ![m.trid] = {Stage(corr, m.from, Outcome(m))}]
              /\ UNCHANGED <<mode, proxy, failed>>
    BY <1>1, <1>2, <1>4, ReplyStaged
<1>5. CASE \E corr \in correlation[m.trid] :
              /\ Settled(Stage(corr, m.from, Outcome(m)))
              /\ correlation' = [correlation EXCEPT ![m.trid] = {}]
              /\ Answer(corr.caller, Verdict(Stage(corr, m.from, Outcome(m))))
              /\ failed' = IF Verdict(Stage(corr, m.from, Outcome(m))) = "XAER_RMFAIL"
                           THEN failed \cup {m.trid} ELSE failed
    BY <1>1, <1>2, <1>5, ReplyAnswered
<1> QED BY <1>1, <1>3, <1>4, <1>5, ReplyCases DEF BrokerInv, Core

-----------------------------------------------------------------------------
(* The wait for the groups' answers.                                       *)

\* A reply takes the place of another one to the same request.
LEMMA MergeKeeps ==
    ASSUME BrokerInv, inbox # <<>>, inbox' = Tail(inbox), Head(inbox).kind = "reply",
           NEW i \in Same(Head(inbox)), cache' = [cache EXCEPT ![i] = Head(inbox)],
           merged' = merged \cup {Head(inbox).trid},
           UNCHANGED <<groups, queues, involved, correlation, ended, toGroup, active, telling, client,
                       proxy, alive, reachable, requests, owed, failed>>
    PROVE  Parts'
<1> USE DEF BrokerInv
<1> DEFINE m == Head(inbox)
<1>1. i \in DOMAIN cache /\ cache[i].kind = "reply" /\ cache[i].trid = m.trid
    BY DEF Same
<1>2. Way[i] = cache[i]
    BY <1>1, MergeMoves DEF TypeInv
<1>3. PICK f \in [1 .. Len(Way') -> Nat], h \in 1 .. Len(Way) : MergeAt(i, f, h) /\ Way[h] = m
    BY <1>1, MergeMoves DEF TypeInv
<1>4. /\ i \in 1 .. Len(Way') /\ i < h /\ f[i] = 0 /\ Way'[i] = m /\ i \in 1 .. Len(Way)
      /\ \A k \in 1 .. Len(Way') : k # i => f[k] \in 1 .. Len(Way) /\ f[k] # h /\ f[k] # i
      /\ \A k \in 1 .. Len(Way') : (k < i => f[k] < i) /\ (i < k => i < f[k])
      /\ \A k \in 1 .. Len(Way') : k # i => Way'[k] = Way[f[k]]
      /\ \A j, k \in 1 .. Len(Way') : j # i /\ k # i /\ j < k => f[j] < f[k]
      /\ \A j \in 1 .. Len(Way) : j \notin {i, h} => \E k \in 1 .. Len(Way') : f[k] = j
    BY <1>3 DEF MergeAt
<1>5. /\ m.kind = "reply" /\ Way[i].kind = "reply" /\ Way[i].trid = m.trid
    BY <1>1, <1>2
<1> HIDE DEF m
<1>6. Moves({m}, {m, Way[i]})
    <2>1. \A k \in 1 .. Len(Way') : f[k] = 0 => k = i
        BY <1>4
    <2>2. Embeds(f, {m}, {m, Way[i]})
        BY <1>3, <1>4, <2>1 DEF Embeds
    <2> QED BY <2>2 DEF Moves
<1>7. InvolvedGrows /\ Arrives({m, Way[i]})
    BY <1>5 DEF InvolvedGrows, Arrives
<1>8. ended' \cap alive' = {} /\ alive' \subseteq alive
    BY DEF Dead
<1>9. ProxiesKept /\ CallersKept
    BY DEF ProxiesKept, CallersKept, Core, Waiting
<1>10. Registry'
    BY RegistryKept
<1>11. Working' /\ Dead'
    BY <1>5, <1>6, <1>8, WorkingKept, DeadKept
<1>13. Waiting'
    BY <1>5, <1>6, <1>9, WaitingKept DEF Core
\* Where a message of Way' stood.
<1> DEFINE e == [k \in 1 .. Len(Way') |-> IF k = i THEN h ELSE f[k]]
<1>14. \A k \in 1 .. Len(Way') : e[k] \in 1 .. Len(Way) /\ Way'[k] = Way[e[k]] /\ (k # i => e[k] = f[k])
    BY <1>3, <1>4
<1>15. \A j, k \in 1 .. Len(Way') : e[j] = e[k] => j = k
    <2> SUFFICES ASSUME NEW j \in 1 .. Len(Way'), NEW k \in 1 .. Len(Way'), e[j] = e[k], j # k PROVE FALSE
        OBVIOUS
    <2>1. CASE j = i \/ k = i
        BY <1>4, <2>1
    <2>2. CASE j # i /\ k # i
        <3>1. f[j] = f[k] /\ f[j] \in Nat
            BY <2>2
        <3>2. j < k \/ k < j
            OBVIOUS
        <3> QED BY <1>4, <2>2, <3>1, <3>2
    <2> QED BY <2>1, <2>2
<1>16. e[i] = h
    BY <1>4
<1> HIDE DEF e
<1>17. \A k \in 1 .. Len(Way') : Rep(k)' => Rep(e[k])
    BY <1>14 DEF Rep
<1>18. \A k \in 1 .. Len(Way') : Req(k)' => Req(e[k]) /\ k # i
    BY <1>4, <1>5, <1>14 DEF Req
<1>19. Tracks(e)
    BY <1>14, <1>15, <1>17, <1>18 DEF Tracks
<1>12. Taking'
    <2>1. \A g \in Group, t \in Trid : Left(g, t)' => Left(g, t)
        BY DEF Left
    <2>2. \A g \in Group, t \in Trid : Asked(g, t) => Asked(g, t)'
        BY DEF Asked
    <2>3. \A k \in 1 .. Len(Way') : Done(k)' => \E j \in 1 .. Len(Way) : Done(j) /\ Way[j] = Way'[k]
        BY <1>14, <1>17 DEF Done
    <2> QED BY <1>6, <1>7, <2>1, <2>2, <2>3, TakingStep
<1>20. Tokens'
    BY <1>19, TokensKept DEF Core
<1>21. Owing'
    <2>1. ASSUME NEW k \in 1 .. Len(Way'), Req(k)', Way'[k].trid \notin failed', NEW g \in owed'[Way'[k].trid]
          PROVE  \/ g \in involved'[Way'[k].trid]
                 \/ \E j \in 1 .. Len(Way') : j < k /\ Inv(j, g, Way[k].trid)'
        <3>1. k # i /\ Req(f[k]) /\ f[k] \in 1 .. Len(Way) /\ Way'[k] = Way[f[k]] /\ f[k] \in Nat
            BY <1>14, <1>18, <2>1
        <3>2. \/ g \in involved[Way[f[k]].trid]
              \/ \E j \in 1 .. Len(Way) : j < f[k] /\ Inv(j, g, Way[f[k]].trid)
            BY <2>1, <3>1 DEF Core, Owing
        <3>3. CASE \E j \in 1 .. Len(Way) : j < f[k] /\ Inv(j, g, Way[f[k]].trid)
            <4>1. PICK j \in 1 .. Len(Way) : j < f[k] /\ Inv(j, g, Way[f[k]].trid)
                BY <3>3
            <4>2. j \notin {i, h}
                BY <1>3, <1>5, <4>1 DEF Inv
            <4>3. PICK b \in 1 .. Len(Way') : f[b] = j
                BY <1>4, <4>2
            <4>4. b # i /\ b # k
                BY <1>4, <4>1, <4>3
            <4>5. ~ k < b
                BY <1>4, <3>1, <4>1, <4>3, <4>4
            <4>6. b < k
                BY <4>4, <4>5
            <4>7. Way'[b] = Way[j]
                BY <1>4, <4>3, <4>4
            <4>8. Inv(b, g, Way[k].trid)'
                BY <3>1, <4>1, <4>7 DEF Inv
            <4> QED BY <4>6, <4>8
        <3> QED BY <3>1, <3>2, <3>3
    <2>2. ASSUME NEW k \in 1 .. Len(Way'), Rep(k)', Way'[k].number = requests'[Way'[k].trid],
                 Way'[k].state = "XA_OK"
          PROVE  Way'[k].from \notin owed'[Way'[k].trid]
        <3>1. Rep(e[k]) /\ e[k] \in 1 .. Len(Way) /\ Way'[k] = Way[e[k]]
            BY <1>14, <1>17, <2>2
        <3> QED BY <2>2, <3>1 DEF Core, Owing
    <2>3. \A t \in Trid \ failed' : \A corr \in correlation'[t] :
              /\ owed'[t] \subseteq DOMAIN corr.stage
              /\ \A g \in owed'[t] : corr.stage[g] # "replied"
        BY DEF Core, Owing
    <2>4. AnswerTrue'
        BY DEF Core, Owing, AnswerTrue
    <2> QED BY <2>1, <2>2, <2>3, <2>4 DEF Owing
<1>22. Stale'
    <2>1. ASSUME NEW j \in 1 .. Len(Way'), NEW k \in 1 .. Len(Way'), Req(k)', Rep(j)', k < j,
                 Way'[j].trid = Way'[k].trid
          PROVE  Broken(Way[k].trid)'
        <3>1. k # i /\ Req(f[k]) /\ f[k] \in 1 .. Len(Way) /\ Way'[k] = Way[f[k]]
            BY <1>14, <1>18, <2>1
        <3>2. Rep(e[j]) /\ e[j] \in 1 .. Len(Way) /\ Way'[j] = Way[e[j]]
            BY <1>14, <1>17, <2>1
        <3>3. f[k] < e[j]
            <4>1. CASE j = i
                <5>1. f[k] < i
                    BY <1>4, <2>1, <4>1
                <5> QED BY <1>4, <1>16, <3>1, <4>1, <5>1
            <4>2. CASE j # i
                <5>1. f[k] < f[j]
                    BY <1>4, <2>1, <3>1, <4>2
                <5> QED BY <1>14, <4>2, <5>1
            <4> QED BY <4>1, <4>2
        <3>4. Broken(Way[f[k]].trid)
            BY <2>1, <3>1, <3>2, <3>3 DEF Core, Stale
        <3> QED BY <3>1, <3>4 DEF Broken
    <2>2. ASSUME NEW g \in alive' \cap Group, NEW n \in DOMAIN toGroup'[g],
                 correlation'[toGroup'[g][n].trid] = {}
          PROVE  Broken(toGroup[g][n].trid)'
        <3>1. Broken(toGroup[g][n].trid)
            BY <2>2 DEF Core, Stale
        <3> QED BY <3>1 DEF Broken
    <2> QED BY <2>1, <2>2 DEF Stale
<1>23. Pending'
    <2>1. ASSUME NEW x \in Trid, NEW c \in correlation'[x], NEW k \in 1 .. Len(Way'), Rep(k)', Way'[k].trid = x
          PROVE  /\ Way'[k].number = requests'[x] /\ Way'[k].from \in DOMAIN c.stage
                 /\ Way'[k].from \in alive' => c.stage[Way'[k].from] = "pending"
        <3>1. Rep(e[k]) /\ e[k] \in 1 .. Len(Way) /\ Way'[k] = Way[e[k]]
            BY <1>14, <1>17, <2>1
        <3> QED BY <2>1, <3>1 DEF Core, Pending
    <2>2. \A x \in Trid : \A c \in correlation'[x] : \A g \in alive' \cap Group :
              \A n \in DOMAIN toGroup'[g] :
                  toGroup'[g][n].trid = x =>
                      /\ toGroup'[g][n].number = requests'[x] /\ g \in DOMAIN c.stage
                      /\ c.stage[g] = "pending"
        BY DEF Core, Pending
    <2>3. ASSUME NEW x \in Trid \ merged', NEW c \in correlation'[x], NEW g \in alive' \cap DOMAIN c.stage,
                 c.stage[g] = "pending"
          PROVE  \/ \E n \in DOMAIN toGroup'[g] : toGroup'[g][n].trid = x
                 \/ \E k \in 1 .. Len(Way') : Rep(k)' /\ Way'[k].trid = x /\ Way'[k].from = g
        <3>1. x \in Trid \ merged /\ x # m.trid
            BY DEF m
        <3>2. \/ \E n \in DOMAIN toGroup[g] : toGroup[g][n].trid = x
              \/ \E j \in 1 .. Len(Way) : Rep(j) /\ Way[j].trid = x /\ Way[j].from = g
            BY <2>3, <3>1 DEF Core, Pending
        <3>3. CASE \E j \in 1 .. Len(Way) : Rep(j) /\ Way[j].trid = x /\ Way[j].from = g
            <4>1. PICK j \in 1 .. Len(Way) : Rep(j) /\ Way[j].trid = x /\ Way[j].from = g
                BY <3>3
            <4>2. Way[j] \notin {m, Way[i]}
                BY <1>5, <3>1, <4>1
            <4>3. PICK k \in 1 .. Len(Way') : Rep(k)' /\ Way'[k] = Way[j]
                BY <1>6, <4>1, <4>2, ReplyStays
            <4> QED BY <4>1, <4>3
        <3> QED BY <3>2, <3>3
    <2>4. \A x \in Trid : \A c \in correlation'[x] : \A k \in 1 .. Len(Way') :
              Rep(k)' /\ Way'[k].trid = x =>
                  /\ Way'[k].number = requests'[x] /\ Way'[k].from \in DOMAIN c.stage
                  /\ Way'[k].from \in alive' => c.stage[Way'[k].from] = "pending"
        BY <2>1
    <2>5. \A x \in Trid \ merged' : \A c \in correlation'[x] : \A g \in alive' \cap DOMAIN c.stage :
              c.stage[g] = "pending" =>
                  \/ \E n \in DOMAIN toGroup'[g] : toGroup'[g][n].trid = x
                  \/ \E k \in 1 .. Len(Way') : Rep(k)' /\ Way'[k].trid = x /\ Way'[k].from = g
        BY <2>3
    <2> QED BY <2>2, <2>4, <2>5, Zenon DEF Pending
<1> QED BY <1>10, <1>11, <1>12, <1>13, <1>20, <1>21, <1>22, <1>23 DEF Parts, Core

\* The wait for the answers of the groups keeps the invariant.
LEMMA AdminReadKeeps ==
    ASSUME BrokerInv, AdminRead
    PROVE  Parts'
<1> USE DEF BrokerInv
<1> DEFINE m == Head(inbox)
<1>1. /\ inbox # <<>> /\ inbox' = Tail(inbox)
      /\ UNCHANGED <<groups, queues, involved, correlation, ended, toGroup, active, telling, client,
                     proxy, alive, reachable, requests, owed, failed>>
    BY AdminReadCases
<1>2. ProxiesKept
    BY <1>1 DEF ProxiesKept
<1>3. ended' \cap alive' = {} /\ alive' \subseteq alive
    BY <1>1 DEF Dead
<1>4. InvolvedGrows
    BY <1>1 DEF InvolvedGrows
<1>5. Registry'
    BY <1>1, RegistryKept
\* A step that drops no more than L.
<1>6. ASSUME NEW L, Moves({}, L), \A x \in L : x.kind = "information", merged' = merged
      PROVE  Parts'
    <2>1. Arrives(L) /\ Quiet({}) /\ \A x \in L : x.kind # "reply"
        BY <1>6 DEF Arrives, Quiet
    <2>2. Working' /\ Dead'
        BY <1>1, <1>3, <1>6, WorkingKept, DeadKept
    <2>3. Taking'
        <3>1. SameWork
            BY <1>1 DEF SameWork
        <3> QED BY <1>1, <1>4, <1>6, <2>1, <3>1, TakingKept
    <2>4. Core'
        BY <1>1, <1>2, <1>3, <1>4, <1>6, <2>1, CoreKept
    <2> QED BY <1>5, <2>2, <2>3, <2>4 DEF Parts
<1>7. CASE m.kind = "information" /\ cache' = cache /\ merged' = merged
    <2>1. Moves({}, {m})
        BY <1>1, <1>7, DropMoves DEF TypeInv
    <2> QED BY <1>6, <1>7, <2>1
<1>8. CASE cache' = Append(cache, m) /\ merged' = merged
    <2>1. Moves({}, {})
        BY <1>1, <1>8, KeepMoves DEF TypeInv
    <2> QED BY <1>6, <1>8, <2>1
<1>9. CASE /\ m.kind = "reply"
           /\ \E i \in Same(m) : cache' = [cache EXCEPT ![i] = m]
           /\ merged' = merged \cup {m.trid}
    BY <1>1, <1>9, MergeKeeps
<1> QED BY <1>7, <1>8, <1>9, AdminReadCases

-----------------------------------------------------------------------------
(* The theorems.                                                           *)

\* A message that the broker takes from its device and handles.
LEMMA PumpKeeps ==
    ASSUME BrokerInv, Pump
    PROVE  Parts'
<1>1. PICK m : /\ Dequeued(m)
               /\ HandleLookup(m) \/ HandleInvolved(m) \/ HandleRequest(m) \/ HandleReply(m) \/ HandleExit(m)
               /\ UNCHANGED <<ended, telling, alive, reachable, tmVars, admins, owed, merged>>
    BY Zenon DEF Pump
<1>2. Channels'
    BY <1>1, ReadMoves DEF BrokerInv, TypeInv
<1>3. Handling
    BY <1>1, <1>2 DEF Handling, tmVars
<1> QED BY <1>1, <1>3, LookupHandled, InvolvedHandled, RequestHandled, ReplyHandled, ExitHandled

\* The invariant is inductive.
LEMMA BrokerKept ==
    ASSUME BrokerInv, [Next]_vars
    PROVE  BrokerInv'
<1>1. TypeInv'
    BY TypesKept DEF BrokerInv, Core
<1>2. Parts'
    <2>1. CASE UNCHANGED vars
        <3>1. ProxiesKept
            BY <2>1 DEF vars, ProxiesKept
        <3>2. ended' \cap alive' = {}
            BY <2>1 DEF vars, BrokerInv, Dead
        <3> QED BY <2>1, <3>1, <3>2, StutterKeeps DEF vars
    <2>2. ASSUME NEW c \in Client, NoQueue(c) PROVE Parts'
        BY <2>2, NoQueueKeeps
    <2>3. ASSUME NEW c \in Client, NEW n \in Name, NEW t \in Trid, Lookup(c, n, t) PROVE Parts'
        BY <2>3, LookupKeeps
    <2>4. ASSUME NEW g \in Group, GroupNext(g) PROVE Parts'
        BY <2>4, TellKeeps, ResolveKeeps, InformKeeps, WorkKeeps DEF GroupNext
    <2>5. ASSUME NEW g \in Group, Connect(g) \/ Signal(g) PROVE Parts'
        BY <2>5, ConnectKeeps, SignalKeeps
    <2>6. ASSUME NEW p \in Proxy, Return(p) PROVE Parts'
        BY <2>6, ReturnKeeps
    <2>7. ASSUME NEW p \in Proxy, NEW t \in Trid, NEW op \in Operation, Request(p, t, op) PROVE Parts'
        BY <2>7, RequestKeeps
    <2>8. ASSUME NEW x \in Mortal, Die(x) PROVE Parts'
        BY <2>8, DieKeeps
    <2>9. CASE Pump \/ Admin \/ AdminRead
        BY <2>9, PumpKeeps, AdminKeeps, AdminReadKeeps
    <2> QED BY <2>1, <2>2, <2>3, <2>4, <2>5, <2>6, <2>7, <2>8, <2>9 DEF Next
<1> QED BY <1>1, <1>2 DEF BrokerInv, Parts

\* The initial states satisfy the invariant.
LEMMA InitBroker ==
    ASSUME Init
    PROVE  BrokerInv
<1> USE DEF Init
<1>1. Channels
    BY DEF Channels
<1>2. Len(Way) = 0
    BY <1>1, WayParts
<1>3. TypeInv
    <2>1. IdleClient \in ClientState /\ IdleClient.stage = "idle"
        BY DEF IdleClient, ClientState
    <2>2. IdleProxy \in ProxyState /\ IdleProxy.stage = "idle"
        BY DEF IdleProxy, ProxyState
    <2> QED BY <1>1, <2>1, <2>2 DEF TypeInv
<1>4. IdleProxy.stage = "idle"
    BY DEF IdleProxy
<1>5. Registry
    BY DEF Registry, QueuesServed
<1>6. Working /\ Dead
    BY <1>2 DEF Working, Dead, Ask
<1>9. Taking
    <2>1. \A g \in Group, t \in Trid : ~ Left(g, t)
        BY DEF Left
    <2>2. 1 .. Len(Way) = {}
        BY <1>2
    <2> QED BY <2>1, <2>2 DEF Taking
<1>7. Waiting /\ Owing
    BY <1>2, <1>4 DEF Waiting, Owing, AnswerTrue, Req, Rep
<1>8. Tokens /\ Stale /\ Pending
    BY <1>2 DEF Tokens, Stale, Pending, Req, Rep
<1> QED BY <1>3, <1>5, <1>6, <1>7, <1>8, <1>9 DEF BrokerInv, Core

\* The invariant holds whatever the groups, clients and proxies are, and whoever dies.
THEOREM BrokerCorrect == Spec => []BrokerInv
<1>1. Init => BrokerInv
    BY InitBroker
<1>2. BrokerInv /\ [Next]_vars => BrokerInv'
    BY BrokerKept
<1> QED BY <1>1, <1>2, PTL DEF Spec

\* A set of at most one element.
LEMMA AtMostOne ==
    ASSUME NEW S, \A x, y \in S : x = y
    PROVE  Cardinality(S) = IF S = {} THEN 0 ELSE 1
<1>1. CASE S = {}
    BY <1>1, FS_EmptySet
<1>2. CASE S # {}
    <2>1. PICK x \in S : TRUE
        BY <1>2
    <2>2. S = {x}
        BY <2>1
    <2> QED BY <1>2, <2>2, FS_Singleton
<1> QED BY <1>1, <1>2

\* Every variable of the broker stays in its type (State of the broker): a queue has at most
\* one group and a transaction at most one request under way.
THEOREM BrokerTypes == Spec => []TypeOK
<1>1. BrokerInv => TypeOK
    <2> SUFFICES ASSUME BrokerInv PROVE TypeOK
        OBVIOUS
    <2> USE DEF BrokerInv
    <2>1. \A n \in Name : Cardinality(queues[n]) <= 1
        BY AtMostOne DEF Registry
    <2>2. ASSUME NEW t \in Trid PROVE Cardinality(correlation[t]) <= 1
        BY AtMostOne DEF Core, Waiting
    <2>3. ASSUME NEW t \in Trid, NEW corr \in correlation[t]
          PROVE  /\ corr.caller \in Proxy
                 /\ corr.stage \in [DOMAIN corr.stage -> {"pending", "error", "replied"}]
        BY DEF TypeInv, CorrelationType
    <2>4. \A p \in Proxy : proxy[p].result \in Result \cup {"none"}
        BY DEF TypeInv, ProxyState
    <2> QED BY <2>1, <2>2, <2>3, <2>4 DEF TypeOK, TypeInv
<1> QED BY <1>1, BrokerCorrect, PTL

\* The groups are one resource: until XAER_RMFAIL has said that a group failed, what the xa-switch
\* of the queues returns is true of all the groups that had work in the transaction
\* (transaction::reply, transaction::request).
THEOREM AnswersTrue == Spec => []AnswerTrue
<1>1. BrokerInv => AnswerTrue
    BY DEF BrokerInv, Core, Owing
<1> QED BY <1>1, BrokerCorrect, PTL

\* A lookup only finds groups that are connected (lookup::Request, process::Exit).
THEOREM QueuesAreServed == Spec => []QueuesServed
<1>1. BrokerInv => QueuesServed
    BY DEF BrokerInv, Registry
<1> QED BY <1>1, BrokerCorrect, PTL

\* What a transaction and a group still have on the way: a request the group has not read, a
\* reply in the cache and a reply in the ipc-queue.
Unread(g, t) == {i \in DOMAIN toGroup[g] : toGroup[g][i].trid = t}
Replies(q, g, t) == {i \in DOMAIN q : q[i].kind = "reply" /\ q[i].trid = t /\ q[i].from = g}

\* While the broker waits for the group there is one of the three, otherwise none.
LEMMA OneOnTheWay ==
    ASSUME BrokerInv, NEW t \in Trid \ merged, NEW corr \in correlation[t], NEW g \in alive \cap DOMAIN corr.stage
    PROVE  Cardinality(Unread(g, t)) + Cardinality(Replies(cache, g, t)) + Cardinality(Replies(inbox, g, t))
               = IF corr.stage[g] = "pending" THEN 1 ELSE 0
<1> USE DEF BrokerInv, Core
<1>1. g \in Group
    BY DEF TypeInv, CorrelationType
<1>2. /\ Len(Way) = Len(cache) + Len(inbox) /\ Len(cache) \in Nat /\ Len(inbox) \in Nat
      /\ \A k \in 1 .. Len(Way) : Way[k] = IF k <= Len(cache) THEN cache[k] ELSE inbox[k - Len(cache)]
      /\ DOMAIN cache = 1 .. Len(cache) /\ DOMAIN inbox = 1 .. Len(inbox)
    <2>1. Channels
        BY DEF TypeInv
    <2>2. DOMAIN cache = 1 .. Len(cache) /\ DOMAIN inbox = 1 .. Len(inbox)
        BY <2>1 DEF Channels
    <2> QED BY <2>1, <2>2, WayParts
<1>3. ASSUME NEW k \in Replies(cache, g, t)
      PROVE  k \in 1 .. Len(cache) /\ Rep(k) /\ Way[k].trid = t /\ Way[k].from = g
    BY <1>2 DEF Replies, Rep
<1>4. ASSUME NEW k \in Replies(inbox, g, t)
      PROVE  \E a \in 1 .. Len(Way) : a = k + Len(cache) /\ a > Len(cache) /\ Rep(a) /\ Way[a].trid = t /\ Way[a].from = g
    <2>1. k \in 1 .. Len(inbox) /\ inbox[k].kind = "reply" /\ inbox[k].trid = t /\ inbox[k].from = g
        BY <1>2 DEF Replies
    <2>2. PICK a \in 1 .. Len(Way) : a = k + Len(cache) /\ a > Len(cache) /\ a - Len(cache) = k
        BY <1>2, <2>1
    <2>3. Way[a] = inbox[k]
        BY <1>2, <2>2
    <2> QED BY <2>1, <2>2, <2>3 DEF Rep
<1>5. ASSUME NEW k, Rep(k), Way[k].trid = t, Way[k].from = g
      PROVE  Way[k].number = requests[t] /\ corr.stage[g] = "pending"
    BY <1>5 DEF Pending, Rep
<1>6. ASSUME NEW j, Rep(j), Way[j].trid = t, Way[j].from = g,
             NEW k, Rep(k), Way[k].trid = t, Way[k].from = g
      PROVE  j = k
    BY <1>5, <1>6 DEF Tokens, Rep
<1>7. ASSUME NEW i \in Unread(g, t)
      PROVE  /\ i \in DOMAIN toGroup[g] /\ toGroup[g][i].trid = t
             /\ toGroup[g][i].number = requests[t] /\ corr.stage[g] = "pending"
    BY <1>1 DEF Unread, Pending
<1>8. \A i, j \in Unread(g, t) : i = j
    <2> SUFFICES ASSUME NEW i \in Unread(g, t), NEW j \in Unread(g, t) PROVE i = j
        OBVIOUS
    <2>1. toGroup[g][i] \in Pledge /\ toGroup[g][j] \in Pledge
        BY <1>1, <1>7 DEF TypeInv
    <2>2. toGroup[g][i] = toGroup[g][j]
        BY <1>7, <2>1, SamePledge
    <2> QED BY <1>1, <1>7, <2>2 DEF Tokens
<1>9. \A i, j \in Replies(cache, g, t) : i = j
    BY <1>3, <1>6
<1>10. \A i, j \in Replies(inbox, g, t) : i = j
    <2> SUFFICES ASSUME NEW i \in Replies(inbox, g, t), NEW j \in Replies(inbox, g, t) PROVE i = j
        OBVIOUS
    <2>1. PICK a \in 1 .. Len(Way) : a = i + Len(cache) /\ Rep(a) /\ Way[a].trid = t /\ Way[a].from = g
        BY <1>4
    <2>2. PICK b \in 1 .. Len(Way) : b = j + Len(cache) /\ Rep(b) /\ Way[b].trid = t /\ Way[b].from = g
        BY <1>4
    <2>3. a = b
        BY <1>6, <2>1, <2>2
    <2>4. i \in 1 .. Len(inbox) /\ j \in 1 .. Len(inbox)
        BY <1>2 DEF Replies
    <2> QED BY <1>2, <2>1, <2>2, <2>3, <2>4
<1>11. ASSUME NEW i \in Unread(g, t), NEW k, Rep(k), Way[k].trid = t, Way[k].from = g
       PROVE  FALSE
    BY <1>1, <1>5, <1>7, <1>11 DEF Tokens, Rep
<1>12. Unread(g, t) # {} => Replies(cache, g, t) = {} /\ Replies(inbox, g, t) = {}
    BY <1>3, <1>4, <1>11
<1>13. Replies(cache, g, t) # {} => Replies(inbox, g, t) = {}
    <2> SUFFICES ASSUME NEW i \in Replies(cache, g, t), NEW j \in Replies(inbox, g, t) PROVE FALSE
        OBVIOUS
    <2>1. PICK b \in 1 .. Len(Way) : b > Len(cache) /\ Rep(b) /\ Way[b].trid = t /\ Way[b].from = g
        BY <1>4
    <2>2. i = b
        BY <1>3, <1>6, <2>1
    <2> QED BY <1>2, <1>3, <2>1, <2>2
<1>14. CASE corr.stage[g] = "pending"
    <2>1. Unread(g, t) # {} \/ Replies(cache, g, t) # {} \/ Replies(inbox, g, t) # {}
        <3>1. CASE \E i \in DOMAIN toGroup[g] : toGroup[g][i].trid = t
            BY <3>1 DEF Unread
        <3>2. CASE \E k \in 1 .. Len(Way) : Rep(k) /\ Way[k].trid = t /\ Way[k].from = g
            <4>1. PICK k \in 1 .. Len(Way) : Rep(k) /\ Way[k].trid = t /\ Way[k].from = g
                BY <3>2
            <4>2. CASE k <= Len(cache)
                <5>1. k \in 1 .. Len(cache) /\ Way[k] = cache[k]
                    BY <1>2, <4>2
                <5> QED BY <1>2, <4>1, <5>1 DEF Replies, Rep
            <4>3. CASE ~ k <= Len(cache)
                <5>1. k - Len(cache) \in 1 .. Len(inbox) /\ Way[k] = inbox[k - Len(cache)]
                    BY <1>2, <4>3
                <5> QED BY <1>2, <4>1, <5>1 DEF Replies, Rep
            <4> QED BY <4>2, <4>3
        <3> QED BY <1>14, <3>1, <3>2 DEF Pending
    <2> QED BY <1>8, <1>9, <1>10, <1>12, <1>13, <1>14, <2>1, AtMostOne
<1>15. CASE corr.stage[g] # "pending"
    <2>1. Unread(g, t) = {} /\ Replies(cache, g, t) = {} /\ Replies(inbox, g, t) = {}
        BY <1>3, <1>4, <1>5, <1>7, <1>15
    <2> QED BY <1>15, <2>1, FS_EmptySet
<1> QED BY <1>14, <1>15

\* A group the broker waits for has the request or its reply on the way, exactly one of them,
\* unless it has died or the cache of the device has overwritten a reply.
THEOREM RepliesAccounted == Spec => []PendingAccounted
<1>1. BrokerInv => PendingAccounted
    <2> SUFFICES ASSUME BrokerInv, NEW t \in Trid \ merged, NEW corr \in correlation[t],
                        NEW g \in alive \cap DOMAIN corr.stage
                 PROVE  Cardinality({i \in DOMAIN toGroup[g] : toGroup[g][i].trid = t})
                          + Cardinality({i \in DOMAIN cache : cache[i].kind = "reply" /\ cache[i].trid = t /\ cache[i].from = g})
                          + Cardinality({i \in DOMAIN inbox : inbox[i].kind = "reply" /\ inbox[i].trid = t /\ inbox[i].from = g})
                          = IF corr.stage[g] = "pending" THEN 1 ELSE 0
        BY Zenon DEF PendingAccounted
    <2> QED BY OneOnTheWay DEF Unread, Replies
<1> QED BY <1>1, BrokerCorrect, PTL
=============================================================================

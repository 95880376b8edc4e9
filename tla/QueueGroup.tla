----------------------------- MODULE QueueGroup -----------------------------
(***************************************************************************)
(* A queue group of casual (middleware/queue/source/group): one single     *)
(* threaded process that keeps the messages of its queues in a sqlite      *)
(* database.                                                               *)
(*                                                                         *)
(*   - message::pump handles messages in batches, each in one database     *)
(*     transaction; replies that promise durability (persistent) are sent  *)
(*     after the batch is on disk, the others at once;                     *)
(*   - a blocking dequeue of an empty queue waits in pending.requests;     *)
(*     pending.transactions counts, per transaction and queue, what was    *)
(*     enqueued while somebody waited for it.                              *)
(*                                                                         *)
(* The clients, the transaction manager and the queue broker (which knows  *)
(* who is involved in which transaction) are the environment. A message is *)
(* the number of its enqueue, which is also its timestamp.                 *)
(***************************************************************************)
EXTENDS Integers, Sequences, FiniteSets, FiniteSetsExt, SequencesExt

CONSTANTS
    Queue,        \* the configured queues
    Trid,         \* global transaction ids
    NoTrid,       \* the null transaction id
    Client,       \* processes that enqueue and dequeue
    Uses,         \* transactions a client works in: [Client -> SUBSET (Trid \cup {NoTrid})]
    Retries,      \* configured retries: [Queue -> Nat]
    GroupError,   \* the error queue of the group
    MaxMessages,  \* bound: messages ever enqueued
    MaxCrashes,   \* bound: crashes of the group
    Batch,        \* platform::batch::transaction
    Selectors,    \* selectors of dequeue requests: a message id, 0 selects any
    Readable,     \* queues the clients dequeue from
    FullQueues,   \* receivers whose ipc-queue may be found full
    Mortal        \* clients that may die

Message == 1 .. MaxMessages

\* Every queue has an error queue of its own; the last one belongs to the group.
QueueId == (Queue \X {"cQueue", "cErrorQueue"}) \cup {GroupError}

ASSUME QueueAssumption ==
    /\ Retries \in [Queue -> Nat]
    /\ GroupError \notin Queue \X {"cQueue", "cErrorQueue"}
    /\ Readable \subseteq QueueId
ASSUME TridAssumption ==
    /\ NoTrid \notin Trid
    /\ Uses \in [Client -> SUBSET (Trid \cup {NoTrid})]
ASSUME FiniteAssumption == IsFiniteSet(Client)
ASSUME BoundsAssumption ==
    /\ MaxMessages \in Nat /\ MaxCrashes \in Nat /\ Batch \in Nat \ {0}
    /\ Selectors \subseteq {0} \cup Message

\* message::State
cAbsent   == 0  \* there is no such row
cAdded    == 1
cEnqueued == 2
cDequeued == 3

Row == [queue : QueueId, gtrid : Trid \cup {NoTrid}, state : 0 .. 3, redelivered : Nat]
NoRow == [queue |-> GroupError, gtrid |-> NoTrid, state |-> cAbsent, redelivered |-> 0]

\* The two tables; count and uncommitted are columns of the queue table.
Database == [message : [Message -> Row], count : [QueueId -> Int], uncommitted : [QueueId -> Int]]

\* A pended request; waiting: its client still waits for the reply to it.
Request == [client : Client, queue : QueueId, trid : Trid \cup {NoTrid},
            selector : {0} \cup Message, waiting : BOOLEAN]

\* What a client is doing: the request it has sent and how far that has come.
ClientState == [op : {"idle", "enqueue", "dequeue"},
                stage : {"none", "sent", "read", "replied"},
                queue : QueueId, trid : Trid \cup {NoTrid},
                block : BOOLEAN, selector : {0} \cup Message]
Idle == [op |-> "idle", stage |-> "none", queue |-> GroupError, trid |-> NoTrid,
         block |-> FALSE, selector |-> 0]

\* Replies that wait for the batch: to an atomic enqueue, a commit, a rollback.
PersistentReply ==
    [type : {"enqueue"}, client : Client, message : Message]
        \cup [type : {"commit", "rollback"}, trid : Trid]

TransactionState == {"active", "doomed", "commit", "rollback", "handled",
                     "committed", "rolledback", "lost"}

VARIABLES
    db,          \* the database as the open sqlite transaction sees it
    disk,        \* the database on disk
    requests,    \* State::Pending::requests
    enqueued,    \* State::Pending::transactions, 0 for an entry that is not there
    serving,     \* requests that pending::replies has yet to look at
    remaining,   \* its counts of messages
    persistent,  \* State::persistent
    next,        \* messages enqueued so far
    client,      \* ClientState of every client
    forget,      \* clients whose forget request is unread
    alive,       \* clients that run
    deaths,      \* dead::process::Events the group has not read
    involved,    \* transactions the queue broker knows this group takes part in
    transaction, \* what the transaction manager has done with a transaction
    crashes,     \* crashes so far
    writer,      \* history: the transaction a message was enqueued in
    taken,       \* history: messages dequeued in a transaction
    acked,       \* history: messages whose atomic enqueue has been answered
    consumed,    \* history: messages removed by a dequeue
    late         \* history: transactions worked in after they were settled

groupVars == <<db, requests, enqueued, serving, remaining, persistent>>
clientVars == <<client, forget, alive, deaths>>
history == <<next, writer, taken, acked, consumed, late>>
vars == <<db, disk, requests, enqueued, serving, remaining, persistent, next, client, forget,
          alive, deaths, involved, transaction, crashes, writer, taken, acked, consumed, late>>

-----------------------------------------------------------------------------
(* The database: its statements and the triggers they fire.                *)

\* queue.error and queue.retries
ErrorOf(q) == IF q # GroupError /\ q[2] = "cQueue" THEN <<q[1], "cErrorQueue">> ELSE GroupError
RetriesOf(q) == IF q = GroupError THEN 0 ELSE Retries[q[1]]

Rows(d, test(_)) == {m \in Message : d.message[m].state # cAbsent /\ test(d.message[m])}
NumberIn(d, ms, q) == Cardinality({m \in ms : d.message[m].queue = q})

\* Inserting fires insert_message.
Insert(d, m, q, t) ==
    LET state == IF t = NoTrid THEN cEnqueued ELSE cAdded
    IN  [message |-> [d.message EXCEPT ![m] =
                        [queue |-> q, gtrid |-> t, state |-> state, redelivered |-> 0]],
         count |-> IF t = NoTrid THEN [d.count EXCEPT ![q] = @ + 1] ELSE d.count,
         uncommitted |-> IF t = NoTrid THEN d.uncommitted
                                       ELSE [d.uncommitted EXCEPT ![q] = @ + 1]]

\* Mutant of Delete: delete_message counts committed rows only (state = 2).
DeleteCountsEnqueued(d, ms) ==
    LET of(state) == {m \in ms : d.message[m].state = state}
    IN  [message |-> [m \in Message |-> IF m \in ms THEN NoRow ELSE d.message[m]],
         count |-> [q \in QueueId |-> d.count[q] - NumberIn(d, of(cEnqueued), q)],
         uncommitted |-> [q \in QueueId |-> d.uncommitted[q] - NumberIn(d, of(cAdded), q)]]

\* Deleting rows fires delete_message for each of them.
Delete(d, ms) ==
    LET of(states) == {m \in ms : d.message[m].state \in states}
    IN  [message |-> [m \in Message |-> IF m \in ms THEN NoRow ELSE d.message[m]],
         count |-> [q \in QueueId |-> d.count[q] - NumberIn(d, of({cEnqueued, cDequeued}), q)],
         uncommitted |-> [q \in QueueId |-> d.uncommitted[q] - NumberIn(d, of({cAdded}), q)]]

\* statement.dequeue: the messages a request may get, of which it gets the oldest.
Candidates(d, r) ==
    {m \in Message : /\ d.message[m].state = cEnqueued
                     /\ d.message[m].queue = r.queue
                     /\ r.selector \in {0, m}}

\* statement.state: a transaction marks the message, otherwise it is deleted.
Take(d, r, m) ==
    IF r.trid = NoTrid THEN Delete(d, {m})
                       ELSE [d EXCEPT !.message[m].state = cDequeued,
                                      !.message[m].gtrid = r.trid]

\* commit1 fires update_message_state, commit2 fires delete_message.
Commit1(d, t) ==
    LET ms == Rows(d, LAMBDA row : row.gtrid = t /\ row.state = cAdded)
    IN  [message |-> [m \in Message |->
                        IF m \in ms THEN [d.message[m] EXCEPT !.state = cEnqueued] ELSE d.message[m]],
         count |-> [q \in QueueId |-> d.count[q] + NumberIn(d, ms, q)],
         uncommitted |-> [q \in QueueId |-> d.uncommitted[q] - NumberIn(d, ms, q)]]

Taken(d, t) == Rows(d, LAMBDA row : row.gtrid = t /\ row.state = cDequeued)

\* Mutant of DatabaseCommit: the dequeued messages are not deleted (commit2).
CommitKeepsDequeued(d, t) == Commit1(d, t)

DatabaseCommit(d, t) == Delete(Commit1(d, t), Taken(d, t))

\* rollback1 fires delete_message.
Rollback1(d, t) == Delete(d, Rows(d, LAMBDA row : row.gtrid = t /\ row.state = cAdded))

\* rollback2: what the transaction has dequeued is available again.
Rollback2(d, t) ==
    LET ms == Taken(d, t)
    IN  [d EXCEPT !.message = [m \in Message |->
            IF m \in ms THEN [d.message[m] EXCEPT !.state = cEnqueued, !.redelivered = @ + 1]
                        ELSE d.message[m]]]

\* Mutant of Rollback3: one redelivery too many, >= read as >.
Rollback3OneMore(d) ==
    LET ms == Rows(d, LAMBDA row : row.redelivered > RetriesOf(row.queue) + 1)
        moved == [m \in Message |->
                    IF m \in ms THEN [d.message[m] EXCEPT !.queue = ErrorOf(@), !.redelivered = 0]
                                ELSE d.message[m]]
    IN  [d EXCEPT !.message = moved]

\* rollback3 moves what was redelivered too often, of any transaction; it
\* fires update_message_queue.
Rollback3(d) ==
    LET ms == Rows(d, LAMBDA row : row.redelivered > RetriesOf(row.queue))
        moved == [m \in Message |->
                    IF m \in ms THEN [d.message[m] EXCEPT !.queue = ErrorOf(@), !.redelivered = 0]
                                ELSE d.message[m]]
        away(q) == {m \in ms : d.message[m].queue = q /\ moved[m].queue # q}
        here(q) == {m \in ms : d.message[m].queue # q /\ moved[m].queue = q}
    IN  [d EXCEPT !.message = moved,
                  !.count = [q \in QueueId |->
                                d.count[q] + Cardinality(here(q)) - Cardinality(away(q))]]

DatabaseRollback(d, t) == Rollback3(Rollback2(Rollback1(d, t), t))

\* Opening the database: INSERT OR REPLACE of the group's error queue.
Open(d) == [d EXCEPT !.count[GroupError] = 0, !.uncommitted[GroupError] = 0]

EmptyDatabase == [message |-> [m \in Message |-> NoRow],
                  count |-> [q \in QueueId |-> 0],
                  uncommitted |-> [q \in QueueId |-> 0]]

-----------------------------------------------------------------------------
(* The clients, and the transaction manager with the queue broker.         *)

NoCounts == [q \in QueueId |-> 0]

Init ==
    /\ db = EmptyDatabase /\ disk = EmptyDatabase
    /\ requests = <<>> /\ serving = <<>>
    /\ enqueued = [t \in Trid \cup {NoTrid} |-> NoCounts]
    /\ remaining = NoCounts
    /\ persistent = {}
    /\ next = 0
    /\ client = [c \in Client |-> Idle]
    /\ forget = {} /\ alive = Client /\ deaths = {}
    /\ involved = {}
    /\ transaction = [t \in Trid |-> "active"]
    /\ crashes = 0
    /\ writer = [m \in Message |-> NoTrid]
    /\ taken = [t \in Trid |-> {}]
    /\ acked = {} /\ consumed = {} /\ late = {}

Usable(c) == {t \in Uses[c] : t = NoTrid \/ transaction[t] = "active"}

\* rm::enqueue: the request is in the ipc-queue of the group.
Enqueue(c) ==
    /\ c \in alive /\ client[c].op = "idle"
    /\ next + Cardinality({d \in Client : client[d].op = "enqueue" /\ client[d].stage = "sent"})
          < MaxMessages
    /\ \E q \in Queue, t \in Usable(c) :
          client' = [client EXCEPT ![c] =
                        [Idle EXCEPT !.op = "enqueue", !.stage = "sent",
                                     !.queue = <<q, "cQueue">>, !.trid = t]]
    /\ UNCHANGED <<groupVars, disk, forget, alive, deaths, involved, transaction, crashes, history>>

\* rm::dequeue, and rm::blocking::dequeue
Dequeue(c) ==
    /\ c \in alive /\ client[c].op = "idle"
    /\ \E q \in Readable, t \in Usable(c), s \in Selectors, b \in BOOLEAN :
          client' = [client EXCEPT ![c] =
                        [Idle EXCEPT !.op = "dequeue", !.stage = "sent", !.queue = q,
                                     !.trid = t, !.block = b, !.selector = s]]
    /\ UNCHANGED <<groupVars, disk, forget, alive, deaths, involved, transaction, crashes, history>>

\* The client reads the reply, unless it has given up: then only the reply to
\* its forget request ends the call.
Receive(c) ==
    /\ c \in alive \ forget /\ client[c].stage = "replied"
    /\ client' = [client EXCEPT ![c] = Idle]
    /\ UNCHANGED <<groupVars, disk, forget, alive, deaths, involved, transaction, crashes, history>>

\* A shutdown message or a signal ends the wait of a blocking dequeue.
GiveUp(c) ==
    /\ c \in alive \ forget /\ client[c].op = "dequeue" /\ client[c].block
    /\ forget' = forget \cup {c}
    /\ UNCHANGED <<groupVars, disk, client, alive, deaths, involved, transaction, crashes, history>>

Doom(t) == IF t # NoTrid /\ transaction[t] = "active"
           THEN [transaction EXCEPT ![t] = "doomed"]
           ELSE transaction

\* A client terminates; its transaction can only be rolled back. What it has
\* sent is still read.
Die(c) ==
    /\ c \in alive \cap Mortal
    /\ alive' = alive \ {c}
    /\ deaths' = deaths \cup {c}
    /\ transaction' = Doom(client[c].trid)
    /\ UNCHANGED <<groupVars, disk, client, forget, involved, crashes, history>>

\* Nobody uses the transaction any more; a dead client may have left a request.
Finished(t) == \A c \in alive : client[c].trid # t

\* The queue broker forwards the transaction manager's request to the group.
RequestCommit(t) ==
    /\ transaction[t] = "active" /\ t \in involved /\ Finished(t)
    /\ transaction' = [transaction EXCEPT ![t] = "commit"]
    /\ involved' = involved \ {t}
    /\ UNCHANGED <<groupVars, disk, clientVars, crashes, history>>

RequestRollback(t) ==
    /\ transaction[t] \in {"active", "doomed"} /\ t \in involved /\ Finished(t)
    /\ transaction' = [transaction EXCEPT ![t] = "rollback"]
    /\ involved' = involved \ {t}
    /\ UNCHANGED <<groupVars, disk, clientVars, crashes, history>>

\* The queue broker knows of no group: it answers XAER_NOTA.
NotInvolved(t) ==
    /\ transaction[t] = "doomed" /\ t \notin involved /\ Finished(t)
    /\ transaction' = [transaction EXCEPT ![t] = "lost"]
    /\ UNCHANGED <<groupVars, disk, clientVars, involved, crashes, history>>

-----------------------------------------------------------------------------
(* The handlers of the group.                                              *)

\* The group reads a message only when the handler before has returned.
Reading == serving = <<>>

\* An ipc send to c throws queue::Unavailable
Unavailable(c) == c \notin alive

\* The process ends and is started again with the domain: the database is
\* opened, every request and every reply is gone.
Restart(d) ==
    /\ db' = Open(d) /\ disk' = Open(d)
    /\ requests' = <<>> /\ serving' = <<>>
    /\ enqueued' = [t \in Trid \cup {NoTrid} |-> NoCounts]
    /\ remaining' = NoCounts
    /\ persistent' = {}
    /\ client' = [c \in Client |-> Idle]
    /\ forget' = {} /\ deaths' = {}
    /\ involved' = {}
    /\ transaction' = [t \in Trid |->
            IF \/ transaction[t] \in {"committed", "rolledback"}
               \/ t \notin involved /\ transaction[t] = "active" /\ \A c \in Client : client[c].trid # t
            THEN transaction[t] ELSE "lost"]
    /\ UNCHANGED alive

Crash ==
    /\ crashes < MaxCrashes
    /\ crashes' = crashes + 1
    /\ Restart(disk)
    /\ UNCHANGED history

\* Pending::enqueue: counts the message if somebody waits for the queue.
PendingEnqueue(t, q) ==
    IF \E i \in DOMAIN requests : requests[i].queue = q
    THEN [enqueued EXCEPT ![t][q] = @ + 1]
    ELSE enqueued

\* The elements of s at the positions K, in their order.
ElementsAt(s, K) ==
    LET upTo[n \in 0 .. Len(s)] ==
            IF n = 0 THEN <<>>
            ELSE IF n \in K THEN Append(upTo[n - 1], s[n]) ELSE upTo[n - 1]
    IN  upTo[Len(s)]

\* Pending::commit: every request for a queue that was counted is taken out
\* and becomes the work of pending::replies.
PendingCommit(e, t) ==
    /\ remaining' = e[t]
    /\ enqueued' = [e EXCEPT ![t] = NoCounts]
    /\ serving' = ElementsAt(requests, {i \in DOMAIN requests : e[t][requests[i].queue] > 0})
    /\ requests' = ElementsAt(requests, {i \in DOMAIN requests : e[t][requests[i].queue] = 0})

\* The group has carried out, or lost, what was asked of the transaction.
Settled == {t \in Trid : transaction[t] \in {"handled", "committed", "rolledback", "lost"}}

\* The group does work in transaction t.
WorkIn(t) == late' = late \cup ({t} \cap Settled)

\* enqueue::Request of a transaction: answered at once. The exception of a
\* send to a client that is gone ends the process, after scoped::write has
\* committed the batch.
HandleEnqueueTransaction(c) ==
    LET t == client[c].trid
        q == client[c].queue
        m == next + 1
    IN  /\ Reading /\ client[c].op = "enqueue" /\ client[c].stage = "sent" /\ t # NoTrid
        /\ next' = m
        /\ writer' = [writer EXCEPT ![m] = t]
        /\ WorkIn(t)
        /\ \/ /\ ~ Unavailable(c)
              /\ db' = Insert(db, m, q, t)
              /\ enqueued' = PendingEnqueue(t, q)
              /\ involved' = involved \cup {t}
              /\ client' = [client EXCEPT ![c].stage = "replied"]
              /\ UNCHANGED <<disk, requests, serving, remaining, persistent, forget, alive,
                             deaths, transaction>>
           \/ /\ Unavailable(c)
              /\ Restart(Insert(db, m, q, t))
        /\ UNCHANGED <<crashes, taken, acked, consumed>>

\* Mutant of HandleEnqueueAtomic: the reply does not wait for the batch.
EnqueueAnsweredAtOnce(c) ==
    LET q == client[c].queue
        m == next + 1
    IN  /\ Reading /\ client[c].op = "enqueue" /\ client[c].stage = "sent"
        /\ client[c].trid = NoTrid
        /\ next' = m
        /\ db' = Insert(db, m, q, NoTrid)
        /\ PendingCommit(PendingEnqueue(NoTrid, q), NoTrid)
        /\ acked' = acked \cup {m}
        /\ client' = [client EXCEPT ![c].stage = "replied"]
        /\ UNCHANGED <<disk, persistent, forget, alive, deaths, involved, transaction, crashes, writer, taken, consumed, late>>

\* enqueue::Request without a transaction: answered when it is on disk, and
\* available to those who wait for it.
HandleEnqueueAtomic(c) ==
    LET q == client[c].queue
        m == next + 1
    IN  /\ Reading /\ client[c].op = "enqueue" /\ client[c].stage = "sent"
        /\ client[c].trid = NoTrid
        /\ next' = m
        /\ db' = Insert(db, m, q, NoTrid)
        /\ PendingCommit(PendingEnqueue(NoTrid, q), NoTrid)
        /\ persistent' = persistent \cup {[type |-> "enqueue", client |-> c, message |-> m]}
        /\ client' = [client EXCEPT ![c].stage = "read"]
        /\ UNCHANGED <<disk, forget, alive, deaths, involved, transaction, crashes, writer, taken,
                       acked, consumed, late>>

RequestOf(c) == [client |-> c, queue |-> client[c].queue, trid |-> client[c].trid,
                 selector |-> client[c].selector, waiting |-> TRUE]

\* Message m is handed to request r: what happens to the history.
HandOver(r, m) ==
    /\ taken' = IF r.trid = NoTrid THEN taken ELSE [taken EXCEPT ![r.trid] = @ \cup {m}]
    /\ consumed' = IF r.trid = NoTrid THEN consumed \cup {m} ELSE consumed
    /\ WorkIn(r.trid)

\* The call of client c is over: what is left of its request waits for nothing.
CallOver(s, c) == [i \in DOMAIN s |->
                    IF s[i].client = c THEN [s[i] EXCEPT !.waiting = FALSE] ELSE s[i]]

\* dequeue::Request
HandleDequeue(c) ==
    LET r == RequestOf(c)
        ms == Candidates(db, r)
    IN  /\ Reading /\ client[c].op = "dequeue" /\ client[c].stage = "sent"
        /\ \/ /\ ms = {} /\ client[c].block
              /\ requests' = Append(requests, r)
              /\ client' = [client EXCEPT ![c].stage = "read"]
              /\ UNCHANGED <<db, disk, enqueued, serving, remaining, persistent, forget, alive,
                             deaths, involved, transaction, taken, consumed, late>>
           \/ /\ ms = {} /\ ~ client[c].block
              /\ \/ /\ ~ Unavailable(c)
                    /\ client' = [client EXCEPT ![c].stage = "replied"]
                    /\ UNCHANGED <<groupVars, disk, forget, alive, deaths, involved, transaction>>
                 \/ /\ Unavailable(c)
                    /\ Restart(db)
              /\ UNCHANGED <<taken, consumed, late>>
           \/ /\ ms # {}
              /\ HandOver(r, Min(ms))
              /\ \/ /\ ~ Unavailable(c)
                    /\ db' = Take(db, r, Min(ms))
                    /\ involved' = involved \cup ({r.trid} \ {NoTrid})
                    /\ client' = [client EXCEPT ![c].stage = "replied"]
                    /\ UNCHANGED <<disk, requests, enqueued, serving, remaining, persistent,
                                   forget, alive, deaths, transaction>>
                 \/ /\ Unavailable(c)
                    /\ Restart(Take(db, r, Min(ms)))
        /\ UNCHANGED <<crashes, next, writer, acked>>

\* Mutant of ServePending: the test of remaining is missing.
ServePendingUncounted ==
    LET r == Head(serving)
        ms == Candidates(db, r)
    IN  /\ serving # <<>>
        /\ serving' = Tail(serving)
        /\ \/ /\ ms = {}
              /\ requests' = requests \o <<r, r>>
              /\ UNCHANGED <<db, remaining, client, involved, taken, consumed, late>>
           \/ /\ ms # {}
              /\ db' = Take(db, r, Min(ms))
              /\ HandOver(r, Min(ms))
              /\ involved' = involved \cup ({r.trid} \ {NoTrid})
              /\ remaining' = [remaining EXCEPT ![r.queue] = @ - 1]
              /\ client' = [client EXCEPT ![r.client].stage = "replied"]
              /\ UNCHANGED requests
        /\ UNCHANGED <<disk, enqueued, persistent, forget, alive, deaths, transaction, crashes,
                       next, writer, acked>>

\* One turn of the loop of pending::replies. A request for a queue with
\* nothing remaining is dropped. A request that finds no message is pushed
\* twice: by dequeue::request and by the loop; one of the two outlives the
\* call, and no client reads what is sent for it. The exception of a send to
\* a client that is gone is ignored.
ServePending ==
    LET r == Head(serving)
        ms == Candidates(db, r)
    IN  /\ serving # <<>>
        /\ \/ /\ remaining[r.queue] = 0
              /\ serving' = Tail(serving)
              /\ UNCHANGED <<db, requests, remaining, client, involved, taken, consumed, late>>
           \/ /\ remaining[r.queue] > 0 /\ ms = {}
              /\ requests' = requests \o <<r, r>>
              /\ serving' = Tail(serving)
              /\ UNCHANGED <<db, remaining, client, involved, taken, consumed, late>>
           \/ /\ remaining[r.queue] > 0 /\ ms # {}
              /\ db' = Take(db, r, Min(ms))
              /\ HandOver(r, Min(ms))
              /\ involved' = involved \cup ({r.trid} \ {NoTrid})
              /\ \/ /\ ~ Unavailable(r.client)
                    /\ remaining' = [remaining EXCEPT ![r.queue] = @ - 1]
                    /\ \/ /\ r.waiting
                          /\ client' = [client EXCEPT ![r.client].stage = "replied"]
                          /\ requests' = CallOver(requests, r.client)
                          /\ serving' = CallOver(Tail(serving), r.client)
                       \/ /\ ~ r.waiting
                          /\ serving' = Tail(serving)
                          /\ UNCHANGED <<client, requests>>
                 \/ /\ Unavailable(r.client)
                    /\ serving' = Tail(serving)
                    /\ UNCHANGED <<remaining, client, requests>>
        /\ UNCHANGED <<disk, enqueued, persistent, forget, alive, deaths, transaction, crashes,
                       next, writer, acked>>

\* The position of the first request of client c for queue q, 0 if none.
Position(c, q) ==
    LET found == {i \in DOMAIN requests : requests[i].client = c /\ requests[i].queue = q}
    IN  IF found = {} THEN 0 ELSE Min(found)

\* dequeue::forget::Request; the client's own dequeue request came before it.
\* The client rolls its transaction back.
HandleForget(c) ==
    LET i == Position(c, client[c].queue)
    IN  /\ Reading /\ c \in forget /\ client[c].stage # "sent"
        /\ forget' = forget \ {c}
        /\ requests' = CallOver(IF i = 0 THEN requests ELSE RemoveAt(requests, i), c)
        /\ enqueued' = IF i # 0 /\ requests' = <<>>
                       THEN [t \in Trid \cup {NoTrid} |-> NoCounts] ELSE enqueued
        /\ client' = [client EXCEPT ![c] = Idle]
        /\ transaction' = Doom(client[c].trid)
        /\ UNCHANGED <<db, disk, serving, remaining, persistent, alive, deaths, involved, crashes, history>>

\* Mutant of HandleDead: the wrong part of the partition is erased.
DeadErasesOthers(c) ==
    /\ Reading /\ c \in deaths \ forget /\ client[c].stage # "sent"
    /\ deaths' = deaths \ {c}
    /\ requests' = ElementsAt(requests, {i \in DOMAIN requests : requests[i].client = c})
    /\ UNCHANGED <<db, disk, enqueued, serving, remaining, persistent, client, forget, alive,
                   involved, transaction, crashes, history>>

\* dead::Process; what the client had sent came before the event.
HandleDead(c) ==
    /\ Reading /\ c \in deaths \ forget /\ client[c].stage # "sent"
    /\ deaths' = deaths \ {c}
    /\ requests' = ElementsAt(requests, {i \in DOMAIN requests : requests[i].client # c})
    /\ UNCHANGED <<db, disk, enqueued, serving, remaining, persistent, client, forget, alive,
                   involved, transaction, crashes, history>>

\* transaction::commit::Request
HandleCommit(t) ==
    /\ Reading /\ transaction[t] = "commit"
    /\ transaction' = [transaction EXCEPT ![t] = "handled"]
    /\ db' = DatabaseCommit(db, t)
    /\ consumed' = consumed \cup Taken(db, t)
    /\ PendingCommit(enqueued, t)
    /\ persistent' = persistent \cup {[type |-> "commit", trid |-> t]}
    /\ UNCHANGED <<disk, clientVars, involved, crashes, next, writer, taken, acked, late>>

\* transaction::rollback::Request
HandleRollback(t) ==
    /\ Reading /\ transaction[t] = "rollback"
    /\ transaction' = [transaction EXCEPT ![t] = "handled"]
    /\ db' = DatabaseRollback(db, t)
    /\ enqueued' = [enqueued EXCEPT ![t] = NoCounts]
    /\ persistent' = persistent \cup {[type |-> "rollback", trid |-> t]}
    /\ UNCHANGED <<disk, requests, serving, remaining, clientVars, involved, crashes, history>>

\* A message of the group's ipc-queue is unread.
Unread ==
    \/ \E c \in Client : client[c].stage = "sent"
    \/ forget # {} \/ deaths # {}
    \/ \E t \in Trid : transaction[t] \in {"commit", "rollback"}

\* message::pump at the end of a batch: the database is committed, then the
\* persistent replies are sent to all whose ipc-queue takes them.
Persist ==
    /\ Reading
    /\ ~ Unread \/ Cardinality(persistent) >= Batch
    /\ persistent # {} \/ disk # db
    /\ disk' = db
    /\ \E unsent \in SUBSET {r \in persistent : r.type = "enqueue" /\ r.client \in FullQueues} :
          LET sent == persistent \ unsent
              answered == {r.client : r \in {s \in sent : s.type = "enqueue"}}
              ended(type) == {r.trid : r \in {s \in sent : s.type = type}}
          IN  /\ persistent' = unsent
              /\ acked' = acked \cup {r.message : r \in {s \in sent : s.type = "enqueue"}}
              /\ client' = [c \in Client |->
                    IF c \in answered THEN [client[c] EXCEPT !.stage = "replied"] ELSE client[c]]
              /\ transaction' = [t \in Trid |->
                    IF t \in ended("commit") THEN "committed"
                    ELSE IF t \in ended("rollback") THEN "rolledback" ELSE transaction[t]]
    /\ UNCHANGED <<db, requests, enqueued, serving, remaining, forget, alive, deaths, involved,
                   crashes, next, writer, taken, consumed, late>>

-----------------------------------------------------------------------------
ClientNext(c) == Enqueue(c) \/ Dequeue(c) \/ Receive(c) \/ GiveUp(c) \/ Die(c)
CoordinatorNext(t) == RequestCommit(t) \/ RequestRollback(t) \/ NotInvolved(t)
GroupNext ==
    \/ \E c \in Client : \/ HandleEnqueueTransaction(c) \/ HandleEnqueueAtomic(c)
                         \/ HandleDequeue(c) \/ HandleForget(c) \/ HandleDead(c)
    \/ \E t \in Trid : HandleCommit(t) \/ HandleRollback(t)
    \/ ServePending
    \/ Persist
    \/ Crash

Next ==
    \/ \E c \in Client : ClientNext(c)
    \/ \E t \in Trid : CoordinatorNext(t)
    \/ GroupNext

Spec == Init /\ [][Next]_vars

-----------------------------------------------------------------------------
(* Properties.                                                             *)

\* The variables have their types.
TypeOK ==
    /\ db \in Database /\ disk \in Database
    /\ requests \in Seq(Request) /\ serving \in Seq(Request)
    /\ enqueued \in [Trid \cup {NoTrid} -> [QueueId -> Nat]]
    /\ remaining \in [QueueId -> Nat]
    /\ persistent \subseteq PersistentReply
    /\ next \in 0 .. MaxMessages
    /\ client \in [Client -> ClientState]
    /\ forget \subseteq Client /\ alive \subseteq Client /\ deaths \subseteq Client
    /\ involved \subseteq Trid
    /\ transaction \in [Trid -> TransactionState]
    /\ crashes \in 0 .. MaxCrashes
    /\ writer \in [Message -> Trid \cup {NoTrid}]
    /\ taken \in [Trid -> SUBSET Message]
    /\ acked \subseteq Message /\ consumed \subseteq Message
    /\ late \subseteq Trid

Committed(d, m) == d.message[m].state \in {cEnqueued, cDequeued}

\* The counters that the triggers maintain agree with the rows of the message
\* table (Database::Database), on disk too. The error queue of the group is
\* left out: opening the database resets its counters.
CountersAgree ==
    \A d \in {db, disk}, q \in QueueId \ {GroupError} :
        /\ d.count[q] = Cardinality({m \in Message : Committed(d, m) /\ d.message[m].queue = q})
        /\ d.uncommitted[q] =
              Cardinality({m \in Message : d.message[m].state = cAdded /\ d.message[m].queue = q})

\* An enqueue without a transaction that has been answered is never lost, also
\* not in a crash (enqueue::Request: the reply waits for the batch): the
\* message is on disk until a dequeue has removed it.
AtomicEnqueueDurable ==
    \A m \in acked : Committed(disk, m) \/ m \in consumed

\* What the group has told the transaction manager is so, on disk and for
\* good: a committed transaction's messages are there until someone removes
\* them and what it dequeued is gone; a rolled back transaction's messages are
\* gone and it holds no message (transaction::commit, transaction::rollback).
\* Except for transactions in which a request was served after they were
\* settled: that of a dead client, or the second of a request pended twice.
OutcomeDurable ==
    \A t \in Trid \ late :
        /\ transaction[t] = "committed" =>
              \A m \in Message :
                  /\ writer[m] = t => Committed(disk, m) \/ m \in consumed
                  /\ m \in taken[t] => disk.message[m].state = cAbsent
        /\ transaction[t] = "rolledback" =>
              \A m \in Message :
                  /\ writer[m] = t => disk.message[m].state = cAbsent
                  /\ m \in taken[t] => disk.message[m] # [disk.message[m] EXCEPT
                                          !.gtrid = t, !.state = cDequeued]

\* A message comes back to its queue at most as often as the queue has
\* retries, then it is in the next error queue (rollback3).
RetriesBounded ==
    \A m \in Message : db.message[m].redelivered <= RetriesOf(db.message[m].queue)

\* Once the group has read the event of a client's death, no request of that
\* client is left to swallow a message (dead::Process, Pending::erase).
DeadForgotten ==
    \A i \in DOMAIN requests : requests[i].client \in alive \cup deaths

\* A client that waits in a blocking dequeue is in pending, or being served:
\* requests that got no message are put back in pending (pending::replies).
WaiterPending ==
    \A c \in alive :
        client[c].op = "dequeue" /\ client[c].stage = "read" =>
            \E s \in {requests, serving} :
                \E i \in DOMAIN s : s[i].client = c /\ s[i].waiting
=============================================================================

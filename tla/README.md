# casual: specifications and proofs

This directory holds TLA+ models of the parts of casual that carry its logic:
the transaction manager with its resource proxies, the transactions of a
process, the queue groups and their broker, the broker with the servers and
callers it schedules, and the transport between them. TLC checks them on small
instances; for the results in the section *Proofs*, TLAPS checks proofs that
hold for every value of the constants.

Paths below are relative to `src/middleware/` unless they begin with `src/`.

## 1. The system

casual is an XATMI/TX middleware. A *domain* is a set of single-threaded
processes on one machine that talk over System V message queues ("ipc-queues").
Each process that plays a part in the domain runs a *pump*: it reads a message,
runs one handler to the end, and reads the next. So what is hard in casual is
never two threads in one memory, but the order in which handlers of several
processes run, what is in a queue when a process ends, and what a process
remembers of another that has moved on.

### 1.1 Components, state, operations

| component | state it keeps | operations | modelled in |
|---|---|---|---|
| Transaction manager (`transaction/source/manager`) | transactions with the stage and result of each resource; the proxies' states; `pendingRequests`; `persistentReplies`; a sqlite log | commit, rollback, involved, the proxies' replies, connect of a proxy, death of a process, change of the number of proxies, the batch write | `TransactionManager` |
| Resource proxy (`transaction/source/resource`) | one open connection to a resource manager | open, prepare, commit, rollback, shutdown | `TransactionManager` (Proxy...) |
| Transaction context (`common/source/transaction/context.cpp`) | the transactions a process owns or takes part in | begin, commit, rollback, suspend, resume, join, start, update, finalize, dynamic registration | `TransactionContext`; the blocking commit in detail in `TransactionManager` |
| Queue group (`queue/source/group`) | the sqlite tables `queue` and `message`, with counters kept by triggers; blocked dequeues; counts of what was enqueued for them; `persistent` replies | enqueue, dequeue, forget, commit, rollback, dead process, the batch write | `QueueGroup` |
| Queue client (`queue/source/api/rm`) | the call under way | enqueue, dequeue, blocking dequeue, forget | `QueueGroup` |
| Queue broker (`queue/source/broker`) | the groups, which queue lives where, who is involved in which transaction | lookup, connect, involved, forwarding of commit and rollback and collecting the answers | `QueueBroker`; its effect on one group also in `QueueGroup` |
| Queue forward (`queue/source/forward`) | none | a loop of begin, blocking dequeue, dispatch, commit | - |
| Broker (`broker/source`) | server instances and their states; the registry of services, in both directions; `pending.requests`; listeners for deaths | connect, advertise, unadvertise, lookup, ACK, death, change of the number of instances, boot and shutdown | `ServiceBroker` |
| Forward cache (`broker/source/forward`) | calls kept per service | call, lookup reply | `ServiceBroker` |
| Call context (`common/source/call`) | descriptors and deadlines | async, reply, cancel | the lookup in `ServiceBroker`, descriptors and associations in `TransactionContext` |
| Server message handling (`common/include/common/server/handle.h`) | the current call | call, tpreturn, forward | `ServiceBroker` (ACK), `TransactionContext` (Serve, Return, Forward) |
| Inbound device (`common/include/common/communication`) | a cache of messages, complete or not; discarded correlations | send in parts, receive by type or correlation, discard, push | `InboundDevice`, `Mailbox` |
| signals, timeouts, processes (`common/source`) | | | assumptions, see 1.3 |
| buffers, configuration, service framework, xatmi, tools, traffic, gateway, web, plugin, binding, administration | | | not modelled, see section 7 |

### 1.2 Interactions

* A caller sends a **lookup** to the broker, gets an instance, sends the **call**
  to the instance itself; the server sends an **ACK** to the broker and the
  reply to the caller. Nobody checks that these four messages belong together
  but the processes that send them.
* A server that works in somebody's transaction sends **Involved** to the
  transaction manager (`transaction/source/manager/handle.cpp:361`) or, for queues,
  to the queue broker; the owner of the transaction sends **commit** or
  **rollback** to the manager, which sends requests to the proxies. The queue
  broker behaves as a resource towards the manager and as a manager towards
  its groups.
* The broker notices the death of a child and sends **dead process events** to
  its listeners: the transaction manager and every queue group.

### 1.3 Assumptions on the environment

The modules of the processes assume that a message is delivered complete, once,
and in the order in which one process sends to one queue; `InboundDevice` models
how casual's transport brings this about on System V queues. A non-blocking send may find a queue full and then has no
effect; which receivers may have full queues is a constant (`FullQueues`). A
queue that has been removed makes a send throw `queue::Unavailable`. sqlite
transactions are atomic and durable.

### 1.4 What is hard, and what makes each component right

* *Transaction manager*: replies of several resources in any order; several
  transactions that share proxies; owners that die, time out or ask twice;
  servers that report late; decisions that must be on disk before anybody hears
  of them. Right means: atomic at the resource managers; no request lost or
  made twice; an answer is true; every call is answered.
* *Queue group*: everything between two commits of the batch is lost in a crash;
  clients die or give up while they wait; one statement (`rollback3`) touches
  rows of other transactions. Right means: what was answered is on disk;
  counters agree with rows; a message is tried no more often than configured;
  nobody waits for ever beside a message.
* *Broker*: instances end, are told to end, or are killed at any point between
  grant and ACK; deadlines pass while a lookup waits. Right means: one caller
  per instance; the registry never refers to what is gone; lookups are served in
  order; an instance is busy only for somebody.

* *Queue broker*: several groups are one resource to the transaction manager;
  a group dies or fails in the middle of a commit, replies are matched by
  transaction only, and an administrator's query makes the broker read ahead.
  Right means: an answer says what all the groups have done; every request is
  answered.
* *Inbound device*: the parts of messages of several senders are mixed in one
  bounded queue, sends fail half way and are tried again, receives pass over
  messages, correlations are discarded. Right means: a box of whole messages.
* *Transaction context*: services call services inside a transaction that is
  suspended, stacked or chained, and the owner commits it by itself or through
  the manager. Right means: a commit reaches all the work, a failure reaches the
  owner, the resource managers work in no transaction but the current one. That a
  server which has replied has settled everything should hold too, and does not
  (section 5).

`PROJECT.json` lists these hazards one by one at the lines where they bite.

## 2. Plan

Order of work: the modules first whose failure loses data.

1. `TransactionManager`, `AtomicCommit` (done): the two-phase commit of a domain and
   what it promises. Proofs of the type invariant, of the scheduling of
   requests, and of atomicity of `AtomicCommit` (done).
2. `QueueGroup` (done): messages, transactions, crash and restart.
3. `ServiceBroker` (done): scheduling of service calls, with a proof about its
   registry (done).
4. `InboundDevice`, `Mailbox` (done): the transport, and the box of messages that it
   implements.
5. `QueueBroker` (done): involvement, forwarding and collecting answers of several
   groups.
6. `TransactionContext` (done): suspend, resume, association and settling of
   transactions over several processes.
7. Proofs: every safety property of every module, and the refinements of `AtomicCommit` and
   `Mailbox` (done, section 6).
8. `DeadProcessEvents` (later): listeners and the order of events and last messages;
   boot and shutdown of the domain.
9. The requests of remote domains (`transaction/source/manager/handle.cpp:1025-1290`), once
   something sends them; the recovery of the log, once it exists.

Abstract specifications: `AtomicCommit` and `Mailbox` (done); a transactional multiset of
messages for `QueueGroup`; an exclusive allocator for `ServiceBroker`.

## 3. Modules

| module | what it is |
|---|---|
| `TransactionManager` | the manager, its proxies, the owners and the servers that involve resources |
| `AtomicCommit` | what the branches of a transaction may do, seen at the resource managers |
| `TransactionManagerProofs` | theorems: types, the scheduling of requests, what the manager believes of its proxies; lemmas about requests, and the phases of a transaction |
| `TransactionManagerAtomicity` | theorems: atomicity, durability, that the manager implements `AtomicCommit`, that no request is lost or doubled, and that the last reply is the last act |
| `AtomicCommitProofs` | theorem: what the abstract specification promises |
| `QueueGroupProofs`, `QueueBrokerProofs`, `ServiceBrokerProofs`, `InboundDeviceProofs`, `TransactionContextProofs` | theorems about these modules |
| `QueueGroup` | one group with its database, its clients and the queue broker as environment |
| `ServiceBroker` | the broker, one server's instances, callers, the forward cache |
| `InboundDevice` | senders, the System V queue, the receiving device with its cache |
| `Mailbox` | what a device promises: whole messages, each once, in the order of each sender |
| `QueueBroker` | the queue broker, its groups, clients, the xa-switch in the resource proxy, an administrator |
| `TransactionContext` | the transactions of clients and servers that call each other; resource managers and transaction manager as environment |
| `MC...` | constants for TLC |

A definition that begins with *Mutant of* in its comment is the definition
after it with a plausible mistake in it; no specification uses it. Putting it
in place of the original must break the property it is listed with in
`PROJECT.json`, which shows that the property can tell the code from a wrong one.

### 3.1 TransactionManager

*State.* `transactions`, `resources`, `stage`, `result`, `correlation` are
`State::transactions`; `instance` is the state the manager keeps of each proxy,
`proxy` and `inbox` what the proxy process and its queue really are;
`pendingRequests` and `persistentReplies` have the names of the code; `log` and
`durable` are the rows of the log in the open sqlite transaction and on disk;
`pc`, `unsent`, `exiting` say where the pump is. `branch`, `client`, `sent`, `received`,
`own`, `calls`, `alive`, `deaths` are the environment. Stages and results are the
numbers of the enumerations, because `Transaction::stage()` and `results()` take
minima.

*Actions.* `Commit`, `Rollback`, `Involved`, `Exit`/`ExitRollback`, `ReplyWrapper` with one
disjunct per handler and outcome, `Connect`, `Instances`: the handlers of
`handle.cpp`, each with everything it sends. `WriteBatch`, `SendBatch`, `EndBatch`: the end
of a batch in `manager.cpp`; a batch can end after any message, since the pump
reads without blocking and stops when there is none. `ProxyOpen`, `ProxyRequest`,
`ProxyShutdown`: `resource/proxy.cpp`. `Receive`, `Abort`, `GiveUp`, `Die`: the owners. An
owner reads the first message with the correlation of its request, whatever type it
has (`Expected`, `ipc::call`); one of another type than it unmarshals into (`ReplyType`)
fails the assertion of `marshal::complete`, and the process aborts. The broker tells the
manager of an owner that has ended either way (`Ends`).

*Scheduling as a value.* The handlers that send requests pass a record (`Scheduling`)
of instances, queues and pending requests through `SendRequest` and `Done`, so that a
handler that frees an instance and then sends is one step.

### 3.2 QueueGroup

*State.* `db` is the database in the open sqlite transaction, `disk` the one on
disk; a row has its queue, gtrid, state and redelivered count. `requests` and
`enqueued` are `State::Pending`; `serving` and `remaining` are the loop of
`pending::replies`, one request per step; `persistent` is `State::persistent`.
A pended request says in `waiting` whether its client still waits for the reply to
it: a request is pended twice when it finds no message, and the copy that is left
takes a message that no client reads. `writer`, `taken`, `acked`, `consumed` are history
for the properties, and so is `late`, the transactions in which a request was
served after they had been settled.

*Actions.* One per handler of `handle.cpp`; `Persist` is the end of a batch with as
many of the replies as could be sent; `Crash` loses what is not on disk. An
exception that leaves a handler ends the process after the batch is committed,
because `scoped::write` commits in its destructor
(`src/thirdparty/database/include/sql/database.h:457`): `Restart(db)`.

*Data.* A message is its number, which is also its timestamp. Payload and
properties are left out; a selector is a message id or 0 for any. Messages that
become available later (`avalible`) are not modelled.

### 3.3 ServiceBroker

*State.* `instance` is what the broker knows of each pid and `process`, `queue` what
is so; `advertised` and `offers` are the two directions of the registry; `services`
the names (never removed); `pending` is `pending.requests`. A caller's state says
how far `Context::async` is: *granted* is an instance it got at once, *offered* one
it got after it had waited, where the reply may still be unread.

*Actions.* `Connect`, `Advertise`, `Unadvertise`, `HandleLookup`, `HandleForwardLookup`,
`HandleAck`, `HandleDeath`, `Scale` are the broker's handlers; `Serve`, `Exit`, `Kill` the
servers; `Lookup`, `Call`, `Timeout`, `Die` the callers; `ForwardCall` the cache.

*Simplifications.* All instances belong to one server that is restarted;
instance numbers are pids and grow. `Serve` is one step: the server's ACK
goes out before the reply, and nothing the broker does in between changes what
the caller gets. Handing a no-reply call to the cache and the cache's lookup are
one step with the broker's answer. A shutdown message that does not fit in a
queue is not modelled.

### 3.4 InboundDevice and Mailbox

*State.* `queue` is the System V queue with its bound; `sending` says which part of
which message a sender is at; `cache` is `Device::m_cache`, each entry with the ranges
of its payload that are still missing (`message::Complete`), `discarded` is
`m_discarded`, `wanted` the predicate of the receive under way. The bytes of a payload
are known by the message they come from, so a payload put together from two
messages, or with a hole, shows.

*Actions.* `Send`, `SendNext`, `Refuse` (a non-blocking send that finds the queue full, also
half way), `Die`; `Receive`, `Read`, `GiveUp`, `Discard`, `Push` for the device.

*Refinement.* `Mailbox` has the messages `posted`, in order, those that are `gone` (received or
discarded), those that may be `late`, what is `wanted` and what was `got` last. The
mapping takes `sent`, the messages completely sent in the order of their last parts, for `posted`,
and whatever was handed out, dropped or discarded for `gone`; of what was got it keeps which
message it was. A part that is not the last of its message, and a part that is read but does
not lead to a message being handed out, are stutters.

The ranges that an entry misses are a recursion-free function (`Missing`, `Overlap`, `Subtract`), so
that proofs can be about it. `std::partition` may change the order of the ranges it keeps, `Missing`
does not; `OneRangeMissing` says that there is one at most.

### 3.5 QueueBroker

*State.* `groups`, `queues`, `involved` and `correlation` are the broker's `State`; `cache` and
`inbox` are its device and its ipc-queue; `mode` says whether it pumps or waits in
an administrator's call. `active` is the work in the database of each group: only the
group takes it out, when it has committed or rolled back, and a handler that throws
leaves it there, though the broker forgets the group. `owed` says who still has to do its
part of the last request; `merged` and `failed` are history: the transactions of which
a reply was overwritten in the cache, and those of which the proxy was told by
XAER_RMFAIL that a group has not done its part.

*Actions.* `Connect`, `Pump` with one operator per handler, `Signal`, `Admin` and `AdminRead` are the
broker; `Work`, `Tell`, `Resolve`, `Inform` a group; `Lookup`, `NoQueue` a client; `Request` and
`Return` the xa-switch.

### 3.6 TransactionContext

*State.* `stack` is `m_transactions`, each with its state, registered resources, associated
descriptors and `m_local`; `outside` is the static transaction that `current()` gives for an
empty stack; `active` are the reserved descriptors; `calls` is every call with its
request or reply. `xa` is what the resource managers and the manager know:
which transaction each process is working in or has suspended, which branches
exist, who was reported as involved, how a transaction ended. `stranded` and `failed`
are history.

*Actions.* One per function of the TX interface; `Call`, `CallFails`, `GetReply`, `Cancel` of the call
context; `Serve`, `Return`, `ReturnThrows`, `Forward` of a server. `Return` is the whole of
`finalize`: pending replies are cancelled, owned transactions committed or rolled
back, the caller's transaction reported and ended. The code walks over the stack;
no transaction is on a stack twice while calls do not come back (`Uniq`, proved in
section 6), so what is done for one does not depend on the order, and `Settled` says
it for all of them at once.
`ReturnThrows` is `finalize` when `cancel` throws; the exception is swallowed by
`scope::Execute` and the reply goes out as it is.

*Environment.* The code ignores what the resource managers answer to `xa_start`
and `xa_end`, so a call they must refuse has no effect. A commit can succeed only
if every resource manager asked knows the transaction, and can fail whenever
one is asked. What the user's code of a process does is the constant `Program`.

## 4. Runs

Every run is in `PROJECT.json` with its properties. Deadlock is not checked:
each instance bounds the work, and a domain with no work left is at rest.

| run | instance | shows |
|---|---|---|
| `tm_two_phase` | 2 transactions, 2 resources, 1 proxy each, all answers to prepare and to commit | requests queue for busy proxies; two-phase commit and log are right, and the last reply is the end |
| `tm_faults` | 1 transaction, 3 resources and an unknown one, owner may die or give up and ask again, full queue, late servers | no double requests, no stale rows, nothing under way after the last reply; implements `AtomicCommit` |
| `tm_scaling` | 3 transactions, 1 resource, 1 to 2 proxies, failing starts | the manager's view of its proxies; no request beside an idle proxy |
| `tm_liveness` | 1 transaction, 3 resources that may refuse to prepare, full queue, owner may die | every call is answered unless its owner ends; what an owner leaves, also one that aborts, is resolved |
| `tm_prepare_fails` | 1 transaction, 2 resources that may refuse to prepare | violated: the owner's reply has the wrong type, and it aborts |
| `qg_messages` | 2 clients, 2 transactions, 2 messages, 1 retry, 1 crash, 1 death | counters, durability, retries, cleaning up |
| `qg_lost_waiter` | 2 clients, 1 message | violated: a blocked client is forgotten |
| `sb_schedule` | 2 callers with 3 calls, 2 services, 2 instances, timeouts, a kill, a death, one change of the number of instances | registry, exclusive use, forward cache, order |
| `sb_instance_leak` | 2 callers, 1 service, timeouts only | violated: an instance is busy for nobody |
| `ipc_delivery` | 2 senders, 3 messages of up to 2 parts, a queue of 2 parts, 1 event; a refused send, a discard, a death | payloads are whole; implements `Mailbox`; what is asked for and there is received |
| `qb_forward` | 2 groups that share a queue name, one failing, 1 transaction asked for twice, 1 death, 1 administrator's call | answers are true until a failure has been told of; requests are accounted for and answered but for a death or an overwritten reply |
| `tc_calls` | a client and a chain of 2 servers, 3 resource managers, 2 calls, 3 transactions, all modes and controls | commits reach all work, failures reach the owner, association, finality of outcomes |

*Why these bounds.* Atomicity needs two resources, and three for a late resource
to meet both a finished and an open one. Sharing of proxies needs more
transactions than proxies: three against one or two. A second request per owner
reaches every stage at which a repeated request can arrive. In the queue group
the second message lets a move to the error queue meet another transaction's
row, and two transactions are what one retry needs to be used up. In the broker
three calls of two callers are what it takes for one call to hold the instance
while two others wait in order; two services separate a waiting lookup from an
ACK that cannot serve it. `Batch` is 2 in the queue runs instead of 100: what
counts is that a batch holds more than one reply and is cut short. The device's
queue of two transports is smaller than what is sent, so that parts of two
messages meet in it and a send stops half way. Two groups are what a partial
answer needs, and the second request is what an old reply could complete. In
`tc_calls` a failure or a resource two calls away from the owner needs three
processes; the client's second transaction is the stacked or chained one. The
calls form a chain, and `NoCallBack`, the hypothesis of some theorems, is checked of the
instance by an ASSUME of the MC module: see section 5 for a ring. The run does not go beyond the
first state in which a process has left a transaction behind (`NothingLeftBehind` as
constraint), since its properties speak of the time before.

*Symmetry* is used in `tm_two_phase` and `tm_scaling`, which check
invariants only and whose constants are symmetric.

*Fairness* (`FairSpec`, in the liveness runs). Weak fairness of the manager's and
the proxies' steps: each is a loop that reads its queue and runs a handler to
the end. Weak fairness of `Receive` and `Involved`: owners and servers run. Strong
fairness of a successful send in `SendBatch`: the manager tries at the end of each
batch, and an owner that runs empties its queue now and then. Nothing is
assumed of commits, deaths, timeouts or the administrator. In `ipc_delivery` only
`Read` is weakly fair: a blocked `msgrcv` returns when there is a transport. In
`qb_forward` the broker's pump, its wait for the groups, and the groups are weakly
fair, as long as they run.

## 5. Disagreements between code and comments

Each of these is a violation run, with the line it contradicts in `PROJECT.json`.

1. `common/include/common/marshal/binary.h:353`, "assert( complete.type ==
   message.type());": a refused prepare ends in a rollback reply with the correlation of
   the commit (`transaction/source/manager/handle.cpp:753`, `780`). The owner receives by
   correlation only, reads it into a commit reply, and aborts. Built with `NDEBUG`, which
   no makefile of the repository defines, it would take it for the first of two replies
   and wait for the second.
2. `queue/source/group/handle.cpp:60`: a blocked dequeue that finds no message left is
   dropped.
3. `common/source/call/context.cpp:225`: the ACK a caller sends when its deadline
   passes names no instance while it waits for one.

Seen in the models, without a run of their own:

* Transaction manager. The result of a second-phase (or one-phase) commit is
  never stored, so a failed commit is reported as XA_OK (`handle.cpp:632-652`).
  `CommitReplyTrue` states that the reply is true; it fails on the instance of
  `tm_two_phase`, where resources may refuse a commit (`CommitResults <- CommitAny`), and no
  passing run or theorem rests on leaving that case out of it. A proxy told to shut down becomes
  idle when it replies, and is given a pending request that it never reads
  (`handle.cpp:230-260`; `RequestAccounted` fails with three transactions, `Concurrency <- Two`,
  `ScaleTo = {1}`). When every resource of a two-phase commit answers
  read-only, no commit reply is sent (`handle.cpp:547`): `Answered` is checked of resources
  that do not answer so. A commit reply is delayed so
  that it "arrives after the prepare-reply" (`handle.cpp:677`), but the
  `std::partition` of `manager.cpp:272` reorders replies when one could not be sent. A commit that
  arrives while a rollback is under way is accepted (`handle.cpp:861`). A server that
  reports a resource after its owner's death has been handled creates a
  transaction nobody ends (`handle.cpp:323`), which is why `OrphanResolved` is checked
  with `LateInvolved = FALSE`.
* Queue group. A request that gets no message is pended twice (`handle.cpp:71` and
  `200`); `Pending::forget` erases the first copy only. The second outlives the call and, like
  the request of a client that has died, takes a message in a transaction that may
  be settled, which then nobody commits or rolls back. `OutcomeDurable` therefore speaks
  of the transactions that are not `late`. A message taken for a client that is gone
  also leaves the count of `remaining` as it was. A message enqueued but not committed before a client blocks does not
  wake it (`group.cpp:40`). Replies to clients that have died end the process in
  the direct handlers (`handle.cpp:159`, `215`), and lose the message for a pended
  request without a transaction (`76`). Opening the database resets the
  counters of the group's error queue (`database.cpp:169`), so `CountersAgree` leaves that
  queue out.
* Broker. Connect and Advertise serve no pending lookup (`handle.cpp:720`). A send
  to a dead caller ends the broker (`777`). ACK makes an instance idle that was
  flagged shutdown (`839`), and so does Connect. The death of an executable throws
  before it is removed (`597`), and removing a dead listener also removes all that
  are sorted after it (`572`).
* Queue broker. Messages that arrive while an administrator's call waits for the
  groups go through the cache of the device. The replies of two groups to one
  commit have one correlation, and `Device::cache` takes the second for a part of the
  first: the proxy is never answered. `AlwaysAnswered` states it without the exceptions of
  `Answered`; it fails with no death and no failing group. When a group answers
  XAER_RMFAIL its work stays in its database (`group/handle.cpp:280-284`, `312-316`), but
  the broker forgets who was involved (`broker/handle.cpp:281`), and answers a second
  request XAER_NOTA: `AnswerAlwaysTrue`, without the exception of `AnswerTrue` for what has
  been told to have failed, does not hold. Both the broker and a group
  block when the other's ipc-queue is full.
* Inbound device. A dead process event that the error handler pushes during a
  blocking receive lies in the cache until another transport comes
  (`device.h:280`): `EventHandled` fails.
* Transaction context. (a) `Context::pending` is documented as telling of transactions
  "owned by this process" (`context.h:122`) but looks for the others: a service with
  an owned transaction can forward, and leaves it on the stack with its resource
  managers at work. (b) A call that fails after its descriptor is associated
  (`call/context.cpp:221`), or one cancelled in a transaction to be rolled back, makes
  `finalize` throw: nothing is settled, in spite of "Regardless, we will consume every
  transaction", and the caller is not told to roll back. `ServerClean` states what
  should hold of an idle server; it fails in both ways, and `CommitCoversWork` and
  `FailureHonoured` are checked and proved of the time before (`NothingLeftBehind`). (c) The stacked mode resumes the outer transaction with `xa_end`
  (`context.cpp:1106`), so that its static resource managers work in none. When no
  transaction is left it reads `back()` of an empty vector. (d) A transaction stays current after
  a failed commit; without a static resource manager at the owner it can be
  committed after it was rolled back. (e) With calls in a ring, a server whose
  owned transaction was rolled back can be called in it by a late callee, and
  commits it as its owner. (f) The stack grows by one null transaction for every
  unchained or chained transaction.

## 6. Proofs

* `TransactionManagerProofs!TypeCorrect`: `Spec => []TypeOK`. One lemma per operator that
  builds a value (`SendRequestType`, `DoneType`, ...) and one per group of handlers. The
  minima of `Transaction::stage` and `results` need `LeastNatural`, which is proved from
  well-foundedness of `<` on the naturals.
* `TransactionManagerProofs!RequestsScheduled`: `Spec => []PendingOnlyWhenBusy`, for any number
  of transactions, resources, instances and any scaling. The invariant is
  inductive together with `TypeOK`. The argument: a request is pended only for
  resources without an idle instance (`SendRequest` looks at the vector of every
  one), an instance becomes idle only in `Done` and in `Connect`, and there the first
  pending request for the resource takes it.
* `AtomicCommitProofs!AtomicCommitConsistent`: `AtomicCommit!Spec => []Consistent`. Inductive with
  the type of `branch`: a step to *committed* looks at every other branch, and so
  does a step to *rolledback*.

* `TransactionManagerProofs!InstancesAccounted`: `Spec => []InstanceAccounted`, for any scaling
  and any failures to start. The invariant `Placed` says for each state the manager may
  believe an instance to be in what its process, its queue and its unread messages
  are: an instance that has not connected has nothing in its queue and has spoken once
  at most, an idle one is running and has nothing, a busy one has one request or one
  answer. Of one that was told to shut down nothing is said: there the manager is wrong
  (section 5). It needs that the instances of a resource are the first of their vector
  (`Vector`), or `Instances` could spawn one over another; `SizeIs` shows that the size of
  the vector is then the place of the last one.
* `TransactionManagerAtomicity`: the two-phase commit, for any number of transactions, resources, proxies and processes. Nothing about one
  variable is inductive here: whether a branch may be committed depends on the
  stage in the manager, the row on disk, the replies being sent and the requests
  under way. So the invariant `IInv` says of each transaction that it is in one
  *phase*: `Fresh` (nothing has been asked of its resources), `OnePhase`, `Aborting`,
  `Voting`, `Committing`, `Settled`. Each phase says what the manager's stages
  and results, the log and the disk, the branches and the owner can be together, and
  which requests, answers and replies can be on their way; and in all of them
  at most one request is under way for a resource (`AtMostOne`). A step about one
  transaction leaves the phase of the others alone (`OthersFramed`, `Framed`), which
  leaves one lemma per handler: from which phase to which it leads. The theorems are
  `AtomicityHolds`, `CommitsPrepared` (`CommitOnlyPrepared`), `DecisionsDurable` (`DecisionDurable`),
  `RowsRemoved` (`NoStaleRows`), and `ManagerImplementsAtomicCommit`: a step of a resource
  manager, or of work in a branch, is a step of `AtomicCommit`, every other one is a
  stutter.

  They have the hypothesis `PromiseKept`: the XA promise that a resource that has prepared
  commits when it is asked to, and that one asked to commit in one phase commits or
  rolls back. It is needed: the manager does not store the result of a commit
  (section 5), so after one that failed an owner whose wait was interrupted and who asks
  again is served from a state in which the branch may still be rolled back.
* `TransactionManagerAtomicity!RequestsAccounted`: `RequestAccounted`, until an instance is
  told to shut down (`NoneRetired`). The hypothesis is needed: the queue of an instance that
  goes is lost with the request the manager still gives it (section 5). Nothing is
  assumed of the resources here, a second-phase commit may fail; so the phases, which
  rest on `PromiseKept`, are of no use, and there is an invariant of its own. `Single` says
  that an answer is the only thing on its way for its resource, else there is one request
  at most. `Course` relates what is asked to the stages: prepare and commit are not on
  their way together; a transaction that is being decided is `Closed`, that is no
  server will still get involved and nothing is at the first stage; and one that is rolled
  back is closed too, or its owner is dead (`Orphaned`), or has asked for the rollback
  and will never learn of a failure that lets it ask for a commit (`Leaving`). Without
  the last one a resource that a server brings in late could be asked to commit
  while others are rolled back, and their replies would be matched to the wrong
  request. `RetiredStays` shows that no step takes back a shutdown.
* `TransactionManagerAtomicity!FinalReplies`: `FinalReply`, under the same hypothesis. On top
  of `Course`, `Ended` says that no reply and no stored correlation is ahead of the
  owner's requests, and that a last reply with the correlation of the owner's last request finds every
  resource without a request (`Quiet`). A new request is newer than all that was told
  (`EndedAsked`); an answer that is read shows that nothing final was told before it, and
  what is told now waits for the least stage, at which no request is left (`EndedAnswered`).
* `QueueGroupProofs`: `GroupTypes`, `CountersAlwaysAgree`, `AcknowledgedDurable`
  (`AtomicEnqueueDurable`), `OutcomesDurable`, `RetriesAlwaysBounded`, `DeadAlwaysForgotten`, for any number of
  clients, queues, messages, crashes and batches. The invariant `GroupInv` says of the database in
  memory and of the one on disk alike that they are `Sound`: the counters are the
  numbers of the rows they count, a message that was never committed was never
  redelivered, ids are new. Beside it stand what a persistent reply promises
  (`Acknowledged`: it is in the memory's database, so on disk after the batch) and what
  must be known of a transaction (`Outcomes`: whoever works in it has its work in the
  database, whoever was told has his outcome there). Counters are shown to agree by
  counting what a statement moves (`Rebalanced`, `Recounted`): `rollback3` moves rows of other
  transactions too, but changes neither their state nor their gtrid, and that is
  what `Outcomes` needs. The messages that `pending::replies` walks over come from a recursive
  function (`ElementsAt`); what is needed of it is proved by a least counterexample.
* `QueueBrokerProofs`: `BrokerTypes`, `AnswersTrue`, `QueuesAreServed`, `RepliesAccounted` (`PendingAccounted`),
  for any number of groups, clients and proxies, deaths included. `BrokerInv` is about the one
  sequence `Way == cache \o inbox` in which the broker will handle what has been
  sent to it, whether it pumps or waits in an administrator's call. Whatever a group has in
  its database is known to the broker, or its Involved is on the way, or a request to end it
  is before the group, or the group has failed (`Taking`); the Involved stands in `Way` before the
  request of the proxy. From the request on, a group that has work in the transaction is
  `Known` to the broker or `Asked`, and once the broker has collected its answer it is `Done` or
  the transaction has `failed` (`Owing`). A request that was forwarded
  is a token of group, transaction and number that is in one place only: before the group,
  in its reply, or used (`Tokens`). Replies are matched by transaction alone, so an
  answer could be completed by the reply to an older request; `Stale` says that one is
  left only where an involved group could not be reached (`Broken`), and then no later
  request of the transaction is answered as done by all.
* `ServiceBrokerProofs`: `RegistryAlwaysConsistent`, `TypesCorrect`, `ExclusiveAlways`,
  `ForwardAlwaysKeepsCalls`, and the action property `FirstIsServedFirst` (`FirstComeFirstServed`), for any number
  of callers, services and instances, whatever dies, times out or is scaled. The
  registry: every step but one keeps all spawned instances spawned
  (`GrantRemovesNone`, `UpdateRemovesNone`), which is all an entry needs; `HandleDeath` removes
  one, and there both directions agreeing beforehand is what makes the walk over
  `offers[i]` find every service that refers to it. Exclusive use: `Scheduling` says that an
  instance has at most one holder: a caller that was granted it, an entry of the forward
  cache, a call in its queue, or an ACK on its way; and none while it is idle or has not connected;
  ACK and Connect are the steps that make it idle. The forward cache (`Kept`) rests on
  it: an instance granted twice would be one entry for two calls.
* `InboundDeviceProofs`: `DeviceTypes`, `DeviceIntact` (`Intact`), `DeviceOneRange` (`OneRangeMissing`) and
  `DeviceImplementsMailbox` (`ImplementsMailbox`), for any number of senders, messages and events, any sizes, and any
  capacity of the queue. That payloads are whole is not inductive: it depends on what is still in the
  queue. `DeviceInv` says that a part which does not begin its message follows the one before it
  in the queue, or the cache has got that far (`Preceded`: also for a sender in the middle of a
  message, and for tries that failed half way and began again); that nothing of a message
  comes after its last part (`Cut`), so nothing of it is left when it is handed out (`Stored`,
  `Finished`); hence an entry of the cache is whole, or goes up to one byte without a hole (`Whole`,
  `Partial`). `Complete::add` is shown to do so with any part that does not begin beyond that
  byte (`Added`). For the refinement the invariant also says where a message is that can be received
  (`Arrived`), and that of two messages of one sender, neither of them refused half way, the
  earlier is ahead in the queue and in the cache, and has left the queue when the later is cached
  (`Ordered`); that is why the first entry found is the one `Mailbox` allows to be taken (`FirstFound`).
  The proof of `Ordered` needs that a sender is at one message at a time and leaves nothing
  behind of one that it has not given up (`Doing`).
* `TransactionContextProofs`: `TypesCorrect` (`TypeOK`), `AssociationIsCurrent`
  (`AssociationCurrent`), `CommitsCoverWork` (`CommitCoversWork`),
  `FailuresAreHonoured` (`FailureHonoured`) and the action property `OutcomesAreFinal` (`OutcomeFinal`), for any
  clients, servers, resources, transaction modes and programs. The first two follow from
  `Inv`: a reserved descriptor belongs to one waiting call (`Descriptors`), a server serves
  one running call (`Serving`), nothing is known of a transaction that was not started
  (`Fresh`), and what ties the stack of a process to its resource managers, its caller and
  the transactions it has started (`Assoc`). A stack is handled by what holds of all its
  entries and of the last one. Removing a descriptor is a fold (`Without`); what it leaves is
  shown by a least counterexample (`WithoutRecursion`), in place of an induction.

  The other three compare processes. Their hypothesis is `NoCallBack`: there is an order of
  the processes that every call follows. Then the owner of a transaction is above every
  process that works in it (`Order`). `Agreed` says of each transaction that it is
  `Sound`: whoever works in it is reached from the owner along descriptors that are
  associated with it, all is well there, and the commit of the owner reaches every branch
  (`Covered`: reported to the manager, or on a stack that will report it); or that what
  went wrong is `Evident`: the owner sees, or will see in a reply, that it cannot
  commit. The hypothesis is needed: on a ring a late callee can call the owner in its
  own transaction, and `FailureHonoured` fails (section 5, (e)). `OutcomeFinal` needs `Order` and a
  resource manager that only the owner uses (`Private`, part of the property), because
  nothing in `Context` remembers that a commit has failed.

Before they were proved the inductive invariants were checked with TLC, on the
instances of section 4 and on larger ones (millions of states); they hold there at
every reachable state.

*Assumptions.* The named ASSUMEs of the modules: known ids are among the ids that
occur in messages, every transaction has an owner, numbers are numbers, pushed events are no messages of senders, the
resource managers and the clients are finitely many (`FiniteAssumption`), there
is a service (`ServiceAssumption`). TLC evaluates them in every run. The
hypotheses that not every use of the code meets are in the theorems that need them:
`PromiseKept` (results of the resource managers), `NoneRetired` (no instance has been
told to go), `NoCallBack` (calls go in one direction).

*Not proved.*

* Liveness, which is out of the prover's reach: `Answered` and `OrphanResolved` of
  `TransactionManager`, `Delivered` of `InboundDevice`, `Answered` of `QueueBroker`. Every invariant,
  action property and refinement that a passing run checks has a theorem.
* Nothing says what becomes of the requests when instances go: `RequestAccounted` does not
  hold then (section 5), and `FinalReply` is proved only while none goes. The run that
  takes proxies away checks `InstanceAccounted` and `PendingOnlyWhenBusy`, which are proved.
* The deliberately violated properties.

## 7. Not modelled

* Recovery of the transaction log: `Log::logged` is called by tests only, so a
  manager that restarts knows nothing of earlier decisions. There is nothing to
  model until the code reads it.
* `handle::domain` of the manager and the gateway: no part of the repository
  sends these messages; the gateway is a skeleton.
* The deadlines of transactions and calls (an interrupted wait is an action of the
  modules), a transaction manager that cannot be reached.
* Boot order, groups of servers, executables, singletons, and the shutdown of
  the domain.
* Run-time changes of queues (`Database::update`), the `avalible` time of messages,
  `xa_recover` of the queue switch (a TODO).
* Buffers, configuration, archives, xatmi wrappers, tools, traffic monitor, web,
  nginx plugin, Python binding, administration programs, build files, tests and
  third-party code: data formats and front ends without a protocol of their own.

-------------------------- MODULE QueueGroupProofs --------------------------
(***************************************************************************)
(* Theorems about the queue group: its database is sound at every moment,  *)
(* in memory and on disk; what was answered, for an enqueue or for a       *)
(* transaction, stays true through crashes; no request of a dead client is *)
(* left behind.                                                            *)
(***************************************************************************)
EXTENDS QueueGroup, FiniteSetTheorems, WellFoundedInduction, TLAPS

-----------------------------------------------------------------------------
(* The inductive invariant.                                                *)

\* What is enqueued, and what is being sent, stays within the bound.
Sending == {c \in Client : client[c].op = "enqueue" /\ client[c].stage = "sent"}
Bounded == next + Cardinality(Sending) <= MaxMessages

\* The rows that the counters of queue q count.
CommittedIn(d, q) == {m \in Message : Committed(d, m) /\ d.message[m].queue = q}
AddedIn(d, q) == {m \in Message : d.message[m].state = cAdded /\ d.message[m].queue = q}
Counted(d) ==
    \A q \in QueueId \ {GroupError} :
        /\ d.count[q] = Cardinality(CommittedIn(d, q))
        /\ d.uncommitted[q] = Cardinality(AddedIn(d, q))

\* A message that was never committed was never redelivered, and no message
\* was redelivered more often than its queue allows.
Redelivery(d) ==
    \A m \in Message :
        /\ d.message[m].state = cAdded => d.message[m].redelivered = 0
        /\ d.message[m].redelivered <= RetriesOf(d.message[m].queue)

\* Message ids are new.
Fresh(d) == \A m \in Message : m > next => d.message[m].state = cAbsent

Sane(d) == d \in Database /\ Counted(d) /\ Redelivery(d)
Sound(d) == Sane(d) /\ Fresh(d)

\* A request comes from a client of whose death the group has not read.
Known ==
    /\ \A i \in DOMAIN requests : requests[i].client \in alive \cup deaths
    /\ \A i \in DOMAIN serving : serving[i].client \in alive \cup deaths
    /\ \A c \in Client : client[c].stage = "sent" => c \in alive \cup deaths

\* A message that was, or will be, acknowledged is there or was dequeued.
Kept(d, m) == Committed(d, m) \/ m \in consumed
Acknowledged ==
    /\ \A m \in acked : Kept(db, m) /\ Kept(disk, m)
    /\ \A r \in persistent : r.type = "enqueue" => Kept(db, r.message)

\* The work of a transaction whose outcome the group has not seen yet.
Added(d, t, m) == d.message[m].state = cAdded /\ d.message[m].gtrid = t
Holds(d, t, m) == d.message[m].state = cDequeued /\ d.message[m].gtrid = t
Work(d, t) ==
    \A m \in Message :
        /\ writer[m] = t => Added(d, t, m)
        /\ m \in taken[t] => Holds(d, t, m)
Underway(t) == transaction[t] \in {"active", "doomed", "commit", "rollback"}

\* The queue broker knows of every transaction that can still be committed.
Involvement(t) ==
    transaction[t] = "active" /\ t \notin involved =>
        \A m \in Message : writer[m] # t /\ m \notin taken[t]

\* The outcomes, as they show in a database.
CommittedOutcome(d, t) ==
    \A m \in Message :
        /\ writer[m] = t => Kept(d, m)
        /\ m \in taken[t] => d.message[m].state = cAbsent
RolledbackOutcome(d, t) ==
    \A m \in Message :
        /\ writer[m] = t => d.message[m].state = cAbsent
        /\ m \in taken[t] => ~ Holds(d, t, m)

CommitReply(t) == [type |-> "commit", trid |-> t]
RollbackReply(t) == [type |-> "rollback", trid |-> t]
Replied(t) ==
    CommitReply(t) \in persistent \/ RollbackReply(t) \in persistent =>
        transaction[t] = "handled"
Outcome(t) ==
    /\ CommitReply(t) \in persistent => CommittedOutcome(db, t)
    /\ RollbackReply(t) \in persistent => RolledbackOutcome(db, t)
    /\ transaction[t] = "committed" => CommittedOutcome(db, t) /\ CommittedOutcome(disk, t)
    /\ transaction[t] = "rolledback" => RolledbackOutcome(db, t) /\ RolledbackOutcome(disk, t)

\* A message handed over or written is one that was enqueued.
Written ==
    /\ \A m \in Message : writer[m] # NoTrid => m <= next
    /\ \A t \in Trid : \A m \in taken[t] : m <= next

Outcomes ==
    /\ Written
    /\ \A t \in Trid : (Underway(t) => Work(db, t)) /\ Involvement(t) /\ Replied(t)
    /\ \A t \in Trid \ late : Outcome(t)

GroupInv ==
    /\ TypeOK /\ Bounded
    /\ Sound(db) /\ Sound(disk)
    /\ Known
    /\ Acknowledged
    /\ Outcomes

-----------------------------------------------------------------------------
(* Numbers, sets and sequences.                                            *)

\* A set of naturals has a least element.
LEMMA LeastNatural ==
    ASSUME NEW T \in SUBSET Nat, T # {}
    PROVE  \E x \in T : \A y \in T : x <= y
<1> DEFINE R == {ss \in Nat \X Nat : ss[1] < ss[2]}
<1>1. IsWellFoundedOn(R, Nat)
    BY NatLessThanWellFounded, Zenon DEF OpToRel
<1>2. \E x \in T : \A y \in T : ~ (<<y, x>> \in R)
    <2> HIDE DEF R
    <2> QED BY <1>1, WFMin, Zenon
<1>3. PICK x \in T : \A y \in T : ~ (<<y, x>> \in R)
    BY <1>2
<1>4. ASSUME NEW y \in T PROVE x <= y
    <2>1. <<y, x>> \notin R /\ x \in Nat /\ y \in Nat
        BY <1>3
    <2>2. ~ (y < x)
        BY <2>1
    <2> QED BY <2>1, <2>2
<1> QED BY <1>4

\* The oldest message is one of the messages.
LEMMA MinIn ==
    ASSUME NEW T \in SUBSET Nat, T # {}
    PROVE  Min(T) \in T
BY LeastNatural DEF Min

\* ElementsAt is computed by the recursion it is defined with.
LEMMA Recursion ==
    ASSUME NEW S, NEW s \in Seq(S), NEW K
    PROVE  \E f \in [0 .. Len(s) -> Seq(S)] :
              /\ ElementsAt(s, K) = f[Len(s)]
              /\ f[0] = <<>>
              /\ \A n \in 1 .. Len(s) :
                    f[n] = IF n \in K THEN Append(f[n - 1], s[n]) ELSE f[n - 1]
<1> DEFINE step(g, n) == IF n = 0 THEN <<>>
                         ELSE IF n \in K THEN Append(g[n - 1], s[n]) ELSE g[n - 1]
           good(g, n) == g \in [0 .. n -> Seq(S)] /\ \A k \in 0 .. n : g[k] = step(g, k)
           bad == {n \in 0 .. Len(s) : ~ \E g : good(g, n)}
<1>0. Len(s) \in Nat /\ DOMAIN s = 1 .. Len(s) /\ \A n \in 1 .. Len(s) : s[n] \in S
    OBVIOUS
<1>1. \E g : good(g, Len(s))
    <2> SUFFICES ASSUME ~ \E g : good(g, Len(s)) PROVE FALSE
        OBVIOUS
    <2>1. Len(s) \in bad /\ bad \in SUBSET Nat
        BY <1>0
    <2>2. PICK n \in bad : \A k \in bad : n <= k
        <3> HIDE DEF bad
        <3> QED BY <2>1, LeastNatural
    <2>3. n \in 0 .. Len(s) /\ ~ \E g : good(g, n)
        BY <2>2
    <2>4. CASE n = 0
        <3>1. good([k \in 0 .. 0 |-> <<>>], 0)
            BY SMT
        <3> QED BY <2>3, <2>4, <3>1
    <2>5. CASE n # 0
        <3>1. n - 1 \in 0 .. Len(s) /\ n - 1 \notin bad
            <4>1. n - 1 \in 0 .. Len(s) /\ ~ n <= n - 1
                BY <1>0, <2>3, <2>5
            <4> HIDE DEF bad
            <4> QED BY <2>2, <4>1
        <3>2. PICK g : good(g, n - 1)
            BY <3>1
        <3> DEFINE h == [k \in 0 .. n |-> IF k < n THEN g[k] ELSE step(g, n)]
        <3>3. g \in [0 .. n - 1 -> Seq(S)] /\ \A k \in 0 .. n - 1 : g[k] = step(g, k)
            BY <3>2
        <3>4. g[n - 1] \in Seq(S) /\ s[n] \in S /\ n \in Nat
            BY <1>0, <2>3, <2>5, <3>3
        <3>5. Append(g[n - 1], s[n]) \in Seq(S)
            BY <3>4
        <3>6. h \in [0 .. n -> Seq(S)]
            BY <2>5, <3>3, <3>4, <3>5
        <3>7. ASSUME NEW k \in 0 .. n PROVE h[k] = step(h, k)
            <4>1. CASE k = n
                BY <2>5, <3>4, <4>1
            <4>2. CASE k # n
                <5>1. k \in 0 .. n - 1 /\ h[k] = g[k]
                    BY <3>4, <4>2
                <5>2. g[k] = step(g, k)
                    BY <3>3, <5>1
                <5>3. k # 0 => h[k - 1] = g[k - 1]
                    BY <3>4, <5>1
                <5> QED BY <5>1, <5>2, <5>3
            <4> QED BY <4>1, <4>2
        <3> HIDE DEF h
        <3>8. good(h, n)
            BY <3>6, <3>7
        <3> QED BY <2>3, <3>8
    <2> QED BY <2>4, <2>5
<1> DEFINE upTo == CHOOSE f : f = [n \in 0 .. Len(s) |-> step(f, n)]
<1>2. PICK g : good(g, Len(s))
    BY <1>1
<1>3. g = [n \in 0 .. Len(s) |-> step(g, n)]
    <2>1. g \in [0 .. Len(s) -> Seq(S)] /\ \A k \in 0 .. Len(s) : g[k] = step(g, k)
        BY <1>2
    <2> HIDE DEF step
    <2> QED BY <2>1
<1>4. upTo = [n \in 0 .. Len(s) |-> step(upTo, n)]
    BY <1>3, Zenon
<1>5. ElementsAt(s, K) = upTo[Len(s)]
    BY Zenon DEF ElementsAt
<1> HIDE DEF upTo
<1>6. \A n \in 0 .. Len(s) : upTo[n] = step(upTo, n)
    <2> HIDE DEF step
    <2> QED BY <1>4
<1> DEFINE wrong == {n \in 0 .. Len(s) : upTo[n] \notin Seq(S)}
<1>7. wrong = {}
    <2> SUFFICES ASSUME wrong # {} PROVE FALSE
        OBVIOUS
    <2>1. wrong \in SUBSET Nat
        BY <1>0
    <2>2. PICK n \in wrong : \A k \in wrong : n <= k
        <3> HIDE DEF wrong
        <3> QED BY <2>1, LeastNatural
    <2>3. n \in 0 .. Len(s) /\ upTo[n] \notin Seq(S) /\ upTo[n] = step(upTo, n)
        BY <1>6, <2>2
    <2>4. n # 0
        BY <2>3
    <2>5. n - 1 \in 0 .. Len(s) /\ n - 1 \notin wrong /\ s[n] \in S
        BY <1>0, <2>2, <2>3, <2>4
    <2>6. upTo[n - 1] \in Seq(S)
        BY <2>5
    <2>7. Append(upTo[n - 1], s[n]) \in Seq(S)
        BY <2>5, <2>6
    <2> QED BY <2>3, <2>4, <2>6, <2>7
<1>8. upTo \in [0 .. Len(s) -> Seq(S)]
    BY <1>4, <1>7
<1>9. upTo[0] = <<>>
    BY <1>0, <1>6
<1>10. \A n \in 1 .. Len(s) :
          upTo[n] = IF n \in K THEN Append(upTo[n - 1], s[n]) ELSE upTo[n - 1]
    BY <1>0, <1>6
<1> QED BY <1>5, <1>8, <1>9, <1>10

\* The elements at the positions K are elements of the sequence at such positions.
LEMMA ElementsAtAre ==
    ASSUME NEW S, NEW s \in Seq(S), NEW K
    PROVE  /\ ElementsAt(s, K) \in Seq(S)
           /\ \A i \in DOMAIN ElementsAt(s, K) :
                 \E j \in DOMAIN s : j \in K /\ ElementsAt(s, K)[i] = s[j]
<1>1. PICK f \in [0 .. Len(s) -> Seq(S)] :
              /\ ElementsAt(s, K) = f[Len(s)]
              /\ f[0] = <<>>
              /\ \A n \in 1 .. Len(s) :
                    f[n] = IF n \in K THEN Append(f[n - 1], s[n]) ELSE f[n - 1]
    BY Recursion
<1>0. Len(s) \in Nat /\ DOMAIN s = 1 .. Len(s)
    OBVIOUS
<1> DEFINE fine(e) == \A i \in DOMAIN e : \E j \in DOMAIN s : j \in K /\ e[i] = s[j]
           wrong == {n \in 0 .. Len(s) : ~ fine(f[n])}
<1>2. wrong = {}
    <2> SUFFICES ASSUME wrong # {} PROVE FALSE
        OBVIOUS
    <2>1. wrong \in SUBSET Nat
        BY <1>0
    <2>2. PICK n \in wrong : \A k \in wrong : n <= k
        <3> HIDE DEF wrong
        <3> QED BY <2>1, LeastNatural
    <2>3. n \in 0 .. Len(s) /\ ~ fine(f[n])
        BY <2>2
    <2>4. n # 0
        BY <1>1, <2>3
    <2>5. n - 1 \in 0 .. Len(s) /\ n - 1 \notin wrong /\ n \in DOMAIN s /\ s[n] \in S
        BY <1>0, <2>2, <2>3, <2>4
    <2>6. fine(f[n - 1]) /\ f[n - 1] \in Seq(S)
        BY <2>5
    <2>7. f[n] = IF n \in K THEN Append(f[n - 1], s[n]) ELSE f[n - 1]
        <3>1. n \in 1 .. Len(s)
            BY <1>0, <2>3, <2>4
        <3> QED BY <1>1, <3>1
    <2>8. n \in K /\ f[n] = Append(f[n - 1], s[n])
        BY <2>3, <2>6, <2>7
    <2>9. ASSUME NEW i \in DOMAIN f[n] PROVE \E j \in DOMAIN s : j \in K /\ f[n][i] = s[j]
        <3>1. Len(f[n - 1]) \in Nat /\ DOMAIN f[n - 1] = 1 .. Len(f[n - 1])
            BY <2>6
        <3>2. DOMAIN f[n] = 1 .. Len(f[n - 1]) + 1
            BY <2>6, <2>8, <2>5
        <3>3. CASE i \in 1 .. Len(f[n - 1])
            <4>1. f[n][i] = f[n - 1][i]
                BY <2>5, <2>6, <2>8, <3>3
            <4> QED BY <2>6, <3>1, <3>3, <4>1
        <3>4. CASE i = Len(f[n - 1]) + 1
            <4>1. f[n][i] = s[n]
                BY <2>5, <2>6, <2>8, <3>4
            <4> QED BY <2>5, <2>8, <4>1
        <3> QED BY <3>1, <3>2, <3>3, <3>4
    <2> QED BY <2>3, <2>9
<1>3. fine(f[Len(s)])
    BY <1>0, <1>2
<1> QED BY <1>0, <1>1, <1>3

-----------------------------------------------------------------------------
(* The statements of the database.                                         *)

\* The numbers of messages that the counters count are numbers.
LEMMA Countable ==
    ASSUME NEW A \in SUBSET Message
    PROVE  IsFiniteSet(A) /\ Cardinality(A) \in Nat
<1>1. IsFiniteSet(Message)
    BY BoundsAssumption, FS_Interval DEF Message
<1> QED BY <1>1, FS_Subset, FS_CardinalityType

\* How many there are when some leave and others come.
LEMMA Rebalanced ==
    ASSUME NEW A \in SUBSET Message, NEW in \in SUBSET Message, NEW out \in SUBSET A, in \cap A = {}
    PROVE  Cardinality((A \ out) \cup in) = Cardinality(A) + Cardinality(in) - Cardinality(out)
<1>1. /\ IsFiniteSet(A) /\ IsFiniteSet(in) /\ IsFiniteSet(out)
      /\ Cardinality(A) \in Nat /\ Cardinality(in) \in Nat /\ Cardinality(out) \in Nat
    BY Countable
<1>2. A \cap out = out
    OBVIOUS
<1>3. IsFiniteSet(A \ out) /\ Cardinality(A \ out) = Cardinality(A) - Cardinality(out)
    BY <1>1, <1>2, FS_Difference
<1>4. (A \ out) \cap in = {}
    OBVIOUS
<1>5. Cardinality((A \ out) \cup in) = Cardinality(A \ out) + Cardinality(in) - Cardinality((A \ out) \cap in)
    BY <1>1, <1>3, FS_Union
<1>6. Cardinality({}) = 0
    BY FS_EmptySet
<1> HIDE DEF Message
<1> QED BY <1>1, <1>3, <1>4, <1>5, <1>6

\* Every queue has a number of retries and an error queue.
LEMMA QueueFacts ==
    ASSUME NEW q \in QueueId
    PROVE  RetriesOf(q) \in Nat /\ ErrorOf(q) \in QueueId
<1>1. CASE q = GroupError
    BY <1>1 DEF RetriesOf, ErrorOf, QueueId
<1>2. CASE q # GroupError
    <2>1. PICK x \in Queue, y \in {"cQueue", "cErrorQueue"} : q = <<x, y>>
        BY <1>2 DEF QueueId
    <2>2. q[1] = x /\ q[1] \in Queue
        BY <2>1
    <2>3. RetriesOf(q) \in Nat
        BY <1>2, <2>2, QueueAssumption DEF RetriesOf
    <2>4. ErrorOf(q) \in QueueId
        BY <2>1, <2>2 DEF ErrorOf, QueueId
    <2> QED BY <2>3, <2>4
<1> QED BY <1>1, <1>2

\* A database is its three parts.
LEMMA Parts ==
    ASSUME NEW d \in Database
    PROVE  /\ d = [message |-> d.message, count |-> d.count, uncommitted |-> d.uncommitted]
           /\ d.message \in [Message -> Row] /\ d.count \in [QueueId -> Int]
           /\ d.uncommitted \in [QueueId -> Int]
BY DEF Database

\* A row is its four columns.
LEMMA Columns ==
    ASSUME NEW row \in Row
    PROVE  /\ row = [queue |-> row.queue, gtrid |-> row.gtrid, state |-> row.state,
                     redelivered |-> row.redelivered]
           /\ row.queue \in QueueId /\ row.gtrid \in Trid \cup {NoTrid} /\ row.state \in 0 .. 3
           /\ row.redelivered \in Nat
BY DEF Row

\* A request takes a message in its transaction.
LEMMA TakeParts ==
    ASSUME NEW d \in Database, NEW r, NEW m \in Message, r.trid # NoTrid
    PROVE  Take(d, r, m) =
              [message |-> [d.message EXCEPT ![m] =
                    [queue |-> d.message[m].queue, gtrid |-> r.trid, state |-> cDequeued,
                     redelivered |-> d.message[m].redelivered]],
               count |-> d.count, uncommitted |-> d.uncommitted]
<1> DEFINE row == d.message[m]
           a == [row EXCEPT !.state = cDequeued]
           M == [d.message EXCEPT ![m] = a]
           e == [d EXCEPT !.message = M]
           b == [a EXCEPT !.gtrid = r.trid]
<1>1. /\ d = [message |-> d.message, count |-> d.count, uncommitted |-> d.uncommitted]
      /\ d.message \in [Message -> Row]
    BY Parts
<1>2. row \in Row
    BY <1>1
<1>3. Take(d, r, m) = [d EXCEPT !.message[m].state = cDequeued, !.message[m].gtrid = r.trid]
    BY Zenon DEF Take
<1>4. Take(d, r, m) = [e EXCEPT !.message[m].gtrid = r.trid]
    BY <1>3, Zenon
<1>5. e = [message |-> M, count |-> d.count, uncommitted |-> d.uncommitted] /\ e.message = M
    BY <1>1
<1>6. b = [queue |-> row.queue, gtrid |-> r.trid, state |-> cDequeued, redelivered |-> row.redelivered]
    <2>1. row = [queue |-> row.queue, gtrid |-> row.gtrid, state |-> row.state,
                 redelivered |-> row.redelivered]
        BY <1>2, Columns
    <2> HIDE DEF row
    <2>2. a = [queue |-> row.queue, gtrid |-> row.gtrid, state |-> cDequeued,
               redelivered |-> row.redelivered]
        BY <2>1
    <2> HIDE DEF a
    <2> QED BY <2>2
<1>7. M[m] = a /\ [M EXCEPT ![m] = b] = [d.message EXCEPT ![m] = b]
    BY <1>1
<1>8. [e EXCEPT !.message[m].gtrid = r.trid] = [message |-> [M EXCEPT ![m] = b], count |-> d.count, uncommitted |-> d.uncommitted]
    <2> HIDE DEF M, b
    <2> HIDE DEF e
    <2>1. [e EXCEPT !.message[m].gtrid = r.trid] = [e EXCEPT !.message = [M EXCEPT ![m] = [M[m] EXCEPT !.gtrid = r.trid]]]
        BY <1>5
    <2>2. [M[m] EXCEPT !.gtrid = r.trid] = b
        BY <1>7, Zenon DEF b
    <2>3. [e EXCEPT !.message = [M EXCEPT ![m] = b]] = [message |-> [M EXCEPT ![m] = b], count |-> d.count, uncommitted |-> d.uncommitted]
        BY <1>5
    <2> QED BY <2>1, <2>2, <2>3, Zenon
<1> QED BY <1>4, <1>6, <1>7, <1>8, Zenon

\* What a rollback makes available again.
LEMMA Rollback2Parts ==
    ASSUME NEW d \in Database, NEW t
    PROVE  Rollback2(d, t) =
              [message |-> [m \in Message |->
                    IF m \in Taken(d, t)
                    THEN [queue |-> d.message[m].queue, gtrid |-> d.message[m].gtrid,
                          state |-> cEnqueued, redelivered |-> d.message[m].redelivered + 1]
                    ELSE d.message[m]],
               count |-> d.count, uncommitted |-> d.uncommitted]
<1>1. d = [message |-> d.message, count |-> d.count, uncommitted |-> d.uncommitted]
    BY Parts
<1>2. ASSUME NEW m \in Message
      PROVE  [d.message[m] EXCEPT !.state = cEnqueued, !.redelivered = @ + 1] =
                [queue |-> d.message[m].queue, gtrid |-> d.message[m].gtrid,
                 state |-> cEnqueued, redelivered |-> d.message[m].redelivered + 1]
    <2> DEFINE row == d.message[m]
               a == [row EXCEPT !.state = cEnqueued]
    <2>1. row \in Row
        BY Parts
    <2>2. [row EXCEPT !.state = cEnqueued, !.redelivered = @ + 1] = [a EXCEPT !.redelivered = @ + 1]
        BY Zenon
    <2> HIDE DEF row
    <2>3. [a EXCEPT !.redelivered = @ + 1] = [queue |-> row.queue, gtrid |-> row.gtrid,
                 state |-> cEnqueued, redelivered |-> row.redelivered + 1]
        <3>1. row = [queue |-> row.queue, gtrid |-> row.gtrid, state |-> row.state,
                     redelivered |-> row.redelivered]
            BY <2>1, Columns
        <3>2. a = [queue |-> row.queue, gtrid |-> row.gtrid, state |-> cEnqueued,
                   redelivered |-> row.redelivered]
            BY <3>1
        <3> HIDE DEF a
        <3> QED BY <3>2
    <2>4. [row EXCEPT !.state = cEnqueued, !.redelivered = @ + 1] = [queue |-> row.queue, gtrid |-> row.gtrid,
                 state |-> cEnqueued, redelivered |-> row.redelivered + 1]
        BY <2>2, <2>3, Zenon
    <2> QED BY <2>4, Zenon DEF row
<1> DEFINE ms == Taken(d, t)
           New == [m \in Message |->
                IF m \in ms THEN [d.message[m] EXCEPT !.state = cEnqueued, !.redelivered = @ + 1]
                            ELSE d.message[m]]
           N == [m \in Message |->
                    IF m \in ms
                    THEN [queue |-> d.message[m].queue, gtrid |-> d.message[m].gtrid,
                          state |-> cEnqueued, redelivered |-> d.message[m].redelivered + 1]
                    ELSE d.message[m]]
<1>3. Rollback2(d, t) = [d EXCEPT !.message = New]
    BY Zenon DEF Rollback2
<1>4. New = N
    BY <1>2, Zenon
<1>5. [d EXCEPT !.message = N] = [message |-> N, count |-> d.count, uncommitted |-> d.uncommitted]
    <2> HIDE DEF N
    <2> QED BY <1>1
<1> QED BY <1>3, <1>4, <1>5, Zenon

\* No row is no message.
LEMMA NoRowFacts ==
    /\ NoRow \in Row /\ NoRow.state = cAbsent /\ NoRow.redelivered = 0
    /\ NoRow.redelivered <= RetriesOf(NoRow.queue)
BY DEF NoRow, Row, QueueId, RetriesOf, cAbsent

\* Every row of a database that is sane, one by one.
LEMMA SaneRows ==
    ASSUME NEW d, Sane(d), NEW m \in Message
    PROVE  /\ d.message[m] \in Row
           /\ d.message[m].state = cAdded => d.message[m].redelivered = 0
           /\ d.message[m].redelivered <= RetriesOf(d.message[m].queue)
<1>1. d \in Database /\ Redelivery(d)
    BY DEF Sane
<1> QED BY <1>1, Parts DEF Redelivery

\* Statements that make D of d take the messages out1 of queue q from the
\* committed ones and out2 from the others, and add in1 and in2.
Moves(d, D, q, in1, out1, in2, out2) ==
    /\ in1 \in SUBSET Message /\ in2 \in SUBSET Message
    /\ out1 \in SUBSET CommittedIn(d, q) /\ out2 \in SUBSET AddedIn(d, q)
    /\ in1 \cap CommittedIn(d, q) = {} /\ in2 \cap AddedIn(d, q) = {}
    /\ CommittedIn(D, q) = (CommittedIn(d, q) \ out1) \cup in1
    /\ AddedIn(D, q) = (AddedIn(d, q) \ out2) \cup in2
    /\ D.count[q] = d.count[q] + Cardinality(in1) - Cardinality(out1)
    /\ D.uncommitted[q] = d.uncommitted[q] + Cardinality(in2) - Cardinality(out2)

\* Then the counters of the queue agree with it again.
LEMMA Recounted ==
    ASSUME NEW d, Counted(d), NEW D, NEW q \in QueueId \ {GroupError},
           NEW in1, NEW out1, NEW in2, NEW out2, Moves(d, D, q, in1, out1, in2, out2)
    PROVE  /\ D.count[q] = Cardinality(CommittedIn(D, q))
           /\ D.uncommitted[q] = Cardinality(AddedIn(D, q))
<1>1. CommittedIn(d, q) \in SUBSET Message /\ AddedIn(d, q) \in SUBSET Message
    BY DEF CommittedIn, AddedIn
<1>2. /\ Cardinality(CommittedIn(D, q)) =
            Cardinality(CommittedIn(d, q)) + Cardinality(in1) - Cardinality(out1)
      /\ Cardinality(AddedIn(D, q)) = Cardinality(AddedIn(d, q)) + Cardinality(in2) - Cardinality(out2)
    BY <1>1, Rebalanced DEF Moves
<1>3. d.count[q] = Cardinality(CommittedIn(d, q)) /\ d.uncommitted[q] = Cardinality(AddedIn(d, q))
    BY DEF Counted
<1>4. /\ in1 \in SUBSET Message /\ in2 \in SUBSET Message
      /\ out1 \in SUBSET Message /\ out2 \in SUBSET Message
      /\ D.count[q] = d.count[q] + Cardinality(in1) - Cardinality(out1)
      /\ D.uncommitted[q] = d.uncommitted[q] + Cardinality(in2) - Cardinality(out2)
    BY <1>1 DEF Moves
<1> QED BY <1>2, <1>3, <1>4

\* enqueue
LEMMA InsertSane ==
    ASSUME NEW d, Sane(d), NEW m \in Message, d.message[m].state = cAbsent,
           NEW q \in QueueId, NEW t \in Trid \cup {NoTrid}
    PROVE  /\ Sane(Insert(d, m, q, t))
           /\ Insert(d, m, q, t).message =
                [d.message EXCEPT ![m] = [queue |-> q, gtrid |-> t, redelivered |-> 0,
                        state |-> IF t = NoTrid THEN cEnqueued ELSE cAdded]]
<1> DEFINE row == [queue |-> q, gtrid |-> t, redelivered |-> 0,
                   state |-> IF t = NoTrid THEN cEnqueued ELSE cAdded]
           D == Insert(d, m, q, t)
<1>1. d \in Database /\ Counted(d) /\ Redelivery(d)
    BY DEF Sane
<1>2. row \in Row
    BY DEF Row, cEnqueued, cAdded
<1>3. /\ D.message = [d.message EXCEPT ![m] = row]
      /\ D.count = IF t = NoTrid THEN [d.count EXCEPT ![q] = @ + 1] ELSE d.count
      /\ D.uncommitted = IF t = NoTrid THEN d.uncommitted ELSE [d.uncommitted EXCEPT ![q] = @ + 1]
    BY DEF Insert
<1>4. D \in Database
    <2>1. D = [message |-> D.message, count |-> D.count, uncommitted |-> D.uncommitted]
        BY DEF Insert
    <2>2. d.message \in [Message -> Row] /\ d.count \in [QueueId -> Int] /\ d.uncommitted \in [QueueId -> Int]
        BY <1>1, Parts
    <2>3. D.message \in [Message -> Row] /\ D.count \in [QueueId -> Int] /\ D.uncommitted \in [QueueId -> Int]
        <3> HIDE DEF row, D
        <3> QED BY <1>2, <1>3, <2>2
    <2> HIDE DEF D
    <2> QED BY <2>1, <2>3 DEF Database
<1>5. d.message \in [Message -> Row] /\ DOMAIN d.message = Message
    BY <1>1, Parts
<1>6. \A x \in Message : D.message[x] = IF x = m THEN row ELSE d.message[x]
    <2> HIDE DEF row, D
    <2> QED BY <1>3, <1>5
<1>7. Redelivery(D)
    <2> SUFFICES ASSUME NEW x \in Message
                 PROVE  /\ D.message[x].state = cAdded => D.message[x].redelivered = 0
                        /\ D.message[x].redelivered <= RetriesOf(D.message[x].queue)
        BY DEF Redelivery
    <2>1. CASE x = m
        <3>1. row.redelivered = 0 /\ row.queue = q /\ RetriesOf(q) \in Nat
            BY QueueFacts
        <3> HIDE DEF row, D
        <3> QED BY <1>6, <2>1, <3>1
    <2>2. CASE x # m
        <3> HIDE DEF row, D
        <3> QED BY <1>6, <2>2, SaneRows
    <2> QED BY <2>1, <2>2
<1>8. Counted(D)
    <2> SUFFICES ASSUME NEW p \in QueueId \ {GroupError}
                 PROVE  /\ D.count[p] = Cardinality(CommittedIn(D, p))
                        /\ D.uncommitted[p] = Cardinality(AddedIn(D, p))
        BY DEF Counted
    <2> DEFINE in1 == IF t = NoTrid /\ p = q THEN {m} ELSE {}
               in2 == IF t # NoTrid /\ p = q THEN {m} ELSE {}
    <2>1. /\ row.queue = q /\ row.state = IF t = NoTrid THEN cEnqueued ELSE cAdded
          /\ ~ Committed(d, m) /\ d.message[m].state # cAdded
        BY DEF Committed, cAbsent, cAdded, cEnqueued, cDequeued
    <2> HIDE DEF row, D
    <2>2. CommittedIn(D, p) = (CommittedIn(d, p) \ {}) \cup in1
        BY <1>6, <2>1 DEF CommittedIn, Committed, cAdded, cEnqueued, cDequeued
    <2>3. AddedIn(D, p) = (AddedIn(d, p) \ {}) \cup in2
        BY <1>6, <2>1 DEF AddedIn, cAdded, cEnqueued
    <2>4. in1 \cap CommittedIn(d, p) = {} /\ in2 \cap AddedIn(d, p) = {}
        BY <2>1 DEF CommittedIn, AddedIn
    <2>5. Cardinality({}) = 0 /\ Cardinality({m}) = 1
        BY FS_EmptySet, FS_Singleton
    <2>6. d.count \in [QueueId -> Int] /\ d.uncommitted \in [QueueId -> Int]
        BY <1>1, Parts
    <2>7. /\ D.count[p] = d.count[p] + Cardinality(in1) - Cardinality({})
          /\ D.uncommitted[p] = d.uncommitted[p] + Cardinality(in2) - Cardinality({})
        BY <1>3, <2>5, <2>6
    <2>8. in1 \in SUBSET Message /\ in2 \in SUBSET Message
        OBVIOUS
    <2>9. {} \in SUBSET CommittedIn(d, p) /\ {} \in SUBSET AddedIn(d, p)
        OBVIOUS
    <2> HIDE DEF in1, in2
    <2>10. Moves(d, D, p, in1, {}, in2, {})
        BY <2>2, <2>3, <2>4, <2>7, <2>8, <2>9 DEF Moves
    <2> QED BY <1>1, <2>10, Recounted
<1> QED BY <1>3, <1>4, <1>7, <1>8 DEF Sane

\* DELETE
LEMMA DeleteSane ==
    ASSUME NEW d, Sane(d), NEW ms \in SUBSET Message
    PROVE  /\ Sane(Delete(d, ms))
           /\ Delete(d, ms).message = [m \in Message |-> IF m \in ms THEN NoRow ELSE d.message[m]]
<1> DEFINE D == Delete(d, ms)
           of1 == {m \in ms : d.message[m].state \in {cEnqueued, cDequeued}}
           of2 == {m \in ms : d.message[m].state \in {cAdded}}
<1>1. d \in Database /\ Counted(d) /\ Redelivery(d)
    BY DEF Sane
<1>2. /\ D = [message |-> D.message, count |-> D.count, uncommitted |-> D.uncommitted]
      /\ D.message = [m \in Message |-> IF m \in ms THEN NoRow ELSE d.message[m]]
      /\ D.count = [q \in QueueId |-> d.count[q] - NumberIn(d, of1, q)]
      /\ D.uncommitted = [q \in QueueId |-> d.uncommitted[q] - NumberIn(d, of2, q)]
    BY DEF Delete
<1>3. /\ d.message \in [Message -> Row]
      /\ d.count \in [QueueId -> Int] /\ d.uncommitted \in [QueueId -> Int]
    BY <1>1, Parts
<1>4. ASSUME NEW ns \in SUBSET Message, NEW q PROVE NumberIn(d, ns, q) \in Nat
    <2>1. {m \in ns : d.message[m].queue = q} \in SUBSET Message
        OBVIOUS
    <2> QED BY <2>1, Countable DEF NumberIn
<1>5. of1 \in SUBSET Message /\ of2 \in SUBSET Message
    OBVIOUS
<1>6. D \in Database
    <2> HIDE DEF D, of1, of2
    <2>1. D.message \in [Message -> Row]
        BY <1>2, <1>3, NoRowFacts
    <2>2. D.count \in [QueueId -> Int] /\ D.uncommitted \in [QueueId -> Int]
        BY <1>2, <1>3, <1>4, <1>5
    <2> QED BY <1>2, <2>1, <2>2 DEF Database
<1>7. \A x \in Message : D.message[x] = IF x \in ms THEN NoRow ELSE d.message[x]
    <2> HIDE DEF D
    <2> QED BY <1>2
<1>8. Redelivery(D)
    <2> HIDE DEF D
    <2>1. ASSUME NEW x \in Message
          PROVE  /\ D.message[x].state = cAdded => D.message[x].redelivered = 0
                 /\ D.message[x].redelivered <= RetriesOf(D.message[x].queue)
        BY <1>7, NoRowFacts, SaneRows
    <2> QED BY <2>1 DEF Redelivery
<1>9. Counted(D)
    <2> SUFFICES ASSUME NEW p \in QueueId \ {GroupError}
                 PROVE  /\ D.count[p] = Cardinality(CommittedIn(D, p))
                        /\ D.uncommitted[p] = Cardinality(AddedIn(D, p))
        BY DEF Counted
    <2> DEFINE out1 == {m \in of1 : d.message[m].queue = p}
               out2 == {m \in of2 : d.message[m].queue = p}
    <2>1. out1 \in SUBSET CommittedIn(d, p) /\ out2 \in SUBSET AddedIn(d, p)
        BY DEF CommittedIn, AddedIn, Committed
    <2>2. CommittedIn(D, p) = (CommittedIn(d, p) \ out1) \cup {}
        <3> HIDE DEF D
        <3> QED BY <1>7, NoRowFacts DEF CommittedIn, Committed, cAbsent, cEnqueued, cDequeued
    <2>3. AddedIn(D, p) = (AddedIn(d, p) \ out2) \cup {}
        <3> HIDE DEF D
        <3> QED BY <1>7, NoRowFacts DEF AddedIn, cAbsent, cAdded
    <2>4. Cardinality({}) = 0 /\ Cardinality(out1) \in Nat /\ Cardinality(out2) \in Nat
        BY FS_EmptySet, Countable
    <2>5. NumberIn(d, of1, p) = Cardinality(out1) /\ NumberIn(d, of2, p) = Cardinality(out2)
        BY DEF NumberIn
    <2> HIDE DEF D, of1, of2, out1, out2
    <2>6. /\ D.count[p] = d.count[p] + Cardinality({}) - Cardinality(out1)
          /\ D.uncommitted[p] = d.uncommitted[p] + Cardinality({}) - Cardinality(out2)
        BY <1>2, <1>3, <2>4, <2>5
    <2>7. /\ {} \in SUBSET Message
          /\ {} \cap CommittedIn(d, p) = {} /\ {} \cap AddedIn(d, p) = {}
        OBVIOUS
    <2>8. Moves(d, D, p, {}, out1, {}, out2)
        BY <2>1, <2>2, <2>3, <2>6, <2>7 DEF Moves
    <2> QED BY <1>1, <2>8, Recounted
<1> QED BY <1>2, <1>6, <1>8, <1>9 DEF Sane

\* The messages that a transaction holds, and those it has added.
LEMMA TransactionRows ==
    ASSUME NEW d, NEW t
    PROVE  /\ Taken(d, t) = {m \in Message : Holds(d, t, m)}
           /\ Rows(d, LAMBDA row : row.gtrid = t /\ row.state = cAdded) = {m \in Message : Added(d, t, m)}
BY DEF Taken, Rows, Holds, Added, cAbsent, cAdded, cDequeued

\* dequeue
LEMMA TakeSane ==
    ASSUME NEW d, Sane(d), NEW r \in Request, NEW m \in Candidates(d, r)
    PROVE  /\ Sane(Take(d, r, m)) /\ m \in Message /\ d.message[m].state = cEnqueued
           /\ DOMAIN Take(d, r, m).message = Message
           /\ \A x \in Message : x # m => Take(d, r, m).message[x] = d.message[x]
           /\ r.trid = NoTrid => Take(d, r, m).message[m] = NoRow
           /\ r.trid # NoTrid => Holds(Take(d, r, m), r.trid, m)
<1>1. d \in Database /\ Counted(d) /\ Redelivery(d)
    BY DEF Sane
<1>2. m \in Message /\ d.message[m].state = cEnqueued
    BY DEF Candidates
<1>3. CASE r.trid = NoTrid
    <2>1. Take(d, r, m) = Delete(d, {m}) /\ {m} \in SUBSET Message
        BY <1>2, <1>3 DEF Take
    <2>2. /\ Sane(Delete(d, {m}))
          /\ Delete(d, {m}).message = [x \in Message |-> IF x \in {m} THEN NoRow ELSE d.message[x]]
        BY <2>1, DeleteSane
    <2> QED BY <1>2, <1>3, <2>1, <2>2
<1>4. CASE r.trid # NoTrid
    <2> DEFINE row == [queue |-> d.message[m].queue, gtrid |-> r.trid, state |-> cDequeued,
                       redelivered |-> d.message[m].redelivered]
               D == [message |-> [d.message EXCEPT ![m] = row],
                     count |-> d.count, uncommitted |-> d.uncommitted]
    <2>1. Take(d, r, m) = D
        BY <1>1, <1>2, <1>4, TakeParts
    <2>2. /\ d.message \in [Message -> Row]
          /\ d.count \in [QueueId -> Int] /\ d.uncommitted \in [QueueId -> Int]
        BY <1>1, Parts
    <2>3. d.message[m] \in Row /\ r.trid \in Trid \cup {NoTrid}
        BY <1>2, <2>2 DEF Request
    <2>4. row \in Row
        BY <2>3, Columns DEF Row, cDequeued
    <2>5. /\ row.queue = d.message[m].queue /\ row.gtrid = r.trid /\ row.state = cDequeued
          /\ row.redelivered = d.message[m].redelivered
        OBVIOUS
    <2>6. /\ D.message = [d.message EXCEPT ![m] = row]
          /\ D.count = d.count /\ D.uncommitted = d.uncommitted
        OBVIOUS
    <2>7. D \in Database
        <3> HIDE DEF row
        <3> QED BY <2>2, <2>4 DEF Database
    <2> HIDE DEF row, D
    <2>8. \A x \in Message : D.message[x] = IF x = m THEN row ELSE d.message[x]
        BY <2>2, <2>6
    <2>9. ASSUME NEW x \in Message
          PROVE  /\ D.message[x].state = cAdded => D.message[x].redelivered = 0
                 /\ D.message[x].redelivered <= RetriesOf(D.message[x].queue)
        BY <1>2, <2>5, <2>8, SaneRows DEF cAdded, cDequeued
    <2>10. ASSUME NEW q \in QueueId \ {GroupError}
           PROVE  /\ D.count[q] = Cardinality(CommittedIn(D, q))
                  /\ D.uncommitted[q] = Cardinality(AddedIn(D, q))
        <3>1. CommittedIn(D, q) = CommittedIn(d, q)
            BY <1>2, <2>5, <2>8 DEF CommittedIn, Committed
        <3>2. AddedIn(D, q) = AddedIn(d, q)
            BY <1>2, <2>5, <2>8 DEF AddedIn, cAdded, cEnqueued, cDequeued
        <3> QED BY <1>1, <2>6, <3>1, <3>2 DEF Counted
    <2>11. Sane(D)
        BY <2>7, <2>9, <2>10 DEF Sane, Counted, Redelivery
    <2>12. Holds(D, r.trid, m) /\ DOMAIN D.message = Message
        BY <1>2, <2>2, <2>5, <2>6, <2>8 DEF Holds
    <2> QED BY <1>2, <1>4, <2>1, <2>8, <2>11, <2>12
<1> QED BY <1>3, <1>4

\* commit1
LEMMA Commit1Sane ==
    ASSUME NEW d, Sane(d), NEW t
    PROVE  /\ Sane(Commit1(d, t))
           /\ Commit1(d, t).message =
                [m \in Message |-> IF Added(d, t, m) THEN [d.message[m] EXCEPT !.state = cEnqueued]
                                                     ELSE d.message[m]]
<1> DEFINE ms == {m \in Message : Added(d, t, m)}
           D == Commit1(d, t)
           new(m) == [d.message[m] EXCEPT !.state = cEnqueued]
<1>1. d \in Database /\ Counted(d) /\ Redelivery(d)
    BY DEF Sane
<1>2. /\ D = [message |-> D.message, count |-> D.count, uncommitted |-> D.uncommitted]
      /\ D.message = [m \in Message |-> IF m \in ms THEN new(m) ELSE d.message[m]]
      /\ D.count = [q \in QueueId |-> d.count[q] + NumberIn(d, ms, q)]
      /\ D.uncommitted = [q \in QueueId |-> d.uncommitted[q] - NumberIn(d, ms, q)]
    <2>1. Rows(d, LAMBDA row : row.gtrid = t /\ row.state = cAdded) = ms
        BY TransactionRows
    <2> HIDE DEF ms
    <2> QED BY <2>1 DEF Commit1
<1>3. /\ d.message \in [Message -> Row]
      /\ d.count \in [QueueId -> Int] /\ d.uncommitted \in [QueueId -> Int]
    BY <1>1, Parts
<1>4. ASSUME NEW m \in Message
      PROVE  /\ new(m) \in Row /\ new(m).state = cEnqueued /\ new(m).queue = d.message[m].queue
             /\ new(m).redelivered = d.message[m].redelivered
    <2>1. d.message[m] \in Row
        BY <1>3
    <2> QED BY <2>1, Columns DEF Row, cEnqueued
<1>5. ASSUME NEW q PROVE NumberIn(d, ms, q) \in Nat
    <2>1. {m \in ms : d.message[m].queue = q} \in SUBSET Message
        OBVIOUS
    <2> QED BY <2>1, Countable DEF NumberIn
<1> HIDE DEF D, new
<1>6. D \in Database
    <2> HIDE DEF ms
    <2>1. D.message \in [Message -> Row]
        BY <1>2, <1>3, <1>4
    <2>2. D.count \in [QueueId -> Int] /\ D.uncommitted \in [QueueId -> Int]
        BY <1>2, <1>3, <1>5
    <2> QED BY <1>2, <2>1, <2>2 DEF Database
<1>7. \A x \in Message : D.message[x] = IF x \in ms THEN new(x) ELSE d.message[x]
    BY <1>2
<1>8. ASSUME NEW x \in Message
      PROVE  /\ D.message[x].state = cAdded => D.message[x].redelivered = 0
             /\ D.message[x].redelivered <= RetriesOf(D.message[x].queue)
    BY <1>4, <1>7, SaneRows DEF cAdded, cEnqueued
<1>9. ASSUME NEW p \in QueueId \ {GroupError}
      PROVE  /\ D.count[p] = Cardinality(CommittedIn(D, p))
             /\ D.uncommitted[p] = Cardinality(AddedIn(D, p))
    <2> DEFINE here == {m \in ms : d.message[m].queue = p}
    <2>1. /\ here \in SUBSET Message /\ {} \in SUBSET CommittedIn(d, p)
          /\ {} \in SUBSET Message /\ here \in SUBSET AddedIn(d, p)
          /\ here \cap CommittedIn(d, p) = {} /\ {} \cap AddedIn(d, p) = {}
        BY DEF CommittedIn, AddedIn, Committed, Added, cAdded, cEnqueued, cDequeued
    <2>2. CommittedIn(D, p) = (CommittedIn(d, p) \ {}) \cup here
        BY <1>4, <1>7 DEF CommittedIn, Committed
    <2>3. AddedIn(D, p) = (AddedIn(d, p) \ here) \cup {}
        BY <1>4, <1>7 DEF AddedIn, cAdded, cEnqueued
    <2>4. Cardinality({}) = 0 /\ Cardinality(here) \in Nat
        BY FS_EmptySet, Countable
    <2>5. NumberIn(d, ms, p) = Cardinality(here)
        BY DEF NumberIn
    <2> HIDE DEF ms, here
    <2>6. /\ D.count[p] = d.count[p] + Cardinality(here) - Cardinality({})
          /\ D.uncommitted[p] = d.uncommitted[p] + Cardinality({}) - Cardinality(here)
        BY <1>2, <1>3, <2>4, <2>5
    <2>7. Moves(d, D, p, here, {}, {}, here)
        BY <2>1, <2>2, <2>3, <2>6 DEF Moves
    <2> QED BY <1>1, <2>7, Recounted
<1>10. Sane(D)
    BY <1>6, <1>8, <1>9 DEF Sane, Counted, Redelivery
<1> USE DEF D, new
<1> QED BY <1>2, <1>10

\* transaction::commit: what the transaction added is there, what it held is
\* gone, and the rest is as it was.
LEMMA CommitSane ==
    ASSUME NEW d, Sane(d), NEW t
    PROVE  /\ Sane(DatabaseCommit(d, t))
           /\ \A m \in Message :
                 /\ Added(d, t, m) => DatabaseCommit(d, t).message[m].state = cEnqueued
                 /\ Holds(d, t, m) => DatabaseCommit(d, t).message[m].state = cAbsent
                 /\ ~ Added(d, t, m) /\ ~ Holds(d, t, m) =>
                        DatabaseCommit(d, t).message[m] = d.message[m]
<1> DEFINE C == Commit1(d, t)
           ms == Taken(d, t)
<1>1. Sane(C) /\ C.message = [m \in Message |-> IF Added(d, t, m) THEN [d.message[m] EXCEPT !.state = cEnqueued]
                                                     ELSE d.message[m]]
    BY Commit1Sane
<1>2. ms = {m \in Message : Holds(d, t, m)} /\ ms \in SUBSET Message
    BY TransactionRows
<1>3. DatabaseCommit(d, t) = Delete(C, ms)
    BY DEF DatabaseCommit
<1> HIDE DEF C, ms
<1>4. /\ Sane(Delete(C, ms))
      /\ Delete(C, ms).message = [m \in Message |-> IF m \in ms THEN NoRow ELSE C.message[m]]
    BY <1>1, <1>2, DeleteSane
<1>5. ASSUME NEW m \in Message
      PROVE  /\ Added(d, t, m) => Delete(C, ms).message[m].state = cEnqueued
             /\ Holds(d, t, m) => Delete(C, ms).message[m].state = cAbsent
             /\ ~ Added(d, t, m) /\ ~ Holds(d, t, m) => Delete(C, ms).message[m] = d.message[m]
    <2>1. d.message[m] \in Row
        BY SaneRows
    <2>2. Added(d, t, m) => ~ Holds(d, t, m)
        BY DEF Added, Holds, cAdded, cDequeued
    <2>3. [d.message[m] EXCEPT !.state = cEnqueued].state = cEnqueued
        BY <2>1 DEF Row
    <2>4. Delete(C, ms).message[m] = IF m \in ms THEN NoRow ELSE C.message[m]
        BY <1>4
    <2>5. C.message[m] = IF Added(d, t, m) THEN [d.message[m] EXCEPT !.state = cEnqueued] ELSE d.message[m]
        BY <1>1
    <2> QED BY <1>2, <2>2, <2>3, <2>4, <2>5, NoRowFacts
<1> QED BY <1>3, <1>4, <1>5

\* rollback1
LEMMA Rollback1Sane ==
    ASSUME NEW d, Sane(d), NEW t
    PROVE  /\ Sane(Rollback1(d, t))
           /\ Rollback1(d, t).message =
                [m \in Message |-> IF Added(d, t, m) THEN NoRow ELSE d.message[m]]
<1> DEFINE ms == {m \in Message : Added(d, t, m)}
<1>1. Rows(d, LAMBDA row : row.gtrid = t /\ row.state = cAdded) = ms /\ ms \in SUBSET Message
    BY TransactionRows
<1>2. Rollback1(d, t) = Delete(d, ms)
    <2> HIDE DEF ms
    <2> QED BY <1>1 DEF Rollback1
<1>3. /\ Sane(Delete(d, ms))
      /\ Delete(d, ms).message = [m \in Message |-> IF m \in ms THEN NoRow ELSE d.message[m]]
    <2> HIDE DEF ms
    <2> QED BY <1>1, DeleteSane
<1> QED BY <1>2, <1>3

\* Between rollback2 and rollback3 some messages may have been redelivered too often.
NearlySane(d) ==
    /\ d \in Database /\ Counted(d)
    /\ \A m \in Message :
          /\ d.message[m].state = cAdded => d.message[m].redelivered = 0
          /\ d.message[m].state = cAbsent => d.message[m].redelivered <= RetriesOf(d.message[m].queue)

\* rollback2
LEMMA Rollback2Sane ==
    ASSUME NEW d, Sane(d), NEW t
    PROVE  /\ NearlySane(Rollback2(d, t))
           /\ \A m \in Message :
                 /\ Rollback2(d, t).message[m].gtrid = d.message[m].gtrid
                 /\ Rollback2(d, t).message[m].state =
                        IF Holds(d, t, m) THEN cEnqueued ELSE d.message[m].state
<1> DEFINE ms == Taken(d, t)
           D == Rollback2(d, t)
           new(m) == [queue |-> d.message[m].queue, gtrid |-> d.message[m].gtrid,
                      state |-> cEnqueued, redelivered |-> d.message[m].redelivered + 1]
<1>1. d \in Database /\ Counted(d)
    BY DEF Sane
<1>2. ms = {m \in Message : Holds(d, t, m)} /\ ms \in SUBSET Message
    BY TransactionRows
<1>3. D = [message |-> [m \in Message |-> IF m \in ms THEN new(m) ELSE d.message[m]],
           count |-> d.count, uncommitted |-> d.uncommitted]
    BY <1>1, Rollback2Parts
<1>4. /\ d.message \in [Message -> Row]
      /\ d.count \in [QueueId -> Int] /\ d.uncommitted \in [QueueId -> Int]
    BY <1>1, Parts
<1>5. ASSUME NEW m \in Message
      PROVE  /\ new(m) \in Row /\ new(m).state = cEnqueued /\ new(m).queue = d.message[m].queue
             /\ new(m).gtrid = d.message[m].gtrid
    <2>1. d.message[m] \in Row
        BY <1>4
    <2> QED BY <2>1, Columns DEF Row, cEnqueued
<1> HIDE DEF ms, D, new
<1>6. /\ D.message = [m \in Message |-> IF m \in ms THEN new(m) ELSE d.message[m]]
      /\ D.count = d.count /\ D.uncommitted = d.uncommitted
    BY <1>3
<1>7. D \in Database
    <2>1. D.message \in [Message -> Row]
        BY <1>4, <1>5, <1>6
    <2> QED BY <1>3, <1>4, <1>6, <2>1 DEF Database
<1>8. \A x \in Message : D.message[x] = IF x \in ms THEN new(x) ELSE d.message[x]
    BY <1>6
<1>9. ASSUME NEW x \in Message
      PROVE  /\ D.message[x].state = cAdded => D.message[x].redelivered = 0
             /\ D.message[x].state = cAbsent => D.message[x].redelivered <= RetriesOf(D.message[x].queue)
             /\ D.message[x].gtrid = d.message[x].gtrid
             /\ D.message[x].state = IF Holds(d, t, x) THEN cEnqueued ELSE d.message[x].state
    BY <1>2, <1>5, <1>8, SaneRows DEF cAbsent, cAdded, cEnqueued
<1>10. ASSUME NEW q \in QueueId \ {GroupError}
       PROVE  /\ D.count[q] = Cardinality(CommittedIn(D, q))
              /\ D.uncommitted[q] = Cardinality(AddedIn(D, q))
    <2>1. CommittedIn(D, q) = CommittedIn(d, q)
        BY <1>2, <1>5, <1>8 DEF CommittedIn, Committed, Holds
    <2>2. AddedIn(D, q) = AddedIn(d, q)
        BY <1>2, <1>5, <1>8 DEF AddedIn, Holds, cAdded, cEnqueued, cDequeued
    <2> QED BY <1>1, <1>6, <2>1, <2>2 DEF Counted
<1>11. NearlySane(D)
    BY <1>7, <1>9, <1>10 DEF NearlySane, Counted
<1> USE DEF D
<1> QED BY <1>9, <1>11

\* What rollback3 moves.
LEMMA Rollback3Parts ==
    ASSUME NEW d \in Database
    PROVE  LET ms == {m \in Message : d.message[m].state # cAbsent
                                      /\ d.message[m].redelivered > RetriesOf(d.message[m].queue)}
               moved == [m \in Message |->
                    IF m \in ms
                    THEN [queue |-> ErrorOf(d.message[m].queue), gtrid |-> d.message[m].gtrid,
                          state |-> d.message[m].state, redelivered |-> 0]
                    ELSE d.message[m]]
               away(q) == {m \in ms : d.message[m].queue = q /\ moved[m].queue # q}
               here(q) == {m \in ms : d.message[m].queue # q /\ moved[m].queue = q}
           IN  Rollback3(d) =
                  [message |-> moved,
                   count |-> [q \in QueueId |->
                                d.count[q] + Cardinality(here(q)) - Cardinality(away(q))],
                   uncommitted |-> d.uncommitted]
<1> DEFINE ms == {m \in Message : d.message[m].state # cAbsent
                                  /\ d.message[m].redelivered > RetriesOf(d.message[m].queue)}
           rs == Rows(d, LAMBDA row : row.redelivered > RetriesOf(row.queue))
           old(m) == [d.message[m] EXCEPT !.queue = ErrorOf(@), !.redelivered = 0]
           new(m) == [queue |-> ErrorOf(d.message[m].queue), gtrid |-> d.message[m].gtrid,
                      state |-> d.message[m].state, redelivered |-> 0]
           away(mv, s, q) == {m \in s : d.message[m].queue = q /\ mv[m].queue # q}
           here(mv, s, q) == {m \in s : d.message[m].queue # q /\ mv[m].queue = q}
           counts(mv, s) == [q \in QueueId |->
                d.count[q] + Cardinality(here(mv, s, q)) - Cardinality(away(mv, s, q))]
           A == [m \in Message |-> IF m \in rs THEN old(m) ELSE d.message[m]]
           B == [m \in Message |-> IF m \in ms THEN new(m) ELSE d.message[m]]
<1>1. rs = ms
    BY DEF Rows
<1>2. ASSUME NEW m \in Message PROVE old(m) = new(m)
    <2> DEFINE row == d.message[m]
               a == [row EXCEPT !.queue = ErrorOf(@)]
    <2>1. row \in Row
        BY Parts
    <2>2. [row EXCEPT !.queue = ErrorOf(@), !.redelivered = 0] = [a EXCEPT !.redelivered = 0]
        BY Zenon
    <2>3. row = [queue |-> row.queue, gtrid |-> row.gtrid, state |-> row.state,
                 redelivered |-> row.redelivered]
        BY <2>1, Columns
    <2> HIDE DEF row
    <2>4. a = [queue |-> ErrorOf(row.queue), gtrid |-> row.gtrid, state |-> row.state,
               redelivered |-> row.redelivered]
        BY <2>3
    <2> HIDE DEF a
    <2>5. [a EXCEPT !.redelivered = 0] = [queue |-> ErrorOf(row.queue), gtrid |-> row.gtrid,
               state |-> row.state, redelivered |-> 0]
        BY <2>4
    <2>6. [row EXCEPT !.queue = ErrorOf(@), !.redelivered = 0] =
             [queue |-> ErrorOf(row.queue), gtrid |-> row.gtrid, state |-> row.state, redelivered |-> 0]
        BY <2>2, <2>5, Zenon
    <2> QED BY <2>6, Zenon DEF row
<1>3. A = B
    <2> HIDE DEF old, new, rs, ms
    <2> QED BY <1>1, <1>2
<1>4. Rollback3(d) = [d EXCEPT !.message = A, !.count = counts(A, rs)]
    BY Zenon DEF Rollback3
<1>5. d = [message |-> d.message, count |-> d.count, uncommitted |-> d.uncommitted]
    BY Parts
<1>6. Rollback3(d) = [d EXCEPT !.message = B, !.count = counts(B, ms)]
    <2> HIDE DEF A, B, rs, ms, counts
    <2> QED BY <1>1, <1>3, <1>4, Zenon
<1>7. [d EXCEPT !.message = B, !.count = counts(B, ms)] =
         [message |-> B, count |-> counts(B, ms), uncommitted |-> d.uncommitted]
    <2> DEFINE CB == counts(B, ms)
               e == [d EXCEPT !.message = B]
    <2> HIDE DEF B, CB
    <2>1. e = [message |-> B, count |-> d.count, uncommitted |-> d.uncommitted]
        BY <1>5
    <2>2. [d EXCEPT !.message = B, !.count = CB] = [e EXCEPT !.count = CB]
        BY Zenon
    <2> HIDE DEF e
    <2>3. [e EXCEPT !.count = CB] = [message |-> B, count |-> CB, uncommitted |-> d.uncommitted]
        BY <2>1
    <2>4. [d EXCEPT !.message = B, !.count = CB] = [message |-> B, count |-> CB, uncommitted |-> d.uncommitted]
        BY <2>2, <2>3, Zenon
    <2> QED BY <2>4, Zenon DEF CB
<1>8. Rollback3(d) = [message |-> B, count |-> counts(B, ms), uncommitted |-> d.uncommitted]
    <2> HIDE DEF B, ms, counts
    <2> QED BY <1>6, <1>7, Zenon
<1> QED BY <1>8, Zenon

\* rollback3 moves only messages that are counted as committed; afterwards none
\* was redelivered too often.
LEMMA Rollback3Sane ==
    ASSUME NEW d, NearlySane(d)
    PROVE  /\ Sane(Rollback3(d))
           /\ \A m \in Message : /\ Rollback3(d).message[m].state = d.message[m].state
                                 /\ Rollback3(d).message[m].gtrid = d.message[m].gtrid
<1> DEFINE D == Rollback3(d)
           ms == {m \in Message : d.message[m].state # cAbsent
                                  /\ d.message[m].redelivered > RetriesOf(d.message[m].queue)}
           new(m) == [queue |-> ErrorOf(d.message[m].queue), gtrid |-> d.message[m].gtrid,
                      state |-> d.message[m].state, redelivered |-> 0]
           moved == [m \in Message |-> IF m \in ms THEN new(m) ELSE d.message[m]]
           away(q) == {m \in ms : d.message[m].queue = q /\ moved[m].queue # q}
           here(q) == {m \in ms : d.message[m].queue # q /\ moved[m].queue = q}
<1>1. /\ d \in Database /\ Counted(d)
      /\ d.message \in [Message -> Row]
      /\ d.count \in [QueueId -> Int] /\ d.uncommitted \in [QueueId -> Int]
    BY Parts DEF NearlySane
<1>2. D = [message |-> moved,
           count |-> [q \in QueueId |-> d.count[q] + Cardinality(here(q)) - Cardinality(away(q))],
           uncommitted |-> d.uncommitted]
    BY <1>1, Rollback3Parts, Zenon
<1>3. ASSUME NEW m \in Message
      PROVE  /\ d.message[m] \in Row /\ new(m) \in Row /\ new(m).queue = ErrorOf(d.message[m].queue)
             /\ new(m).state = d.message[m].state /\ new(m).gtrid = d.message[m].gtrid
             /\ new(m).redelivered = 0 /\ RetriesOf(new(m).queue) \in Nat
             /\ RetriesOf(d.message[m].queue) \in Nat /\ d.message[m].redelivered \in Nat
             /\ d.message[m].state \in 0 .. 3
    <2>1. d.message[m] \in Row
        BY <1>1
    <2>2. ErrorOf(d.message[m].queue) \in QueueId /\ RetriesOf(d.message[m].queue) \in Nat
        BY <2>1, Columns, QueueFacts
    <2> QED BY <2>1, <2>2, Columns, QueueFacts DEF Row
<1>4. ms \in SUBSET Message
    OBVIOUS
<1>5. ASSUME NEW m \in ms PROVE d.message[m].state \in {cEnqueued, cDequeued}
    <2>1. m \in Message /\ d.message[m].state # cAbsent /\ d.message[m].redelivered > RetriesOf(d.message[m].queue)
        OBVIOUS
    <2>3. /\ RetriesOf(d.message[m].queue) \in Nat /\ d.message[m].redelivered \in Nat
          /\ d.message[m].state \in 0 .. 3
        <3> HIDE DEF new, ms
        <3> QED BY <1>3, <2>1
    <2>2. d.message[m].state # cAdded
        <3>1. d.message[m].state = cAdded => d.message[m].redelivered = 0
            BY <2>1 DEF NearlySane
        <3> QED BY <2>1, <2>3, <3>1
    <2> QED BY <2>1, <2>2, <2>3 DEF cAbsent, cAdded, cEnqueued, cDequeued
<1>6. ASSUME NEW q
      PROVE  Cardinality(here(q)) \in Nat /\ Cardinality(away(q)) \in Nat
    <2>1. here(q) \in SUBSET Message /\ away(q) \in SUBSET Message
        BY <1>4
    <2> QED BY <2>1, Countable
<1>7. ASSUME NEW m \in Message, m \notin ms
      PROVE  d.message[m].redelivered <= RetriesOf(d.message[m].queue)
    <2>1. CASE d.message[m].state = cAbsent
        BY <2>1 DEF NearlySane
    <2>2. CASE d.message[m].state # cAbsent
        <3>1. RetriesOf(d.message[m].queue) \in Nat /\ d.message[m].redelivered \in Nat
            <4> HIDE DEF new, ms
            <4> QED BY <1>3
        <3>2. ~ d.message[m].redelivered > RetriesOf(d.message[m].queue)
            BY <1>7, <2>2
        <3> QED BY <3>1, <3>2
    <2> QED BY <2>1, <2>2
<1>8. /\ D.message = moved /\ D.uncommitted = d.uncommitted
      /\ D.count = [q \in QueueId |-> d.count[q] + Cardinality(here(q)) - Cardinality(away(q))]
    BY <1>2
<1>9. \A m \in Message : moved[m] = IF m \in ms THEN new(m) ELSE d.message[m]
    OBVIOUS
<1> HIDE DEF D, new, ms
<1>10. D \in Database
    <2>1. moved \in [Message -> Row]
        BY <1>3
    <2> HIDE DEF moved, here, away
    <2>2. D.count \in [QueueId -> Int]
        BY <1>1, <1>6, <1>8
    <2> QED BY <1>1, <1>2, <1>8, <2>1, <2>2 DEF Database
<1>11. ASSUME NEW m \in Message
       PROVE  /\ D.message[m].state = d.message[m].state /\ D.message[m].gtrid = d.message[m].gtrid
              /\ D.message[m].state = cAdded => D.message[m].redelivered = 0
              /\ D.message[m].redelivered <= RetriesOf(D.message[m].queue)
    <2>1. D.message[m] = IF m \in ms THEN new(m) ELSE d.message[m]
        BY <1>8, <1>9
    <2>2. d.message[m].state = cAdded => d.message[m].redelivered = 0
        BY DEF NearlySane
    <2> QED BY <1>3, <1>7, <2>1, <2>2
<1>12. ASSUME NEW q \in QueueId \ {GroupError}
       PROVE  /\ D.count[q] = Cardinality(CommittedIn(D, q))
              /\ D.uncommitted[q] = Cardinality(AddedIn(D, q))
    <2>1. /\ here(q) \in SUBSET Message /\ away(q) \in SUBSET CommittedIn(d, q)
          /\ {} \in SUBSET Message /\ {} \in SUBSET AddedIn(d, q)
          /\ here(q) \cap CommittedIn(d, q) = {} /\ {} \cap AddedIn(d, q) = {}
        BY <1>4, <1>5 DEF CommittedIn, Committed
    <2>2. \A m \in Message : D.message[m] = moved[m]
        BY <1>8
    <2>3. CommittedIn(D, q) = (CommittedIn(d, q) \ away(q)) \cup here(q)
        BY <1>3, <1>4, <1>5, <1>9, <2>2 DEF CommittedIn, Committed
    <2>4. AddedIn(D, q) = (AddedIn(d, q) \ {}) \cup {}
        BY <1>3, <1>4, <1>5, <1>9, <2>2 DEF AddedIn, cAdded, cEnqueued, cDequeued
    <2>5. Cardinality({}) = 0
        BY FS_EmptySet
    <2> HIDE DEF moved, here, away
    <2>6. /\ D.count[q] = d.count[q] + Cardinality(here(q)) - Cardinality(away(q))
          /\ D.uncommitted[q] = d.uncommitted[q] + Cardinality({}) - Cardinality({})
        BY <1>1, <1>8, <2>5
    <2>7. Moves(d, D, q, here(q), away(q), {}, {})
        BY <2>1, <2>3, <2>4, <2>6 DEF Moves
    <2> QED BY <1>1, <2>7, Recounted
<1>13. Sane(D)
    BY <1>10, <1>11, <1>12 DEF Sane, Counted, Redelivery
<1> USE DEF D
<1> QED BY <1>11, <1>13

\* transaction::rollback: what the transaction added is gone, and it holds
\* nothing; the rest is in the state it was in.
LEMMA RollbackSane ==
    ASSUME NEW d, Sane(d), NEW t
    PROVE  /\ Sane(DatabaseRollback(d, t))
           /\ \A m \in Message :
                 /\ Added(d, t, m) => DatabaseRollback(d, t).message[m].state = cAbsent
                 /\ Holds(d, t, m) => DatabaseRollback(d, t).message[m].state = cEnqueued
                 /\ ~ Added(d, t, m) /\ ~ Holds(d, t, m) =>
                        /\ DatabaseRollback(d, t).message[m].state = d.message[m].state
                        /\ DatabaseRollback(d, t).message[m].gtrid = d.message[m].gtrid
<1> DEFINE A == Rollback1(d, t)
           B == Rollback2(A, t)
           C == Rollback3(B)
<1>1. /\ Sane(A)
      /\ A.message = [m \in Message |-> IF Added(d, t, m) THEN NoRow ELSE d.message[m]]
    BY Rollback1Sane
<1> HIDE DEF A
<1>2. /\ NearlySane(B)
      /\ \A m \in Message :
            /\ B.message[m].gtrid = A.message[m].gtrid
            /\ B.message[m].state = IF Holds(A, t, m) THEN cEnqueued ELSE A.message[m].state
    BY <1>1, Rollback2Sane
<1> HIDE DEF B
<1>3. /\ Sane(C)
      /\ \A m \in Message : /\ C.message[m].state = B.message[m].state
                            /\ C.message[m].gtrid = B.message[m].gtrid
    BY <1>2, Rollback3Sane
<1>4. DatabaseRollback(d, t) = C
    BY DEF DatabaseRollback, A, B
<1> HIDE DEF C
<1>5. ASSUME NEW m \in Message
      PROVE  /\ Added(d, t, m) => C.message[m].state = cAbsent
             /\ Holds(d, t, m) => C.message[m].state = cEnqueued
             /\ ~ Added(d, t, m) /\ ~ Holds(d, t, m) =>
                   C.message[m].state = d.message[m].state /\ C.message[m].gtrid = d.message[m].gtrid
    <2>1. A.message[m] = IF Added(d, t, m) THEN NoRow ELSE d.message[m]
        BY <1>1
    <2>2. Added(d, t, m) => A.message[m].state = cAbsent /\ ~ Holds(A, t, m)
        BY <2>1, NoRowFacts DEF Holds, cAbsent, cDequeued
    <2>3. ~ Added(d, t, m) => A.message[m] = d.message[m] /\ (Holds(A, t, m) <=> Holds(d, t, m))
        BY <2>1 DEF Holds
    <2>4. Holds(d, t, m) => ~ Added(d, t, m)
        BY DEF Holds, Added, cAdded, cDequeued
    <2> QED BY <1>2, <1>3, <2>2, <2>3, <2>4
<1> QED BY <1>3, <1>4, <1>5

\* Opening the database touches the counters of the group's error queue only.
LEMMA OpenSane ==
    ASSUME NEW d, Sane(d)
    PROVE  Sane(Open(d)) /\ Open(d).message = d.message
<1> DEFINE C == [d.count EXCEPT ![GroupError] = 0]
           U == [d.uncommitted EXCEPT ![GroupError] = 0]
           e == [d EXCEPT !.count = C]
<1>1. d \in Database /\ Counted(d) /\ Redelivery(d)
    BY DEF Sane
<1>2. /\ d = [message |-> d.message, count |-> d.count, uncommitted |-> d.uncommitted]
      /\ d.message \in [Message -> Row]
      /\ d.count \in [QueueId -> Int] /\ d.uncommitted \in [QueueId -> Int]
    BY <1>1, Parts
<1>3. Open(d) = [e EXCEPT !.uncommitted[GroupError] = 0]
    BY Zenon DEF Open
<1>4. e = [message |-> d.message, count |-> C, uncommitted |-> d.uncommitted]
    <2> HIDE DEF C
    <2> QED BY <1>2
<1>5. [e EXCEPT !.uncommitted[GroupError] = 0] = [message |-> d.message, count |-> C, uncommitted |-> U]
    <2> HIDE DEF e, C
    <2> QED BY <1>4
<1>6. C \in [QueueId -> Int] /\ U \in [QueueId -> Int]
    <2>1. d.count \in [QueueId -> Int] /\ d.uncommitted \in [QueueId -> Int]
        BY <1>2
    <2>2. ASSUME NEW f \in [QueueId -> Int] PROVE [f EXCEPT ![GroupError] = 0] \in [QueueId -> Int]
        <3> DEFINE g == [f EXCEPT ![GroupError] = 0]
        <3>1. g = [q \in QueueId |-> IF q = GroupError THEN 0 ELSE f[q]]
            OBVIOUS
        <3>2. \A q \in QueueId : (IF q = GroupError THEN 0 ELSE f[q]) \in Int
            OBVIOUS
        <3> HIDE DEF g
        <3> QED BY <3>1, <3>2
    <2> QED BY <2>1, <2>2
<1>7. \A q \in QueueId \ {GroupError} : C[q] = d.count[q] /\ U[q] = d.uncommitted[q]
    BY <1>2
<1> HIDE DEF C, U
<1> DEFINE D == [message |-> d.message, count |-> C, uncommitted |-> U]
<1>8. D.message = d.message /\ D.count = C /\ D.uncommitted = U /\ D \in Database
    BY <1>2, <1>6 DEF Database
<1> HIDE DEF D
<1>9. Redelivery(D)
    BY <1>1, <1>8 DEF Redelivery
<1>10. \A q : CommittedIn(D, q) = CommittedIn(d, q) /\ AddedIn(D, q) = AddedIn(d, q)
    BY <1>8 DEF CommittedIn, AddedIn, Committed
<1>11. Counted(D)
    BY <1>1, <1>7, <1>8, <1>10 DEF Counted
<1>12. Open(d) = D
    BY <1>3, <1>5, Zenon DEF D
<1> QED BY <1>8, <1>9, <1>11, <1>12 DEF Sane

\* An empty database is sane.
LEMMA EmptySane ==
    Sane(EmptyDatabase) /\ \A m \in Message : EmptyDatabase.message[m].state = cAbsent
<1> DEFINE D == EmptyDatabase
<1>1. D \in Database /\ \A m \in Message : D.message[m] = NoRow
    BY NoRowFacts DEF EmptyDatabase, Database
<1>2. \A q \in QueueId : D.count[q] = 0 /\ D.uncommitted[q] = 0
    BY DEF EmptyDatabase
<1> HIDE DEF D
<1>3. Redelivery(D)
    BY <1>1, NoRowFacts DEF Redelivery
<1>4. \A q : CommittedIn(D, q) = {} /\ AddedIn(D, q) = {}
    BY <1>1, NoRowFacts DEF CommittedIn, AddedIn, Committed, cAbsent, cAdded, cEnqueued, cDequeued
<1>5. Cardinality({}) = 0
    BY FS_EmptySet
<1>6. Counted(D)
    BY <1>2, <1>4, <1>5 DEF Counted
<1> USE DEF D
<1> QED BY <1>1, <1>3, <1>6, NoRowFacts DEF Sane

-----------------------------------------------------------------------------
(* The requests and the clients.                                           *)

\* A call that is over leaves its requests where they are.
LEMMA CallOverIs ==
    ASSUME NEW s \in Seq(Request), NEW c
    PROVE  /\ CallOver(s, c) \in Seq(Request) /\ DOMAIN CallOver(s, c) = DOMAIN s
           /\ \A i \in DOMAIN s : CallOver(s, c)[i].client = s[i].client
<1> DEFINE new(i) == IF s[i].client = c THEN [s[i] EXCEPT !.waiting = FALSE] ELSE s[i]
<1>1. ASSUME NEW i \in DOMAIN s PROVE new(i) \in Request /\ new(i).client = s[i].client
    <2>1. s[i] \in Request
        OBVIOUS
    <2> QED BY <2>1 DEF Request
<1>2. Len(s) \in Nat /\ DOMAIN s = 1 .. Len(s)
    OBVIOUS
<1>3. CallOver(s, c) = [i \in DOMAIN s |-> new(i)]
    BY DEF CallOver
<1> HIDE DEF new
<1>4. [i \in DOMAIN s |-> new(i)] \in [1 .. Len(s) -> Request]
    BY <1>1, <1>2
<1>5. [i \in DOMAIN s |-> new(i)] \in Seq(Request)
    BY <1>2, <1>4
<1> QED BY <1>1, <1>3, <1>5

\* A concatenation.
LEMMA Joined ==
    ASSUME NEW S, NEW q \in Seq(S), NEW r \in Seq(S)
    PROVE  /\ q \o r \in Seq(S)
           /\ \A k \in DOMAIN (q \o r) : \/ \E j \in DOMAIN q : (q \o r)[k] = q[j]
                                         \/ \E j \in DOMAIN r : (q \o r)[k] = r[j]
<1>1. /\ q \o r \in Seq(S) /\ Len(q) \in Nat /\ Len(r) \in Nat
      /\ DOMAIN q = 1 .. Len(q) /\ DOMAIN r = 1 .. Len(r)
      /\ DOMAIN (q \o r) = 1 .. Len(q) + Len(r)
      /\ \A k \in 1 .. Len(q) + Len(r) : (q \o r)[k] = IF k <= Len(q) THEN q[k] ELSE r[k - Len(q)]
    OBVIOUS
<1>2. ASSUME NEW k \in DOMAIN (q \o r)
      PROVE  \/ \E j \in DOMAIN q : (q \o r)[k] = q[j]
             \/ \E j \in DOMAIN r : (q \o r)[k] = r[j]
    <2>1. CASE k <= Len(q)
        <3>1. k \in DOMAIN q /\ (q \o r)[k] = q[k]
            BY <1>1, <2>1
        <3> QED BY <3>1
    <2>2. CASE ~ k <= Len(q)
        <3>1. k - Len(q) \in DOMAIN r /\ (q \o r)[k] = r[k - Len(q)]
            BY <1>1, <2>2
        <3> QED BY <3>1
    <2> QED BY <2>1, <2>2
<1> QED BY <1>1, <1>2

\* Taking an element out leaves elements of the sequence.
LEMMA Removed ==
    ASSUME NEW S, NEW q \in Seq(S), NEW k \in DOMAIN q
    PROVE  /\ RemoveAt(q, k) \in Seq(S)
           /\ \A i \in DOMAIN RemoveAt(q, k) : \E j \in DOMAIN q : RemoveAt(q, k)[i] = q[j]
<1> DEFINE a == SubSeq(q, 1, k - 1)
           b == SubSeq(q, k + 1, Len(q))
<1>1. k \in 1 .. Len(q) /\ Len(q) \in Nat /\ DOMAIN q = 1 .. Len(q)
    OBVIOUS
<1>2. a \in Seq(S) /\ DOMAIN a = 1 .. k - 1 /\ \A j \in 1 .. k - 1 : a[j] = q[j]
    BY <1>1
<1>3. b \in Seq(S) /\ DOMAIN b = 1 .. Len(q) - k /\ \A j \in 1 .. Len(q) - k : b[j] = q[k + j]
    BY <1>1
<1>4. RemoveAt(q, k) = a \o b
    BY DEF RemoveAt
<1>5. \A j \in DOMAIN a : \E x \in DOMAIN q : a[j] = q[x]
    BY <1>1, <1>2
<1>6. \A j \in DOMAIN b : \E x \in DOMAIN q : b[j] = q[x]
    <2>1. \A j \in 1 .. Len(q) - k : k + j \in DOMAIN q
        BY <1>1
    <2> QED BY <1>3, <2>1
<1> HIDE DEF a, b
<1>t. a \in Seq(S) /\ b \in Seq(S)
    BY <1>2, <1>3
<1>p. ASSUME NEW u \in Seq(S), NEW v \in Seq(S)
      PROVE  /\ u \o v \in Seq(S)
             /\ \A i \in DOMAIN (u \o v) : \/ \E j \in DOMAIN u : (u \o v)[i] = u[j]
                                           \/ \E j \in DOMAIN v : (u \o v)[i] = v[j]
    BY Joined, SMTT(20)
<1>7. /\ a \o b \in Seq(S)
      /\ \A i \in DOMAIN (a \o b) : \/ \E j \in DOMAIN a : (a \o b)[i] = a[j]
                                    \/ \E j \in DOMAIN b : (a \o b)[i] = b[j]
    BY <1>t, <1>p, Zenon
<1>8. \A i \in DOMAIN (a \o b) : \E j \in DOMAIN q : (a \o b)[i] = q[j]
    BY <1>5, <1>6, <1>7
<1> QED BY <1>4, <1>7, <1>8

\* The rest of a sequence.
LEMMA Rest ==
    ASSUME NEW S, NEW q \in Seq(S), q # <<>>
    PROVE  /\ Tail(q) \in Seq(S) /\ Head(q) \in S /\ 1 \in DOMAIN q /\ Head(q) = q[1]
           /\ \A i \in DOMAIN Tail(q) : \E j \in DOMAIN q : Tail(q)[i] = q[j]
<1>1. /\ Tail(q) \in Seq(S) /\ Len(q) \in Nat /\ Len(q) > 0 /\ DOMAIN q = 1 .. Len(q)
      /\ DOMAIN Tail(q) = 1 .. Len(q) - 1 /\ \A k \in 1 .. Len(q) - 1 : Tail(q)[k] = q[k + 1]
      /\ Head(q) = q[1] /\ q[1] \in S
    OBVIOUS
<1>2. ASSUME NEW i \in DOMAIN Tail(q) PROVE \E j \in DOMAIN q : Tail(q)[i] = q[j]
    <2>1. i + 1 \in DOMAIN q /\ Tail(q)[i] = q[i + 1]
        BY <1>1
    <2> QED BY <2>1
<1> QED BY <1>1, <1>2

\* One more request.
LEMMA OneMore ==
    ASSUME NEW S, NEW q \in Seq(S), NEW r \in S
    PROVE  /\ Append(q, r) \in Seq(S)
           /\ \A i \in DOMAIN Append(q, r) :
                 Append(q, r)[i] = r \/ \E j \in DOMAIN q : Append(q, r)[i] = q[j]
<1>1. /\ Append(q, r) \in Seq(S) /\ Len(q) \in Nat /\ DOMAIN q = 1 .. Len(q)
      /\ DOMAIN Append(q, r) = 1 .. Len(q) + 1
      /\ \A i \in 1 .. Len(q) + 1 : Append(q, r)[i] = IF i <= Len(q) THEN q[i] ELSE r
    OBVIOUS
<1> QED BY <1>1

\* The states of a client.
LEMMA IdleState ==
    /\ Idle \in ClientState /\ Idle.op = "idle" /\ Idle.stage = "none" /\ Idle.trid = NoTrid
    /\ Idle.queue = GroupError /\ Idle.selector = 0
BY DEF Idle, ClientState, QueueId

\* A client whose request has come further.
LEMMA Staged ==
    ASSUME client \in [Client -> ClientState], NEW c \in Client,
           NEW st \in {"none", "read", "replied"}
    PROVE  /\ [client EXCEPT ![c].stage = st] \in [Client -> ClientState]
           /\ \A x \in Client :
                 /\ [client EXCEPT ![c].stage = st][x].op = client[x].op
                 /\ [client EXCEPT ![c].stage = st][x].trid = client[x].trid
                 /\ x # c => [client EXCEPT ![c].stage = st][x] = client[x]
           /\ [client EXCEPT ![c].stage = st][c].stage = st
<1>1. ASSUME NEW x \in Client
      PROVE  /\ [client[x] EXCEPT !.stage = st] \in ClientState
             /\ [client[x] EXCEPT !.stage = st].op = client[x].op
             /\ [client[x] EXCEPT !.stage = st].trid = client[x].trid
             /\ [client[x] EXCEPT !.stage = st].stage = st
    <2>1. client[x] \in ClientState
        OBVIOUS
    <2> QED BY <2>1 DEF ClientState
<1> DEFINE new == [client[c] EXCEPT !.stage = st]
<1>2. [client EXCEPT ![c].stage = st] = [client EXCEPT ![c] = new]
    BY Zenon
<1>3. new \in ClientState /\ new.op = client[c].op /\ new.trid = client[c].trid /\ new.stage = st
    BY <1>1
<1> HIDE DEF new
<1>4. /\ [client EXCEPT ![c] = new] \in [Client -> ClientState]
      /\ \A x \in Client : [client EXCEPT ![c] = new][x] = IF x = c THEN new ELSE client[x]
    BY <1>3
<1> QED BY <1>2, <1>3, <1>4

\* The request of a client is a request.
LEMMA RequestIs ==
    ASSUME client \in [Client -> ClientState], NEW c \in Client
    PROVE  /\ RequestOf(c) \in Request /\ RequestOf(c).client = c
           /\ RequestOf(c).trid = client[c].trid
<1>1. client[c] \in ClientState
    OBVIOUS
<1> QED BY <1>1 DEF RequestOf, Request, ClientState

\* A client sends a request to enqueue.
LEMMA SentEnqueue ==
    ASSUME NEW q \in QueueId, NEW t \in Trid \cup {NoTrid}
    PROVE  /\ [Idle EXCEPT !.op = "enqueue", !.stage = "sent", !.queue = q, !.trid = t] \in ClientState
           /\ [Idle EXCEPT !.op = "enqueue", !.stage = "sent", !.queue = q, !.trid = t].op = "enqueue"
           /\ [Idle EXCEPT !.op = "enqueue", !.stage = "sent", !.queue = q, !.trid = t].stage = "sent"
<1> DEFINE a1 == [Idle EXCEPT !.op = "enqueue"]
           a2 == [a1 EXCEPT !.stage = "sent"]
           a3 == [a2 EXCEPT !.queue = q]
           a4 == [a3 EXCEPT !.trid = t]
<1>1. [Idle EXCEPT !.op = "enqueue", !.stage = "sent", !.queue = q, !.trid = t] = a4
    BY Zenon
<1>2. a4 \in ClientState /\ a4.op = "enqueue" /\ a4.stage = "sent"
    BY IdleState DEF ClientState
<1> HIDE DEF a4
<1> QED BY <1>1, <1>2, Zenon

\* A client sends a request to dequeue.
LEMMA SentDequeue ==
    ASSUME NEW q \in QueueId, NEW t \in Trid \cup {NoTrid}, NEW b \in BOOLEAN,
           NEW s \in {0} \cup Message
    PROVE  /\ [Idle EXCEPT !.op = "dequeue", !.stage = "sent", !.queue = q, !.trid = t,
                           !.block = b, !.selector = s] \in ClientState
           /\ [Idle EXCEPT !.op = "dequeue", !.stage = "sent", !.queue = q, !.trid = t,
                           !.block = b, !.selector = s].op = "dequeue"
<1> DEFINE b1 == [Idle EXCEPT !.op = "dequeue"]
           b2 == [b1 EXCEPT !.stage = "sent"]
           b3 == [b2 EXCEPT !.queue = q]
           b4 == [b3 EXCEPT !.trid = t]
           b5 == [b4 EXCEPT !.block = b]
           b6 == [b5 EXCEPT !.selector = s]
<1>1. [Idle EXCEPT !.op = "dequeue", !.stage = "sent", !.queue = q, !.trid = t,
                   !.block = b, !.selector = s] = b6
    BY Zenon
<1>2. b6 \in ClientState /\ b6.op = "dequeue"
    BY IdleState DEF ClientState
<1> HIDE DEF b6
<1> QED BY <1>1, <1>2, Zenon

-----------------------------------------------------------------------------
(* What a step of the group does to the data and its history.              *)

\* The facts about the state that the steps rest on.
LEMMA InvFacts ==
    ASSUME GroupInv
    PROVE  /\ TypeOK /\ Bounded /\ Sane(db) /\ Sane(disk) /\ Fresh(db) /\ Fresh(disk)
           /\ Known /\ Acknowledged /\ Written
           /\ \A t \in Trid : (Underway(t) => Work(db, t)) /\ Involvement(t) /\ Replied(t)
           /\ \A t \in Trid \ late : Outcome(t)
           /\ next \in Nat /\ MaxMessages \in Nat
<1>1. next \in 0 .. MaxMessages /\ MaxMessages \in Nat
    BY BoundsAssumption DEF GroupInv, TypeOK
<1> QED BY <1>1 DEF GroupInv, Sound, Outcomes

\* The history of transaction t stays as it is.
Untouched(t) ==
    taken'[t] = taken[t] /\ \A m \in Message : writer'[m] = t <=> writer[m] = t

\* Work in transaction t0 turns the database db into D.
NewWork(D, t0) ==
    /\ Sane(D)
    /\ \A m \in Message : m > next' => D.message[m].state = cAbsent
    /\ Written'
    /\ next \in Nat /\ next' \in Nat /\ next <= next'
    /\ consumed \subseteq consumed'
    /\ acked' = acked
    /\ late' = late \cup ({t0} \cap Settled)
    /\ \A m \in Message : Kept(db, m) => Committed(D, m) \/ m \in consumed'
    /\ \A t \in Trid : t # t0 => Untouched(t)
    /\ \A t \in Trid : Underway(t) =>
          \A m \in Message : /\ writer'[m] = t => Added(D, t, m)
                             /\ m \in taken'[t] => Holds(D, t, m)
    /\ \A t \in Trid : t # t0 =>
          /\ CommittedOutcome(db, t) =>
                \A m \in Message : /\ writer'[m] = t => Committed(D, m) \/ m \in consumed'
                                   /\ m \in taken'[t] => D.message[m].state = cAbsent
          /\ RolledbackOutcome(db, t) =>
                \A m \in Message : /\ writer'[m] = t => D.message[m].state = cAbsent
                                   /\ m \in taken'[t] => ~ Holds(D, t, m)

\* An enqueue.
LEMMA EnqueueWork ==
    ASSUME GroupInv, NEW m \in Message, m = next + 1, NEW q \in QueueId,
           NEW t0 \in Trid \cup {NoTrid},
           next' = m, taken' = taken, consumed' = consumed, acked' = acked,
           writer' = IF t0 = NoTrid THEN writer ELSE [writer EXCEPT ![m] = t0],
           late' = late \cup ({t0} \cap Settled)
    PROVE  NewWork(Insert(db, m, q, t0), t0)
<1> DEFINE D == Insert(db, m, q, t0)
           row == [queue |-> q, gtrid |-> t0, redelivered |-> 0,
                   state |-> IF t0 = NoTrid THEN cEnqueued ELSE cAdded]
<1>1. /\ TypeOK /\ Sane(db) /\ Fresh(db) /\ Written /\ next \in Nat
      /\ \A t \in Trid : Underway(t) => Work(db, t)
    BY InvFacts
<1>2. db.message[m].state = cAbsent /\ next <= m /\ ~ m <= next
    BY <1>1 DEF Fresh
<1>3. Sane(D) /\ D.message = [db.message EXCEPT ![m] = row]
    BY <1>1, <1>2, InsertSane
<1>4. /\ row.gtrid = t0
      /\ row.state = IF t0 = NoTrid THEN cEnqueued ELSE cAdded
    OBVIOUS
<1> HIDE DEF D, row
<1>5. \A x \in Message : D.message[x] = IF x = m THEN row ELSE db.message[x]
    <2>1. db \in Database
        BY <1>1 DEF Sane
    <2>2. db.message \in [Message -> Row]
        BY <2>1, Parts
    <2> QED BY <1>3, <2>2
<1>6. writer \in [Message -> Trid \cup {NoTrid}]
    BY <1>1 DEF TypeOK
<1>7. \A x \in Message : writer'[x] = IF x = m /\ t0 # NoTrid THEN t0 ELSE writer[x]
    BY <1>6
<1>8. writer[m] = NoTrid /\ \A t \in Trid : m \notin taken[t] /\ t # NoTrid
    BY <1>1, <1>2, TridAssumption DEF Written
<1>9. \A x \in Message : x > next' => D.message[x].state = cAbsent
    <2>1. \A x \in Message : x > m => x # m /\ x > next
        BY <1>1, <1>2 DEF Message
    <2> QED BY <1>1, <1>5, <2>1 DEF Fresh
<1>10. Written'
    <2>1. \A x \in Message : x <= next => x <= next'
        BY <1>1, <1>2 DEF Message
    <2>2. m <= next'
        BY DEF Message
    <2>3. \A t \in Trid : taken[t] \in SUBSET Message
        BY <1>1 DEF TypeOK
    <2>4. \A t \in Trid : \A x \in taken'[t] : x <= next'
        BY <1>1, <2>1, <2>3 DEF Written
    <2>5. \A x \in Message : writer'[x] # NoTrid => x <= next'
        BY <1>1, <1>7, <2>1, <2>2 DEF Written
    <2> QED BY <2>4, <2>5 DEF Written
<1>11. \A x \in Message : Kept(db, x) => Committed(D, x) \/ x \in consumed'
    <2>1. ~ Committed(db, m)
        BY <1>2 DEF Committed, cAbsent, cEnqueued, cDequeued
    <2>2. \A x \in Message : x # m => (Committed(D, x) <=> Committed(db, x))
        BY <1>5 DEF Committed
    <2> QED BY <2>1, <2>2 DEF Kept
<1>12. \A t \in Trid : t # t0 => Untouched(t)
    BY <1>7, <1>8 DEF Untouched
<1>13. \A t \in Trid : Underway(t) =>
          \A x \in Message : /\ writer'[x] = t => Added(D, t, x)
                             /\ x \in taken'[t] => Holds(D, t, x)
    <2> SUFFICES ASSUME NEW t \in Trid, Underway(t), NEW x \in Message
                 PROVE  /\ writer'[x] = t => Added(D, t, x)
                        /\ x \in taken'[t] => Holds(D, t, x)
        OBVIOUS
    <2>1. (writer[x] = t => Added(db, t, x)) /\ (x \in taken[t] => Holds(db, t, x))
        BY <1>1 DEF Work
    <2>2. CASE x = m
        <3>1. writer'[x] = t => t0 = t /\ t0 # NoTrid
            BY <1>7, <1>8, <2>2
        <3> QED BY <1>4, <1>5, <1>8, <2>2, <3>1 DEF Added
    <2>3. CASE x # m
        BY <1>5, <1>7, <2>1, <2>3 DEF Added, Holds
    <2> QED BY <2>2, <2>3
<1>14. \A t \in Trid : t # t0 =>
          /\ CommittedOutcome(db, t) =>
                \A x \in Message : /\ writer'[x] = t => Committed(D, x) \/ x \in consumed'
                                   /\ x \in taken'[t] => D.message[x].state = cAbsent
          /\ RolledbackOutcome(db, t) =>
                \A x \in Message : /\ writer'[x] = t => D.message[x].state = cAbsent
                                   /\ x \in taken'[t] => ~ Holds(D, t, x)
    <2> SUFFICES ASSUME NEW t \in Trid, t # t0, NEW x \in Message
                 PROVE  /\ CommittedOutcome(db, t) =>
                             /\ writer'[x] = t => Committed(D, x) \/ x \in consumed'
                             /\ x \in taken'[t] => D.message[x].state = cAbsent
                        /\ RolledbackOutcome(db, t) =>
                             /\ writer'[x] = t => D.message[x].state = cAbsent
                             /\ x \in taken'[t] => ~ Holds(D, t, x)
        OBVIOUS
    <2>1. writer'[x] = t => writer[x] = t /\ x # m
        BY <1>7, <1>8
    <2>2. x \in taken'[t] => x \in taken[t] /\ x # m
        BY <1>8
    <2>3. x # m => D.message[x] = db.message[x]
        BY <1>5
    <2>4. CommittedOutcome(db, t) => /\ writer[x] = t => Kept(db, x)
                                     /\ x \in taken[t] => db.message[x].state = cAbsent
        BY DEF CommittedOutcome
    <2>5. RolledbackOutcome(db, t) => /\ writer[x] = t => db.message[x].state = cAbsent
                                      /\ x \in taken[t] => ~ Holds(db, t, x)
        BY DEF RolledbackOutcome
    <2> QED BY <1>11, <2>1, <2>2, <2>3, <2>4, <2>5 DEF Holds
<1>15. next' \in Nat /\ next <= next'
    BY <1>1, <1>2 DEF Message
<1> USE DEF D
<1> QED BY <1>1, <1>3, <1>9, <1>10, <1>11, <1>12, <1>13, <1>14, <1>15 DEF NewWork

\* A dequeue.
LEMMA TakeWork ==
    ASSUME GroupInv, NEW r \in Request, NEW x0 \in Candidates(db, r), HandOver(r, x0),
           next' = next, writer' = writer, acked' = acked
    PROVE  NewWork(Take(db, r, x0), r.trid)
<1> DEFINE D == Take(db, r, x0)
           t0 == r.trid
<1>1. /\ TypeOK /\ Sane(db) /\ Fresh(db) /\ Written /\ next \in Nat
      /\ \A t \in Trid : Underway(t) => Work(db, t)
    BY InvFacts
<1>2. /\ Sane(D) /\ x0 \in Message /\ db.message[x0].state = cEnqueued
      /\ \A x \in Message : x # x0 => D.message[x] = db.message[x]
      /\ t0 = NoTrid => D.message[x0] = NoRow
      /\ t0 # NoTrid => Holds(D, t0, x0)
    BY <1>1, TakeSane
<1>3. /\ taken' = IF t0 = NoTrid THEN taken ELSE [taken EXCEPT ![t0] = @ \cup {x0}]
      /\ consumed' = IF t0 = NoTrid THEN consumed \cup {x0} ELSE consumed
      /\ late' = late \cup ({t0} \cap Settled)
    BY DEF HandOver, WorkIn
<1>4. t0 \in Trid \cup {NoTrid}
    BY DEF Request
<1> HIDE DEF D, t0
<1>5. taken \in [Trid -> SUBSET Message]
    BY <1>1 DEF TypeOK
<1>6. \A t \in Trid : taken'[t] = IF t = t0 THEN taken[t] \cup {x0} ELSE taken[t]
    BY <1>3, <1>5, TridAssumption
<1>7. x0 <= next
    <2>1. ~ x0 > next
        BY <1>1, <1>2 DEF Fresh, cAbsent, cEnqueued
    <2> QED BY <1>1, <1>2, <2>1 DEF Message
<1>8. \A x \in Message : x > next' => D.message[x].state = cAbsent
    <2>1. \A x \in Message : x > next => x # x0
        BY <1>1, <1>2, <1>7 DEF Message
    <2> QED BY <1>1, <1>2, <2>1 DEF Fresh
<1>9. Written'
    BY <1>1, <1>6, <1>7 DEF Written
<1>10. ~ (\E t \in Trid : Added(db, t, x0) \/ Holds(db, t, x0)) /\ Committed(db, x0)
    BY <1>2 DEF Added, Holds, Committed, cAdded, cEnqueued, cDequeued
<1>11. \A x \in Message : Kept(db, x) => Committed(D, x) \/ x \in consumed'
    <2>1. Committed(D, x0) \/ x0 \in consumed'
        BY <1>2, <1>3 DEF Committed, Holds
    <2>2. \A x \in Message : x # x0 => (Committed(D, x) <=> Committed(db, x))
        BY <1>2 DEF Committed
    <2> QED BY <1>3, <2>1, <2>2 DEF Kept
<1>12. \A t \in Trid : t # t0 => Untouched(t)
    BY <1>6 DEF Untouched
<1>13. \A t \in Trid : Underway(t) =>
          \A x \in Message : /\ writer'[x] = t => Added(D, t, x)
                             /\ x \in taken'[t] => Holds(D, t, x)
    <2> SUFFICES ASSUME NEW t \in Trid, Underway(t), NEW x \in Message
                 PROVE  /\ writer'[x] = t => Added(D, t, x)
                        /\ x \in taken'[t] => Holds(D, t, x)
        OBVIOUS
    <2>1. (writer[x] = t => Added(db, t, x)) /\ (x \in taken[t] => Holds(db, t, x))
        BY <1>1 DEF Work
    <2>2. CASE x = x0
        <3>1. writer[x] # t /\ x \notin taken[t]
            BY <1>10, <2>1, <2>2
        <3>2. x \in taken'[t] => t = t0 /\ t0 # NoTrid
            BY <1>6, <3>1, TridAssumption
        <3> QED BY <1>2, <2>2, <3>1, <3>2
    <2>3. CASE x # x0
        BY <1>2, <1>6, <2>1, <2>3 DEF Added, Holds
    <2> QED BY <2>2, <2>3
<1>14. \A t \in Trid : t # t0 =>
          /\ CommittedOutcome(db, t) =>
                \A x \in Message : /\ writer'[x] = t => Committed(D, x) \/ x \in consumed'
                                   /\ x \in taken'[t] => D.message[x].state = cAbsent
          /\ RolledbackOutcome(db, t) =>
                \A x \in Message : /\ writer'[x] = t => D.message[x].state = cAbsent
                                   /\ x \in taken'[t] => ~ Holds(D, t, x)
    <2> SUFFICES ASSUME NEW t \in Trid, t # t0, NEW x \in Message
                 PROVE  /\ CommittedOutcome(db, t) =>
                             /\ writer[x] = t => Committed(D, x) \/ x \in consumed'
                             /\ x \in taken[t] => D.message[x].state = cAbsent
                        /\ RolledbackOutcome(db, t) =>
                             /\ writer[x] = t => D.message[x].state = cAbsent
                             /\ x \in taken[t] => ~ Holds(D, t, x)
        BY <1>6
    <2>1. CommittedOutcome(db, t) => /\ writer[x] = t => Kept(db, x)
                                     /\ x \in taken[t] => db.message[x].state = cAbsent
        BY DEF CommittedOutcome
    <2>2. RolledbackOutcome(db, t) => /\ writer[x] = t => db.message[x].state = cAbsent
                                      /\ x \in taken[t] => ~ Holds(db, t, x)
        BY DEF RolledbackOutcome
    <2>3. CASE x = x0
        <3>1. db.message[x].state # cAbsent
            BY <1>2, <2>3 DEF cAbsent, cEnqueued
        <3>2. ~ Holds(D, t, x)
            BY <1>2, <2>3, NoRowFacts DEF Holds, cAbsent, cDequeued
        <3> QED BY <1>11, <2>1, <2>2, <3>1, <3>2
    <2>4. CASE x # x0
        <3>1. D.message[x] = db.message[x]
            BY <1>2, <2>4
        <3> QED BY <1>11, <2>1, <2>2, <3>1 DEF Holds
    <2> QED BY <2>3, <2>4
<1>15. next <= next' /\ consumed \subseteq consumed' /\ next' \in Nat
    BY <1>1, <1>3
<1> USE DEF D, t0
<1> QED BY <1>1, <1>2, <1>3, <1>8, <1>9, <1>11, <1>12, <1>13, <1>14, <1>15 DEF NewWork

\* What the database D is after transaction t0 was committed or rolled back in it.
Decided(D, t0) ==
    /\ Sane(D)
    /\ \A m \in Message : m > next => D.message[m].state = cAbsent
    /\ \A m \in Message : Kept(db, m) => Committed(D, m) \/ m \in consumed'
    /\ \A t \in Trid \ {t0} : Underway(t) => Work(D, t)
    /\ \A t \in Trid \ {t0} :
          /\ CommittedOutcome(db, t) =>
                \A m \in Message : /\ writer[m] = t => Committed(D, m) \/ m \in consumed'
                                   /\ m \in taken[t] => D.message[m].state = cAbsent
          /\ RolledbackOutcome(db, t) => RolledbackOutcome(D, t)

\* Commit.
LEMMA CommitWork ==
    ASSUME GroupInv, NEW t0 \in Trid, transaction[t0] = "commit",
           consumed' = consumed \cup Taken(db, t0)
    PROVE  /\ Decided(DatabaseCommit(db, t0), t0)
           /\ \A m \in Message :
                 /\ writer[m] = t0 => Committed(DatabaseCommit(db, t0), m)
                 /\ m \in taken[t0] => DatabaseCommit(db, t0).message[m].state = cAbsent
<1> DEFINE D == DatabaseCommit(db, t0)
<1>1. /\ TypeOK /\ Sane(db) /\ Fresh(db)
      /\ \A t \in Trid : Underway(t) => Work(db, t)
    BY InvFacts
<1>2. /\ Sane(D)
      /\ \A m \in Message :
            /\ Added(db, t0, m) => D.message[m].state = cEnqueued
            /\ Holds(db, t0, m) => D.message[m].state = cAbsent
            /\ ~ Added(db, t0, m) /\ ~ Holds(db, t0, m) => D.message[m] = db.message[m]
    BY <1>1, CommitSane
<1>3. Work(db, t0)
    BY <1>1 DEF Underway
<1>4. Taken(db, t0) = {m \in Message : Holds(db, t0, m)}
    BY TransactionRows
<1> HIDE DEF D
<1>5. \A m \in Message : db.message[m].state = cAbsent => D.message[m].state = cAbsent
    BY <1>2 DEF Added, Holds, cAbsent, cAdded, cDequeued
<1>6. \A m \in Message : m > next => D.message[m].state = cAbsent
    BY <1>1, <1>5 DEF Fresh
<1>7. \A m \in Message : Kept(db, m) => Committed(D, m) \/ m \in consumed'
    <2> SUFFICES ASSUME NEW m \in Message, Kept(db, m) PROVE Committed(D, m) \/ m \in consumed'
        OBVIOUS
    <2>1. CASE Added(db, t0, m)
        BY <1>2, <2>1 DEF Committed
    <2>2. CASE Holds(db, t0, m)
        BY <1>4, <2>2
    <2>3. CASE ~ Added(db, t0, m) /\ ~ Holds(db, t0, m)
        BY <1>2, <2>3 DEF Kept, Committed
    <2> QED BY <2>1, <2>2, <2>3
<1>8. ASSUME NEW t \in Trid \ {t0}, NEW m \in Message
      PROVE  /\ Added(db, t, m) => Added(D, t, m)
             /\ Holds(db, t, m) => Holds(D, t, m)
             /\ Holds(D, t, m) => Holds(db, t, m)
    <2>1. Added(db, t, m) \/ Holds(db, t, m) => ~ Added(db, t0, m) /\ ~ Holds(db, t0, m)
        BY DEF Added, Holds
    <2>2. Holds(D, t, m) => ~ Added(db, t0, m) /\ ~ Holds(db, t0, m)
        BY <1>2 DEF Holds, cAbsent, cEnqueued, cDequeued
    <2>3. ~ Added(db, t0, m) /\ ~ Holds(db, t0, m) => D.message[m] = db.message[m]
        BY <1>2
    <2> QED BY <2>1, <2>2, <2>3 DEF Added, Holds
<1>9. \A t \in Trid \ {t0} : Underway(t) => Work(D, t)
    BY <1>1, <1>8 DEF Work
<1>10. ASSUME NEW t \in Trid \ {t0}
       PROVE  /\ CommittedOutcome(db, t) =>
                    \A m \in Message : /\ writer[m] = t => Committed(D, m) \/ m \in consumed'
                                       /\ m \in taken[t] => D.message[m].state = cAbsent
              /\ RolledbackOutcome(db, t) => RolledbackOutcome(D, t)
    <2>1. CommittedOutcome(db, t) =>
                    \A m \in Message : /\ writer[m] = t => Committed(D, m) \/ m \in consumed'
                                       /\ m \in taken[t] => D.message[m].state = cAbsent
        BY <1>5, <1>7 DEF CommittedOutcome
    <2>2. RolledbackOutcome(db, t) => RolledbackOutcome(D, t)
        BY <1>5, <1>8 DEF RolledbackOutcome
    <2> QED BY <2>1, <2>2
<1>11. ASSUME NEW m \in Message
       PROVE  /\ writer[m] = t0 => Committed(D, m)
              /\ m \in taken[t0] => D.message[m].state = cAbsent
    BY <1>2, <1>3 DEF Work, Committed
<1> USE DEF D
<1> QED BY <1>2, <1>6, <1>7, <1>9, <1>10, <1>11 DEF Decided

\* Rollback.
LEMMA RollbackWork ==
    ASSUME GroupInv, NEW t0 \in Trid, transaction[t0] = "rollback", consumed' = consumed
    PROVE  /\ Decided(DatabaseRollback(db, t0), t0)
           /\ RolledbackOutcome(DatabaseRollback(db, t0), t0)
<1> DEFINE D == DatabaseRollback(db, t0)
<1>1. /\ TypeOK /\ Sane(db) /\ Fresh(db)
      /\ \A t \in Trid : Underway(t) => Work(db, t)
    BY InvFacts
<1>2. /\ Sane(D)
      /\ \A m \in Message :
            /\ Added(db, t0, m) => D.message[m].state = cAbsent
            /\ Holds(db, t0, m) => D.message[m].state = cEnqueued
            /\ ~ Added(db, t0, m) /\ ~ Holds(db, t0, m) =>
                  D.message[m].state = db.message[m].state /\ D.message[m].gtrid = db.message[m].gtrid
    BY <1>1, RollbackSane
<1>3. Work(db, t0)
    BY <1>1 DEF Underway
<1> HIDE DEF D
<1>5. \A m \in Message : db.message[m].state = cAbsent => D.message[m].state = cAbsent
    BY <1>2 DEF Added, Holds, cAbsent, cAdded, cDequeued
<1>6. \A m \in Message : m > next => D.message[m].state = cAbsent
    BY <1>1, <1>5 DEF Fresh
<1>7. \A m \in Message : Kept(db, m) => Committed(D, m) \/ m \in consumed'
    <2> SUFFICES ASSUME NEW m \in Message, Committed(db, m) PROVE Committed(D, m)
        BY DEF Kept
    <2>1. ~ Added(db, t0, m)
        BY DEF Added, Committed, cAdded, cEnqueued, cDequeued
    <2> QED BY <1>2, <2>1 DEF Committed
<1>8. ASSUME NEW t \in Trid \ {t0}, NEW m \in Message
      PROVE  /\ Added(db, t, m) => Added(D, t, m)
             /\ Holds(db, t, m) => Holds(D, t, m)
             /\ Holds(D, t, m) => Holds(db, t, m)
    <2>1. Added(db, t, m) \/ Holds(db, t, m) => ~ Added(db, t0, m) /\ ~ Holds(db, t0, m)
        BY DEF Added, Holds
    <2>2. Holds(D, t, m) => ~ Added(db, t0, m) /\ ~ Holds(db, t0, m)
        BY <1>2 DEF Holds, cAbsent, cEnqueued, cDequeued
    <2> QED BY <1>2, <2>1, <2>2 DEF Added, Holds
<1>9. \A t \in Trid \ {t0} : Underway(t) => Work(D, t)
    BY <1>1, <1>8 DEF Work
<1>10. ASSUME NEW t \in Trid \ {t0}
       PROVE  /\ CommittedOutcome(db, t) =>
                    \A m \in Message : /\ writer[m] = t => Committed(D, m) \/ m \in consumed'
                                       /\ m \in taken[t] => D.message[m].state = cAbsent
              /\ RolledbackOutcome(db, t) => RolledbackOutcome(D, t)
    <2>1. CommittedOutcome(db, t) =>
                    \A m \in Message : /\ writer[m] = t => Committed(D, m) \/ m \in consumed'
                                       /\ m \in taken[t] => D.message[m].state = cAbsent
        BY <1>5, <1>7 DEF CommittedOutcome
    <2>2. RolledbackOutcome(db, t) => RolledbackOutcome(D, t)
        BY <1>5, <1>8 DEF RolledbackOutcome
    <2> QED BY <2>1, <2>2
<1>11. RolledbackOutcome(D, t0)
    <2> SUFFICES ASSUME NEW m \in Message
                 PROVE  /\ writer[m] = t0 => D.message[m].state = cAbsent
                        /\ m \in taken[t0] => ~ Holds(D, t0, m)
        BY DEF RolledbackOutcome
    <2>1. writer[m] = t0 => D.message[m].state = cAbsent
        BY <1>2, <1>3 DEF Work
    <2>2. m \in taken[t0] => D.message[m].state = cEnqueued
        BY <1>2, <1>3 DEF Work
    <2> QED BY <2>1, <2>2 DEF Holds, cEnqueued, cDequeued
<1> USE DEF D
<1> QED BY <1>2, <1>6, <1>7, <1>9, <1>10, <1>11 DEF Decided

-----------------------------------------------------------------------------
(* From the data to the invariant.                                         *)

\* The two sorts of replies are not the same.
LEMMA ReplyTypes ==
    \A t : CommitReply(t).type = "commit" /\ RollbackReply(t).type = "rollback"
           /\ CommitReply(t).trid = t /\ RollbackReply(t).trid = t
BY DEF CommitReply, RollbackReply

\* After work that is not on disk yet.
LEMMA AfterWork ==
    ASSUME GroupInv, NEW D, NEW t0 \in Trid \cup {NoTrid}, NewWork(D, t0),
           db' = D, disk' = disk, transaction' = transaction,
           involved \subseteq involved', t0 # NoTrid => t0 \in involved',
           \A r \in persistent' :
              \/ r \in persistent
              \/ r.type = "enqueue" /\ r.message \in Message /\ Committed(D, r.message)
    PROVE  Sound(db)' /\ Sound(disk)' /\ Acknowledged' /\ Outcomes'
<1>1. /\ TypeOK /\ Sane(disk) /\ Fresh(disk) /\ Acknowledged /\ Written
      /\ \A t \in Trid : Involvement(t) /\ Replied(t)
      /\ \A t \in Trid \ late : Outcome(t)
      /\ next \in Nat /\ MaxMessages \in Nat
    BY InvFacts
<1>2. /\ Sane(D) /\ Written' /\ next \in Nat /\ next' \in Nat /\ next <= next'
      /\ consumed \subseteq consumed' /\ acked' = acked
      /\ \A m \in Message : m > next' => D.message[m].state = cAbsent
    BY DEF NewWork
<1>3. Sound(db)'
    BY <1>2 DEF Sound, Fresh
<1>4. Sound(disk)'
    <2>1. \A m \in Message : m > next' => m > next
        BY <1>2 DEF Message
    <2> QED BY <1>1, <2>1 DEF Sound, Fresh
<1>5. \A m \in Message : (Kept(db, m) => Kept(db, m)') /\ (Kept(disk, m) => Kept(disk, m)')
    <2>1. \A m \in Message : Kept(db, m) => Committed(D, m) \/ m \in consumed'
        BY DEF NewWork
    <2> QED BY <1>2, <2>1 DEF Kept
<1>6. Acknowledged'
    <2>1. acked \subseteq Message /\ \A r \in persistent : r.type = "enqueue" => r.message \in Message
        BY <1>1 DEF TypeOK, PersistentReply
    <2>2. \A m \in acked' : (Kept(db, m) /\ Kept(disk, m))'
        BY <1>1, <1>2, <1>5, <2>1 DEF Acknowledged
    <2>3. \A r \in persistent' : r.type = "enqueue" => Kept(db, r.message)'
        <3> SUFFICES ASSUME NEW r \in persistent', r.type = "enqueue" PROVE Kept(db, r.message)'
            OBVIOUS
        <3>1. CASE r \in persistent
            BY <1>1, <1>5, <2>1, <3>1 DEF Acknowledged
        <3>2. CASE Committed(D, r.message)
            BY <3>2 DEF Kept
        <3> QED BY <3>1, <3>2
    <2> QED BY <2>2, <2>3 DEF Acknowledged
<1>7. ASSUME NEW t \in Trid PROVE (Underway(t) => Work(db, t))' /\ Involvement(t)' /\ Replied(t)'
    <2>1. (Underway(t) => Work(db, t))'
        BY DEF NewWork, Underway, Work
    <2>2. Involvement(t)'
        <3>1. t # t0 => Untouched(t)
            BY DEF NewWork
        <3>2. t \notin involved' => t \notin involved /\ t # t0
            BY TridAssumption
        <3> QED BY <1>1, <3>1, <3>2 DEF Involvement, Untouched
    <2>3. Replied(t)'
        BY <1>1, ReplyTypes DEF Replied
    <2> QED BY <2>1, <2>2, <2>3
<1>8. ASSUME NEW t \in Trid \ late' PROVE Outcome(t)'
    <2> DEFINE settled == transaction[t] \in {"handled", "committed", "rolledback"}
    <2>1. late' = late \cup ({t0} \cap Settled)
        BY DEF NewWork
    <2>2. settled => t # t0
        BY <2>1 DEF Settled
    <2>3. t \notin late /\ Outcome(t)
        BY <1>1, <2>1
    <2>4. t # t0 => Untouched(t)
        BY DEF NewWork
    <2>5. t # t0 => /\ CommittedOutcome(db, t) => CommittedOutcome(db, t)'
                    /\ RolledbackOutcome(db, t) => RolledbackOutcome(db, t)'
        BY DEF NewWork, CommittedOutcome, RolledbackOutcome, Kept
    <2>6. t # t0 => /\ CommittedOutcome(disk, t) => CommittedOutcome(disk, t)'
                    /\ RolledbackOutcome(disk, t) => RolledbackOutcome(disk, t)'
        <3>1. Untouched(t) /\ CommittedOutcome(disk, t) => CommittedOutcome(disk, t)'
            BY <1>5 DEF Untouched, CommittedOutcome
        <3>2. Untouched(t) /\ RolledbackOutcome(disk, t) => RolledbackOutcome(disk, t)'
            BY DEF Untouched, RolledbackOutcome
        <3> QED BY <2>4, <3>1, <3>2
    <2>7. /\ CommitReply(t) \in persistent' => CommitReply(t) \in persistent /\ settled
          /\ RollbackReply(t) \in persistent' => RollbackReply(t) \in persistent /\ settled
        BY <1>1, ReplyTypes DEF Replied
    <2>8. /\ CommitReply(t) \in persistent' => CommittedOutcome(db, t)'
          /\ RollbackReply(t) \in persistent' => RolledbackOutcome(db, t)'
        BY <2>2, <2>3, <2>5, <2>7 DEF Outcome
    <2>9. transaction[t] = "committed" => (CommittedOutcome(db, t) /\ CommittedOutcome(disk, t))'
        BY <2>2, <2>3, <2>5, <2>6 DEF Outcome
    <2>10. transaction[t] = "rolledback" => (RolledbackOutcome(db, t) /\ RolledbackOutcome(disk, t))'
        BY <2>2, <2>3, <2>5, <2>6 DEF Outcome
    <2> QED BY <2>8, <2>9, <2>10 DEF Outcome
<1>9. Outcomes'
    BY <1>2, <1>7, <1>8 DEF Outcomes
<1> QED BY <1>3, <1>4, <1>6, <1>9

\* After a commit or a rollback that is not on disk yet.
LEMMA AfterDecision ==
    ASSUME GroupInv, NEW D, NEW t0 \in Trid, Decided(D, t0), Underway(t0),
           NEW reply \in {CommitReply(t0), RollbackReply(t0)},
           reply = CommitReply(t0) =>
                \A m \in Message : /\ writer[m] = t0 => Committed(D, m) \/ m \in consumed'
                                   /\ m \in taken[t0] => D.message[m].state = cAbsent,
           reply = RollbackReply(t0) => RolledbackOutcome(D, t0),
           db' = D, disk' = disk, transaction' = [transaction EXCEPT ![t0] = "handled"],
           persistent' = persistent \cup {reply},
           next' = next, writer' = writer, taken' = taken, acked' = acked, late' = late,
           involved' = involved, consumed \subseteq consumed'
    PROVE  Sound(db)' /\ Sound(disk)' /\ Acknowledged' /\ Outcomes'
<1>1. /\ TypeOK /\ Sane(disk) /\ Fresh(disk) /\ Acknowledged /\ Written
      /\ \A t \in Trid : (Underway(t) => Work(db, t)) /\ Involvement(t) /\ Replied(t)
      /\ \A t \in Trid \ late : Outcome(t)
    BY InvFacts
<1>2. transaction \in [Trid -> TransactionState]
    BY <1>1 DEF TypeOK
<1>3. \A t \in Trid : transaction'[t] = IF t = t0 THEN "handled" ELSE transaction[t]
    BY <1>2
<1>4. Sound(db)'
    BY DEF Decided, Sound, Fresh
<1>5. Sound(disk)'
    BY <1>1 DEF Sound, Fresh
<1>6. \A m \in Message : (Kept(db, m) => Kept(db, m)') /\ (Kept(disk, m) => Kept(disk, m)')
    BY DEF Decided, Kept
<1>7. reply.type \in {"commit", "rollback"} /\ reply.trid = t0
    BY ReplyTypes
<1>8. Acknowledged'
    <2>1. acked \subseteq Message /\ \A r \in persistent : r.type = "enqueue" => r.message \in Message
        BY <1>1 DEF TypeOK, PersistentReply
    <2>2. \A m \in acked' : (Kept(db, m) /\ Kept(disk, m))'
        BY <1>1, <1>6, <2>1 DEF Acknowledged
    <2>3. \A r \in persistent' : r.type = "enqueue" => r \in persistent
        BY <1>7
    <2>4. \A r \in persistent' : r.type = "enqueue" => Kept(db, r.message)'
        BY <1>1, <1>6, <2>1, <2>3 DEF Acknowledged
    <2> QED BY <2>2, <2>4 DEF Acknowledged
<1>9. ~ (CommitReply(t0) \in persistent) /\ ~ (RollbackReply(t0) \in persistent)
    BY <1>1 DEF Replied, Underway
<1>10. ASSUME NEW t \in Trid, t # t0
       PROVE  /\ CommitReply(t) \in persistent' <=> CommitReply(t) \in persistent
              /\ RollbackReply(t) \in persistent' <=> RollbackReply(t) \in persistent
    BY <1>7, <1>10, ReplyTypes
<1>11. ASSUME NEW t \in Trid PROVE (Underway(t) => Work(db, t))' /\ Involvement(t)' /\ Replied(t)'
    <2>1. CASE t = t0
        BY <1>3, <2>1 DEF Underway, Involvement, Replied
    <2>2. CASE t # t0
        <3>1. (Underway(t) => Work(db, t))'
            BY <1>1, <1>3, <2>2 DEF Decided, Underway, Work
        <3>2. Involvement(t)'
            BY <1>1, <1>3, <2>2 DEF Involvement
        <3>3. Replied(t)'
            BY <1>1, <1>3, <1>10, <2>2 DEF Replied
        <3> QED BY <3>1, <3>2, <3>3
    <2> QED BY <2>1, <2>2
<1>12. ASSUME NEW t \in Trid \ late' PROVE Outcome(t)'
    <2>1. t \notin late /\ Outcome(t)
        BY <1>1
    <2>2. CASE t = t0
        <3>1. CommitReply(t0) \in persistent' => reply = CommitReply(t0)
            BY <1>9
        <3>2. RollbackReply(t0) \in persistent' => reply = RollbackReply(t0)
            BY <1>9
        <3>3. reply = CommitReply(t0) => CommittedOutcome(db, t0)'
            BY DEF CommittedOutcome, Kept
        <3>4. reply = RollbackReply(t0) => RolledbackOutcome(db, t0)'
            BY DEF RolledbackOutcome
        <3>5. transaction'[t] = "handled"
            BY <1>3, <2>2
        <3> QED BY <2>2, <3>1, <3>2, <3>3, <3>4, <3>5 DEF Outcome
    <2>3. CASE t # t0
        <3>1. /\ CommittedOutcome(db, t) => CommittedOutcome(db, t)'
              /\ RolledbackOutcome(db, t) => RolledbackOutcome(db, t)'
            BY <2>3 DEF Decided, CommittedOutcome, RolledbackOutcome, Kept
        <3>2. /\ CommittedOutcome(disk, t) => CommittedOutcome(disk, t)'
              /\ RolledbackOutcome(disk, t) => RolledbackOutcome(disk, t)'
            BY <1>6 DEF CommittedOutcome, RolledbackOutcome
        <3> QED BY <1>3, <1>10, <2>1, <2>3, <3>1, <3>2 DEF Outcome
    <2> QED BY <2>2, <2>3
<1>13. Written'
    BY <1>1 DEF Written
<1>14. Outcomes'
    BY <1>11, <1>12, <1>13 DEF Outcomes
<1> QED BY <1>4, <1>5, <1>8, <1>14

\* After a restart with the database D.
LEMMA AfterRestart ==
    ASSUME GroupInv, NEW D, Restart(D), Sane(D),
           \A m \in Message : m > next' => D.message[m].state = cAbsent,
           Written',
           \A m \in acked' : Committed(D, m) \/ m \in consumed',
           \A t \in Trid \ late' :
              /\ transaction[t] = "committed" =>
                    \A m \in Message : /\ writer'[m] = t => Committed(D, m) \/ m \in consumed'
                                       /\ m \in taken'[t] => D.message[m].state = cAbsent
              /\ transaction[t] = "rolledback" =>
                    \A m \in Message : /\ writer'[m] = t => D.message[m].state = cAbsent
                                       /\ m \in taken'[t] => ~ Holds(D, t, m),
           \A t \in Trid :
              (\A c \in Client : client[c].trid # t) /\ transaction[t] = "active" /\ t \notin involved =>
                    \A m \in Message : writer'[m] # t /\ m \notin taken'[t]
    PROVE  Sound(db)' /\ Sound(disk)' /\ Known' /\ Acknowledged' /\ Outcomes'
<1> DEFINE stays(t) ==
             \/ transaction[t] \in {"committed", "rolledback"}
             \/ (t \notin involved /\ transaction[t] = "active" /\ \A c \in Client : client[c].trid # t)
<1>1. /\ db' = Open(D) /\ disk' = Open(D) /\ requests' = <<>> /\ serving' = <<>>
      /\ persistent' = {} /\ client' = [c \in Client |-> Idle]
      /\ transaction' = [t \in Trid |-> IF stays(t) THEN transaction[t] ELSE "lost"]
    BY DEF Restart
<1>2. Sane(Open(D)) /\ Open(D).message = D.message
    BY OpenSane
<1>3. \A m \in Message : Committed(Open(D), m) <=> Committed(D, m)
    BY <1>2 DEF Committed
<1>4. \A t, m : Holds(Open(D), t, m) <=> Holds(D, t, m)
    BY <1>2 DEF Holds
<1>5. Sound(db)' /\ Sound(disk)'
    BY <1>1, <1>2 DEF Sound, Fresh
<1>6. Known'
    BY <1>1, IdleState DEF Known
<1>7. Acknowledged'
    <2>1. \A m \in acked' : Committed(Open(D), m) \/ m \in consumed'
        BY <1>2 DEF Committed
    <2> QED BY <1>1, <2>1 DEF Acknowledged, Kept
<1>8. ASSUME NEW t \in Trid PROVE (Underway(t) => Work(db, t))' /\ Involvement(t)' /\ Replied(t)'
    <2>1. transaction'[t] = IF stays(t) THEN transaction[t] ELSE "lost"
        BY <1>1
    <2>2. Underway(t)' => \A m \in Message : writer'[m] # t /\ m \notin taken'[t]
        BY <2>1 DEF Underway
    <2>3. (Underway(t) => Work(db, t))'
        BY <2>2 DEF Work
    <2>4. Involvement(t)'
        BY <2>2 DEF Involvement, Underway
    <2>5. Replied(t)'
        BY <1>1 DEF Replied
    <2> QED BY <2>3, <2>4, <2>5
<1>9. ASSUME NEW t \in Trid \ late' PROVE Outcome(t)'
    <2>1. transaction'[t] \in {"committed", "rolledback"} => transaction[t] = transaction'[t]
        <3>1. transaction'[t] = IF stays(t) THEN transaction[t] ELSE "lost"
            BY <1>1
        <3> QED BY <3>1
    <2>2. transaction'[t] = "committed" => (CommittedOutcome(db, t) /\ CommittedOutcome(disk, t))'
        BY <1>1, <1>2, <1>3, <2>1 DEF CommittedOutcome, Kept
    <2>3. transaction'[t] = "rolledback" => (RolledbackOutcome(db, t) /\ RolledbackOutcome(disk, t))'
        BY <1>1, <1>2, <1>4, <2>1 DEF RolledbackOutcome
    <2> QED BY <1>1, <2>2, <2>3 DEF Outcome
<1>10. Outcomes'
    BY <1>8, <1>9 DEF Outcomes
<1> QED BY <1>5, <1>6, <1>7, <1>10

\* After a restart with what was worked on, which is committed when an
\* exception leaves the pump.
LEMMA AfterWorkRestart ==
    ASSUME GroupInv, NEW D, NEW t0 \in Trid \cup {NoTrid}, NewWork(D, t0), Restart(D),
           t0 # NoTrid => \E c \in Client : client[c].trid = t0
    PROVE  Sound(db)' /\ Sound(disk)' /\ Known' /\ Acknowledged' /\ Outcomes'
<1>1. /\ TypeOK /\ Acknowledged
      /\ \A t \in Trid : Involvement(t)
      /\ \A t \in Trid \ late : Outcome(t)
    BY InvFacts
<1>2. /\ Sane(D) /\ Written' /\ acked' = acked /\ late' = late \cup ({t0} \cap Settled)
      /\ \A m \in Message : m > next' => D.message[m].state = cAbsent
    BY DEF NewWork
<1>3. \A m \in acked' : Committed(D, m) \/ m \in consumed'
    <2>1. acked \subseteq Message
        BY <1>1 DEF TypeOK
    <2> QED BY <1>1, <1>2, <2>1 DEF Acknowledged, NewWork
<1>4. ASSUME NEW t \in Trid \ late'
      PROVE  /\ transaction[t] = "committed" =>
                    \A m \in Message : /\ writer'[m] = t => Committed(D, m) \/ m \in consumed'
                                       /\ m \in taken'[t] => D.message[m].state = cAbsent
             /\ transaction[t] = "rolledback" =>
                    \A m \in Message : /\ writer'[m] = t => D.message[m].state = cAbsent
                                       /\ m \in taken'[t] => ~ Holds(D, t, m)
    <2>1. transaction[t] \in {"committed", "rolledback"} => t # t0
        BY <1>2 DEF Settled
    <2>2. Outcome(t)
        BY <1>1, <1>2
    <2>3. transaction[t] = "committed" => CommittedOutcome(db, t)
        BY <2>2 DEF Outcome
    <2>4. transaction[t] = "rolledback" => RolledbackOutcome(db, t)
        BY <2>2 DEF Outcome
    <2> QED BY <2>1, <2>3, <2>4 DEF NewWork
<1>5. ASSUME NEW t \in Trid, \A c \in Client : client[c].trid # t,
             transaction[t] = "active", t \notin involved
      PROVE  \A m \in Message : writer'[m] # t /\ m \notin taken'[t]
    <2>1. t # t0
        BY <1>5, TridAssumption
    <2>2. Untouched(t)
        BY <2>1 DEF NewWork
    <2> QED BY <1>1, <1>5, <2>2 DEF Involvement, Untouched
<1> QED BY <1>2, <1>3, <1>4, <1>5, AfterRestart

\* After a crash.
LEMMA AfterCrash ==
    ASSUME GroupInv, Crash
    PROVE  Sound(db)' /\ Sound(disk)' /\ Known' /\ Acknowledged' /\ Outcomes'
<1>1. /\ TypeOK /\ Sane(disk) /\ Fresh(disk) /\ Written /\ Acknowledged
      /\ \A t \in Trid : Involvement(t)
      /\ \A t \in Trid \ late : Outcome(t)
    BY InvFacts
<1>2. /\ Restart(disk) /\ next' = next /\ writer' = writer /\ taken' = taken /\ acked' = acked
      /\ consumed' = consumed /\ late' = late
    BY DEF Crash, history
<1>3. PICK E : E = disk
    OBVIOUS
<1>4. Restart(E) /\ Sane(E)
    BY <1>1, <1>2, <1>3
<1>5. \A m \in Message : m > next' => E.message[m].state = cAbsent
    BY <1>1, <1>2, <1>3 DEF Fresh
<1>6. Written'
    BY <1>1, <1>2 DEF Written
<1>7. \A m \in acked' : Committed(E, m) \/ m \in consumed'
    BY <1>1, <1>2, <1>3 DEF Acknowledged, Kept
<1>8. ASSUME NEW t \in Trid \ late'
      PROVE  /\ transaction[t] = "committed" =>
                    \A m \in Message : /\ writer'[m] = t => Committed(E, m) \/ m \in consumed'
                                       /\ m \in taken'[t] => E.message[m].state = cAbsent
             /\ transaction[t] = "rolledback" =>
                    \A m \in Message : /\ writer'[m] = t => E.message[m].state = cAbsent
                                       /\ m \in taken'[t] => ~ Holds(E, t, m)
    <2>1. Outcome(t)
        BY <1>1, <1>2
    <2>2. transaction[t] = "committed" => CommittedOutcome(disk, t)
        BY <2>1 DEF Outcome
    <2>3. transaction[t] = "rolledback" => RolledbackOutcome(disk, t)
        BY <2>1 DEF Outcome
    <2> QED BY <1>2, <1>3, <2>2, <2>3 DEF CommittedOutcome, RolledbackOutcome, Kept
<1>9. ASSUME NEW t \in Trid, \A c \in Client : client[c].trid # t,
             transaction[t] = "active", t \notin involved
      PROVE  \A m \in Message : writer'[m] # t /\ m \notin taken'[t]
    BY <1>1, <1>2, <1>9 DEF Involvement
<1> QED BY <1>4, <1>5, <1>6, <1>7, <1>8, <1>9, AfterRestart

-----------------------------------------------------------------------------
(* The clients and the coordinator.                                        *)

\* Counting the requests that are being sent.
LEMMA SendingFacts ==
    /\ IsFiniteSet(Sending) /\ Cardinality(Sending) \in Nat
    /\ \A S : S \subseteq Sending => IsFiniteSet(S) /\ Cardinality(S) \in Nat
                                     /\ Cardinality(S) <= Cardinality(Sending)
<1>1. Sending \subseteq Client
    BY DEF Sending
<1>2. IsFiniteSet(Sending)
    BY <1>1, FiniteAssumption, FS_Subset
<1>3. Cardinality(Sending) \in Nat
    BY <1>2, FS_CardinalityType
<1>4. ASSUME NEW S, S \subseteq Sending
      PROVE  IsFiniteSet(S) /\ Cardinality(S) \in Nat /\ Cardinality(S) <= Cardinality(Sending)
    BY <1>2, <1>4, FS_Subset, FS_CardinalityType
<1> QED BY <1>2, <1>3, <1>4

\* No more is sent, or one request that there is room for.
LEMMA StillBounded ==
    ASSUME GroupInv, next' = next,
           \/ Sending' \subseteq Sending
           \/ /\ next + Cardinality(Sending) < MaxMessages
              /\ \E c \in Client : Sending' \subseteq Sending \cup {c}
    PROVE  Bounded' /\ next' \in 0 .. MaxMessages
<1>1. /\ next + Cardinality(Sending) <= MaxMessages /\ next \in 0 .. MaxMessages
      /\ MaxMessages \in Nat /\ Cardinality(Sending) \in Nat
    BY InvFacts, SendingFacts DEF Bounded, TypeOK
<1>2. CASE Sending' \subseteq Sending
    <2>1. Cardinality(Sending') \in Nat /\ Cardinality(Sending') <= Cardinality(Sending)
        BY <1>2, SendingFacts
    <2> QED BY <1>1, <2>1 DEF Bounded
<1>3. ASSUME next + Cardinality(Sending) < MaxMessages, NEW c \in Client,
             Sending' \subseteq Sending \cup {c}
      PROVE  Bounded' /\ next' \in 0 .. MaxMessages
    <2>1. /\ IsFiniteSet(Sending \cup {c})
          /\ Cardinality(Sending \cup {c}) \in {Cardinality(Sending), Cardinality(Sending) + 1}
        BY SendingFacts, FS_AddElement
    <2>2. Cardinality(Sending') <= Cardinality(Sending \cup {c}) /\ Cardinality(Sending') \in Nat
        BY <1>3, <2>1, FS_Subset, FS_CardinalityType
    <2> QED BY <1>1, <1>3, <2>1, <2>2 DEF Bounded
<1> QED BY <1>2, <1>3

\* A request becomes a message.
LEMMA RoomForOne ==
    ASSUME GroupInv, NEW c \in Client, client[c].op = "enqueue", client[c].stage = "sent"
    PROVE  /\ next + 1 \in Message /\ next + 1 \in 0 .. MaxMessages
           /\ next' = next + 1 /\ Sending' \subseteq Sending \ {c} => Bounded'
<1>1. /\ next + Cardinality(Sending) <= MaxMessages /\ next \in 0 .. MaxMessages
      /\ MaxMessages \in Nat /\ Cardinality(Sending) \in Nat /\ IsFiniteSet(Sending)
    BY InvFacts, SendingFacts DEF Bounded, TypeOK
<1>2. c \in Sending
    BY DEF Sending
<1>3. /\ Cardinality(Sending \ {c}) = Cardinality(Sending) - 1 /\ IsFiniteSet(Sending \ {c})
      /\ Cardinality(Sending \ {c}) \in Nat
    BY <1>1, <1>2, FS_RemoveElement, FS_CardinalityType
<1>4. ASSUME next' = next + 1, Sending' \subseteq Sending \ {c} PROVE Bounded'
    <2>1. Cardinality(Sending') \in Nat /\ Cardinality(Sending') <= Cardinality(Sending \ {c})
        BY <1>3, <1>4, FS_Subset, FS_CardinalityType
    <2> QED BY <1>1, <1>3, <1>4, <2>1 DEF Bounded
<1> QED BY <1>1, <1>3, <1>4 DEF Message

\* The data and what was answered stay as they are while a transaction is
\* doomed or its commit or rollback is asked for.
LEMMA AfterCoordination ==
    ASSUME GroupInv,
           db' = db, disk' = disk, persistent' = persistent, next' = next, writer' = writer,
           taken' = taken, acked' = acked, consumed' = consumed, late' = late,
           \A t \in Trid :
              \/ transaction'[t] = transaction[t]
              \/ /\ transaction[t] \in {"active", "doomed"}
                 /\ transaction'[t] \in {"doomed", "commit", "rollback", "lost"},
           \A t \in Trid : transaction'[t] = "active" /\ t \notin involved' => t \notin involved
    PROVE  Sound(db)' /\ Sound(disk)' /\ Acknowledged' /\ Outcomes'
<1>1. /\ TypeOK /\ Sane(db) /\ Sane(disk) /\ Fresh(db) /\ Fresh(disk) /\ Acknowledged /\ Written
      /\ \A t \in Trid : (Underway(t) => Work(db, t)) /\ Involvement(t) /\ Replied(t)
      /\ \A t \in Trid \ late : Outcome(t)
    BY InvFacts
<1>2. Sound(db)' /\ Sound(disk)'
    BY <1>1 DEF Sound, Fresh
<1>3. Acknowledged'
    BY <1>1 DEF Acknowledged, Kept
<1>4. ASSUME NEW t \in Trid PROVE (Underway(t) => Work(db, t))' /\ Involvement(t)' /\ Replied(t)'
    <2>1. Underway(t)' => Underway(t)
        BY DEF Underway
    <2>2. (Underway(t) => Work(db, t))'
        BY <1>1, <2>1 DEF Work
    <2>3. transaction'[t] = "active" => transaction[t] = "active"
        OBVIOUS
    <2>4. Involvement(t)'
        BY <1>1, <2>3 DEF Involvement
    <2>5. Replied(t)'
        BY <1>1 DEF Replied
    <2> QED BY <2>2, <2>4, <2>5
<1>5. ASSUME NEW t \in Trid \ late' PROVE Outcome(t)'
    <2>1. Outcome(t)
        BY <1>1
    <2>2. transaction'[t] \in {"committed", "rolledback"} => transaction'[t] = transaction[t]
        OBVIOUS
    <2> QED BY <2>1, <2>2 DEF Outcome, CommittedOutcome, RolledbackOutcome, Kept
<1>6. Written'
    BY <1>1 DEF Written
<1>7. Outcomes'
    BY <1>4, <1>5, <1>6 DEF Outcomes
<1> QED BY <1>2, <1>3, <1>7

\* Dooming a transaction is such a step.
LEMMA DoomIs ==
    ASSUME TypeOK, NEW t0 \in Trid \cup {NoTrid}
    PROVE  /\ Doom(t0) \in [Trid -> TransactionState]
           /\ \A t \in Trid : \/ Doom(t0)[t] = transaction[t]
                              \/ transaction[t] \in {"active", "doomed"} /\ Doom(t0)[t] = "doomed"
<1>1. transaction \in [Trid -> TransactionState]
    BY DEF TypeOK
<1> QED BY <1>1 DEF Doom, TransactionState

\* A client that has sent something, or does something else.
LEMMA ClientChanges ==
    ASSUME client \in [Client -> ClientState], NEW c \in Client, NEW new \in ClientState,
           client' = [client EXCEPT ![c] = new]
    PROVE  /\ client' \in [Client -> ClientState]
           /\ new.op = "enqueue" /\ new.stage = "sent" => Sending' \subseteq Sending \cup {c}
           /\ new.op # "enqueue" \/ new.stage # "sent" => Sending' \subseteq Sending \ {c}
           /\ \A x \in Client : client'[x] = IF x = c THEN new ELSE client[x]
BY DEF Sending

\* A client whose request has come further does not send it any more.
LEMMA Further ==
    ASSUME client \in [Client -> ClientState], NEW c \in Client, NEW st \in {"none", "read", "replied"},
           client' = [client EXCEPT ![c].stage = st]
    PROVE  /\ client' \in [Client -> ClientState] /\ Sending' \subseteq Sending \ {c}
           /\ \A x \in Client : client'[x].stage = "sent" => client[x].stage = "sent" /\ x # c
<1> DEFINE new == [client[c] EXCEPT !.stage = st]
<1>1. client' = [client EXCEPT ![c] = new]
    BY Zenon
<1>2. new \in ClientState /\ new.stage = st
    <2>1. client[c] \in ClientState
        OBVIOUS
    <2> QED BY <2>1 DEF ClientState
<1> HIDE DEF new
<1>3. /\ client' \in [Client -> ClientState]
      /\ \A x \in Client : client'[x] = IF x = c THEN new ELSE client[x]
    BY <1>1, <1>2
<1>4. st # "sent"
    OBVIOUS
<1> QED BY <1>2, <1>3, <1>4 DEF Sending

\* A client takes a step of its own: the requests of the group stay.
LEMMA ClientStep ==
    ASSUME GroupInv, NEW c \in Client, ClientNext(c)
    PROVE  GroupInv'
<1>1. TypeOK /\ Known
    BY InvFacts
<1>2. client \in [Client -> ClientState]
    BY <1>1 DEF TypeOK
<1> DEFINE Same == /\ db' = db /\ disk' = disk /\ requests' = requests /\ enqueued' = enqueued
                   /\ serving' = serving /\ remaining' = remaining /\ persistent' = persistent
                   /\ involved' = involved /\ crashes' = crashes
                   /\ next' = next /\ writer' = writer /\ taken' = taken /\ acked' = acked
                   /\ consumed' = consumed /\ late' = late
<1>3. ASSUME Same, transaction' = transaction \/ \E t \in Trid \cup {NoTrid} : transaction' = Doom(t),
             client' \in [Client -> ClientState],
             forget' \subseteq Client, alive' \subseteq Client, deaths' \subseteq Client,
             alive \cup deaths \subseteq alive' \cup deaths',
             \A x \in Client : client'[x].stage = "sent" => client[x].stage = "sent" \/ x \in alive,
             \/ Sending' \subseteq Sending
             \/ /\ next + Cardinality(Sending) < MaxMessages
                /\ \E x \in Client : Sending' \subseteq Sending \cup {x}
      PROVE  GroupInv'
    <2>1. /\ transaction' \in [Trid -> TransactionState]
          /\ \A t \in Trid : \/ transaction'[t] = transaction[t]
                             \/ transaction[t] \in {"active", "doomed"} /\ transaction'[t] = "doomed"
        BY <1>1, <1>3, DoomIs DEF TypeOK
    <2>2. Sound(db)' /\ Sound(disk)' /\ Acknowledged' /\ Outcomes'
        <3>1. \A t \in Trid :
                 \/ transaction'[t] = transaction[t]
                 \/ /\ transaction[t] \in {"active", "doomed"}
                    /\ transaction'[t] \in {"doomed", "commit", "rollback", "lost"}
            BY <2>1
        <3>2. \A t \in Trid : transaction'[t] = "active" /\ t \notin involved' => t \notin involved
            BY <1>3
        <3> QED BY <1>3, <3>1, <3>2, AfterCoordination
    <2>3. Bounded'
        BY <1>3, StillBounded
    <2>4. TypeOK'
        BY <1>1, <1>3, <2>1 DEF TypeOK
    <2>5. Known'
        BY <1>1, <1>3 DEF Known
    <2> QED BY <2>2, <2>3, <2>4, <2>5 DEF GroupInv
<1>4. CASE Enqueue(c)
    <2>1. PICK q \in Queue, t \in Usable(c) :
             client' = [client EXCEPT ![c] = [Idle EXCEPT !.op = "enqueue", !.stage = "sent",
                                                          !.queue = <<q, "cQueue">>, !.trid = t]]
        BY <1>4 DEF Enqueue
    <2> DEFINE new == [Idle EXCEPT !.op = "enqueue", !.stage = "sent",
                                   !.queue = <<q, "cQueue">>, !.trid = t]
    <2>2. new \in ClientState /\ new.op = "enqueue" /\ new.stage = "sent"
        <3>1. <<q, "cQueue">> \in QueueId /\ t \in Trid \cup {NoTrid}
            BY TridAssumption DEF QueueId, Usable
        <3> QED BY <3>1, SentEnqueue, Zenon
    <2> HIDE DEF new
    <2>3. client' = [client EXCEPT ![c] = new]
        BY <2>1 DEF new
    <2>4. /\ client' \in [Client -> ClientState] /\ Sending' \subseteq Sending \cup {c}
          /\ \A x \in Client : client'[x] = IF x = c THEN new ELSE client[x]
        BY <1>2, <2>2, <2>3, ClientChanges
    <2>5. Same /\ transaction' = transaction /\ forget' = forget /\ alive' = alive /\ deaths' = deaths
        BY <1>4 DEF Enqueue, groupVars, history
    <2>6. c \in alive /\ next + Cardinality(Sending) < MaxMessages
        BY <1>4 DEF Enqueue, Sending
    <2>7. /\ forget' \subseteq Client /\ alive' \subseteq Client /\ deaths' \subseteq Client
          /\ alive \cup deaths \subseteq alive' \cup deaths'
        BY <1>1, <2>5 DEF TypeOK
    <2>8. \A x \in Client : client'[x].stage = "sent" => client[x].stage = "sent" \/ x \in alive
        BY <2>4, <2>6
    <2> HIDE DEF Same
    <2> QED BY <1>3, <2>4, <2>5, <2>6, <2>7, <2>8
<1>5. CASE Dequeue(c)
    <2>1. PICK q \in Readable, t \in Usable(c), s \in Selectors, b \in BOOLEAN :
             client' = [client EXCEPT ![c] = [Idle EXCEPT !.op = "dequeue", !.stage = "sent", !.queue = q,
                                                          !.trid = t, !.block = b, !.selector = s]]
        BY <1>5 DEF Dequeue
    <2> DEFINE new == [Idle EXCEPT !.op = "dequeue", !.stage = "sent", !.queue = q,
                                   !.trid = t, !.block = b, !.selector = s]
    <2>2. new \in ClientState /\ new.op # "enqueue"
        <3>1. q \in QueueId /\ t \in Trid \cup {NoTrid} /\ s \in {0} \cup Message
            BY TridAssumption, QueueAssumption, BoundsAssumption DEF Usable
        <3>2. new \in ClientState /\ new.op = "dequeue"
            BY <3>1, SentDequeue, Zenon
        <3> HIDE DEF new
        <3> QED BY <3>2
    <2> HIDE DEF new
    <2>3. client' = [client EXCEPT ![c] = new]
        BY <2>1 DEF new
    <2>4. /\ client' \in [Client -> ClientState] /\ Sending' \subseteq Sending
          /\ \A x \in Client : client'[x] = IF x = c THEN new ELSE client[x]
        BY <1>2, <2>2, <2>3, ClientChanges
    <2>5. Same /\ transaction' = transaction /\ forget' = forget /\ alive' = alive /\ deaths' = deaths
        BY <1>5 DEF Dequeue, groupVars, history
    <2>6. c \in alive
        BY <1>5 DEF Dequeue
    <2>7. /\ forget' \subseteq Client /\ alive' \subseteq Client /\ deaths' \subseteq Client
          /\ alive \cup deaths \subseteq alive' \cup deaths'
        BY <1>1, <2>5 DEF TypeOK
    <2>8. \A x \in Client : client'[x].stage = "sent" => client[x].stage = "sent" \/ x \in alive
        BY <2>4, <2>6
    <2> HIDE DEF Same
    <2> QED BY <1>3, <2>4, <2>5, <2>7, <2>8
<1>6. CASE Receive(c)
    <2>1. client' = [client EXCEPT ![c] = Idle]
        BY <1>6 DEF Receive
    <2>4. /\ client' \in [Client -> ClientState] /\ Sending' \subseteq Sending
          /\ \A x \in Client : client'[x] = IF x = c THEN Idle ELSE client[x]
        BY <1>2, <2>1, IdleState, ClientChanges
    <2>5. Same /\ transaction' = transaction /\ forget' = forget /\ alive' = alive /\ deaths' = deaths
        BY <1>6 DEF Receive, groupVars, history
    <2>7. /\ forget' \subseteq Client /\ alive' \subseteq Client /\ deaths' \subseteq Client
          /\ alive \cup deaths \subseteq alive' \cup deaths'
        BY <1>1, <2>5 DEF TypeOK
    <2>8. \A x \in Client : client'[x].stage = "sent" => client[x].stage = "sent" \/ x \in alive
        BY <2>4, IdleState
    <2> HIDE DEF Same
    <2> QED BY <1>3, <2>4, <2>5, <2>7, <2>8
<1>7. CASE GiveUp(c)
    <2>1. /\ Same /\ transaction' = transaction /\ forget' = forget \cup {c} /\ alive' = alive
          /\ deaths' = deaths /\ client' = client
        BY <1>7 DEF GiveUp, groupVars, history
    <2>2. /\ forget' \subseteq Client /\ alive' \subseteq Client /\ deaths' \subseteq Client
          /\ alive \cup deaths \subseteq alive' \cup deaths'
        BY <1>1, <2>1 DEF TypeOK
    <2>3. Sending' \subseteq Sending /\ client' \in [Client -> ClientState]
        BY <1>2, <2>1 DEF Sending
    <2>4. \A x \in Client : client'[x].stage = "sent" => client[x].stage = "sent" \/ x \in alive
        BY <2>1
    <2> HIDE DEF Same
    <2> QED BY <1>3, <2>1, <2>2, <2>3, <2>4
<1>8. CASE Die(c)
    <2>1. /\ Same /\ transaction' = Doom(client[c].trid) /\ forget' = forget /\ alive' = alive \ {c}
          /\ deaths' = deaths \cup {c} /\ client' = client
        BY <1>8 DEF Die, groupVars, history
    <2>2. /\ forget' \subseteq Client /\ alive' \subseteq Client /\ deaths' \subseteq Client
          /\ alive \cup deaths \subseteq alive' \cup deaths'
        BY <1>1, <2>1 DEF TypeOK
    <2>3. Sending' \subseteq Sending /\ client' \in [Client -> ClientState]
        BY <1>2, <2>1 DEF Sending
    <2>4. \A x \in Client : client'[x].stage = "sent" => client[x].stage = "sent" \/ x \in alive
        BY <2>1
    <2>5. client[c].trid \in Trid \cup {NoTrid}
        BY <1>2 DEF ClientState
    <2> HIDE DEF Same
    <2> QED BY <1>3, <2>1, <2>2, <2>3, <2>4, <2>5
<1> QED BY <1>4, <1>5, <1>6, <1>7, <1>8 DEF ClientNext

\* The coordinator asks for the outcome of a transaction.
LEMMA CoordinatorStep ==
    ASSUME GroupInv, NEW t0 \in Trid, CoordinatorNext(t0)
    PROVE  GroupInv'
<1>1. TypeOK /\ Known
    BY InvFacts
<1>2. /\ db' = db /\ disk' = disk /\ requests' = requests /\ enqueued' = enqueued
      /\ serving' = serving /\ remaining' = remaining /\ persistent' = persistent
      /\ client' = client /\ forget' = forget /\ alive' = alive /\ deaths' = deaths
      /\ crashes' = crashes /\ next' = next /\ writer' = writer /\ taken' = taken /\ acked' = acked
      /\ consumed' = consumed /\ late' = late
    BY DEF CoordinatorNext, RequestCommit, RequestRollback, NotInvolved, groupVars, clientVars, history
<1>3. PICK new \in {"commit", "rollback", "lost"} :
         /\ transaction' = [transaction EXCEPT ![t0] = new]
         /\ transaction[t0] \in {"active", "doomed"}
         /\ involved' = involved \/ involved' = involved \ {t0}
    BY DEF CoordinatorNext, RequestCommit, RequestRollback, NotInvolved
<1>4. transaction \in [Trid -> TransactionState] /\ involved \subseteq Trid
    BY <1>1 DEF TypeOK
<1>5. \A t \in Trid : transaction'[t] = IF t = t0 THEN new ELSE transaction[t]
    BY <1>3, <1>4
<1>6. Sound(db)' /\ Sound(disk)' /\ Acknowledged' /\ Outcomes'
    <2>1. \A t \in Trid :
             \/ transaction'[t] = transaction[t]
             \/ /\ transaction[t] \in {"active", "doomed"}
                /\ transaction'[t] \in {"doomed", "commit", "rollback", "lost"}
        BY <1>3, <1>5
    <2>2. \A t \in Trid : transaction'[t] = "active" /\ t \notin involved' => t \notin involved
        BY <1>3, <1>5
    <2> QED BY <1>2, <2>1, <2>2, AfterCoordination
<1>7. Sending' \subseteq Sending
    BY <1>2 DEF Sending
<1>8. Bounded'
    BY <1>2, <1>7, StillBounded
<1>9. transaction' \in [Trid -> TransactionState] /\ involved' \subseteq Trid
    BY <1>3, <1>4 DEF TransactionState
<1>10. TypeOK'
    BY <1>1, <1>2, <1>9 DEF TypeOK
<1>11. Known'
    BY <1>1, <1>2 DEF Known
<1> QED BY <1>6, <1>8, <1>10, <1>11 DEF GroupInv

-----------------------------------------------------------------------------
(* The handlers of the group.                                              *)

\* After a restart nothing is left but the data and its history.
LEMMA RestartStep ==
    ASSUME GroupInv, NEW D, Restart(D),
           Sound(db)' /\ Sound(disk)' /\ Known' /\ Acknowledged' /\ Outcomes',
           next' \in 0 .. MaxMessages, crashes' \in 0 .. MaxCrashes,
           writer' \in [Message -> Trid \cup {NoTrid}], taken' \in [Trid -> SUBSET Message],
           acked' \subseteq Message, consumed' \subseteq Message, late' \subseteq Trid
    PROVE  GroupInv'
<1>1. TypeOK
    BY InvFacts
<1>2. /\ requests' = <<>> /\ serving' = <<>>
      /\ enqueued' = [t \in Trid \cup {NoTrid} |-> NoCounts]
      /\ remaining' = NoCounts /\ persistent' = {}
      /\ client' = [c \in Client |-> Idle]
      /\ forget' = {} /\ deaths' = {} /\ involved' = {} /\ alive' = alive
    BY DEF Restart
<1>3. transaction' \in [Trid -> TransactionState]
    <2>1. \A t \in Trid : transaction[t] \in TransactionState
        BY <1>1 DEF TypeOK
    <2>2. DOMAIN transaction' = Trid /\ transaction' = [t \in Trid |-> transaction'[t]]
        BY DEF Restart
    <2>3. \A t \in Trid : transaction'[t] \in {transaction[t], "lost"}
        BY DEF Restart
    <2>4. \A t \in Trid : transaction'[t] \in TransactionState
        BY <2>1, <2>3 DEF TransactionState
    <2> QED BY <2>2, <2>4
<1>4. NoCounts \in [QueueId -> Nat]
    BY DEF NoCounts
<1>5. client' \in [Client -> ClientState]
    BY <1>2, IdleState
<1>6. db' \in Database /\ disk' \in Database
    BY DEF Sound, Sane
<1>7. requests' \in Seq(Request) /\ serving' \in Seq(Request)
    BY <1>2
<1>8. /\ enqueued' \in [Trid \cup {NoTrid} -> [QueueId -> Nat]] /\ remaining' \in [QueueId -> Nat]
      /\ persistent' \subseteq PersistentReply
      /\ forget' \subseteq Client /\ alive' \subseteq Client /\ deaths' \subseteq Client
      /\ involved' \subseteq Trid
    BY <1>1, <1>2, <1>4 DEF TypeOK
<1>9. TypeOK'
    BY <1>3, <1>5, <1>6, <1>7, <1>8 DEF TypeOK
<1>10. Bounded'
    <2>1. Sending' = {}
        BY <1>2, IdleState DEF Sending
    <2>2. Cardinality({}) = 0
        BY FS_EmptySet
    <2>3. MaxMessages \in Nat
        BY BoundsAssumption
    <2>4. next' \in Nat /\ next' <= MaxMessages
        BY <2>3
    <2> QED BY <2>1, <2>2, <2>4 DEF Bounded
<1> QED BY <1>9, <1>10 DEF GroupInv

\* What was waited for becomes the work of pending::replies.
LEMMA PendingCommitIs ==
    ASSUME requests \in Seq(Request), NEW t \in Trid \cup {NoTrid},
           NEW e \in [Trid \cup {NoTrid} -> [QueueId -> Nat]], PendingCommit(e, t)
    PROVE  /\ remaining' \in [QueueId -> Nat]
           /\ enqueued' \in [Trid \cup {NoTrid} -> [QueueId -> Nat]]
           /\ serving' \in Seq(Request) /\ requests' \in Seq(Request)
           /\ \A i \in DOMAIN serving' : \E j \in DOMAIN requests : serving'[i] = requests[j]
           /\ \A i \in DOMAIN requests' : \E j \in DOMAIN requests : requests'[i] = requests[j]
<1>1. PICK A : A = {i \in DOMAIN requests : e[t][requests[i].queue] > 0}
    OBVIOUS
<1>2. PICK B : B = {i \in DOMAIN requests : e[t][requests[i].queue] = 0}
    OBVIOUS
<1>3. serving' = ElementsAt(requests, A) /\ requests' = ElementsAt(requests, B)
    BY <1>1, <1>2 DEF PendingCommit
<1>4. ASSUME NEW K
      PROVE  /\ ElementsAt(requests, K) \in Seq(Request)
             /\ \A i \in DOMAIN ElementsAt(requests, K) :
                   \E j \in DOMAIN requests : j \in K /\ ElementsAt(requests, K)[i] = requests[j]
    BY ElementsAtAre
<1>5. remaining' = e[t] /\ enqueued' = [e EXCEPT ![t] = NoCounts]
    BY DEF PendingCommit
<1>6. NoCounts \in [QueueId -> Nat]
    BY DEF NoCounts
<1>7. /\ serving' \in Seq(Request)
      /\ \A i \in DOMAIN serving' : \E j \in DOMAIN requests : serving'[i] = requests[j]
    BY <1>3, <1>4
<1>8. /\ requests' \in Seq(Request)
      /\ \A i \in DOMAIN requests' : \E j \in DOMAIN requests : requests'[i] = requests[j]
    BY <1>3, <1>4
<1>9. remaining' \in [QueueId -> Nat] /\ enqueued' \in [Trid \cup {NoTrid} -> [QueueId -> Nat]]
    BY <1>5, <1>6
<1> QED BY <1>7, <1>8, <1>9

\* Counting a message that somebody waits for.
LEMMA PendingEnqueueIs ==
    ASSUME enqueued \in [Trid \cup {NoTrid} -> [QueueId -> Nat]], NEW t \in Trid \cup {NoTrid},
           NEW q \in QueueId
    PROVE  PendingEnqueue(t, q) \in [Trid \cup {NoTrid} -> [QueueId -> Nat]]
<1> DEFINE new == [enqueued[t] EXCEPT ![q] = @ + 1]
<1>1. new \in [QueueId -> Nat]
    OBVIOUS
<1>2. [enqueued EXCEPT ![t][q] = @ + 1] = [enqueued EXCEPT ![t] = new]
    BY Zenon
<1> HIDE DEF new
<1>3. [enqueued EXCEPT ![t] = new] \in [Trid \cup {NoTrid} -> [QueueId -> Nat]]
    BY <1>1
<1> QED BY <1>2, <1>3 DEF PendingEnqueue

\* When no message was touched, the work is none.
LEMMA NoWork ==
    ASSUME GroupInv, next' = next, writer' = writer, taken' = taken, acked' = acked,
           consumed' = consumed, late' = late
    PROVE  NewWork(db, NoTrid)
<1>1. /\ TypeOK /\ Sane(db) /\ Fresh(db) /\ Written /\ next \in Nat
      /\ \A t \in Trid : Underway(t) => Work(db, t)
    BY InvFacts
<1>2. Written'
    BY <1>1 DEF Written
<1>3. {NoTrid} \cap Settled = {}
    BY TridAssumption DEF Settled
<1>4. \A m \in Message : m > next' => db.message[m].state = cAbsent
    BY <1>1 DEF Fresh
<1>5. \A t \in Trid : Untouched(t)
    BY DEF Untouched
<1>6. \A m \in Message : Kept(db, m) => Committed(db, m) \/ m \in consumed'
    BY DEF Kept
<1>7. \A t \in Trid : Underway(t) =>
          \A m \in Message : /\ writer'[m] = t => Added(db, t, m)
                             /\ m \in taken'[t] => Holds(db, t, m)
    BY <1>1 DEF Work
<1>8. \A t \in Trid :
          /\ CommittedOutcome(db, t) =>
                \A m \in Message : /\ writer'[m] = t => Committed(db, m) \/ m \in consumed'
                                   /\ m \in taken'[t] => db.message[m].state = cAbsent
          /\ RolledbackOutcome(db, t) =>
                \A m \in Message : /\ writer'[m] = t => db.message[m].state = cAbsent
                                   /\ m \in taken'[t] => ~ Holds(db, t, m)
    BY DEF CommittedOutcome, RolledbackOutcome, Kept
<1>9. next \in Nat /\ next' \in Nat /\ next <= next'
    BY <1>1
<1>10. consumed \subseteq consumed' /\ late' = late \cup ({NoTrid} \cap Settled)
    BY <1>3
<1> QED BY <1>1, <1>2, <1>4, <1>5, <1>6, <1>7, <1>8, <1>9, <1>10 DEF NewWork

\* An enqueue in a transaction.
LEMMA EnqueueTransactionStep ==
    ASSUME GroupInv, NEW c \in Client, HandleEnqueueTransaction(c)
    PROVE  GroupInv'
<1>1. TypeOK /\ Known /\ crashes' = crashes
    BY InvFacts DEF HandleEnqueueTransaction
<1>2. client \in [Client -> ClientState]
    BY <1>1 DEF TypeOK
<1>3. PICK t : t = client[c].trid
    OBVIOUS
<1>4. PICK q : q = client[c].queue
    OBVIOUS
<1>5. PICK m : m = next + 1
    OBVIOUS
<1>6. t \in Trid /\ t \in Trid \cup {NoTrid} /\ t # NoTrid /\ q \in QueueId
    BY <1>2, <1>3, <1>4 DEF HandleEnqueueTransaction, ClientState
<1>7. PICK D : D = Insert(db, m, q, t)
    OBVIOUS
<1>8. client[c].op = "enqueue" /\ client[c].stage = "sent"
    BY DEF HandleEnqueueTransaction
<1>9. /\ m \in Message /\ m \in 0 .. MaxMessages
      /\ next' = m /\ Sending' \subseteq Sending \ {c} => Bounded'
    BY <1>5, <1>8, RoomForOne
<1>10. /\ next' = m /\ writer' = [writer EXCEPT ![m] = t] /\ WorkIn(t)
       /\ taken' = taken /\ acked' = acked /\ consumed' = consumed
    BY <1>3, <1>5 DEF HandleEnqueueTransaction
<1>11. writer' = IF t = NoTrid THEN writer ELSE [writer EXCEPT ![m] = t]
    BY <1>6, <1>10
<1>12. late' = late \cup ({t} \cap Settled)
    BY <1>10 DEF WorkIn
<1>13. NewWork(D, t)
    BY <1>5, <1>6, <1>7, <1>9, <1>10, <1>11, <1>12, EnqueueWork
<1>14. /\ next' \in 0 .. MaxMessages /\ crashes' \in 0 .. MaxCrashes
       /\ writer' \in [Message -> Trid \cup {NoTrid}] /\ taken' \in [Trid -> SUBSET Message]
       /\ acked' \subseteq Message /\ consumed' \subseteq Message /\ late' \subseteq Trid
    <2>1. /\ next' \in 0 .. MaxMessages /\ crashes' \in 0 .. MaxCrashes
          /\ taken' \in [Trid -> SUBSET Message]
          /\ acked' \subseteq Message /\ consumed' \subseteq Message
        BY <1>1, <1>9, <1>10 DEF TypeOK
    <2>2. writer' \in [Message -> Trid \cup {NoTrid}]
        BY <1>1, <1>6, <1>9, <1>10 DEF TypeOK
    <2>3. late' \subseteq Trid
        BY <1>1, <1>6, <1>12 DEF TypeOK
    <2> QED BY <2>1, <2>2, <2>3
<1>15. \/ /\ db' = D /\ enqueued' = PendingEnqueue(t, q) /\ involved' = involved \cup {t}
          /\ client' = [client EXCEPT ![c].stage = "replied"]
          /\ disk' = disk /\ requests' = requests /\ serving' = serving
          /\ remaining' = remaining /\ persistent' = persistent /\ forget' = forget
          /\ alive' = alive /\ deaths' = deaths /\ transaction' = transaction
       \/ Restart(D)
    BY <1>3, <1>4, <1>5, <1>7, Zenon DEF HandleEnqueueTransaction
<1>16. CASE Restart(D)
    <2>1. Sound(db)' /\ Sound(disk)' /\ Known' /\ Acknowledged' /\ Outcomes'
        BY <1>3, <1>6, <1>13, <1>16, AfterWorkRestart
    <2> QED BY <1>14, <1>16, <2>1, RestartStep
<1>17. CASE /\ db' = D /\ enqueued' = PendingEnqueue(t, q) /\ involved' = involved \cup {t}
            /\ client' = [client EXCEPT ![c].stage = "replied"]
            /\ disk' = disk /\ requests' = requests /\ serving' = serving
            /\ remaining' = remaining /\ persistent' = persistent /\ forget' = forget
            /\ alive' = alive /\ deaths' = deaths /\ transaction' = transaction
    <2>1. Sound(db)' /\ Sound(disk)' /\ Acknowledged' /\ Outcomes'
        BY <1>6, <1>13, <1>17, AfterWork
    <2>2. /\ client' \in [Client -> ClientState] /\ client'[c].stage = "replied"
          /\ \A x \in Client : x # c => client'[x] = client[x]
        BY <1>2, <1>17, Staged
    <2>3. Bounded'
        <3>1. Sending' \subseteq Sending \ {c}
            BY <2>2 DEF Sending
        <3> QED BY <1>9, <1>10, <3>1
    <2>4. enqueued' \in [Trid \cup {NoTrid} -> [QueueId -> Nat]]
        BY <1>1, <1>6, <1>17, PendingEnqueueIs DEF TypeOK
    <2>5. db' \in Database /\ disk' \in Database
        BY <2>1 DEF Sound, Sane
    <2>6. TypeOK'
        BY <1>1, <1>6, <1>14, <1>17, <2>2, <2>4, <2>5 DEF TypeOK
    <2>7. Known'
        BY <1>1, <1>17, <2>2 DEF Known
    <2> QED BY <2>1, <2>3, <2>6, <2>7 DEF GroupInv
<1> QED BY <1>15, <1>16, <1>17

\* An enqueue without a transaction.
LEMMA EnqueueAtomicStep ==
    ASSUME GroupInv, NEW c \in Client, HandleEnqueueAtomic(c)
    PROVE  GroupInv'
<1>1. TypeOK /\ Known /\ crashes' = crashes
    BY InvFacts DEF HandleEnqueueAtomic
<1>2. client \in [Client -> ClientState]
    BY <1>1 DEF TypeOK
<1>4. PICK q : q = client[c].queue
    OBVIOUS
<1>5. PICK m : m = next + 1
    OBVIOUS
<1>6. q \in QueueId /\ NoTrid \in Trid \cup {NoTrid}
    BY <1>2, <1>4 DEF ClientState
<1>7. PICK D : D = Insert(db, m, q, NoTrid)
    OBVIOUS
<1>8. client[c].op = "enqueue" /\ client[c].stage = "sent"
    BY DEF HandleEnqueueAtomic
<1>9. /\ m \in Message /\ m \in 0 .. MaxMessages
      /\ next' = m /\ Sending' \subseteq Sending \ {c} => Bounded'
    BY <1>5, <1>8, RoomForOne
<1> DEFINE reply == [type |-> "enqueue", client |-> c, message |-> m]
<1>10. /\ next' = m /\ writer' = writer /\ taken' = taken /\ acked' = acked /\ consumed' = consumed
       /\ late' = late /\ db' = D /\ disk' = disk /\ persistent' = persistent \cup {reply}
       /\ client' = [client EXCEPT ![c].stage = "read"]
       /\ forget' = forget /\ alive' = alive /\ deaths' = deaths /\ involved' = involved
       /\ transaction' = transaction
    BY <1>4, <1>5, <1>7 DEF HandleEnqueueAtomic
<1>11. PICK e : e = PendingEnqueue(NoTrid, q)
    OBVIOUS
<1>12. PendingCommit(e, NoTrid)
    BY <1>4, <1>11, Zenon DEF HandleEnqueueAtomic
<1>13. NewWork(D, NoTrid)
    <2>1. {NoTrid} \cap Settled = {}
        BY TridAssumption DEF Settled
    <2>2. late' = late \cup ({NoTrid} \cap Settled)
        BY <1>10, <2>1
    <2> QED BY <1>5, <1>6, <1>7, <1>9, <1>10, <2>2, EnqueueWork
<1>14. reply.type = "enqueue" /\ reply.message = m /\ reply \in PersistentReply
    BY <1>9 DEF PersistentReply
<1>15. Committed(D, m)
    <2>1. db.message[m].state = cAbsent /\ Sane(db)
        <3>1. m > next
            BY <1>1, <1>5 DEF TypeOK
        <3> QED BY <1>9, <3>1, InvFacts DEF Fresh
    <2>2. D.message = [db.message EXCEPT ![m] = [queue |-> q, gtrid |-> NoTrid, redelivered |-> 0,
                        state |-> IF NoTrid = NoTrid THEN cEnqueued ELSE cAdded]]
        BY <1>6, <1>7, <1>9, <2>1, InsertSane
    <2>3. db.message \in [Message -> Row]
        <3>1. db \in Database
            BY <2>1 DEF Sane
        <3> QED BY <3>1, Parts
    <2>4. D.message[m].state = cEnqueued
        BY <1>9, <2>2, <2>3
    <2> QED BY <2>4 DEF Committed
<1> HIDE DEF reply
<1>16. Sound(db)' /\ Sound(disk)' /\ Acknowledged' /\ Outcomes'
    <2>1. \A r \in persistent' :
              \/ r \in persistent
              \/ r.type = "enqueue" /\ r.message \in Message /\ Committed(D, r.message)
        BY <1>9, <1>10, <1>14, <1>15
    <2>2. involved \subseteq involved' /\ NoTrid \in Trid \cup {NoTrid}
        BY <1>10
    <2> QED BY <1>10, <1>13, <2>1, <2>2, AfterWork
<1>17. /\ client' \in [Client -> ClientState] /\ client'[c].stage = "read"
       /\ \A x \in Client : x # c => client'[x] = client[x]
    BY <1>2, <1>10, Staged
<1>18. Bounded'
    <2>1. Sending' \subseteq Sending \ {c}
        BY <1>17 DEF Sending
    <2> QED BY <1>9, <1>10, <2>1
<1>19. e \in [Trid \cup {NoTrid} -> [QueueId -> Nat]] /\ requests \in Seq(Request)
    BY <1>1, <1>6, <1>11, PendingEnqueueIs DEF TypeOK
<1>20. /\ remaining' \in [QueueId -> Nat]
       /\ enqueued' \in [Trid \cup {NoTrid} -> [QueueId -> Nat]]
       /\ serving' \in Seq(Request) /\ requests' \in Seq(Request)
       /\ \A i \in DOMAIN serving' : \E j \in DOMAIN requests : serving'[i] = requests[j]
       /\ \A i \in DOMAIN requests' : \E j \in DOMAIN requests : requests'[i] = requests[j]
    BY <1>6, <1>12, <1>19, PendingCommitIs
<1>21. db' \in Database /\ disk' \in Database
    BY <1>16 DEF Sound, Sane
<1>22. TypeOK'
    <2>1. persistent' \subseteq PersistentReply
        BY <1>1, <1>10, <1>14 DEF TypeOK
    <2> QED BY <1>1, <1>9, <1>10, <1>17, <1>20, <1>21, <2>1 DEF TypeOK
<1>23. Known'
    BY <1>1, <1>10, <1>17, <1>20 DEF Known
<1> QED BY <1>16, <1>18, <1>22, <1>23 DEF GroupInv

\* Handing a message over leaves the history well formed.
LEMMA HandOverIs ==
    ASSUME TypeOK, NEW r \in Request, NEW m \in Message, HandOver(r, m)
    PROVE  /\ taken' \in [Trid -> SUBSET Message] /\ consumed' \subseteq Message /\ late' \subseteq Trid
<1>1. r.trid \in Trid \cup {NoTrid}
    BY DEF Request
<1>2. /\ taken' = IF r.trid = NoTrid THEN taken ELSE [taken EXCEPT ![r.trid] = @ \cup {m}]
      /\ consumed' = IF r.trid = NoTrid THEN consumed \cup {m} ELSE consumed
      /\ late' = late \cup ({r.trid} \cap Settled)
    BY DEF HandOver, WorkIn
<1>3. Settled \subseteq Trid
    BY DEF Settled
<1>4. taken' \in [Trid -> SUBSET Message]
    BY <1>1, <1>2 DEF TypeOK
<1> QED BY <1>2, <1>3, <1>4 DEF TypeOK

\* The oldest candidate is one of them.
LEMMA OldestIn ==
    ASSUME NEW d, NEW r, Candidates(d, r) # {}
    PROVE  Min(Candidates(d, r)) \in Candidates(d, r)
<1>1. Candidates(d, r) \subseteq Nat
    BY DEF Candidates, Message
<1> QED BY <1>1, MinIn

\* The cases of a dequeue.
DequeueWaits(c) ==
    /\ requests' = Append(requests, RequestOf(c))
    /\ client' = [client EXCEPT ![c].stage = "read"]
    /\ UNCHANGED <<db, disk, enqueued, serving, remaining, persistent, forget, alive,
                   deaths, involved, transaction, taken, consumed, late>>
DequeueEmpty(c) ==
    /\ client' = [client EXCEPT ![c].stage = "replied"]
    /\ UNCHANGED <<groupVars, disk, forget, alive, deaths, involved, transaction, taken, consumed, late>>
DequeueEmptyUnread(c) ==
    /\ Unavailable(c) /\ Restart(db)
    /\ UNCHANGED <<taken, consumed, late>>
DequeueTakes(c) ==
    LET r == RequestOf(c)
        m == Min(Candidates(db, RequestOf(c)))
    IN  /\ Candidates(db, r) # {} /\ HandOver(r, m)
        /\ db' = Take(db, r, m)
        /\ involved' = involved \cup ({r.trid} \ {NoTrid})
        /\ client' = [client EXCEPT ![c].stage = "replied"]
        /\ UNCHANGED <<disk, requests, enqueued, serving, remaining, persistent,
                       forget, alive, deaths, transaction>>
DequeueTakesUnread(c) ==
    LET r == RequestOf(c)
        m == Min(Candidates(db, RequestOf(c)))
    IN  Candidates(db, r) # {} /\ HandOver(r, m) /\ Restart(Take(db, r, m))

\* A dequeue is one of them.
LEMMA DequeueCases ==
    ASSUME NEW c, HandleDequeue(c)
    PROVE  \/ DequeueWaits(c) \/ DequeueEmpty(c) \/ DequeueEmptyUnread(c)
           \/ DequeueTakes(c) \/ DequeueTakesUnread(c)
BY Zenon DEF HandleDequeue, DequeueWaits, DequeueEmpty, DequeueEmptyUnread,
             DequeueTakes, DequeueTakesUnread

\* A step that touches no data.
LEMMA AfterQuiet ==
    ASSUME GroupInv,
           db' = db, disk' = disk, persistent' = persistent, next' = next, writer' = writer,
           taken' = taken, acked' = acked, consumed' = consumed, late' = late,
           transaction' = transaction, involved' = involved
    PROVE  Sound(db)' /\ Sound(disk)' /\ Acknowledged' /\ Outcomes'
<1>1. \A t \in Trid : \/ transaction'[t] = transaction[t]
                      \/ /\ transaction[t] \in {"active", "doomed"}
                         /\ transaction'[t] \in {"doomed", "commit", "rollback", "lost"}
    OBVIOUS
<1>2. \A t \in Trid : transaction'[t] = "active" /\ t \notin involved' => t \notin involved
    OBVIOUS
<1> QED BY <1>1, <1>2, AfterCoordination

\* A dequeue.
LEMMA DequeueStep ==
    ASSUME GroupInv, NEW c \in Client, HandleDequeue(c)
    PROVE  GroupInv'
<1>1. TypeOK /\ Known
    BY InvFacts
<1>2. client \in [Client -> ClientState]
    BY <1>1 DEF TypeOK
<1>3. /\ client[c].op = "dequeue" /\ client[c].stage = "sent"
      /\ crashes' = crashes /\ next' = next /\ writer' = writer /\ acked' = acked
    BY DEF HandleDequeue
<1>4. c \in alive \cup deaths
    BY <1>1, <1>3 DEF Known
<1>5. PICK r : r = RequestOf(c)
    OBVIOUS
<1>6. r \in Request /\ r.client = c /\ r.trid = client[c].trid /\ r.trid \in Trid \cup {NoTrid}
    <2>1. r \in Request /\ r.client = c /\ r.trid = client[c].trid
        BY <1>2, <1>5, RequestIs
    <2> QED BY <2>1 DEF Request
<1>7. ASSUME NEW st \in {"read", "replied"}, client' = [client EXCEPT ![c].stage = st]
      PROVE  /\ client' \in [Client -> ClientState] /\ Sending' \subseteq Sending
             /\ \A x \in Client : client'[x].stage = "sent" => client[x].stage = "sent"
             /\ Bounded'
    <2>1. st \in {"none", "read", "replied"}
        BY <1>7
    <2>2. /\ client' \in [Client -> ClientState] /\ Sending' \subseteq Sending \ {c}
          /\ \A x \in Client : client'[x].stage = "sent" => client[x].stage = "sent" /\ x # c
        BY <1>2, <1>7, <2>1, Further, Zenon
    <2>3. Sending' \subseteq Sending
        BY <2>2
    <2> QED BY <1>3, <2>2, <2>3, StillBounded
<1>8. CASE DequeueWaits(c)
    <2>1. /\ requests' = Append(requests, r) /\ client' = [client EXCEPT ![c].stage = "read"]
          /\ db' = db /\ disk' = disk /\ enqueued' = enqueued /\ serving' = serving
          /\ remaining' = remaining /\ persistent' = persistent /\ forget' = forget
          /\ alive' = alive /\ deaths' = deaths /\ involved' = involved
          /\ transaction' = transaction /\ taken' = taken /\ consumed' = consumed /\ late' = late
        BY <1>5, <1>8 DEF DequeueWaits
    <2>2. Sound(db)' /\ Sound(disk)' /\ Acknowledged' /\ Outcomes'
        BY <1>3, <2>1, AfterQuiet
    <2>3. /\ requests' \in Seq(Request)
          /\ \A i \in DOMAIN requests' : requests'[i] = r \/ \E j \in DOMAIN requests : requests'[i] = requests[j]
        BY <1>1, <1>6, <2>1, OneMore DEF TypeOK
    <2>4. TypeOK'
        BY <1>1, <1>3, <1>7, <2>1, <2>3 DEF TypeOK
    <2>5. Known'
        BY <1>1, <1>4, <1>6, <1>7, <2>1, <2>3 DEF Known
    <2> QED BY <1>7, <2>1, <2>2, <2>4, <2>5 DEF GroupInv
<1>9. CASE DequeueEmpty(c)
    <2>1. /\ client' = [client EXCEPT ![c].stage = "replied"]
          /\ db' = db /\ disk' = disk /\ requests' = requests /\ enqueued' = enqueued
          /\ serving' = serving /\ remaining' = remaining /\ persistent' = persistent
          /\ forget' = forget /\ alive' = alive /\ deaths' = deaths /\ involved' = involved
          /\ transaction' = transaction /\ taken' = taken /\ consumed' = consumed /\ late' = late
        BY <1>9 DEF DequeueEmpty, groupVars
    <2>2. Sound(db)' /\ Sound(disk)' /\ Acknowledged' /\ Outcomes'
        BY <1>3, <2>1, AfterQuiet
    <2>3. TypeOK'
        BY <1>1, <1>3, <1>7, <2>1 DEF TypeOK
    <2>4. Known'
        BY <1>1, <1>7, <2>1 DEF Known
    <2> QED BY <1>7, <2>1, <2>2, <2>3, <2>4 DEF GroupInv
<1>10. CASE DequeueEmptyUnread(c)
    <2>1. PICK D : D = db
        OBVIOUS
    <2>2. Restart(D) /\ taken' = taken /\ consumed' = consumed /\ late' = late
        BY <1>10, <2>1 DEF DequeueEmptyUnread
    <2>3. NewWork(D, NoTrid)
        BY <1>3, <2>1, <2>2, NoWork
    <2>4. Sound(db)' /\ Sound(disk)' /\ Known' /\ Acknowledged' /\ Outcomes'
        BY <2>2, <2>3, AfterWorkRestart
    <2>5. /\ next' \in 0 .. MaxMessages /\ crashes' \in 0 .. MaxCrashes
          /\ writer' \in [Message -> Trid \cup {NoTrid}] /\ taken' \in [Trid -> SUBSET Message]
          /\ acked' \subseteq Message /\ consumed' \subseteq Message /\ late' \subseteq Trid
        BY <1>1, <1>3, <2>2 DEF TypeOK
    <2> QED BY <2>2, <2>4, <2>5, RestartStep
<1>11. CASE DequeueTakes(c)
    <2>1. PICK m : m = Min(Candidates(db, r))
        OBVIOUS
    <2>2. PICK D : D = Take(db, r, m)
        OBVIOUS
    <2>3. /\ Candidates(db, r) # {} /\ HandOver(r, m) /\ db' = D
          /\ involved' = involved \cup ({r.trid} \ {NoTrid})
          /\ client' = [client EXCEPT ![c].stage = "replied"]
          /\ disk' = disk /\ requests' = requests /\ enqueued' = enqueued
          /\ serving' = serving /\ remaining' = remaining /\ persistent' = persistent
          /\ forget' = forget /\ alive' = alive /\ deaths' = deaths /\ transaction' = transaction
        BY <1>5, <1>11, <2>1, <2>2, Zenon DEF DequeueTakes
    <2>4. m \in Candidates(db, r) /\ m \in Message
        <3>1. m \in Candidates(db, r)
            BY <2>1, <2>3, OldestIn
        <3> QED BY <3>1 DEF Candidates
    <2>5. NewWork(D, r.trid)
        BY <1>3, <1>6, <2>2, <2>3, <2>4, TakeWork
    <2>6. PICK t : t = r.trid
        OBVIOUS
    <2>7. Sound(db)' /\ Sound(disk)' /\ Acknowledged' /\ Outcomes'
        BY <1>6, <2>3, <2>5, <2>6, AfterWork
    <2>8. taken' \in [Trid -> SUBSET Message] /\ consumed' \subseteq Message /\ late' \subseteq Trid
        BY <1>1, <1>6, <2>3, <2>4, HandOverIs
    <2>9. db' \in Database /\ disk' \in Database
        BY <2>7 DEF Sound, Sane
    <2>10. TypeOK'
        BY <1>1, <1>3, <1>6, <1>7, <2>3, <2>8, <2>9 DEF TypeOK
    <2>11. Known'
        BY <1>1, <1>7, <2>3 DEF Known
    <2> QED BY <1>7, <2>3, <2>7, <2>10, <2>11 DEF GroupInv
<1>12. CASE DequeueTakesUnread(c)
    <2>1. PICK m : m = Min(Candidates(db, r))
        OBVIOUS
    <2>2. PICK D : D = Take(db, r, m)
        OBVIOUS
    <2>3. Candidates(db, r) # {} /\ HandOver(r, m) /\ Restart(D)
        BY <1>5, <1>12, <2>1, <2>2, Zenon DEF DequeueTakesUnread
    <2>4. m \in Candidates(db, r) /\ m \in Message
        <3>1. m \in Candidates(db, r)
            BY <2>1, <2>3, OldestIn
        <3> QED BY <3>1 DEF Candidates
    <2>6. PICK t : t = r.trid
        OBVIOUS
    <2>5. NewWork(D, t)
        BY <1>3, <1>6, <2>2, <2>3, <2>4, <2>6, TakeWork
    <2>7. Sound(db)' /\ Sound(disk)' /\ Known' /\ Acknowledged' /\ Outcomes'
        BY <1>6, <2>3, <2>5, <2>6, AfterWorkRestart
    <2>8. taken' \in [Trid -> SUBSET Message] /\ consumed' \subseteq Message /\ late' \subseteq Trid
        BY <1>1, <1>6, <2>3, <2>4, HandOverIs
    <2>9. /\ next' \in 0 .. MaxMessages /\ crashes' \in 0 .. MaxCrashes
          /\ writer' \in [Message -> Trid \cup {NoTrid}] /\ acked' \subseteq Message
        BY <1>1, <1>3 DEF TypeOK
    <2> QED BY <2>3, <2>7, <2>8, <2>9, RestartStep
<1> QED BY <1>8, <1>9, <1>10, <1>11, <1>12, DequeueCases

\* The cases of a turn of pending::replies.
ServeDrops ==
    /\ serving' = Tail(serving)
    /\ UNCHANGED <<db, requests, remaining, client, involved, taken, consumed, late>>
ServePutsBack ==
    /\ requests' = requests \o <<Head(serving), Head(serving)>>
    /\ serving' = Tail(serving)
    /\ UNCHANGED <<db, remaining, client, involved, taken, consumed, late>>
ServeTakes ==
    LET r == Head(serving)
        m == Min(Candidates(db, Head(serving)))
    IN  /\ Candidates(db, r) # {} /\ HandOver(r, m)
        /\ db' = Take(db, r, m)
        /\ involved' = involved \cup ({r.trid} \ {NoTrid})
        /\ \/ remaining' = remaining
           \/ remaining[r.queue] > 0 /\ remaining' = [remaining EXCEPT ![r.queue] = @ - 1]
        /\ \/ /\ client' = [client EXCEPT ![r.client].stage = "replied"]
              /\ requests' = CallOver(requests, r.client)
              /\ serving' = CallOver(Tail(serving), r.client)
           \/ serving' = Tail(serving) /\ client' = client /\ requests' = requests

\* A turn of pending::replies is one of them.
LEMMA ServeCases ==
    ASSUME ServePending
    PROVE  /\ serving # <<>>
           /\ UNCHANGED <<disk, enqueued, persistent, forget, alive, deaths, transaction, crashes,
                          next, writer, acked>>
           /\ ServeDrops \/ ServePutsBack \/ ServeTakes
BY Zenon DEF ServePending, ServeDrops, ServePutsBack, ServeTakes

\* A turn of pending::replies.
LEMMA ServeStep ==
    ASSUME GroupInv, ServePending
    PROVE  GroupInv'
<1>1. TypeOK /\ Known
    BY InvFacts
<1>2. /\ client \in [Client -> ClientState] /\ requests \in Seq(Request) /\ serving \in Seq(Request)
    BY <1>1 DEF TypeOK
<1>3. /\ serving # <<>> /\ disk' = disk /\ enqueued' = enqueued /\ persistent' = persistent
      /\ forget' = forget /\ alive' = alive /\ deaths' = deaths /\ transaction' = transaction
      /\ crashes' = crashes /\ next' = next /\ writer' = writer /\ acked' = acked
    BY ServeCases
<1>4. PICK r : r = Head(serving)
    OBVIOUS
<1>5. PICK rest : rest = Tail(serving)
    OBVIOUS
<1>6. /\ r \in Request /\ rest \in Seq(Request) /\ \E j \in DOMAIN serving : r = serving[j]
      /\ \A i \in DOMAIN rest : \E j \in DOMAIN serving : rest[i] = serving[j]
    <2>1. ASSUME NEW q \in Seq(Request), q # <<>>
          PROVE  /\ Tail(q) \in Seq(Request) /\ Head(q) \in Request /\ 1 \in DOMAIN q /\ Head(q) = q[1]
                 /\ \A i \in DOMAIN Tail(q) : \E j \in DOMAIN q : Tail(q)[i] = q[j]
        BY <2>1, Rest
    <2>2. /\ Tail(serving) \in Seq(Request) /\ Head(serving) \in Request
          /\ 1 \in DOMAIN serving /\ Head(serving) = serving[1]
          /\ \A i \in DOMAIN Tail(serving) : \E j \in DOMAIN serving : Tail(serving)[i] = serving[j]
        BY <1>2, <1>3, <2>1
    <2> QED BY <1>4, <1>5, <2>2
<1>7. r.client \in Client /\ r.client \in alive \cup deaths /\ r.trid \in Trid \cup {NoTrid} /\ r.queue \in QueueId
    BY <1>1, <1>6 DEF Known, Request
<1>8. \A i \in DOMAIN rest : rest[i].client \in alive \cup deaths
    BY <1>1, <1>6 DEF Known
<1>9. CASE ServeDrops
    <2>1. /\ serving' = rest /\ db' = db /\ requests' = requests /\ remaining' = remaining
          /\ client' = client /\ involved' = involved /\ taken' = taken /\ consumed' = consumed
          /\ late' = late
        BY <1>5, <1>9 DEF ServeDrops
    <2>2. Sound(db)' /\ Sound(disk)' /\ Acknowledged' /\ Outcomes'
        BY <1>3, <2>1, AfterQuiet
    <2>3. TypeOK'
        BY <1>1, <1>3, <1>6, <2>1 DEF TypeOK
    <2>4. Known'
        BY <1>1, <1>3, <1>8, <2>1 DEF Known
    <2>5. Sending' \subseteq Sending
        BY <2>1 DEF Sending
    <2> QED BY <1>3, <2>2, <2>3, <2>4, <2>5, StillBounded DEF GroupInv
<1>10. CASE ServePutsBack
    <2>1. /\ requests' = requests \o <<r, r>>
          /\ serving' = rest /\ db' = db /\ remaining' = remaining
          /\ client' = client /\ involved' = involved /\ taken' = taken /\ consumed' = consumed
          /\ late' = late
        BY <1>4, <1>5, <1>10 DEF ServePutsBack
    <2>2. Sound(db)' /\ Sound(disk)' /\ Acknowledged' /\ Outcomes'
        BY <1>3, <2>1, AfterQuiet
    <2>3. PICK two : two = <<r, r>>
        OBVIOUS
    <2>4. two \in Seq(Request) /\ \A j \in DOMAIN two : two[j] = r
        BY <1>6, <2>3
    <2>5. ASSUME NEW u \in Seq(Request), NEW v \in Seq(Request)
          PROVE  /\ u \o v \in Seq(Request)
                 /\ \A i \in DOMAIN (u \o v) : \/ \E j \in DOMAIN u : (u \o v)[i] = u[j]
                                               \/ \E j \in DOMAIN v : (u \o v)[i] = v[j]
        BY Joined, SMTT(20)
    <2>6. /\ requests \o two \in Seq(Request)
          /\ \A i \in DOMAIN (requests \o two) :
                \/ \E j \in DOMAIN requests : (requests \o two)[i] = requests[j]
                \/ \E j \in DOMAIN two : (requests \o two)[i] = two[j]
        BY <1>2, <2>4, <2>5, Zenon
    <2>7. requests' = requests \o two
        BY <2>1, <2>3
    <2>8. /\ requests' \in Seq(Request)
          /\ \A i \in DOMAIN requests' : requests'[i] = r \/ \E j \in DOMAIN requests : requests'[i] = requests[j]
        BY <2>4, <2>6, <2>7
    <2>9. TypeOK'
        BY <1>1, <1>3, <1>6, <2>1, <2>8 DEF TypeOK
    <2>10. Known'
        BY <1>1, <1>3, <1>7, <1>8, <2>1, <2>8 DEF Known
    <2>11. Sending' \subseteq Sending
        BY <2>1 DEF Sending
    <2> QED BY <1>3, <2>2, <2>9, <2>10, <2>11, StillBounded DEF GroupInv
<1>11. CASE ServeTakes
    <2>1. PICK m : m = Min(Candidates(db, r))
        OBVIOUS
    <2>2. PICK D : D = Take(db, r, m)
        OBVIOUS
    <2>3. /\ Candidates(db, r) # {} /\ HandOver(r, m) /\ db' = D
          /\ involved' = involved \cup ({r.trid} \ {NoTrid})
          /\ \/ remaining' = remaining
             \/ remaining[r.queue] > 0 /\ remaining' = [remaining EXCEPT ![r.queue] = @ - 1]
          /\ \/ /\ client' = [client EXCEPT ![r.client].stage = "replied"]
                /\ requests' = CallOver(requests, r.client)
                /\ serving' = CallOver(rest, r.client)
             \/ serving' = rest /\ client' = client /\ requests' = requests
        BY <1>4, <1>5, <1>11, <2>1, <2>2, Zenon DEF ServeTakes
    <2>4. m \in Candidates(db, r) /\ m \in Message
        <3>1. m \in Candidates(db, r)
            BY <2>1, <2>3, OldestIn
        <3> QED BY <3>1 DEF Candidates
    <2>6. PICK t : t = r.trid
        OBVIOUS
    <2>5. NewWork(D, t)
        BY <1>3, <1>6, <2>2, <2>3, <2>4, <2>6, TakeWork
    <2>7. Sound(db)' /\ Sound(disk)' /\ Acknowledged' /\ Outcomes'
        BY <1>3, <1>7, <2>3, <2>5, <2>6, AfterWork
    <2>8. taken' \in [Trid -> SUBSET Message] /\ consumed' \subseteq Message /\ late' \subseteq Trid
        BY <1>1, <1>6, <2>3, <2>4, HandOverIs
    <2>9. db' \in Database /\ disk' \in Database
        BY <2>7 DEF Sound, Sane
    <2>10. remaining' \in [QueueId -> Nat]
        <3>1. remaining \in [QueueId -> Nat]
            BY <1>1 DEF TypeOK
        <3> QED BY <1>7, <2>3, <3>1
    <2>11. /\ client' \in [Client -> ClientState] /\ Sending' \subseteq Sending
           /\ \A x \in Client : client'[x].stage = "sent" => client[x].stage = "sent"
        <3>1. CASE client' = client
            BY <1>2, <3>1 DEF Sending
        <3>2. CASE client' = [client EXCEPT ![r.client].stage = "replied"]
            <4>1. "replied" \in {"none", "read", "replied"}
                OBVIOUS
            <4>2. PICK x \in Client : x = r.client
                BY <1>7
            <4>3. client' = [client EXCEPT ![x].stage = "replied"]
                BY <3>2, <4>2
            <4> QED BY <1>2, <4>1, <4>3, Further
        <3> QED BY <2>3, <3>1, <3>2
    <2>12. /\ requests' \in Seq(Request) /\ serving' \in Seq(Request)
           /\ DOMAIN requests' = DOMAIN requests /\ DOMAIN serving' = DOMAIN rest
           /\ \A i \in DOMAIN requests : requests'[i].client = requests[i].client
           /\ \A i \in DOMAIN rest : serving'[i].client = rest[i].client
        <3>1. CASE requests' = CallOver(requests, r.client) /\ serving' = CallOver(rest, r.client)
            BY <1>2, <1>6, <3>1, CallOverIs
        <3>2. CASE requests' = requests /\ serving' = rest
            BY <1>2, <1>6, <3>2
        <3> QED BY <2>3, <3>1, <3>2
    <2>13. TypeOK'
        <3>1. involved' \subseteq Trid
            BY <1>1, <1>7, <2>3 DEF TypeOK
        <3> QED BY <1>1, <1>3, <2>8, <2>9, <2>10, <2>11, <2>12, <3>1 DEF TypeOK
    <2>14. Known'
        BY <1>1, <1>3, <1>8, <2>11, <2>12 DEF Known
    <2> QED BY <1>3, <2>7, <2>11, <2>13, <2>14, StillBounded DEF GroupInv
<1> QED BY <1>9, <1>10, <1>11, ServeCases

\* A client withdraws its request.
LEMMA ForgetStep ==
    ASSUME GroupInv, NEW c \in Client, HandleForget(c)
    PROVE  GroupInv'
<1>1. TypeOK /\ Known
    BY InvFacts
<1>2. client \in [Client -> ClientState] /\ requests \in Seq(Request)
    BY <1>1 DEF TypeOK
<1>3. /\ forget' = forget \ {c} /\ client' = [client EXCEPT ![c] = Idle]
      /\ transaction' = Doom(client[c].trid)
      /\ db' = db /\ disk' = disk /\ serving' = serving /\ remaining' = remaining
      /\ persistent' = persistent /\ alive' = alive /\ deaths' = deaths /\ involved' = involved
      /\ crashes' = crashes /\ next' = next /\ writer' = writer /\ taken' = taken /\ acked' = acked
      /\ consumed' = consumed /\ late' = late
    BY DEF HandleForget, history
<1>4. PICK i : i = Position(c, client[c].queue)
    OBVIOUS
<1>5. PICK s : s = IF i = 0 THEN requests ELSE RemoveAt(requests, i)
    OBVIOUS
<1>6. requests' = CallOver(s, c) /\ enqueued' \in {enqueued, [t \in Trid \cup {NoTrid} |-> NoCounts]}
    BY <1>4, <1>5 DEF HandleForget
<1>7. i = 0 \/ i \in DOMAIN requests
    <2> DEFINE found == {k \in DOMAIN requests : requests[k].client = c /\ requests[k].queue = client[c].queue}
    <2>1. found \subseteq Nat /\ found \subseteq DOMAIN requests
        BY <1>2
    <2>2. i = IF found = {} THEN 0 ELSE Min(found)
        BY <1>4 DEF Position
    <2> HIDE DEF found
    <2>3. found # {} => Min(found) \in found
        BY <2>1, MinIn
    <2> QED BY <2>1, <2>2, <2>3
<1>8. /\ s \in Seq(Request)
      /\ \A k \in DOMAIN s : \E j \in DOMAIN requests : s[k] = requests[j]
    <2>1. CASE i = 0
        BY <1>2, <1>5, <2>1
    <2>2. CASE i # 0
        <3>1. ASSUME NEW q \in Seq(Request), NEW k \in DOMAIN q
              PROVE  /\ RemoveAt(q, k) \in Seq(Request)
                     /\ \A x \in DOMAIN RemoveAt(q, k) : \E j \in DOMAIN q : RemoveAt(q, k)[x] = q[j]
            BY Removed, SMTT(20)
        <3>2. /\ RemoveAt(requests, i) \in Seq(Request)
              /\ \A x \in DOMAIN RemoveAt(requests, i) :
                    \E j \in DOMAIN requests : RemoveAt(requests, i)[x] = requests[j]
            BY <1>2, <1>7, <2>2, <3>1, Zenon
        <3> QED BY <1>5, <2>2, <3>2
    <2> QED BY <2>1, <2>2
<1>9. /\ requests' \in Seq(Request) /\ DOMAIN requests' = DOMAIN s
      /\ \A k \in DOMAIN s : requests'[k].client = s[k].client
    BY <1>6, <1>8, CallOverIs
<1>10. \A k \in DOMAIN requests' : requests'[k].client \in alive \cup deaths
    BY <1>1, <1>8, <1>9 DEF Known
<1>11. enqueued' \in [Trid \cup {NoTrid} -> [QueueId -> Nat]]
    <2>1. NoCounts \in [QueueId -> Nat]
        BY DEF NoCounts
    <2> QED BY <1>1, <1>6, <2>1 DEF TypeOK
<1>12. /\ transaction' \in [Trid -> TransactionState]
       /\ \A t \in Trid : \/ transaction'[t] = transaction[t]
                          \/ transaction[t] \in {"active", "doomed"} /\ transaction'[t] = "doomed"
    <2>1. client[c].trid \in Trid \cup {NoTrid}
        BY <1>2 DEF ClientState
    <2> QED BY <1>1, <1>3, <2>1, DoomIs
<1>13. /\ client' \in [Client -> ClientState] /\ Sending' \subseteq Sending
       /\ \A x \in Client : client'[x] = IF x = c THEN Idle ELSE client[x]
    BY <1>2, <1>3, IdleState, ClientChanges
<1>14. Sound(db)' /\ Sound(disk)' /\ Acknowledged' /\ Outcomes'
    <2>1. \A t \in Trid :
             \/ transaction'[t] = transaction[t]
             \/ /\ transaction[t] \in {"active", "doomed"}
                /\ transaction'[t] \in {"doomed", "commit", "rollback", "lost"}
        BY <1>12
    <2>2. \A t \in Trid : transaction'[t] = "active" /\ t \notin involved' => t \notin involved
        BY <1>3
    <2> QED BY <1>3, <2>1, <2>2, AfterCoordination
<1>15. Bounded'
    BY <1>3, <1>13, StillBounded
<1>16. TypeOK'
    BY <1>1, <1>3, <1>9, <1>11, <1>12, <1>13 DEF TypeOK
<1>17. Known'
    <2>1. \A x \in Client : client'[x].stage = "sent" => x \in alive \cup deaths
        BY <1>1, <1>13, IdleState DEF Known
    <2> QED BY <1>1, <1>3, <1>10, <2>1 DEF Known
<1> QED BY <1>14, <1>15, <1>16, <1>17 DEF GroupInv

\* The event of a death is read.
LEMMA DeadStep ==
    ASSUME GroupInv, NEW c \in Client, HandleDead(c)
    PROVE  GroupInv'
<1>1. TypeOK /\ Known
    BY InvFacts
<1>2. /\ serving = <<>> /\ client[c].stage # "sent" /\ deaths' = deaths \ {c}
      /\ db' = db /\ disk' = disk /\ enqueued' = enqueued /\ serving' = serving
      /\ remaining' = remaining /\ persistent' = persistent /\ client' = client
      /\ forget' = forget /\ alive' = alive /\ involved' = involved /\ transaction' = transaction
      /\ crashes' = crashes /\ next' = next /\ writer' = writer /\ taken' = taken /\ acked' = acked
      /\ consumed' = consumed /\ late' = late
    BY DEF HandleDead, Reading, history
<1>3. PICK K : K = {i \in DOMAIN requests : requests[i].client # c}
    OBVIOUS
<1>4. requests' = ElementsAt(requests, K)
    BY <1>3 DEF HandleDead
<1>5. requests \in Seq(Request)
    BY <1>1 DEF TypeOK
<1>6. /\ requests' \in Seq(Request)
      /\ \A i \in DOMAIN requests' : \E j \in DOMAIN requests : j \in K /\ requests'[i] = requests[j]
    BY <1>4, <1>5, ElementsAtAre
<1>7. \A i \in DOMAIN requests' : requests'[i].client \in alive \cup deaths /\ requests'[i].client # c
    BY <1>1, <1>3, <1>6 DEF Known
<1>8. Sound(db)' /\ Sound(disk)' /\ Acknowledged' /\ Outcomes'
    BY <1>2, AfterQuiet
<1>9. Bounded'
    <2>1. Sending' \subseteq Sending
        BY <1>2 DEF Sending
    <2> QED BY <1>2, <2>1, StillBounded
<1>10. TypeOK'
    BY <1>1, <1>2, <1>6 DEF TypeOK
<1>11. Known'
    <2>1. \A x \in Client : client'[x].stage = "sent" => x \in alive \cup deaths /\ x # c
        BY <1>1, <1>2 DEF Known
    <2>2. DOMAIN serving' = {}
        BY <1>2
    <2> QED BY <1>2, <1>7, <2>1, <2>2 DEF Known
<1> QED BY <1>8, <1>9, <1>10, <1>11 DEF GroupInv

\* A commit.
LEMMA CommitStep ==
    ASSUME GroupInv, NEW t0 \in Trid, HandleCommit(t0)
    PROVE  GroupInv'
<1>1. TypeOK /\ Known
    BY InvFacts
<1>2. PICK D : D = DatabaseCommit(db, t0)
    OBVIOUS
<1>3. PICK reply : reply = CommitReply(t0)
    OBVIOUS
<1>4. /\ transaction[t0] = "commit" /\ transaction' = [transaction EXCEPT ![t0] = "handled"]
      /\ db' = D /\ consumed' = consumed \cup Taken(db, t0) /\ PendingCommit(enqueued, t0)
      /\ persistent' = persistent \cup {reply}
      /\ disk' = disk /\ client' = client /\ forget' = forget /\ alive' = alive /\ deaths' = deaths
      /\ involved' = involved /\ crashes' = crashes /\ next' = next /\ writer' = writer
      /\ taken' = taken /\ acked' = acked /\ late' = late
    BY <1>2, <1>3 DEF HandleCommit, CommitReply, clientVars
<1>5. /\ Decided(D, t0)
      /\ \A m \in Message : /\ writer[m] = t0 => Committed(D, m)
                            /\ m \in taken[t0] => D.message[m].state = cAbsent
    BY <1>2, <1>4, CommitWork
<1>6. Sound(db)' /\ Sound(disk)' /\ Acknowledged' /\ Outcomes'
    <2>1. reply \in {CommitReply(t0), RollbackReply(t0)} /\ reply # RollbackReply(t0)
        BY <1>3, ReplyTypes
    <2>2. Underway(t0)
        BY <1>4 DEF Underway
    <2>3. consumed \subseteq consumed'
        BY <1>4
    <2>4. reply = CommitReply(t0) =>
              \A m \in Message : /\ writer[m] = t0 => Committed(D, m) \/ m \in consumed'
                                 /\ m \in taken[t0] => D.message[m].state = cAbsent
        BY <1>5
    <2> QED BY <1>4, <1>5, <2>1, <2>2, <2>3, <2>4, AfterDecision
<1>7. /\ enqueued \in [Trid \cup {NoTrid} -> [QueueId -> Nat]] /\ requests \in Seq(Request)
      /\ t0 \in Trid \cup {NoTrid}
    BY <1>1 DEF TypeOK
<1>8. /\ remaining' \in [QueueId -> Nat]
      /\ enqueued' \in [Trid \cup {NoTrid} -> [QueueId -> Nat]]
      /\ serving' \in Seq(Request) /\ requests' \in Seq(Request)
      /\ \A i \in DOMAIN serving' : \E j \in DOMAIN requests : serving'[i] = requests[j]
      /\ \A i \in DOMAIN requests' : \E j \in DOMAIN requests : requests'[i] = requests[j]
    BY <1>4, <1>7, PendingCommitIs
<1>9. Bounded'
    <2>1. Sending' \subseteq Sending
        BY <1>4 DEF Sending
    <2> QED BY <1>4, <2>1, StillBounded
<1>10. db' \in Database /\ disk' \in Database
    BY <1>6 DEF Sound, Sane
<1>11. persistent' \subseteq PersistentReply /\ consumed' \subseteq Message
       /\ transaction' \in [Trid -> TransactionState]
    <2>1. reply \in PersistentReply
        BY <1>3 DEF CommitReply, PersistentReply
    <2>2. Taken(db, t0) \subseteq Message
        BY DEF Taken, Rows
    <2> QED BY <1>1, <1>4, <2>1, <2>2 DEF TypeOK, TransactionState
<1>12. TypeOK'
    BY <1>1, <1>4, <1>8, <1>10, <1>11 DEF TypeOK
<1>13. Known'
    BY <1>1, <1>4, <1>8 DEF Known
<1> QED BY <1>6, <1>9, <1>12, <1>13 DEF GroupInv

\* A rollback.
LEMMA RollbackStep ==
    ASSUME GroupInv, NEW t0 \in Trid, HandleRollback(t0)
    PROVE  GroupInv'
<1>1. TypeOK /\ Known
    BY InvFacts
<1>2. PICK D : D = DatabaseRollback(db, t0)
    OBVIOUS
<1>3. PICK reply : reply = RollbackReply(t0)
    OBVIOUS
<1>4. /\ transaction[t0] = "rollback" /\ transaction' = [transaction EXCEPT ![t0] = "handled"]
      /\ db' = D /\ consumed' = consumed /\ enqueued' = [enqueued EXCEPT ![t0] = NoCounts]
      /\ persistent' = persistent \cup {reply}
      /\ requests' = requests /\ serving' = serving /\ remaining' = remaining
      /\ disk' = disk /\ client' = client /\ forget' = forget /\ alive' = alive /\ deaths' = deaths
      /\ involved' = involved /\ crashes' = crashes /\ next' = next /\ writer' = writer
      /\ taken' = taken /\ acked' = acked /\ late' = late
    BY <1>2, <1>3 DEF HandleRollback, RollbackReply, clientVars, history
<1>5. Decided(D, t0) /\ RolledbackOutcome(D, t0)
    BY <1>2, <1>4, RollbackWork
<1>6. Sound(db)' /\ Sound(disk)' /\ Acknowledged' /\ Outcomes'
    <2>1. reply \in {CommitReply(t0), RollbackReply(t0)} /\ reply # CommitReply(t0)
        BY <1>3, ReplyTypes
    <2>2. Underway(t0)
        BY <1>4 DEF Underway
    <2>3. consumed \subseteq consumed'
        BY <1>4
    <2> QED BY <1>4, <1>5, <2>1, <2>2, <2>3, AfterDecision
<1>7. enqueued' \in [Trid \cup {NoTrid} -> [QueueId -> Nat]]
    <2>1. NoCounts \in [QueueId -> Nat]
        BY DEF NoCounts
    <2> QED BY <1>1, <1>4, <2>1 DEF TypeOK
<1>9. Bounded'
    <2>1. Sending' \subseteq Sending
        BY <1>4 DEF Sending
    <2> QED BY <1>4, <2>1, StillBounded
<1>10. db' \in Database /\ disk' \in Database
    BY <1>6 DEF Sound, Sane
<1>11. persistent' \subseteq PersistentReply /\ transaction' \in [Trid -> TransactionState]
    <2>1. reply \in PersistentReply
        BY <1>3 DEF RollbackReply, PersistentReply
    <2> QED BY <1>1, <1>4, <2>1 DEF TypeOK, TransactionState
<1>12. TypeOK'
    BY <1>1, <1>4, <1>7, <1>10, <1>11 DEF TypeOK
<1>13. Known'
    BY <1>1, <1>4 DEF Known
<1> QED BY <1>6, <1>9, <1>12, <1>13 DEF GroupInv

\* The end of a batch.
LEMMA PersistStep ==
    ASSUME GroupInv, Persist
    PROVE  GroupInv'
<1>1. /\ TypeOK /\ Known /\ Sane(db) /\ Fresh(db) /\ Acknowledged /\ Written
      /\ \A t \in Trid : (Underway(t) => Work(db, t)) /\ Involvement(t) /\ Replied(t)
      /\ \A t \in Trid \ late : Outcome(t)
    BY InvFacts
<1>2. /\ client \in [Client -> ClientState] /\ transaction \in [Trid -> TransactionState]
      /\ persistent \subseteq PersistentReply
    BY <1>1 DEF TypeOK
<1>3. /\ disk' = db /\ db' = db /\ requests' = requests /\ enqueued' = enqueued
      /\ serving' = serving /\ remaining' = remaining /\ forget' = forget /\ alive' = alive
      /\ deaths' = deaths /\ involved' = involved /\ crashes' = crashes /\ next' = next
      /\ writer' = writer /\ taken' = taken /\ consumed' = consumed /\ late' = late
    BY DEF Persist
<1>4. PICK unsent \in SUBSET {r \in persistent : r.type = "enqueue" /\ r.client \in FullQueues} :
          LET sent == persistent \ unsent
              answered == {r.client : r \in {s \in sent : s.type = "enqueue"}}
              ended(type) == {r.trid : r \in {s \in sent : s.type = type}}
          IN  /\ persistent' = unsent
              /\ acked' = acked \cup {r.message : r \in {s \in sent : s.type = "enqueue"}}
              /\ client' = [c \in Client |->
                    IF c \in answered THEN [client[c] EXCEPT !.stage = "replied"] ELSE client[c]]
              /\ transaction' = [t \in Trid |->
                    IF t \in ended("commit") THEN "committed"
                    ELSE IF t \in ended("rollback") THEN "rolledback" ELSE transaction[t]]
    BY Zenon DEF Persist
<1> DEFINE sent == persistent \ unsent
           answered == {r.client : r \in {s \in sent : s.type = "enqueue"}}
           ended(type) == {r.trid : r \in {s \in sent : s.type = type}}
<1>5. /\ persistent' = unsent
      /\ acked' = acked \cup {r.message : r \in {s \in sent : s.type = "enqueue"}}
      /\ client' = [c \in Client |->
            IF c \in answered THEN [client[c] EXCEPT !.stage = "replied"] ELSE client[c]]
      /\ transaction' = [t \in Trid |->
            IF t \in ended("commit") THEN "committed"
            ELSE IF t \in ended("rollback") THEN "rolledback" ELSE transaction[t]]
    BY <1>4, Zenon
<1>6. ASSUME NEW t \in Trid
      PROVE  /\ t \in ended("commit") => CommitReply(t) \in persistent
             /\ t \in ended("rollback") => RollbackReply(t) \in persistent
             /\ CommitReply(t) \notin persistent' /\ RollbackReply(t) \notin persistent'
             /\ CommitReply(t) \in persistent => t \in ended("commit")
             /\ RollbackReply(t) \in persistent => t \in ended("rollback")
    <2>1. \A r \in persistent : r.type = "commit" => r = CommitReply(r.trid)
        BY <1>2 DEF PersistentReply, CommitReply
    <2>2. \A r \in persistent : r.type = "rollback" => r = RollbackReply(r.trid)
        BY <1>2 DEF PersistentReply, RollbackReply
    <2>3. \A r \in persistent' : r.type = "enqueue" /\ r \in persistent
        BY <1>5
    <2>4. CommitReply(t) \notin persistent' /\ RollbackReply(t) \notin persistent'
        BY <2>3, ReplyTypes
    <2>5. /\ CommitReply(t) \in persistent => t \in ended("commit")
          /\ RollbackReply(t) \in persistent => t \in ended("rollback")
        BY <1>5, <2>4, ReplyTypes
    <2> QED BY <2>1, <2>2, <2>4, <2>5
<1>7. ASSUME NEW t \in Trid
      PROVE  /\ transaction'[t] \in TransactionState
             /\ \/ transaction'[t] = transaction[t]
                \/ transaction'[t] = "committed" /\ CommitReply(t) \in persistent
                \/ transaction'[t] = "rolledback" /\ RollbackReply(t) \in persistent
    <2> HIDE DEF ended
    <2>1. transaction'[t] = IF t \in ended("commit") THEN "committed"
                            ELSE IF t \in ended("rollback") THEN "rolledback" ELSE transaction[t]
        BY <1>5
    <2>2. transaction[t] \in TransactionState
        BY <1>2
    <2> QED BY <1>6, <2>1, <2>2 DEF TransactionState
<1>8. ASSUME NEW c \in Client
      PROVE  /\ client'[c] \in ClientState
             /\ client'[c].stage = "sent" => client[c].stage = "sent" /\ client'[c].op = client[c].op
    <2> HIDE DEF answered
    <2>1. client'[c] = IF c \in answered THEN [client[c] EXCEPT !.stage = "replied"] ELSE client[c]
        BY <1>5
    <2>2. client[c] \in ClientState
        BY <1>2
    <2>3. /\ [client[c] EXCEPT !.stage = "replied"] \in ClientState
          /\ [client[c] EXCEPT !.stage = "replied"].stage = "replied"
        BY <2>2 DEF ClientState
    <2> QED BY <2>1, <2>2, <2>3
<1>9. /\ DOMAIN client' = Client /\ client' = [c \in Client |-> client'[c]]
      /\ DOMAIN transaction' = Trid /\ transaction' = [t \in Trid |-> transaction'[t]]
    <2> HIDE DEF answered, ended
    <2> QED BY <1>5
<1>10. /\ acked' \subseteq Message /\ \A m \in acked' : Kept(db, m)
    <2>1. acked \subseteq Message /\ \A r \in persistent : r.type = "enqueue" => r.message \in Message
        BY <1>1 DEF TypeOK, PersistentReply
    <2>2. \A m \in acked' : m \in acked \/ \E r \in persistent : r.type = "enqueue" /\ m = r.message
        BY <1>5
    <2> QED BY <1>1, <2>1, <2>2 DEF Acknowledged
<1>11. persistent' \subseteq persistent
    BY <1>5
<1> HIDE DEF sent, answered, ended
<1>12. Sound(db)' /\ Sound(disk)'
    BY <1>1, <1>3 DEF Sound, Fresh
<1>13. Acknowledged'
    <2>1. \A m \in acked' : (Kept(db, m) /\ Kept(disk, m))'
        BY <1>3, <1>10 DEF Kept
    <2>2. \A r \in persistent' : r.type = "enqueue" => Kept(db, r.message)'
        BY <1>1, <1>3, <1>11 DEF Acknowledged, Kept
    <2> QED BY <2>1, <2>2 DEF Acknowledged
<1>14. ASSUME NEW t \in Trid PROVE (Underway(t) => Work(db, t))' /\ Involvement(t)' /\ Replied(t)'
    <2>1. (Underway(t) => Work(db, t))'
        BY <1>1, <1>3, <1>7 DEF Underway, Work
    <2>2. Involvement(t)'
        BY <1>1, <1>3, <1>7 DEF Involvement
    <2>3. Replied(t)'
        BY <1>6 DEF Replied
    <2> QED BY <2>1, <2>2, <2>3
<1>15. ASSUME NEW t \in Trid \ late' PROVE Outcome(t)'
    <2>1. Outcome(t)
        BY <1>1, <1>3
    <2>2. transaction'[t] = "committed" => CommittedOutcome(db, t)
        BY <1>7, <2>1 DEF Outcome
    <2>3. transaction'[t] = "rolledback" => RolledbackOutcome(db, t)
        BY <1>7, <2>1 DEF Outcome
    <2>4. transaction'[t] = "committed" => (CommittedOutcome(db, t) /\ CommittedOutcome(disk, t))'
        BY <1>3, <2>2 DEF CommittedOutcome, Kept
    <2>5. transaction'[t] = "rolledback" => (RolledbackOutcome(db, t) /\ RolledbackOutcome(disk, t))'
        BY <1>3, <2>3 DEF RolledbackOutcome
    <2> QED BY <1>6, <2>4, <2>5 DEF Outcome
<1>16. Outcomes'
    <2>1. Written'
        BY <1>1, <1>3 DEF Written
    <2> QED BY <1>14, <1>15, <2>1 DEF Outcomes
<1>17. Bounded'
    <2>1. Sending' \subseteq Sending
        BY <1>8 DEF Sending
    <2> QED BY <1>3, <2>1, StillBounded
<1>18. TypeOK'
    <2>1. client' \in [Client -> ClientState] /\ transaction' \in [Trid -> TransactionState]
        BY <1>7, <1>8, <1>9
    <2> QED BY <1>1, <1>3, <1>10, <1>11, <2>1 DEF TypeOK
<1>19. Known'
    BY <1>1, <1>3, <1>8 DEF Known
<1> QED BY <1>12, <1>13, <1>16, <1>17, <1>18, <1>19 DEF GroupInv

\* The group ends and is started again.
LEMMA CrashStep ==
    ASSUME GroupInv, Crash
    PROVE  GroupInv'
<1>1. TypeOK
    BY InvFacts
<1>2. PICK D : D = disk
    OBVIOUS
<1>3. /\ Restart(D) /\ crashes < MaxCrashes /\ crashes' = crashes + 1
      /\ next' = next /\ writer' = writer /\ taken' = taken /\ acked' = acked
      /\ consumed' = consumed /\ late' = late
    BY <1>2 DEF Crash, history
<1>4. Sound(db)' /\ Sound(disk)' /\ Known' /\ Acknowledged' /\ Outcomes'
    BY AfterCrash
<1>5. crashes' \in 0 .. MaxCrashes
    BY <1>1, <1>3, BoundsAssumption DEF TypeOK
<1>6. /\ next' \in 0 .. MaxMessages
      /\ writer' \in [Message -> Trid \cup {NoTrid}] /\ taken' \in [Trid -> SUBSET Message]
      /\ acked' \subseteq Message /\ consumed' \subseteq Message /\ late' \subseteq Trid
    BY <1>1, <1>3 DEF TypeOK
<1> QED BY <1>3, <1>4, <1>5, <1>6, RestartStep

-----------------------------------------------------------------------------
(* The theorems.                                                           *)

\* The invariant holds at the start.
LEMMA GroupInvInit == Init => GroupInv
<1> SUFFICES ASSUME Init PROVE GroupInv
    OBVIOUS
<1>1. /\ db = EmptyDatabase /\ disk = EmptyDatabase /\ requests = <<>> /\ serving = <<>>
      /\ enqueued = [t \in Trid \cup {NoTrid} |-> NoCounts] /\ remaining = NoCounts
      /\ persistent = {} /\ next = 0 /\ client = [c \in Client |-> Idle]
      /\ forget = {} /\ alive = Client /\ deaths = {} /\ involved = {}
      /\ transaction = [t \in Trid |-> "active"] /\ crashes = 0
      /\ writer = [m \in Message |-> NoTrid] /\ taken = [t \in Trid |-> {}]
      /\ acked = {} /\ consumed = {} /\ late = {}
    BY DEF Init
<1>2. PICK E : E = EmptyDatabase
    OBVIOUS
<1>3. Sane(E) /\ E \in Database /\ \A m \in Message : E.message[m].state = cAbsent
    <2>1. Sane(E) /\ \A m \in Message : E.message[m].state = cAbsent
        BY <1>2, EmptySane
    <2> QED BY <2>1 DEF Sane
<1>4. db = E /\ disk = E
    BY <1>1, <1>2
<1>5. Sound(db) /\ Sound(disk)
    BY <1>3, <1>4 DEF Sound, Fresh
<1>6. NoCounts \in [QueueId -> Nat]
    BY DEF NoCounts
<1>7. TypeOK
    <2>1. client \in [Client -> ClientState] /\ transaction \in [Trid -> TransactionState]
        BY <1>1, IdleState DEF TransactionState
    <2>2. requests \in Seq(Request) /\ serving \in Seq(Request)
        BY <1>1
    <2>3. 0 \in 0 .. MaxMessages /\ 0 \in 0 .. MaxCrashes
        BY BoundsAssumption
    <2> QED BY <1>1, <1>3, <1>4, <1>6, <2>1, <2>2, <2>3 DEF TypeOK
<1>8. Bounded
    <2>1. Sending = {}
        BY <1>1, IdleState DEF Sending
    <2>2. Cardinality({}) = 0
        BY FS_EmptySet
    <2> QED BY <1>1, <2>1, <2>2, BoundsAssumption DEF Bounded
<1>9. Known /\ Acknowledged
    BY <1>1, IdleState DEF Known, Acknowledged
<1>10. Outcomes
    <2>1. Written
        BY <1>1 DEF Written
    <2>2. ASSUME NEW t \in Trid
          PROVE  (Underway(t) => Work(db, t)) /\ Involvement(t) /\ Replied(t) /\ Outcome(t)
        <3>1. \A m \in Message : writer[m] # t /\ m \notin taken[t]
            BY <1>1, TridAssumption
        <3> QED BY <1>1, <3>1 DEF Work, Involvement, Replied, Outcome
    <2> QED BY <2>1, <2>2 DEF Outcomes
<1> QED BY <1>5, <1>7, <1>8, <1>9, <1>10 DEF GroupInv

\* Every step keeps the invariant.
LEMMA GroupInvNext == GroupInv /\ [Next]_vars => GroupInv'
<1>1. ASSUME GroupInv, Next PROVE GroupInv'
    <2>1. CASE \E c \in Client : ClientNext(c)
        BY <1>1, <2>1, ClientStep
    <2>2. CASE \E t \in Trid : CoordinatorNext(t)
        BY <1>1, <2>2, CoordinatorStep
    <2>3. CASE GroupNext
        <3>1. CASE \E c \in Client : \/ HandleEnqueueTransaction(c) \/ HandleEnqueueAtomic(c)
                                     \/ HandleDequeue(c) \/ HandleForget(c) \/ HandleDead(c)
            BY <1>1, <3>1, EnqueueTransactionStep, EnqueueAtomicStep, DequeueStep, ForgetStep, DeadStep
        <3>2. CASE \E t \in Trid : HandleCommit(t) \/ HandleRollback(t)
            BY <1>1, <3>2, CommitStep, RollbackStep
        <3>3. CASE ServePending
            BY <1>1, <3>3, ServeStep
        <3>4. CASE Persist
            BY <1>1, <3>4, PersistStep
        <3>5. CASE Crash
            BY <1>1, <3>5, CrashStep
        <3> QED BY <2>3, <3>1, <3>2, <3>3, <3>4, <3>5 DEF GroupNext
    <2> QED BY <1>1, <2>1, <2>2, <2>3 DEF Next
<1>2. ASSUME GroupInv, UNCHANGED vars PROVE GroupInv'
    <2>1. /\ db' = db /\ disk' = disk /\ requests' = requests /\ enqueued' = enqueued
          /\ serving' = serving /\ remaining' = remaining /\ persistent' = persistent /\ next' = next
          /\ client' = client /\ forget' = forget /\ alive' = alive /\ deaths' = deaths
          /\ involved' = involved /\ transaction' = transaction /\ crashes' = crashes
          /\ writer' = writer /\ taken' = taken /\ acked' = acked /\ consumed' = consumed
          /\ late' = late
        BY <1>2 DEF vars
    <2>2. Sound(db)' /\ Sound(disk)' /\ Acknowledged' /\ Outcomes'
        BY <1>2, <2>1, AfterQuiet
    <2>3. TypeOK' /\ Known'
        BY <1>2, <2>1, InvFacts DEF TypeOK, Known
    <2>4. Bounded'
        <3>1. Sending' \subseteq Sending
            BY <2>1 DEF Sending
        <3> QED BY <1>2, <2>1, <3>1, StillBounded
    <2> QED BY <2>2, <2>3, <2>4 DEF GroupInv
<1> QED BY <1>1, <1>2

\* The queue group keeps its invariant, with any number of queues, clients,
\* transactions, messages and crashes.
THEOREM GroupCorrect == Spec => []GroupInv
BY GroupInvInit, GroupInvNext, PTL DEF Spec

\* The variables of the queue group always have their types: no counter of
\* what remains or is waited for falls below zero (pending::replies).
THEOREM GroupTypes == Spec => []TypeOK
<1>1. GroupInv => TypeOK
    BY DEF GroupInv
<1> QED BY <1>1, GroupCorrect, PTL

\* The counters that the triggers of Database::Database maintain always agree
\* with the message table, whatever transactions and crashes have done.
THEOREM CountersAlwaysAgree == Spec => []CountersAgree
<1>1. GroupInv => CountersAgree
    <2> SUFFICES ASSUME GroupInv, NEW d \in {db, disk}, NEW q \in QueueId \ {GroupError}
                 PROVE  /\ d.count[q] = Cardinality({m \in Message : Committed(d, m) /\ d.message[m].queue = q})
                        /\ d.uncommitted[q] =
                              Cardinality({m \in Message : d.message[m].state = cAdded /\ d.message[m].queue = q})
        BY Zenon DEF CountersAgree
    <2>1. Counted(db) /\ Counted(disk)
        BY InvFacts DEF Sane
    <2>2. Counted(d)
        BY <2>1
    <2> QED BY <2>2 DEF Counted, CommittedIn, AddedIn
<1> QED BY <1>1, GroupCorrect, PTL

\* A message whose atomic enqueue was answered is on disk until it is dequeued,
\* through every crash (enqueue::Request, persistent replies).
THEOREM AcknowledgedDurable == Spec => []AtomicEnqueueDurable
<1>1. GroupInv => AtomicEnqueueDurable
    BY InvFacts DEF AtomicEnqueueDurable, Acknowledged, Kept
<1> QED BY <1>1, GroupCorrect, PTL

\* What the transaction manager was told of a transaction is so on disk, and
\* stays so (transaction::commit, transaction::rollback).
THEOREM OutcomesDurable == Spec => []OutcomeDurable
<1>1. GroupInv => OutcomeDurable
    <2> SUFFICES ASSUME GroupInv, NEW t \in Trid \ late
                 PROVE  /\ transaction[t] = "committed" =>
                            \A m \in Message :
                                /\ writer[m] = t => Committed(disk, m) \/ m \in consumed
                                /\ m \in taken[t] => disk.message[m].state = cAbsent
                        /\ transaction[t] = "rolledback" =>
                            \A m \in Message :
                                /\ writer[m] = t => disk.message[m].state = cAbsent
                                /\ m \in taken[t] => disk.message[m] # [disk.message[m] EXCEPT
                                                        !.gtrid = t, !.state = cDequeued]
        BY Zenon DEF OutcomeDurable
    <2>1. Outcome(t) /\ Sane(disk)
        BY InvFacts
    <2>2. disk.message \in [Message -> Row]
        <3>1. disk \in Database
            BY <2>1 DEF Sane
        <3> QED BY <3>1, Parts
    <2>3. ASSUME NEW m \in Message, ~ Holds(disk, t, m)
          PROVE  disk.message[m] # [disk.message[m] EXCEPT !.gtrid = t, !.state = cDequeued]
        <3> DEFINE row == disk.message[m]
                   a == [row EXCEPT !.gtrid = t]
        <3>1. row \in Row
            BY <2>2
        <3>2. [row EXCEPT !.gtrid = t, !.state = cDequeued] = [a EXCEPT !.state = cDequeued]
            BY Zenon
        <3>3. row.state # cDequeued \/ row.gtrid # t
            BY <2>3 DEF Holds
        <3> HIDE DEF row
        <3>4. row # [a EXCEPT !.state = cDequeued]
            BY <3>1, <3>3 DEF Row
        <3> HIDE DEF a
        <3>5. row # [row EXCEPT !.gtrid = t, !.state = cDequeued]
            BY <3>2, <3>4, Zenon
        <3> USE DEF row
        <3> QED BY <3>5, Zenon
    <2>4. transaction[t] = "committed" => CommittedOutcome(disk, t)
        BY <2>1 DEF Outcome
    <2>5. transaction[t] = "rolledback" => RolledbackOutcome(disk, t)
        BY <2>1 DEF Outcome
    <2> QED BY <2>3, <2>4, <2>5, Zenon DEF CommittedOutcome, RolledbackOutcome, Kept
<1> QED BY <1>1, GroupCorrect, PTL

\* No message comes back to its queue more often than the queue has retries
\* (rollback3 moves it to the error queue).
THEOREM RetriesAlwaysBounded == Spec => []RetriesBounded
<1>1. GroupInv => RetriesBounded
    BY InvFacts DEF RetriesBounded, Sane, Redelivery
<1> QED BY <1>1, GroupCorrect, PTL

\* Once the group has read of a client's death, none of its requests is left
\* (dead::Process), whatever was pended, served and pended again before.
THEOREM DeadAlwaysForgotten == Spec => []DeadForgotten
<1>1. GroupInv => DeadForgotten
    BY InvFacts DEF DeadForgotten, Known
<1> QED BY <1>1, GroupCorrect, PTL
=============================================================================

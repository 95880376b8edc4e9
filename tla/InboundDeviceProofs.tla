------------------------- MODULE InboundDeviceProofs -------------------------
(***************************************************************************)
(* The device puts messages together right, for any number of senders,     *)
(* messages of any size, any capacity of the queue, and whatever is        *)
(* refused half way, tried again, discarded, pushed or left behind by a    *)
(* sender that dies.                                                       *)
(*                                                                         *)
(* The inductive invariant DeviceInv says where the parts of a message     *)
(* are: a part that does not begin its message has the part before it      *)
(* ahead of it in the queue, or the cache has got as far (Preceded), so    *)
(* that an entry of the cache grows without a hole; and nothing comes      *)
(* after the last part of a message (Cut), so that no message is begun     *)
(* again when it has been handed out. For the refinement of Mailbox it     *)
(* also says that messages of one sender keep their order (Ordered), and   *)
(* where a message is that can be received (Arrived).                      *)
(***************************************************************************)
EXTENDS InboundDevice, FiniteSetTheorems, TLAPS

-----------------------------------------------------------------------------
(* The inductive invariant.                                                *)

Part == [message : Message, offset : Nat, complete : Nat, count : 0 .. PayloadMax]
Entry == [correlation : Message \cup Event, payload : Seq(SUBSET (Message \cup Event)),
          unhandled : Seq(Nat \X Nat)]

\* An entry with all bytes of its message, and one with those before byte f.
Whole(e) ==
    /\ e.unhandled = <<>>
    /\ e.correlation \in Message => Len(e.payload) = Size[e.correlation]
    /\ \A k \in DOMAIN e.payload : e.payload[k] = {e.correlation}
UpTo(e, f) ==
    /\ e.correlation \in Message
    /\ e.unhandled = << <<f, Size[e.correlation]>> >>
    /\ Len(e.payload) = Size[e.correlation]
    /\ \A k \in 1 .. f : e.payload[k] = {e.correlation}
Partial(e) == \E f \in Nat : f < Size[e.correlation] /\ UpTo(e, f)

\* The parts in queue q are as they were cut, and the last part of a message is behind
\* all others of it.
Cut(q) ==
    /\ \A i \in DOMAIN q :
          /\ q[i].complete = Size[q[i].message]
          /\ q[i].offset + q[i].count <= q[i].complete
          /\ LastPart(q[i]) => q[i].message \in Range(sent)
    /\ \A i, k \in DOMAIN q : q[i].message = q[k].message /\ i < k => ~ LastPart(q[i])

\* A sender is in the middle of one message at most, and of none that was sent.
InMiddle ==
    /\ sending \in [Sender -> SUBSET [message : Message, offset : Nat]]
    /\ \A s \in Sender : \A x, y \in sending[s] : x = y
    /\ \A s \in Sender : \A x \in sending[s] :
          /\ From[x.message] = s /\ x.offset < Size[x.message] /\ s \in alive
          /\ x.message \notin Range(sent)

\* Cache c before queue q: a complete message was sent and nothing of it is left in the queue.
Stored(c, q) ==
    /\ c \in Seq(Entry)
    /\ \A i \in DOMAIN c : Whole(c[i]) \/ Partial(c[i])
    /\ \A i \in DOMAIN c : IsComplete(c[i]) => c[i].correlation \in Range(sent)
    /\ \A i \in DOMAIN c, k \in DOMAIN q : IsComplete(c[i]) => q[k].message # c[i].correlation
    /\ \A i \in DOMAIN c : c[i].correlation \notin discarded
    /\ \A i, k \in DOMAIN c : c[i].correlation = c[k].correlation => i = k

\* The bytes of m before off are in cache c, or a part that ends there is among the first n
\* of queue q.
Reached(c, q, m, off, n) ==
    \/ \E j \in 1 .. n : q[j].message = m /\ q[j].offset + q[j].count = off
    \/ \E i \in DOMAIN c :
          c[i].correlation = m /\ ~ IsComplete(c[i]) /\ c[i].unhandled[1][1] >= off

\* Whatever continues a message that is not discarded, in the queue or at a sender, follows
\* the bytes before it.
Preceded(c, q) ==
    /\ \A n \in DOMAIN q : q[n].offset > 0 /\ q[n].message \notin discarded =>
          Reached(c, q, q[n].message, q[n].offset, n - 1)
    /\ \A s \in Sender : \A x \in sending[s] : x.offset > 0 /\ x.message \notin discarded =>
          Reached(c, q, x.message, x.offset, Len(q))

\* What was received, and what was asked for.
Received ==
    /\ wanted \subseteq Wish /\ \A v, w \in wanted : v = w
    /\ \A g \in got : g.message \in Entry /\ Whole(g.message)
    /\ handed \subseteq Message \cup Event
    /\ dropped \subseteq Message /\ discarded \subseteq Message

\* The part of the invariant that says that messages are put together right.
Assembly ==
    /\ queue \in Seq(Part) /\ Len(queue) <= Capacity
    /\ alive \subseteq Sender /\ late \subseteq Message
    /\ sent \in Seq(Message \cup Event)
    /\ Cut(queue) /\ InMiddle
    /\ Stored(cache, queue) /\ Preceded(cache, queue)
    /\ Received

InQueue(q, m) == \E i \in DOMAIN q : q[i].message = m
InCache(c, m) == \E i \in DOMAIN c : c[i].correlation = m

\* Message a of the same sender was completely sent before b, and neither was tried twice.
Before(a, b) == \E k \in DOMAIN sent : sent[k] = a /\ \A n \in 1 .. k : sent[n] # b
Prompt(a, b) == a \notin late /\ b \notin late /\ Source[a] = Source[b] /\ Before(a, b)

\* Such messages keep their order in the queue and in the cache.
Ordered(c, q) ==
    \A a, b \in Message \cup Event : Prompt(a, b) =>
        /\ \A i, k \in DOMAIN q : q[i].message = a /\ q[k].message = b => i < k
        /\ InCache(c, b) => ~ InQueue(q, a)
        /\ \A i, k \in DOMAIN c : c[i].correlation = a /\ c[k].correlation = b => i < k

\* A message that was sent and is not gone is complete in the cache, or its last part is in the queue.
Gone == handed \cup dropped \cup discarded
Arrived(c, q) ==
    \A m \in Range(sent) \ Gone :
        \/ \E i \in DOMAIN c : c[i].correlation = m /\ IsComplete(c[i])
        \/ \E i \in DOMAIN q : q[i].message = m /\ LastPart(q[i])

\* Nothing is left of a message that was handed out or dropped.
Finished(c, q) ==
    \A m \in handed \cup dropped : m \in Range(sent) /\ ~ InQueue(q, m) /\ ~ InCache(c, m)

\* Something of a message that is not complete is only there while its sender is at it, has died
\* or has given it up half way.
Doing(c, q) ==
    \A m \in Message \ late : (InQueue(q, m) \/ InCache(c, m)) =>
        \/ m \in Range(sent)
        \/ From[m] \notin alive
        \/ \E x \in sending[From[m]] : x.message = m

Delivery(c, q) ==
    /\ \A i, k \in DOMAIN sent : sent[i] = sent[k] => i = k
    /\ Ordered(c, q) /\ Arrived(c, q) /\ Finished(c, q) /\ Doing(c, q)

DeviceInv == Assembly /\ Delivery(cache, queue)

-----------------------------------------------------------------------------
(* Sequences.                                                              *)

\* What Append does.
LEMMA Appended ==
    ASSUME NEW S, NEW s \in Seq(S), NEW x \in S
    PROVE  /\ Append(s, x) \in Seq(S)
           /\ Len(Append(s, x)) = Len(s) + 1
           /\ DOMAIN Append(s, x) = 1 .. Len(s) + 1
           /\ \A i \in 1 .. Len(s) : Append(s, x)[i] = s[i]
           /\ Append(s, x)[Len(s) + 1] = x
OBVIOUS

\* What Append does to the elements.
LEMMA AppendedRange ==
    ASSUME NEW S, NEW s \in Seq(S), NEW x \in S
    PROVE  Range(Append(s, x)) = Range(s) \cup {x}
<1>1. ASSUME NEW y \in Range(Append(s, x)) PROVE y \in Range(s) \cup {x}
    <2>1. PICK i \in 1 .. Len(s) + 1 : y = Append(s, x)[i]
        BY <1>1, Appended DEF Range
    <2> QED BY <2>1, Appended DEF Range
<1>2. ASSUME NEW i \in 1 .. Len(s) PROVE s[i] \in Range(Append(s, x))
    BY <1>2, Appended DEF Range
<1>3. x \in Range(Append(s, x))
    BY Appended DEF Range
<1> QED BY <1>1, <1>2, <1>3 DEF Range

\* What Tail and Head do.
LEMMA Tailed ==
    ASSUME NEW S, NEW s \in Seq(S), s # <<>>
    PROVE  /\ Tail(s) \in Seq(S) /\ Head(s) = s[1] /\ s[1] \in S /\ 1 \in DOMAIN s
           /\ Len(s) \in Nat /\ Len(s) > 0 /\ Len(Tail(s)) = Len(s) - 1
           /\ DOMAIN Tail(s) = 1 .. Len(s) - 1
           /\ \A i \in 1 .. Len(s) - 1 : Tail(s)[i] = s[i + 1]
OBVIOUS

\* What concatenation does.
LEMMA Joined ==
    ASSUME NEW S, NEW a \in Seq(S), NEW b \in Seq(S)
    PROVE  /\ a \o b \in Seq(S) /\ Len(a \o b) = Len(a) + Len(b)
           /\ DOMAIN (a \o b) = 1 .. Len(a) + Len(b)
           /\ \A k \in 1 .. Len(a) + Len(b) : (a \o b)[k] = IF k <= Len(a) THEN a[k] ELSE b[k - Len(a)]
OBVIOUS

\* What RemoveAt does: every element but one is kept, in its order.
Place(i, k) == IF k < i THEN k ELSE k + 1
LEMMA Removed ==
    ASSUME NEW S, NEW s \in Seq(S), NEW i \in DOMAIN s
    PROVE  /\ RemoveAt(s, i) \in Seq(S) /\ Len(s) \in Nat /\ i \in Nat
           /\ DOMAIN RemoveAt(s, i) = 1 .. Len(s) - 1
           /\ \A k \in 1 .. Len(s) - 1 :
                 Place(i, k) \in DOMAIN s \ {i} /\ RemoveAt(s, i)[k] = s[Place(i, k)]
           /\ \A n \in DOMAIN s \ {i} : \E k \in 1 .. Len(s) - 1 : n = Place(i, k)
<1> DEFINE a == SubSeq(s, 1, i - 1)
           b == SubSeq(s, i + 1, Len(s))
<1>1. Len(s) \in Nat /\ i \in Nat /\ 1 <= i /\ i <= Len(s) /\ DOMAIN s = 1 .. Len(s)
    OBVIOUS
<1>2. a \in Seq(S) /\ Len(a) = i - 1 /\ \A k \in 1 .. i - 1 : a[k] = s[k]
    BY <1>1
<1>3. b \in Seq(S) /\ Len(b) = Len(s) - i /\ \A k \in 1 .. Len(s) - i : b[k] = s[k + i]
    BY <1>1
<1>4. RemoveAt(s, i) = a \o b
    BY DEF RemoveAt
<1> HIDE DEF a, b
<1>5. /\ a \o b \in Seq(S) /\ Len(a \o b) = Len(a) + Len(b)
      /\ DOMAIN (a \o b) = 1 .. Len(a) + Len(b)
      /\ \A k \in 1 .. Len(a) + Len(b) : (a \o b)[k] = IF k <= Len(a) THEN a[k] ELSE b[k - Len(a)]
    BY <1>2, <1>3, Joined
<1>6. Len(a) + Len(b) = Len(s) - 1
    BY <1>1, <1>2, <1>3
<1>7. ASSUME NEW k \in 1 .. Len(s) - 1
      PROVE  Place(i, k) \in DOMAIN s \ {i} /\ (a \o b)[k] = s[Place(i, k)]
    <2>1. Place(i, k) \in DOMAIN s \ {i}
        BY <1>1 DEF Place
    <2>2. CASE k < i
        BY <2>1, <2>2, <1>1, <1>2, <1>5, <1>6 DEF Place
    <2>3. CASE ~ (k < i)
        <3>1. k - (i - 1) \in 1 .. Len(s) - i /\ k - (i - 1) + i = k + 1 /\ ~ (k <= i - 1)
            BY <1>1, <2>3
        <3>2. b[k - (i - 1)] = s[k + 1]
            BY <1>3, <3>1
        <3>3. (a \o b)[k] = b[k - (i - 1)]
            BY <1>2, <1>5, <1>6, <3>1
        <3> QED BY <2>1, <2>3, <3>2, <3>3 DEF Place
    <2> QED BY <2>2, <2>3
<1>8. ASSUME NEW n \in DOMAIN s \ {i}
      PROVE  \E k \in 1 .. Len(s) - 1 : n = Place(i, k)
    <2>1. CASE n < i
        <3>1. n \in 1 .. Len(s) - 1 /\ n = Place(i, n)
            BY <1>1, <2>1 DEF Place
        <3> QED BY <3>1
    <2>2. CASE ~ (n < i)
        <3>1. n - 1 \in 1 .. Len(s) - 1 /\ n = Place(i, n - 1)
            BY <1>1, <2>2 DEF Place
        <3> QED BY <3>1
    <2> QED BY <2>1, <2>2
<1> QED BY <1>1, <1>4, <1>5, <1>6, <1>7, <1>8

-----------------------------------------------------------------------------
(* Putting a message together.                                             *)

\* A part is of a message; its last byte is a number.
LEMMA PartType ==
    ASSUME NEW t \in Part
    PROVE  /\ t.message \in Message /\ t.offset \in Nat /\ t.complete \in Nat /\ t.count \in Nat
           /\ t.offset + t.count \in Nat /\ Size[t.message] \in Nat
BY SizeAssumption, PayloadAssumption DEF Part

\* The ranges that are left of none and of one.
LEMMA MissingOne ==
    ASSUME NEW r \in Nat \X Nat
    PROVE  Missing[<<>>] = <<>> /\ Missing[<<r>>] = IF IsEmpty(r) THEN <<>> ELSE <<r>>
<1>1. Missing[<<>>] = <<>>
    <2> DEFINE left == {i \in DOMAIN <<>> : ~ IsEmpty(<<>>[i])}
    <2>1. left = {}
        OBVIOUS
    <2>2. Cardinality(left) = 0
        BY <2>1, FS_EmptySet
    <2>3. <<>> \in Seq(Nat \X Nat)
        OBVIOUS
    <2> HIDE DEF left
    <2>4. Missing[<<>>] = [n \in 1 .. Cardinality(left) |->
                              <<>>[CHOOSE i \in left : Cardinality({k \in left : k <= i}) = n]]
        BY <2>3 DEF Missing, left
    <2> QED BY <2>2, <2>4
<1>2. Missing[<<r>>] = IF IsEmpty(r) THEN <<>> ELSE <<r>>
    <2> DEFINE s == <<r>>
               left == {i \in DOMAIN s : ~ IsEmpty(s[i])}
               at(n) == CHOOSE i \in left : Cardinality({k \in left : k <= i}) = n
    <2>1. s \in Seq(Nat \X Nat) /\ DOMAIN s = {1} /\ s[1] = r /\ Len(s) = 1
        OBVIOUS
    <2>2. left = IF IsEmpty(r) THEN {} ELSE {1}
        BY <2>1
    <2> HIDE DEF s
    <2>3. Missing[s] = [n \in 1 .. Cardinality(left) |-> s[at(n)]]
        BY <2>1 DEF Missing
    <2> HIDE DEF left
    <2>4. CASE IsEmpty(r)
        <3>1. Cardinality(left) = 0
            BY <2>2, <2>4, FS_EmptySet
        <3> QED BY <2>3, <2>4, <3>1 DEF s
    <2>5. CASE ~ IsEmpty(r)
        <3>1. left = {1} /\ Cardinality(left) = 1
            BY <2>2, <2>5, FS_Singleton
        <3>2. {k \in left : k <= 1} = {1} /\ Cardinality({1}) = 1
            BY <3>1, FS_Singleton
        <3>3. \E i \in left : Cardinality({k \in left : k <= i}) = 1
            BY <3>1, <3>2
        <3>4. at(1) \in left
            BY <3>3
        <3>5. at(1) = 1
            BY <3>1, <3>4
        <3> HIDE DEF at
        <3>6. Missing[s] = [n \in 1 .. 1 |-> s[at(n)]]
            BY <2>3, <3>1
        <3>7. \A n \in 1 .. 1 : s[at(n)] = r
            BY <2>1, <3>5
        <3>8. Missing[s] = [n \in 1 .. 1 |-> r]
            BY <3>6, <3>7
        <3> QED BY <2>5, <3>8 DEF s
    <2> QED BY <2>4, <2>5 DEF s
<1> QED BY <1>1, <1>2

\* A part that begins no later than the entry goes makes the entry go as far as the part does,
\* or complete.
LEMMA Added ==
    ASSUME NEW e \in Entry, NEW t \in Part, NEW f \in Nat, UpTo(e, f), t.message = e.correlation,
           t.complete = Size[t.message], t.offset + t.count <= t.complete, t.offset <= f,
           f <= Size[t.message], f < Size[t.message] \/ LastPart(t)
    PROVE  /\ Add(e, t) \in Entry
           /\ Add(e, t).correlation = t.message
           /\ LastPart(t) => Whole(Add(e, t))
           /\ ~ LastPart(t) => \E g \in Nat :
                 /\ g < Size[t.message] /\ g >= f /\ g >= t.offset + t.count
                 /\ UpTo(Add(e, t), g)
<1> DEFINE m == t.message
           z == Size[m]
           b == t.offset + t.count
           r == IF LastPart(t) THEN Nothing ELSE IF f <= b THEN <<b, z>> ELSE <<f, z>>
           p == [i \in DOMAIN e.payload |->
                    IF i \in t.offset + 1 .. t.offset + t.count THEN {m} ELSE e.payload[i]]
<1>1. /\ m \in Message /\ t.offset \in Nat /\ t.count \in Nat /\ b \in Nat /\ z \in Nat
      /\ b <= z /\ t.complete = z
    BY PartType
<1>2. /\ e.unhandled = << <<f, z>> >> /\ Len(e.payload) = z /\ \A k \in 1 .. f : e.payload[k] = {m}
      /\ e.payload \in Seq(SUBSET (Message \cup Event)) /\ DOMAIN e.payload = 1 .. z
    BY <1>1 DEF UpTo, Entry
<1>3. Subtract(<<f, z>>, <<t.offset, b>>) = <<r, Nothing>>
    <2>1. CASE LastPart(t)
        <3>1. b = z
            BY <1>1, <2>1 DEF LastPart
        <3> QED BY <1>1, <2>1, <3>1 DEF Subtract, Overlap
    <2>2. CASE ~ LastPart(t)
        <3>1. b < z /\ f < z
            BY <1>1, <2>2 DEF LastPart
        <3>2. CASE f <= b
            BY <1>1, <2>2, <3>1, <3>2 DEF Subtract, Overlap
        <3>3. CASE ~ (f <= b)
            BY <1>1, <2>2, <3>1, <3>3 DEF Subtract, Overlap
        <3> QED BY <3>2, <3>3
    <2> QED BY <2>1, <2>2
<1>4. r \in Nat \X Nat
    BY <1>1 DEF Nothing
<1> HIDE DEF r
<1>5. Add(e, t) = [correlation |-> m, payload |-> p, unhandled |-> Missing[<<r>>]]
    <2> DEFINE rest == [i \in DOMAIN e.unhandled |->
                           Subtract(e.unhandled[i], <<t.offset, t.offset + t.count>>)]
               ranges == [i \in DOMAIN rest |-> rest[i][1]]
    <2>1. DOMAIN e.unhandled = {1} /\ e.unhandled[1] = <<f, z>>
        BY <1>2
    <2>2. rest = << <<r, Nothing>> >>
        BY <2>1, <1>3
    <2>3. rest # <<>> /\ Len(rest) = 1 /\ rest[1] = <<r, Nothing>> /\ DOMAIN rest = {1}
        BY <2>2
    <2> HIDE DEF rest
    <2>4. rest[Len(rest)][2] = Nothing /\ IsEmpty(Nothing)
        BY <2>3 DEF Nothing, IsEmpty
    <2>5. ranges = <<r>>
        BY <2>3
    <2> HIDE DEF ranges
    <2>6. Add(e, t) =
             [correlation |-> e.correlation, payload |-> p,
              unhandled |-> Missing[IF IsEmpty(IF rest = <<>> THEN Nothing ELSE rest[Len(rest)][2])
                                    THEN ranges
                                    ELSE Append(ranges, IF rest = <<>> THEN Nothing ELSE rest[Len(rest)][2])]]
        BY DEF Add, rest, ranges
    <2> QED BY <2>3, <2>4, <2>5, <2>6
<1>6. p \in Seq(SUBSET (Message \cup Event)) /\ Len(p) = z /\ DOMAIN p = 1 .. z
    <2> DEFINE S == SUBSET (Message \cup Event)
    <2>1. \A k \in 1 .. z : e.payload[k] \in S
        BY <1>1, <1>2
    <2>2. {m} \in S
        BY <1>1
    <2> HIDE DEF S, z
    <2>3. p \in [1 .. z -> S]
        BY <1>2, <2>1, <2>2
    <2>4. \A h \in [1 .. z -> S] : h \in Seq(S) /\ Len(h) = z /\ DOMAIN h = 1 .. z
        BY <1>1
    <2> HIDE DEF p
    <2> QED BY <2>3, <2>4 DEF S
<1>7. \A k \in 1 .. z : k <= f \/ k <= b => p[k] = {m}
    <2> SUFFICES ASSUME NEW k \in 1 .. z, k <= f \/ k <= b PROVE p[k] = {m}
        OBVIOUS
    <2>1. CASE k <= f
        BY <1>1, <1>2, <2>1
    <2>2. CASE ~ (k <= f)
        <3>1. k \in t.offset + 1 .. t.offset + t.count
            BY <1>1, <2>2
        <3> QED BY <1>2, <3>1
    <2> QED BY <2>1, <2>2
<1> HIDE DEF p
<1>8. ASSUME LastPart(t) PROVE Add(e, t) \in Entry /\ Whole(Add(e, t))
    <2>1. b = z /\ r = Nothing /\ IsEmpty(r)
        BY <1>1, <1>8 DEF LastPart, r, Nothing, IsEmpty
    <2>2. Missing[<<r>>] = <<>> /\ <<>> \in Seq(Nat \X Nat)
        BY <1>4, <2>1, MissingOne
    <2>3. \A k \in 1 .. z : p[k] = {m}
        BY <1>1, <1>7, <2>1
    <2> HIDE DEF b, z
    <2>4. Add(e, t) \in Entry
        BY <1>1, <1>5, <1>6, <2>2 DEF Entry
    <2>5. Whole(Add(e, t))
        BY <1>5, <1>6, <2>2, <2>3 DEF Whole, z
    <2> QED BY <2>4, <2>5
<1>9. ASSUME ~ LastPart(t)
      PROVE  /\ Add(e, t) \in Entry
             /\ \E g \in Nat : g < z /\ g >= f /\ g >= b /\ UpTo(Add(e, t), g)
    <2>1. PICK g \in Nat : g = IF f <= b THEN b ELSE f
        BY <1>1
    <2>2. g < z /\ g >= f /\ g >= b /\ r = <<g, z>> /\ ~ IsEmpty(r)
        BY <1>1, <1>9, <2>1 DEF LastPart, r, IsEmpty
    <2>3. Missing[<<r>>] = << <<g, z>> >> /\ << <<g, z>> >> \in Seq(Nat \X Nat)
        BY <1>1, <1>4, <2>2, MissingOne
    <2>4. \A k \in 1 .. g : p[k] = {m}
        BY <1>1, <1>7, <2>1, <2>2
    <2> HIDE DEF b, z
    <2>5. Add(e, t) \in Entry
        BY <1>1, <1>5, <1>6, <2>3 DEF Entry
    <2>6. UpTo(Add(e, t), g)
        BY <1>1, <1>5, <1>6, <2>3, <2>4 DEF UpTo, z
    <2> QED BY <2>2, <2>5, <2>6
<1>10. Add(e, t).correlation = m
    BY <1>5
<1> QED BY <1>8, <1>9, <1>10

\* A message is begun with its first part.
LEMMA Begun ==
    ASSUME NEW t \in Part, t.complete = Size[t.message], t.offset + t.count <= t.complete, t.offset = 0
    PROVE  /\ Complete(t) \in Entry
           /\ Complete(t).correlation = t.message
           /\ LastPart(t) => Whole(Complete(t))
           /\ ~ LastPart(t) => \E g \in Nat :
                 g < Size[t.message] /\ g >= t.offset + t.count /\ UpTo(Complete(t), g)
<1> DEFINE e == [correlation |-> t.message, payload |-> [i \in 1 .. t.complete |-> {}],
                 unhandled |-> << <<0, t.complete>> >>]
<1>1. /\ t.message \in Message /\ t.complete \in Nat /\ t.count \in Nat /\ t.offset \in Nat
    BY PartType
<1>2. e.payload \in Seq(SUBSET (Message \cup Event)) /\ Len(e.payload) = t.complete
    BY <1>1
<1>3. e.unhandled \in Seq(Nat \X Nat)
    BY <1>1
<1>4. e \in Entry
    BY <1>1, <1>2, <1>3 DEF Entry
<1>5. UpTo(e, 0)
    BY <1>1, <1>2 DEF UpTo
<1>6. 0 <= Size[t.message] /\ (0 < Size[t.message] \/ LastPart(t))
    BY <1>1 DEF LastPart
<1>7. Complete(t) = Add(e, t) /\ e.correlation = t.message
    BY DEF Complete
<1> HIDE DEF e
<1> QED BY <1>1, <1>4, <1>5, <1>6, <1>7, Added

\* An entry is complete or goes up to some byte.
LEMMA Shapes ==
    ASSUME NEW e
    PROVE  /\ Whole(e) => IsComplete(e)
           /\ \A f : UpTo(e, f) => ~ IsComplete(e) /\ e.unhandled[1][1] = f
           /\ Partial(e) => ~ IsComplete(e)
BY DEF Whole, UpTo, Partial, IsComplete

\* Device::cache made c from d: the entry at i is new, or goes further, because of part t.
Grown(d, c, i, t) ==
    /\ c \in Seq(Entry) /\ i \in DOMAIN c /\ DOMAIN d \subseteq DOMAIN c
    /\ \A k \in DOMAIN c \ {i} : k \in DOMAIN d /\ c[k] = d[k]
    /\ c[i].correlation = t.message
    /\ LastPart(t) => Whole(c[i])
    /\ ~ LastPart(t) => Partial(c[i]) /\ c[i].unhandled[1][1] >= t.offset + t.count
    /\ i \in DOMAIN d => /\ d[i].correlation = t.message /\ ~ IsComplete(d[i])
                         /\ ~ LastPart(t) => \A off \in Nat :
                               d[i].unhandled[1][1] >= off => c[i].unhandled[1][1] >= off
    /\ i \notin DOMAIN d => i = Len(d) + 1 /\ ~ InCache(d, t.message)

\* The first part in the queue is the first of its message, or continues the entry of it.
LEMMA Entered ==
    ASSUME Assembly, queue # <<>>, Head(queue).message \notin discarded
    PROVE  \E i \in DOMAIN Enter(cache, Head(queue)) :
              Grown(cache, Enter(cache, Head(queue)), i, Head(queue))
<1> DEFINE t == Head(queue)
           m == t.message
<1>1. queue \in Seq(Part) /\ cache \in Seq(Entry) /\ Cut(queue) /\ Stored(cache, queue) /\ Preceded(cache, queue)
    BY DEF Assembly, Stored
<1>2. t = queue[1] /\ t \in Part /\ 1 \in DOMAIN queue
    BY <1>1, Tailed
<1>3. t.complete = Size[m] /\ t.offset + t.count <= t.complete
    BY <1>1, <1>2 DEF Cut
<1>4. m \in Message /\ t.offset \in Nat /\ t.count \in Nat /\ Size[m] \in Nat
    BY <1>2, PartType
<1>5. t.offset = 0 \/ \E i \in DOMAIN cache :
          cache[i].correlation = m /\ ~ IsComplete(cache[i]) /\ cache[i].unhandled[1][1] >= t.offset
    <2>1. CASE t.offset = 0
        BY <2>1
    <2>2. CASE t.offset # 0
        <3>1. Reached(cache, queue, m, t.offset, 1 - 1)
            BY <1>1, <1>2, <1>4, <2>2 DEF Preceded
        <3>2. 1 .. 1 - 1 = {}
            OBVIOUS
        <3> QED BY <3>1, <3>2 DEF Reached
    <2> QED BY <2>1, <2>2
<1> HIDE DEF t
<1> DEFINE known == {i \in DOMAIN cache : cache[i].correlation = m}
<1>6. CASE known = {}
    <2>1. t.offset = 0 /\ ~ InCache(cache, m)
        BY <1>5, <1>6 DEF InCache
    <2>2. Enter(cache, t) = Append(cache, Complete(t))
        BY <1>6 DEF Enter
    <2>3. /\ Complete(t) \in Entry /\ Complete(t).correlation = m
          /\ LastPart(t) => Whole(Complete(t))
          /\ ~ LastPart(t) => \E g \in Nat : g < Size[m] /\ g >= t.offset + t.count /\ UpTo(Complete(t), g)
        BY <1>2, <1>3, <2>1, Begun
    <2> DEFINE e == Complete(t)
    <2> HIDE DEF e
    <2>4. ~ LastPart(t) => Partial(e) /\ e.unhandled[1][1] >= t.offset + t.count
        BY <2>3, Shapes DEF Partial, e
    <2>5. e \in Entry /\ e.correlation = m /\ (LastPart(t) => Whole(e)) /\ Enter(cache, t) = Append(cache, e)
        BY <2>2, <2>3 DEF e
    <2> DEFINE c == Append(cache, e)
               i == Len(cache) + 1
    <2>6. /\ c \in Seq(Entry) /\ DOMAIN c = 1 .. Len(cache) + 1 /\ c[i] = e
          /\ \A k \in 1 .. Len(cache) : c[k] = cache[k]
        BY <1>1, <2>5, Appended
    <2>7. DOMAIN cache = 1 .. Len(cache) /\ Len(cache) \in Nat
        BY <1>1
    <2> HIDE DEF c
    <2>8. i \in DOMAIN c /\ DOMAIN cache \subseteq DOMAIN c /\ i \notin DOMAIN cache
          /\ \A k \in DOMAIN c \ {i} : k \in DOMAIN cache /\ c[k] = cache[k]
        BY <2>6, <2>7
    <2> HIDE DEF i
    <2>9. Grown(cache, c, i, t)
        BY <2>1, <2>4, <2>5, <2>6, <2>8 DEF Grown, i
    <2>10. Enter(cache, t) = c
        BY <2>5 DEF c
    <2> QED BY <2>8, <2>9, <2>10 DEF t
<1>7. CASE known # {}
    <2>1. \A j, k \in known : j = k
        BY <1>1 DEF Stored
    <2>2. PICK i \in known : i = CHOOSE n \in known : \A k \in known : n <= k
        <3>1. PICK j \in known : TRUE
            BY <1>7
        <3>2. j \in Nat /\ \A k \in known : j <= k
            BY <1>1, <2>1
        <3>3. (CHOOSE i \in known : \A k \in known : i <= k) \in known
            BY <3>2
        <3> QED BY <3>3
    <2>3. i \in DOMAIN cache /\ cache[i] \in Entry /\ cache[i].correlation = m
        BY <1>1
    <2>4. ~ IsComplete(cache[i]) /\ Partial(cache[i])
        BY <1>1, <1>2, <2>3, Shapes DEF Stored
    <2>5. PICK f \in Nat : f < Size[m] /\ UpTo(cache[i], f)
        BY <2>3, <2>4 DEF Partial
    <2>6. cache[i].unhandled[1][1] = f
        BY <2>5, Shapes
    <2>7. t.offset <= f
        BY <1>4, <1>5, <2>1, <2>3, <2>6
    <2> DEFINE e == Add(cache[i], t)
               c == [cache EXCEPT ![i] = e]
    <2>8. /\ e \in Entry /\ e.correlation = m
          /\ LastPart(t) => Whole(e)
          /\ ~ LastPart(t) => \E g \in Nat : g < Size[m] /\ g >= f /\ g >= t.offset + t.count /\ UpTo(e, g)
        BY <1>2, <1>3, <1>4, <2>3, <2>5, <2>7, Added
    <2>9. Enter(cache, t) = c
        BY <1>7, <2>2 DEF Enter
    <2> HIDE DEF e
    <2>10. c \in Seq(Entry) /\ DOMAIN c = DOMAIN cache /\ c[i] = e /\ \A k \in DOMAIN c \ {i} : c[k] = cache[k]
        BY <1>1, <2>3, <2>8
    <2>11. ~ LastPart(t) => /\ Partial(e) /\ e.unhandled[1][1] >= t.offset + t.count
                            /\ \A off \in Nat : f >= off => e.unhandled[1][1] >= off
        <3> SUFFICES ASSUME ~ LastPart(t)
                     PROVE  /\ Partial(e) /\ e.unhandled[1][1] >= t.offset + t.count
                            /\ \A off \in Nat : f >= off => e.unhandled[1][1] >= off
            OBVIOUS
        <3>1. PICK g \in Nat : g < Size[m] /\ g >= f /\ g >= t.offset + t.count /\ UpTo(e, g)
            BY <2>8
        <3>2. e.unhandled[1][1] = g /\ Partial(e)
            BY <3>1, <2>8, Shapes DEF Partial
        <3>3. \A off \in Nat : f >= off => g >= off
            BY <3>1
        <3> QED BY <3>1, <3>2, <3>3
    <2> HIDE DEF c, m
    <2>12. Grown(cache, c, i, t)
        BY <2>3, <2>4, <2>6, <2>8, <2>10, <2>11 DEF Grown, m
    <2> QED BY <2>3, <2>9, <2>10, <2>12 DEF t
<1> QED BY <1>6, <1>7

-----------------------------------------------------------------------------
(* What the device does to the cache.                                      *)

\* Reading the queue takes its first part.
LEMMA TailCut ==
    ASSUME queue \in Seq(Part), Cut(queue), queue # <<>>
    PROVE  Cut(Tail(queue)) /\ Len(Tail(queue)) <= Len(queue)
<1>1. /\ Len(queue) \in Nat /\ Len(queue) > 0 /\ Len(Tail(queue)) = Len(queue) - 1
      /\ DOMAIN Tail(queue) = 1 .. Len(queue) - 1 /\ DOMAIN queue = 1 .. Len(queue)
      /\ \A i \in 1 .. Len(queue) - 1 : Tail(queue)[i] = queue[i + 1]
    BY Tailed
<1> DEFINE T == Tail(queue)
<1> HIDE DEF T
<1>2. \A i \in DOMAIN T : i + 1 \in DOMAIN queue /\ T[i] = queue[i + 1]
    BY <1>1 DEF T
<1>3. \A i, k \in DOMAIN T : i < k => i + 1 < k + 1
    BY <1>1 DEF T
<1>4. Cut(T)
    BY <1>2, <1>3 DEF Cut
<1> QED BY <1>1, <1>4 DEF T

\* What has been reached is still reached after the first part of the queue went into the cache.
LEMMA ReachedGrown ==
    ASSUME queue \in Seq(Part), queue # <<>>, NEW c, NEW i, Grown(cache, c, i, Head(queue)),
           NEW m, NEW off \in Nat, NEW n \in 1 .. Len(queue), Reached(cache, queue, m, off, n),
           m = Head(queue).message => ~ LastPart(Head(queue))
    PROVE  Reached(c, Tail(queue), m, off, n - 1)
<1> DEFINE T == Tail(queue)
           t == Head(queue)
<1>1. /\ Len(queue) \in Nat /\ \A k \in 1 .. Len(queue) - 1 : T[k] = queue[k + 1]
      /\ t = queue[1]
    BY Tailed
<1>2. ASSUME NEW j \in 1 .. n, queue[j].message = m, queue[j].offset + queue[j].count = off
      PROVE  Reached(c, T, m, off, n - 1)
    <2>1. CASE j = 1
        <3>1. t.message = m /\ t.offset + t.count = off
            BY <1>1, <1>2, <2>1
        <3> HIDE DEF t, T
        <3>2. i \in DOMAIN c /\ c[i].correlation = m /\ ~ IsComplete(c[i]) /\ c[i].unhandled[1][1] >= off
            BY <3>1, Shapes DEF Grown, t
        <3> QED BY <3>2 DEF Reached
    <2>2. CASE j # 1
        <3>1. j - 1 \in 1 .. n - 1 /\ j - 1 \in 1 .. Len(queue) - 1 /\ j - 1 + 1 = j
            BY <1>1, <2>2
        <3>2. T[j - 1] = queue[j]
            BY <1>1, <3>1
        <3> HIDE DEF T
        <3> QED BY <1>2, <3>1, <3>2 DEF Reached
    <2> QED BY <2>1, <2>2
<1>3. ASSUME NEW k \in DOMAIN cache, cache[k].correlation = m, ~ IsComplete(cache[k]),
             cache[k].unhandled[1][1] >= off
      PROVE  Reached(c, T, m, off, n - 1)
    <2> HIDE DEF T
    <2>1. k \in DOMAIN c /\ c[k].correlation = m /\ ~ IsComplete(c[k]) /\ c[k].unhandled[1][1] >= off
        <3>1. CASE k = i
            BY <1>3, <3>1, Shapes DEF Grown
        <3>2. CASE k # i
            <4>1. k \in DOMAIN c /\ c[k] = cache[k]
                BY <1>3, <3>2 DEF Grown
            <4> QED BY <1>3, <4>1
        <3> QED BY <3>1, <3>2
    <2> QED BY <2>1 DEF Reached
<1> QED BY <1>2, <1>3 DEF Reached

\* Putting the first part into the cache keeps the messages together.
LEMMA GrownAssembly ==
    ASSUME Assembly, queue # <<>>, Head(queue).message \notin discarded,
           NEW c, NEW i, Grown(cache, c, i, Head(queue))
    PROVE  Stored(c, Tail(queue)) /\ Preceded(c, Tail(queue))
<1> DEFINE T == Tail(queue)
           t == Head(queue)
<1>1. queue \in Seq(Part) /\ cache \in Seq(Entry) /\ Cut(queue) /\ Stored(cache, queue) /\ Preceded(cache, queue)
    BY DEF Assembly, Stored
<1>2. /\ Len(queue) \in Nat /\ Len(queue) > 0 /\ DOMAIN queue = 1 .. Len(queue) /\ DOMAIN T = 1 .. Len(queue) - 1
      /\ t = queue[1] /\ t \in Part /\ 1 \in DOMAIN queue /\ Len(T) = Len(queue) - 1
    BY <1>1, Tailed
<1>3. \A k \in DOMAIN T : k + 1 \in DOMAIN queue /\ T[k] = queue[k + 1] /\ 1 < k + 1
    BY <1>1, <1>2, Tailed
<1> HIDE DEF T, t
<1>4. ASSUME NEW k \in DOMAIN T, T[k].message = t.message PROVE ~ LastPart(t)
    BY <1>1, <1>2, <1>3, <1>4 DEF Cut
<1>5. LastPart(t) => t.message \in Range(sent)
    BY <1>1, <1>2 DEF Cut
<1>6. Grown(cache, c, i, t) /\ t.message \notin discarded
    BY DEF t
<1>7. Stored(c, T)
    <2>1. c \in Seq(Entry)
        BY <1>6 DEF Grown
    <2>2. \A k \in DOMAIN c : Whole(c[k]) \/ Partial(c[k])
        BY <1>1, <1>6 DEF Grown, Stored
    <2>3. IsComplete(c[i]) => LastPart(t)
        BY <1>6, Shapes DEF Grown
    <2>4. \A k \in DOMAIN c : IsComplete(c[k]) => c[k].correlation \in Range(sent)
        BY <1>1, <1>5, <1>6, <2>3 DEF Grown, Stored
    <2>5. ASSUME NEW k \in DOMAIN c, NEW n \in DOMAIN T, IsComplete(c[k])
          PROVE  T[n].message # c[k].correlation
        <3>1. CASE k = i
            BY <1>4, <1>6, <2>3, <2>5, <3>1 DEF Grown
        <3>2. CASE k # i
            BY <1>1, <1>3, <1>6, <2>5, <3>2 DEF Grown, Stored
        <3> QED BY <3>1, <3>2
    <2>6. \A k \in DOMAIN c : c[k].correlation \notin discarded
        BY <1>1, <1>6 DEF Grown, Stored
    <2>7. ASSUME NEW k \in DOMAIN c, NEW n \in DOMAIN c, c[k].correlation = c[n].correlation
          PROVE  k = n
        <3>1. \A x \in DOMAIN c \ {i} : c[x].correlation # c[i].correlation
            <4>1. SUFFICES ASSUME NEW x \in DOMAIN c \ {i}, c[x].correlation = c[i].correlation
                           PROVE  FALSE
                OBVIOUS
            <4>2. x \in DOMAIN cache /\ cache[x].correlation = t.message
                BY <1>6, <4>1 DEF Grown
            <4>3. CASE i \in DOMAIN cache
                BY <1>1, <1>6, <4>2, <4>3 DEF Grown, Stored
            <4>4. CASE i \notin DOMAIN cache
                BY <1>6, <4>2, <4>4 DEF Grown, InCache
            <4> QED BY <4>3, <4>4
        <3>2. CASE k # i /\ n # i
            BY <1>1, <1>6, <2>7, <3>2 DEF Grown, Stored
        <3>3. CASE k = i \/ n = i
            BY <2>7, <3>1, <3>3
        <3> QED BY <3>2, <3>3
    <2> QED BY <2>1, <2>2, <2>4, <2>5, <2>6, <2>7 DEF Stored
<1>8. ASSUME NEW n \in DOMAIN T, T[n].offset > 0, T[n].message \notin discarded
      PROVE  Reached(c, T, T[n].message, T[n].offset, n - 1)
    <2>1. n + 1 \in DOMAIN queue /\ T[n] = queue[n + 1] /\ n \in 1 .. Len(queue) /\ n + 1 - 1 = n
        BY <1>2, <1>3
    <2>2. T[n].message \in Message /\ T[n].offset \in Nat
        BY <1>1, <2>1, PartType
    <2>3. Reached(cache, queue, T[n].message, T[n].offset, n)
        BY <1>1, <1>8, <2>1 DEF Preceded
    <2>4. T[n].message = t.message => ~ LastPart(t)
        BY <1>4
    <2> QED BY <1>1, <2>1, <2>2, <2>3, <2>4, ReachedGrown DEF t, T
<1>9. ASSUME NEW s \in Sender, NEW x \in sending[s], x.offset > 0, x.message \notin discarded
      PROVE  Reached(c, T, x.message, x.offset, Len(T))
    <2>1. Len(queue) \in 1 .. Len(queue) /\ Len(T) = Len(queue) - 1
        BY <1>2
    <2>2. x.offset \in Nat /\ x.message \notin Range(sent)
        BY <1>9 DEF Assembly, InMiddle
    <2>3. Reached(cache, queue, x.message, x.offset, Len(queue))
        BY <1>1, <1>9 DEF Preceded
    <2>4. x.message = t.message => ~ LastPart(t)
        BY <1>5, <2>2
    <2>5. Reached(c, Tail(queue), x.message, x.offset, Len(queue) - 1)
        BY <1>1, <2>1, <2>2, <2>3, <2>4, ReachedGrown DEF t
    <2> QED BY <2>1, <2>5 DEF T
<1> QED BY <1>7, <1>8, <1>9 DEF Preceded, T

\* Nothing comes before itself.
LEMMA BeforeOther == ASSUME NEW a, NEW b, sent \in Seq(Message \cup Event), Before(a, b) PROVE a # b
<1>1. PICK k \in DOMAIN sent : sent[k] = a /\ \A n \in 1 .. k : sent[n] # b
    BY DEF Before
<1>2. k \in 1 .. k
    OBVIOUS
<1> QED BY <1>1, <1>2

\* Putting the first part into the cache keeps what is known of the order.
LEMMA GrownDelivery ==
    ASSUME Assembly, Delivery(cache, queue), queue # <<>>,
           NEW c, NEW i, Grown(cache, c, i, Head(queue))
    PROVE  Delivery(c, Tail(queue))
<1> DEFINE T == Tail(queue)
           t == Head(queue)
<1>1. queue \in Seq(Part) /\ cache \in Seq(Entry) /\ sent \in Seq(Message \cup Event)
    BY DEF Assembly, Stored
<1>2. /\ Len(queue) \in Nat /\ DOMAIN queue = 1 .. Len(queue) /\ DOMAIN T = 1 .. Len(queue) - 1
      /\ t = queue[1] /\ t \in Part /\ 1 \in DOMAIN queue
    BY <1>1, Tailed
<1>3. \A k \in DOMAIN T : k + 1 \in DOMAIN queue /\ T[k] = queue[k + 1] /\ ~ (k + 1 < 1) /\ k \in Nat
    BY <1>1, <1>2, Tailed
<1>4. \A j \in DOMAIN queue : j # 1 => j - 1 \in DOMAIN T /\ T[j - 1] = queue[j]
    BY <1>1, <1>2, Tailed
<1> HIDE DEF T, t
<1>5. Grown(cache, c, i, t)
    BY DEF t
<1>6. \A m : InQueue(T, m) => InQueue(queue, m)
    BY <1>3 DEF InQueue
<1>7. InQueue(queue, t.message)
    BY <1>2 DEF InQueue
<1>8. \A m : InCache(c, m) => InCache(cache, m) \/ m = t.message
    BY <1>5 DEF Grown, InCache
<1>9. Ordered(c, T)
    <2> SUFFICES ASSUME NEW a \in Message \cup Event, NEW b \in Message \cup Event, Prompt(a, b)
                 PROVE  /\ \A x, k \in DOMAIN T : T[x].message = a /\ T[k].message = b => x < k
                        /\ InCache(c, b) => ~ InQueue(T, a)
                        /\ \A x, k \in DOMAIN c : c[x].correlation = a /\ c[k].correlation = b => x < k
        BY DEF Ordered
    <2>1. /\ \A x, k \in DOMAIN queue : queue[x].message = a /\ queue[k].message = b => x < k
          /\ InCache(cache, b) => ~ InQueue(queue, a)
          /\ \A x, k \in DOMAIN cache : cache[x].correlation = a /\ cache[k].correlation = b => x < k
        BY DEF Delivery, Ordered
    <2>2. a # b
        BY <1>1, BeforeOther DEF Prompt
    <2>3. ASSUME NEW x \in DOMAIN T, NEW k \in DOMAIN T, T[x].message = a, T[k].message = b
          PROVE  x < k
        <3>1. x + 1 < k + 1
            BY <1>3, <2>1, <2>3
        <3> QED BY <1>3, <3>1
    <2>4. InCache(c, b) => ~ InQueue(T, a)
        <3>1. b = t.message => ~ InQueue(T, a)
            BY <1>2, <1>3, <2>1 DEF InQueue
        <3> QED BY <1>6, <1>8, <2>1, <3>1
    <2>5. ASSUME NEW x \in DOMAIN c, NEW k \in DOMAIN c, c[x].correlation = a, c[k].correlation = b
          PROVE  x < k
        <3>1. CASE i \in DOMAIN cache
            <4>1. /\ x \in DOMAIN cache /\ cache[x].correlation = a
                  /\ k \in DOMAIN cache /\ cache[k].correlation = b
                BY <1>5, <2>5, <3>1 DEF Grown
            <4> QED BY <2>1, <4>1
        <3>2. CASE i \notin DOMAIN cache /\ x # i /\ k # i
            <4>1. /\ x \in DOMAIN cache /\ cache[x].correlation = a
                  /\ k \in DOMAIN cache /\ cache[k].correlation = b
                BY <1>5, <2>5, <3>2 DEF Grown
            <4> QED BY <2>1, <4>1
        <3>3. CASE i \notin DOMAIN cache /\ k = i /\ x # i
            <4>1. x \in DOMAIN cache /\ k = Len(cache) + 1
                BY <1>5, <2>5, <3>3 DEF Grown
            <4> QED BY <1>1, <4>1
        <3>4. CASE i \notin DOMAIN cache /\ x = i
            <4>1. k \in DOMAIN cache /\ cache[k].correlation = b /\ a = t.message
                BY <1>5, <2>2, <2>5, <3>4 DEF Grown
            <4> QED BY <1>7, <2>1, <4>1 DEF InCache
        <3> QED BY <3>1, <3>2, <3>3, <3>4
    <2> QED BY <2>3, <2>4, <2>5
<1>10. Arrived(c, T)
    <2> SUFFICES ASSUME NEW m \in Range(sent) \ Gone
                 PROVE  \/ \E k \in DOMAIN c : c[k].correlation = m /\ IsComplete(c[k])
                        \/ \E k \in DOMAIN T : T[k].message = m /\ LastPart(T[k])
        BY DEF Arrived
    <2>1. ASSUME NEW k \in DOMAIN cache, cache[k].correlation = m, IsComplete(cache[k])
          PROVE  \E j \in DOMAIN c : c[j].correlation = m /\ IsComplete(c[j])
        BY <1>5, <2>1 DEF Grown
    <2>2. ASSUME NEW k \in DOMAIN queue, queue[k].message = m, LastPart(queue[k])
          PROVE  \/ \E j \in DOMAIN c : c[j].correlation = m /\ IsComplete(c[j])
                 \/ \E j \in DOMAIN T : T[j].message = m /\ LastPart(T[j])
        <3>1. CASE k = 1
            BY <1>2, <1>5, <2>2, <3>1, Shapes DEF Grown
        <3>2. CASE k # 1
            BY <1>4, <2>2, <3>2
        <3> QED BY <3>1, <3>2
    <2> QED BY <2>1, <2>2 DEF Delivery, Arrived
<1>11. Finished(c, T)
    BY <1>6, <1>7, <1>8 DEF Delivery, Finished
<1>12. Doing(c, T)
    BY <1>6, <1>7, <1>8 DEF Delivery, Doing
<1> QED BY <1>9, <1>10, <1>11, <1>12 DEF Delivery, T

\* An entry taken out of the cache: the others stay, in their order.
LEMMA RemovedEntries ==
    ASSUME NEW c \in Seq(Entry), NEW i \in DOMAIN c
    PROVE  /\ RemoveAt(c, i) \in Seq(Entry)
           /\ \A k \in DOMAIN RemoveAt(c, i) :
                 Place(i, k) \in DOMAIN c \ {i} /\ RemoveAt(c, i)[k] = c[Place(i, k)]
           /\ \A n \in DOMAIN c \ {i} : \E k \in DOMAIN RemoveAt(c, i) : RemoveAt(c, i)[k] = c[n]
           /\ \A x, k \in DOMAIN RemoveAt(c, i) :
                 /\ Place(i, x) < Place(i, k) => x < k
                 /\ Place(i, x) = Place(i, k) => x = k
<1>1. /\ RemoveAt(c, i) \in Seq(Entry) /\ Len(c) \in Nat /\ i \in Nat
      /\ DOMAIN RemoveAt(c, i) = 1 .. Len(c) - 1
      /\ \A k \in 1 .. Len(c) - 1 :
            Place(i, k) \in DOMAIN c \ {i} /\ RemoveAt(c, i)[k] = c[Place(i, k)]
      /\ \A n \in DOMAIN c \ {i} : \E k \in 1 .. Len(c) - 1 : n = Place(i, k)
    BY Removed
<1>2. \A x, k \in 1 .. Len(c) - 1 :
          /\ Place(i, x) < Place(i, k) => x < k
          /\ Place(i, x) = Place(i, k) => x = k
    BY <1>1 DEF Place
<1>3. ASSUME NEW n \in DOMAIN c \ {i}
      PROVE  \E k \in DOMAIN RemoveAt(c, i) : RemoveAt(c, i)[k] = c[n]
    <2>1. PICK k \in 1 .. Len(c) - 1 : n = Place(i, k)
        BY <1>1
    <2>2. k \in DOMAIN RemoveAt(c, i) /\ RemoveAt(c, i)[k] = c[n]
        BY <1>1, <2>1
    <2> QED BY <2>2
<1> QED BY <1>1, <1>2, <1>3

\* What taking an entry out keeps.
LEMMA RemovedKeeps ==
    ASSUME NEW q, NEW c, Stored(c, q), NEW i \in DOMAIN c
    PROVE  /\ Stored(RemoveAt(c, i), q)
           /\ \A m : InCache(RemoveAt(c, i), m) <=> InCache(c, m) /\ m # c[i].correlation
           /\ \A m, off, n : Reached(c, q, m, off, n) /\ (IsComplete(c[i]) \/ m # c[i].correlation) =>
                 Reached(RemoveAt(c, i), q, m, off, n)
<1> DEFINE d == RemoveAt(c, i)
<1>1. c \in Seq(Entry)
    BY DEF Stored
<1>2. /\ d \in Seq(Entry)
      /\ \A k \in DOMAIN d : Place(i, k) \in DOMAIN c \ {i} /\ d[k] = c[Place(i, k)]
      /\ \A n \in DOMAIN c \ {i} : \E k \in DOMAIN d : d[k] = c[n]
      /\ \A x, k \in DOMAIN d : Place(i, x) = Place(i, k) => x = k
    BY <1>1, RemovedEntries
<1> HIDE DEF d
<1>3. Stored(d, q)
    <2>1. \A k \in DOMAIN d : Whole(d[k]) \/ Partial(d[k])
        BY <1>2 DEF Stored
    <2>2. \A k \in DOMAIN d : IsComplete(d[k]) => d[k].correlation \in Range(sent)
        BY <1>2 DEF Stored
    <2>3. \A k \in DOMAIN d, n \in DOMAIN q : IsComplete(d[k]) => q[n].message # d[k].correlation
        BY <1>2 DEF Stored
    <2>4. \A k \in DOMAIN d : d[k].correlation \notin discarded
        BY <1>2 DEF Stored
    <2>5. \A x, k \in DOMAIN d : d[x].correlation = d[k].correlation => x = k
        BY <1>2 DEF Stored
    <2> QED BY <1>2, <2>1, <2>2, <2>3, <2>4, <2>5 DEF Stored
<1>4. ASSUME NEW m PROVE InCache(d, m) <=> InCache(c, m) /\ m # c[i].correlation
    <2>1. ASSUME InCache(d, m) PROVE InCache(c, m) /\ m # c[i].correlation
        BY <1>2, <2>1 DEF InCache, Stored
    <2>2. ASSUME InCache(c, m), m # c[i].correlation PROVE InCache(d, m)
        BY <1>2, <2>2 DEF InCache
    <2> QED BY <2>1, <2>2
<1>5. ASSUME NEW m, NEW off, NEW n, Reached(c, q, m, off, n), IsComplete(c[i]) \/ m # c[i].correlation
      PROVE  Reached(d, q, m, off, n)
    <2>1. ASSUME NEW k \in DOMAIN c, c[k].correlation = m, ~ IsComplete(c[k]), c[k].unhandled[1][1] >= off
          PROVE  \E j \in DOMAIN d : d[j].correlation = m /\ ~ IsComplete(d[j]) /\ d[j].unhandled[1][1] >= off
        <3>1. k \in DOMAIN c \ {i}
            BY <1>5, <2>1
        <3>2. PICK j \in DOMAIN d : d[j] = c[k]
            BY <1>2, <3>1
        <3> QED BY <2>1, <3>2
    <2> QED BY <1>5, <2>1 DEF Reached
<1> QED BY <1>3, <1>4, <1>5 DEF d

\* Taking an entry out keeps the order of the others.
LEMMA RemovedOrdered ==
    ASSUME NEW q, NEW c, Stored(c, q), NEW i \in DOMAIN c, Ordered(c, q)
    PROVE  Ordered(RemoveAt(c, i), q)
<1> DEFINE d == RemoveAt(c, i)
<1>1. c \in Seq(Entry)
    BY DEF Stored
<1>2. /\ \A k \in DOMAIN d : Place(i, k) \in DOMAIN c \ {i} /\ d[k] = c[Place(i, k)]
      /\ \A x, k \in DOMAIN d : Place(i, x) < Place(i, k) => x < k
    <2>1. \A k \in DOMAIN RemoveAt(c, i) :
              Place(i, k) \in DOMAIN c \ {i} /\ RemoveAt(c, i)[k] = c[Place(i, k)]
        BY <1>1, RemovedEntries
    <2>2. \A x, k \in DOMAIN RemoveAt(c, i) : Place(i, x) < Place(i, k) => x < k
        BY <1>1, RemovedEntries
    <2> QED BY <2>1, <2>2
<1>3. \A m : InCache(d, m) => InCache(c, m)
    BY RemovedKeeps
<1> HIDE DEF d
<1>4. ASSUME NEW a \in Message \cup Event, NEW b \in Message \cup Event, Prompt(a, b)
      PROVE  \A x, k \in DOMAIN d : d[x].correlation = a /\ d[k].correlation = b => x < k
    <2>1. \A x, k \in DOMAIN c : c[x].correlation = a /\ c[k].correlation = b => x < k
        BY <1>4 DEF Ordered
    <2>2. SUFFICES ASSUME NEW x \in DOMAIN d, NEW k \in DOMAIN d, d[x].correlation = a, d[k].correlation = b
                   PROVE  x < k
        OBVIOUS
    <2>3. Place(i, x) \in DOMAIN c /\ Place(i, k) \in DOMAIN c /\ d[x] = c[Place(i, x)] /\ d[k] = c[Place(i, k)]
        BY <1>2
    <2>4. Place(i, x) < Place(i, k)
        BY <2>1, <2>2, <2>3
    <2> QED BY <1>2, <2>4
<1> QED BY <1>3, <1>4 DEF Ordered, d

\* Taking an entry out loses nothing but its message.
LEMMA RemovedArrived ==
    ASSUME NEW q, NEW c, Stored(c, q), NEW i \in DOMAIN c, Arrived(c, q), NEW m \in Range(sent) \ Gone,
           m # c[i].correlation
    PROVE  \/ \E k \in DOMAIN RemoveAt(c, i) :
                 RemoveAt(c, i)[k].correlation = m /\ IsComplete(RemoveAt(c, i)[k])
           \/ \E k \in DOMAIN q : q[k].message = m /\ LastPart(q[k])
<1> DEFINE d == RemoveAt(c, i)
<1>1. c \in Seq(Entry)
    BY DEF Stored
<1>2. \A n \in DOMAIN c \ {i} : \E k \in DOMAIN d : d[k] = c[n]
    BY <1>1, RemovedEntries
<1> HIDE DEF d
<1>3. ASSUME NEW n \in DOMAIN c, c[n].correlation = m, IsComplete(c[n])
      PROVE  \E k \in DOMAIN d : d[k].correlation = m /\ IsComplete(d[k])
    <2>1. PICK k \in DOMAIN d : d[k] = c[n]
        BY <1>2, <1>3
    <2> QED BY <1>3, <2>1
<1> QED BY <1>3 DEF Arrived, d

-----------------------------------------------------------------------------
(* The device.                                                             *)

\* Device::find_complete: a message handed out is whole; the others stay.
LEMMA FoundKeeps ==
    ASSUME NEW c, NEW q, NEW w \in Wish, Stored(c, q), Preceded(c, q), Delivery(c, q), Received, InMiddle,
           FindComplete(c, w), queue' = q, UNCHANGED <<sendVars, discarded, dropped>>
    PROVE  Stored(cache, queue)' /\ Preceded(cache, queue)' /\ Delivery(cache, queue)' /\ Received'
<1>1. c \in Seq(Entry) /\ UNCHANGED <<sending, alive, sent, late, discarded, dropped>>
    BY DEF Stored, sendVars
<1>2. CASE cache' = c /\ wanted' = {w} /\ UNCHANGED <<handed, got>>
    <2>1. Stored(cache, queue)' /\ Preceded(cache, queue)'
        BY <1>1, <1>2 DEF Stored, Preceded, Reached
    <2>2. Delivery(cache, queue)'
        BY <1>1, <1>2 DEF Delivery, Ordered, Prompt, Before, Arrived, Finished, Doing, Gone, InQueue, InCache
    <2>3. Received'
        BY <1>1, <1>2 DEF Received
    <2> QED BY <2>1, <2>2, <2>3
<1>3. ASSUME NEW i \in Found(c, w), cache' = RemoveAt(c, i), handed' = handed \cup {c[i].correlation},
             got' = {[asked |-> w, message |-> c[i]]}, wanted' = {}
      PROVE  Stored(cache, queue)' /\ Preceded(cache, queue)' /\ Delivery(cache, queue)' /\ Received'
    <2>1. i \in DOMAIN c /\ IsComplete(c[i]) /\ c[i] \in Entry
        BY <1>1 DEF Found
    <2>2. PICK d : d = RemoveAt(c, i)
        OBVIOUS
    <2>3. PICK m : m = c[i].correlation
        OBVIOUS
    <2>4. /\ Stored(d, q)
          /\ \A n : InCache(d, n) <=> InCache(c, n) /\ n # m
          /\ \A n, off, k : Reached(c, q, n, off, k) => Reached(d, q, n, off, k)
        BY <2>1, <2>2, <2>3, RemovedKeeps
    <2>5. Ordered(d, q)
        BY <2>1, <2>2, RemovedOrdered DEF Delivery
    <2>6. m \in Message \cup Event /\ m \in Range(sent) /\ ~ InQueue(q, m)
        BY <2>1, <2>3 DEF Entry, Stored, InQueue
    <2>7. Stored(cache, queue)'
        BY <1>1, <1>3, <2>2, <2>4 DEF Stored
    <2>8. Preceded(d, q)
        BY <2>4 DEF Preceded
    <2>9. Preceded(cache, queue)'
        BY <1>1, <1>3, <2>2, <2>8 DEF Preceded, Reached
    <2>10. Ordered(cache, queue)'
        BY <1>1, <1>3, <2>2, <2>5 DEF Ordered, Prompt, Before, InQueue, InCache
    <2>11. Arrived(cache, queue)'
        <3>1. ASSUME NEW n \in Range(sent) \ Gone, n # m
              PROVE  \/ \E k \in DOMAIN d : d[k].correlation = n /\ IsComplete(d[k])
                     \/ \E k \in DOMAIN q : q[k].message = n /\ LastPart(q[k])
            BY <2>1, <2>2, <2>3, <3>1, RemovedArrived DEF Delivery
        <3>2. Gone' = Gone \cup {m}
            BY <1>1, <1>3, <2>3 DEF Gone
        <3> QED BY <1>1, <1>3, <2>2, <3>1, <3>2 DEF Arrived
    <2>12. Finished(cache, queue)'
        <3>1. \A n \in handed \cup dropped \cup {m} : n \in Range(sent) /\ ~ InQueue(q, n) /\ ~ InCache(d, n)
            BY <2>4, <2>6 DEF Delivery, Finished
        <3>2. (handed \cup dropped)' = handed \cup dropped \cup {m}
            BY <1>1, <1>3, <2>3
        <3> QED BY <1>1, <1>3, <2>2, <3>1, <3>2 DEF Finished, InQueue, InCache
    <2>13. Doing(cache, queue)'
        <3>1. Doing(d, q)
            BY <2>4 DEF Delivery, Doing
        <3> QED BY <1>1, <1>3, <2>2, <3>1 DEF Doing, InQueue, InCache
    <2>14. Delivery(cache, queue)'
        BY <1>1, <2>10, <2>11, <2>12, <2>13 DEF Delivery
    <2>15. Whole(c[i])
        BY <2>1, Shapes DEF Stored
    <2>16. Received'
        <3>1. \A g \in got' : g.message \in Entry /\ Whole(g.message)
            BY <1>3, <2>1, <2>15
        <3> QED BY <1>1, <1>3, <2>3, <2>6, <3>1 DEF Received
    <2> QED BY <2>7, <2>9, <2>14, <2>16
<1> QED BY <1>2, <1>3 DEF FindComplete

\* A receive begins.
LEMMA ReceiveStep ==
    ASSUME DeviceInv, NEW w \in Wish, Receive(w)
    PROVE  DeviceInv'
<1>1. /\ Assembly /\ Stored(cache, queue) /\ Preceded(cache, queue) /\ Received /\ InMiddle
      /\ Delivery(cache, queue)
    BY DEF DeviceInv, Assembly
<1>2. FindComplete(cache, w) /\ queue' = queue /\ UNCHANGED <<sendVars, discarded, dropped>>
    BY DEF Receive
<1>3. PICK c : c = cache
    OBVIOUS
<1>4. PICK q : q = queue
    OBVIOUS
<1>5. Stored(cache, queue)' /\ Preceded(cache, queue)' /\ Delivery(cache, queue)' /\ Received'
    BY <1>1, <1>2, <1>3, <1>4, FoundKeeps
<1>6. Cut(queue)' /\ InMiddle'
    BY <1>1, <1>2 DEF Assembly, Cut, InMiddle, sendVars
<1> QED BY <1>1, <1>2, <1>5, <1>6 DEF DeviceInv, Assembly, sendVars

\* The first part of the queue is put into the cache.
LEMMA ReadEnters ==
    ASSUME DeviceInv, queue # <<>>, queue' = Tail(queue), NEW w \in wanted,
           Head(queue).message \notin discarded, FindComplete(Enter(cache, Head(queue)), w),
           UNCHANGED <<sendVars, discarded, dropped>>
    PROVE  DeviceInv'
<1>1. Assembly /\ Delivery(cache, queue) /\ InMiddle /\ Received /\ queue \in Seq(Part) /\ Cut(queue)
    BY DEF DeviceInv, Assembly
<1>2. PICK c : c = Enter(cache, Head(queue))
    OBVIOUS
<1>3. PICK i \in DOMAIN c : Grown(cache, c, i, Head(queue))
    BY <1>1, <1>2, Entered
<1>4. PICK q : q = Tail(queue)
    OBVIOUS
<1>5. Stored(c, q) /\ Preceded(c, q) /\ Delivery(c, q)
    BY <1>1, <1>3, <1>4, GrownAssembly, GrownDelivery
<1>6. w \in Wish /\ queue' = q /\ FindComplete(c, w)
    BY <1>1, <1>2, <1>4 DEF Received
<1>7. Stored(cache, queue)' /\ Preceded(cache, queue)' /\ Delivery(cache, queue)' /\ Received'
    BY <1>1, <1>5, <1>6, FoundKeeps
<1>8. Cut(q) /\ Len(q) <= Len(queue) /\ q \in Seq(Part)
    BY <1>1, <1>4, TailCut, Tailed
<1>9. Cut(queue)' /\ InMiddle'
    BY <1>1, <1>6, <1>8 DEF Cut, InMiddle, sendVars
<1>10. queue' \in Seq(Part) /\ Len(queue') <= Capacity
    BY <1>1, <1>6, <1>8, CapacityAssumption DEF Assembly
<1> QED BY <1>1, <1>7, <1>9, <1>10 DEF DeviceInv, Assembly, sendVars

\* A part of a discarded message is thrown away.
LEMMA ReadDrops ==
    ASSUME DeviceInv, queue # <<>>, queue' = Tail(queue),
           Head(queue).message \in discarded,
           discarded' = IF LastPart(Head(queue)) THEN discarded \ {Head(queue).message} ELSE discarded,
           dropped' = IF LastPart(Head(queue)) THEN dropped \cup {Head(queue).message} ELSE dropped,
           UNCHANGED <<cache, wanted, handed, got>>, UNCHANGED sendVars
    PROVE  DeviceInv'
<1> DEFINE T == Tail(queue)
           t == Head(queue)
           m == t.message
<1>1. /\ Assembly /\ Delivery(cache, queue) /\ InMiddle /\ Received /\ queue \in Seq(Part) /\ Cut(queue)
      /\ Stored(cache, queue) /\ Preceded(cache, queue) /\ sent \in Seq(Message \cup Event)
    BY DEF DeviceInv, Assembly
<1>2. /\ Len(queue) \in Nat /\ Len(queue) > 0 /\ DOMAIN queue = 1 .. Len(queue) /\ DOMAIN T = 1 .. Len(queue) - 1
      /\ t = queue[1] /\ t \in Part /\ 1 \in DOMAIN queue /\ Len(T) = Len(queue) - 1
      /\ T \in Seq(Part)
    BY <1>1, Tailed
<1>3. \A k \in DOMAIN T : k + 1 \in DOMAIN queue /\ T[k] = queue[k + 1] /\ 1 < k + 1 /\ k \in Nat
    BY <1>1, <1>2, Tailed
<1>4. \A j \in DOMAIN queue : j # 1 => j - 1 \in DOMAIN T /\ T[j - 1] = queue[j]
    BY <1>1, <1>2, Tailed
<1>5. Cut(T) /\ Len(T) <= Len(queue)
    BY <1>1, TailCut
<1> HIDE DEF T, t
<1>6. /\ m \in Message /\ m \in discarded /\ queue' = T
      /\ discarded' = (IF LastPart(t) THEN discarded \ {m} ELSE discarded)
      /\ dropped' = (IF LastPart(t) THEN dropped \cup {m} ELSE dropped)
    BY <1>2, PartType DEF T, t
<1>7. LastPart(t) => m \in Range(sent) /\ \A k \in DOMAIN T : T[k].message # m
    BY <1>1, <1>2, <1>3 DEF Cut
<1>8. UNCHANGED <<cache, wanted, handed, got, sending, alive, sent, late>>
    BY DEF sendVars
<1>9. Stored(cache, queue)'
    <2>1. \A i \in DOMAIN cache, k \in DOMAIN T : IsComplete(cache[i]) => T[k].message # cache[i].correlation
        BY <1>1, <1>3 DEF Stored
    <2>2. \A i \in DOMAIN cache : cache[i].correlation \notin discarded'
        BY <1>1, <1>6 DEF Stored
    <2> QED BY <1>1, <1>6, <1>8, <2>1, <2>2 DEF Stored
<1>10. ASSUME NEW n \in 1 .. Len(queue), NEW x, NEW off, Reached(cache, queue, x, off, n), x # m
       PROVE  Reached(cache, T, x, off, n - 1)
    <2>1. ASSUME NEW j \in 1 .. n, queue[j].message = x, queue[j].offset + queue[j].count = off
          PROVE  \E k \in 1 .. n - 1 : T[k].message = x /\ T[k].offset + T[k].count = off
        <3>1. j # 1
            BY <1>2, <1>10, <2>1
        <3>2. j \in DOMAIN queue /\ j - 1 \in 1 .. n - 1
            BY <1>2, <3>1
        <3>3. T[j - 1] = queue[j]
            BY <1>4, <3>1, <3>2
        <3> QED BY <2>1, <3>2, <3>3
    <2> QED BY <1>10, <2>1 DEF Reached
<1>11. ASSUME NEW x, x \notin discarded', \/ \E k \in DOMAIN T : T[k].message = x
                                         \/ x \notin Range(sent)
       PROVE  x \notin discarded /\ x # m
    BY <1>6, <1>7, <1>11
<1>12. ASSUME NEW n \in DOMAIN T, T[n].offset > 0, T[n].message \notin discarded'
       PROVE  Reached(cache, T, T[n].message, T[n].offset, n - 1)
    <2>1. T[n].message \notin discarded /\ T[n].message # m
        BY <1>11, <1>12
    <2>2. n + 1 \in DOMAIN queue /\ T[n] = queue[n + 1] /\ n \in 1 .. Len(queue) /\ n + 1 - 1 = n
        BY <1>2, <1>3
    <2>3. Reached(cache, queue, T[n].message, T[n].offset, n)
        BY <1>1, <1>12, <2>1, <2>2 DEF Preceded
    <2> QED BY <1>10, <2>1, <2>2, <2>3
<1>13. ASSUME NEW s \in Sender, NEW x \in sending[s], x.offset > 0, x.message \notin discarded'
       PROVE  Reached(cache, T, x.message, x.offset, Len(T))
    <2>1. x.message \notin discarded /\ x.message # m
        BY <1>1, <1>11, <1>13 DEF InMiddle
    <2>2. Reached(cache, queue, x.message, x.offset, Len(queue))
        BY <1>1, <1>13, <2>1 DEF Preceded
    <2>3. Len(queue) \in 1 .. Len(queue)
        BY <1>2
    <2> QED BY <1>2, <1>10, <2>1, <2>2, <2>3
<1>14. Preceded(cache, queue)'
    <2>1. queue' = T /\ cache' = cache /\ sending' = sending
        BY <1>6, <1>8
    <2>2. \A n \in DOMAIN queue' : queue'[n].offset > 0 /\ queue'[n].message \notin discarded' =>
              Reached(cache', queue', queue'[n].message, queue'[n].offset, n - 1)
        BY <1>12, <2>1
    <2>3. \A s \in Sender : \A x \in sending'[s] : x.offset > 0 /\ x.message \notin discarded' =>
              Reached(cache', queue', x.message, x.offset, Len(queue'))
        BY <1>13, <2>1
    <2> QED BY <2>2, <2>3 DEF Preceded, Reached
<1>15. \A x : InQueue(T, x) => InQueue(queue, x)
    BY <1>3 DEF InQueue
<1>16. Ordered(cache, queue)'
    <2>1. Ordered(cache, T)
        <3> SUFFICES ASSUME NEW a \in Message \cup Event, NEW b \in Message \cup Event, Prompt(a, b)
                     PROVE  /\ \A x, k \in DOMAIN T : T[x].message = a /\ T[k].message = b => x < k
                            /\ InCache(cache, b) => ~ InQueue(T, a)
                            /\ \A x, k \in DOMAIN cache :
                                  cache[x].correlation = a /\ cache[k].correlation = b => x < k
            BY DEF Ordered
        <3>1. /\ \A x, k \in DOMAIN queue : queue[x].message = a /\ queue[k].message = b => x < k
              /\ InCache(cache, b) => ~ InQueue(queue, a)
              /\ \A x, k \in DOMAIN cache : cache[x].correlation = a /\ cache[k].correlation = b => x < k
            BY <1>1 DEF Delivery, Ordered
        <3>2. ASSUME NEW x \in DOMAIN T, NEW k \in DOMAIN T, T[x].message = a, T[k].message = b
              PROVE  x < k
            <4>1. x + 1 < k + 1
                BY <1>3, <3>1, <3>2
            <4> QED BY <1>3, <4>1
        <3> QED BY <1>15, <3>1, <3>2
    <2> QED BY <1>6, <1>8, <2>1 DEF Ordered, Prompt, Before, InQueue, InCache
<1>17. Arrived(cache, queue)'
    <2>1. Gone' = Gone /\ m \in Gone
        BY <1>6, <1>8 DEF Gone
    <2>2. ASSUME NEW x \in Range(sent) \ Gone
          PROVE  \/ \E k \in DOMAIN cache : cache[k].correlation = x /\ IsComplete(cache[k])
                 \/ \E k \in DOMAIN T : T[k].message = x /\ LastPart(T[k])
        <3>1. ASSUME NEW j \in DOMAIN queue, queue[j].message = x, LastPart(queue[j])
              PROVE  \E k \in DOMAIN T : T[k].message = x /\ LastPart(T[k])
            BY <1>2, <1>4, <2>1, <2>2, <3>1
        <3> QED BY <1>1, <2>2, <3>1 DEF Delivery, Arrived
    <2> QED BY <1>6, <1>8, <2>1, <2>2 DEF Arrived
<1>18. Finished(cache, queue)'
    <2>1. ~ InCache(cache, m)
        BY <1>1, <1>6 DEF Stored, InCache
    <2>2. ASSUME NEW x \in (handed \cup dropped)'
          PROVE  x \in Range(sent) /\ ~ InQueue(T, x) /\ ~ InCache(cache, x)
        <3>1. CASE x \in handed \cup dropped
            BY <1>1, <1>15, <3>1 DEF Delivery, Finished
        <3>2. CASE x \notin handed \cup dropped
            <4>1. x = m /\ LastPart(t)
                BY <1>6, <1>8, <2>2, <3>2
            <4> QED BY <1>7, <2>1, <4>1 DEF InQueue
        <3> QED BY <3>1, <3>2
    <2> QED BY <1>6, <1>8, <2>2 DEF Finished, InQueue, InCache
<1>19. Doing(cache, queue)'
    <2>1. Doing(cache, T)
        BY <1>1, <1>15 DEF Delivery, Doing
    <2> QED BY <1>6, <1>8, <2>1 DEF Doing, InQueue, InCache
<1>20. Delivery(cache, queue)'
    BY <1>1, <1>8, <1>16, <1>17, <1>18, <1>19 DEF Delivery
<1>21. Received'
    BY <1>1, <1>6, <1>8 DEF Received
<1>22. Cut(queue)' /\ InMiddle'
    BY <1>1, <1>5, <1>6, <1>8 DEF Cut, InMiddle
<1>23. queue' \in Seq(Part) /\ Len(queue') <= Capacity
    BY <1>1, <1>2, <1>5, <1>6, CapacityAssumption DEF Assembly
<1> QED BY <1>1, <1>8, <1>9, <1>14, <1>20, <1>21, <1>22, <1>23 DEF DeviceInv, Assembly

\* One turn of the loop of Device::find.
LEMMA ReadStep ==
    ASSUME DeviceInv, Read
    PROVE  DeviceInv'
<1>1. queue # <<>> /\ queue' = Tail(queue) /\ UNCHANGED sendVars
    BY DEF Read
<1>2. PICK w \in wanted :
          \/ /\ Head(queue).message \in discarded
             /\ discarded' = IF LastPart(Head(queue)) THEN discarded \ {Head(queue).message} ELSE discarded
             /\ dropped' = IF LastPart(Head(queue)) THEN dropped \cup {Head(queue).message} ELSE dropped
             /\ UNCHANGED <<cache, wanted, handed, got>>
          \/ /\ Head(queue).message \notin discarded
             /\ FindComplete(Enter(cache, Head(queue)), w)
             /\ UNCHANGED <<discarded, dropped>>
    BY DEF Read
<1>3. UNCHANGED <<sendVars, discarded, dropped>> \/ Head(queue).message \in discarded
    BY <1>1, <1>2
<1> QED BY <1>1, <1>2, <1>3, ReadDrops, ReadEnters

\* A step that leaves the queue, the cache, the senders and what is gone alone.
LEMMA GiveUpStep ==
    ASSUME DeviceInv, GiveUp
    PROVE  DeviceInv'
<1>1. Assembly /\ Delivery(cache, queue) /\ Received
    BY DEF DeviceInv, Assembly
<1>2. UNCHANGED <<queue, cache, discarded, handed, got, dropped, sending, alive, sent, late>> /\ wanted' = {}
    BY DEF GiveUp, sendVars
<1>3. Assembly'
    BY <1>1, <1>2 DEF Assembly, Cut, InMiddle, Stored, Preceded, Reached, Received
<1>4. Delivery(cache, queue)'
    BY <1>1, <1>2 DEF Delivery, Ordered, Prompt, Before, Arrived, Finished, Doing, Gone, InQueue, InCache
<1> QED BY <1>3, <1>4 DEF DeviceInv

\* Device::discard: the entry leaves the cache, or what comes of the message will be dropped.
LEMMA DiscardStep ==
    ASSUME DeviceInv, NEW m \in Abandoned, Discard(m)
    PROVE  DeviceInv'
<1>1. /\ Assembly /\ Delivery(cache, queue) /\ InMiddle /\ Received
      /\ Stored(cache, queue) /\ Preceded(cache, queue) /\ cache \in Seq(Entry)
    BY DEF DeviceInv, Assembly, Stored
<1>2. UNCHANGED <<queue, wanted, handed, got, sending, alive, sent, late>> /\ m \in Message
    BY PolicyAssumption DEF Discard, sendVars
<1>3. PICK c, d, p :
          /\ cache' = c /\ discarded' = d /\ dropped' = p
          /\ d \in {discarded, discarded \cup {m}} /\ p \in {dropped, dropped \cup {m}}
          /\ m \in d \cup p
          /\ Stored(c, queue) /\ ~ InCache(c, m) /\ Ordered(c, queue)
          /\ \A x : InCache(c, x) => InCache(cache, x)
          /\ m \in p \ dropped => m \in Range(sent) /\ ~ InQueue(queue, m)
          /\ \A x, off, n : Reached(cache, queue, x, off, n) /\ (x # m \/ d = discarded) =>
                Reached(c, queue, x, off, n)
          /\ \A x \in Range(sent) \ Gone : x # m =>
                \/ \E k \in DOMAIN c : c[k].correlation = x /\ IsComplete(c[k])
                \/ \E k \in DOMAIN queue : queue[k].message = x /\ LastPart(queue[k])
    <2>1. CASE {i \in DOMAIN cache : cache[i].correlation = m} = {}
        <3>1. cache' = cache /\ discarded' = discarded \cup {m} /\ dropped' = dropped
            BY <2>1 DEF Discard
        <3>2. ~ InCache(cache, m)
            BY <2>1 DEF InCache
        <3>3. \A x \in Range(sent) \ Gone :
                  \/ \E k \in DOMAIN cache : cache[k].correlation = x /\ IsComplete(cache[k])
                  \/ \E k \in DOMAIN queue : queue[k].message = x /\ LastPart(queue[k])
            BY <1>1 DEF Delivery, Arrived
        <3>4. Ordered(cache, queue)
            BY <1>1 DEF Delivery
        <3> QED BY <1>1, <3>1, <3>2, <3>3, <3>4
    <2>2. CASE {i \in DOMAIN cache : cache[i].correlation = m} # {}
        <3>1. PICK i \in DOMAIN cache :
                  /\ cache[i].correlation = m
                  /\ cache' = RemoveAt(cache, i)
                  /\ IF IsComplete(cache[i])
                     THEN dropped' = dropped \cup {m} /\ UNCHANGED discarded
                     ELSE discarded' = discarded \cup {m} /\ UNCHANGED dropped
            BY <2>2 DEF Discard
        <3>2. PICK c : c = RemoveAt(cache, i)
            OBVIOUS
        <3>3. /\ Stored(c, queue)
              /\ \A x : InCache(c, x) <=> InCache(cache, x) /\ x # m
              /\ \A x, off, n : Reached(cache, queue, x, off, n) /\ (IsComplete(cache[i]) \/ x # m) =>
                    Reached(c, queue, x, off, n)
            BY <1>1, <3>1, <3>2, RemovedKeeps
        <3>4. Ordered(c, queue)
            BY <1>1, <3>2, RemovedOrdered DEF Delivery
        <3>5. \A x \in Range(sent) \ Gone : x # m =>
                  \/ \E k \in DOMAIN c : c[k].correlation = x /\ IsComplete(c[k])
                  \/ \E k \in DOMAIN queue : queue[k].message = x /\ LastPart(queue[k])
            BY <1>1, <3>1, <3>2, RemovedArrived DEF Delivery
        <3>6. IsComplete(cache[i]) => m \in Range(sent) /\ ~ InQueue(queue, m)
            BY <1>1, <3>1 DEF Stored, InQueue
        <3>7. m \notin discarded /\ m \notin dropped
            <4>1. InCache(cache, m)
                BY <3>1 DEF InCache
            <4> QED BY <1>1, <3>1, <4>1 DEF Stored, Delivery, Finished
        <3>8. CASE IsComplete(cache[i])
            BY <3>1, <3>2, <3>3, <3>4, <3>5, <3>6, <3>8
        <3>9. CASE ~ IsComplete(cache[i])
            BY <3>1, <3>2, <3>3, <3>4, <3>5, <3>7, <3>9
        <3> QED BY <3>8, <3>9
    <2> QED BY <2>1, <2>2
<1>4. Stored(cache, queue)'
    <2>1. \A k \in DOMAIN c : c[k].correlation \notin d
        BY <1>3 DEF Stored, InCache
    <2> QED BY <1>2, <1>3, <2>1 DEF Stored
<1>5. Preceded(cache, queue)'
    <2>1. \A n \in DOMAIN queue : queue[n].offset > 0 /\ queue[n].message \notin d =>
              Reached(c, queue, queue[n].message, queue[n].offset, n - 1)
        BY <1>1, <1>3 DEF Preceded
    <2>2. \A s \in Sender : \A x \in sending[s] : x.offset > 0 /\ x.message \notin d =>
              Reached(c, queue, x.message, x.offset, Len(queue))
        BY <1>1, <1>3 DEF Preceded
    <2>3. queue' = queue /\ cache' = c /\ sending' = sending /\ discarded' = d
        BY <1>2, <1>3
    <2>4. \A n \in DOMAIN queue' : queue'[n].offset > 0 /\ queue'[n].message \notin discarded' =>
              Reached(cache', queue', queue'[n].message, queue'[n].offset, n - 1)
        BY <2>1, <2>3
    <2>5. \A s \in Sender : \A x \in sending'[s] : x.offset > 0 /\ x.message \notin discarded' =>
              Reached(cache', queue', x.message, x.offset, Len(queue'))
        BY <2>2, <2>3
    <2> QED BY <2>4, <2>5 DEF Preceded, Reached
<1>6. Ordered(cache, queue)'
    BY <1>2, <1>3 DEF Ordered, Prompt, Before, InQueue, InCache
<1>7. Gone' = Gone \cup {m}
    BY <1>2, <1>3 DEF Gone
<1>8. Arrived(cache, queue)'
    BY <1>2, <1>3, <1>7 DEF Arrived
<1>9. Finished(cache, queue)'
    <2>1. ASSUME NEW x \in handed \cup p
          PROVE  x \in Range(sent) /\ ~ InQueue(queue, x) /\ ~ InCache(c, x)
        <3>1. CASE x \in handed \cup dropped
            BY <1>1, <1>3, <3>1 DEF Delivery, Finished
        <3>2. CASE x \notin handed \cup dropped
            BY <1>3, <2>1, <3>2
        <3> QED BY <3>1, <3>2
    <2> QED BY <1>2, <1>3, <2>1 DEF Finished, InQueue, InCache
<1>10. Doing(cache, queue)'
    <2>1. Doing(c, queue)
        BY <1>1, <1>3 DEF Delivery, Doing
    <2> QED BY <1>2, <1>3, <2>1 DEF Doing, InQueue, InCache
<1>11. Delivery(cache, queue)'
    BY <1>1, <1>2, <1>6, <1>8, <1>9, <1>10 DEF Delivery
<1>12. Received'
    BY <1>1, <1>2, <1>3 DEF Received
<1>13. Cut(queue)' /\ InMiddle'
    BY <1>1, <1>2 DEF Assembly, Cut, InMiddle
<1> QED BY <1>1, <1>2, <1>4, <1>5, <1>11, <1>12, <1>13 DEF DeviceInv, Assembly

\* Nothing of an event is in the queue, and in the cache it is complete.
LEMMA Events ==
    ASSUME Assembly, NEW e \in Event
    PROVE  ~ InQueue(queue, e) /\ (InCache(cache, e) => e \in Range(sent)) /\ e \notin Message
<1>1. queue \in Seq(Part) /\ Stored(cache, queue) /\ e \notin Message
    BY EventAssumption DEF Assembly
<1>2. ~ InQueue(queue, e)
    BY <1>1, PartType DEF InQueue
<1>3. ASSUME NEW i \in DOMAIN cache, cache[i].correlation = e PROVE e \in Range(sent)
    <2>1. ~ Partial(cache[i])
        BY <1>1, <1>3 DEF Partial, UpTo
    <2> QED BY <1>1, <1>3, <2>1, Shapes DEF Stored
<1> QED BY <1>1, <1>2, <1>3 DEF InCache

\* What is sent last.
LEMMA SentLast ==
    ASSUME sent \in Seq(Message \cup Event), NEW m \in Message \cup Event, m \notin Range(sent),
           sent' = Append(sent, m), \A i, k \in DOMAIN sent : sent[i] = sent[k] => i = k
    PROVE  /\ sent' \in Seq(Message \cup Event) /\ Range(sent') = Range(sent) \cup {m}
           /\ (\A i, k \in DOMAIN sent : sent[i] = sent[k] => i = k)'
           /\ \A a, b : Before(a, b)' => Before(a, b) \/ (a = m /\ b \notin Range(sent) \cup {m})
<1> DEFINE S == Append(sent, m)
<1>1. /\ S \in Seq(Message \cup Event) /\ DOMAIN S = 1 .. Len(sent) + 1 /\ S[Len(sent) + 1] = m
      /\ \A i \in 1 .. Len(sent) : S[i] = sent[i]
      /\ Range(S) = Range(sent) \cup {m}
      /\ DOMAIN sent = 1 .. Len(sent) /\ Len(sent) \in Nat
    BY Appended, AppendedRange
<1> HIDE DEF S
<1>2. \A i \in 1 .. Len(sent) : S[i] # m
    BY <1>1 DEF Range
<1>3. ASSUME NEW i \in DOMAIN S, NEW k \in DOMAIN S, S[i] = S[k] PROVE i = k
    BY <1>1, <1>2, <1>3
<1>4. ASSUME NEW a, NEW b, NEW k \in DOMAIN S, S[k] = a, \A n \in 1 .. k : S[n] # b
      PROVE  Before(a, b) \/ (a = m /\ b \notin Range(sent) \cup {m})
    <2>1. CASE k \in 1 .. Len(sent)
        <3>1. k \in DOMAIN sent /\ sent[k] = a /\ \A n \in 1 .. k : sent[n] # b
            BY <1>1, <1>4, <2>1
        <3> QED BY <3>1 DEF Before
    <2>2. CASE k = Len(sent) + 1
        <3>1. a = m /\ \A n \in DOMAIN S : S[n] # b
            BY <1>1, <1>4, <2>2
        <3>2. b \notin Range(S)
            BY <3>1 DEF Range
        <3> QED BY <1>1, <3>1, <3>2
    <2> QED BY <1>1, <2>1, <2>2
<1>5. \A a, b : Before(a, b)' => Before(a, b) \/ (a = m /\ b \notin Range(sent) \cup {m})
    <2>1. sent' = S
        BY DEF S
    <2> QED BY <1>4, <2>1 DEF Before
<1>6. sent' = S
    BY DEF S
<1> QED BY <1>1, <1>3, <1>5, <1>6

\* Device::push: an event is complete at the end of the cache.
LEMMA PushStep ==
    ASSUME DeviceInv, NEW e \in Event, Push(e)
    PROVE  DeviceInv'
<1> DEFINE x == [correlation |-> e, payload |-> <<{e}>>, unhandled |-> <<>>]
           c == Append(cache, x)
<1>1. /\ Assembly /\ Delivery(cache, queue) /\ InMiddle /\ Received /\ queue \in Seq(Part) /\ Cut(queue)
      /\ Stored(cache, queue) /\ Preceded(cache, queue) /\ sent \in Seq(Message \cup Event)
      /\ cache \in Seq(Entry)
    BY DEF DeviceInv, Assembly, Stored
<1>2. /\ UNCHANGED <<queue, sending, alive, late, discarded, wanted, handed, got, dropped>>
      /\ sent' = Append(sent, e) /\ cache' = c /\ ~ Contains(sent, e)
    BY DEF Push
<1>3. e \notin Range(sent)
    BY <1>1, <1>2 DEF Contains, Range
<1>4. /\ sent' \in Seq(Message \cup Event) /\ Range(sent') = Range(sent) \cup {e}
      /\ (\A i, k \in DOMAIN sent : sent[i] = sent[k] => i = k)'
      /\ \A a, b : Before(a, b)' => Before(a, b) \/ (a = e /\ b \notin Range(sent) \cup {e})
    BY <1>1, <1>2, <1>3, SentLast DEF Delivery
<1>5. e \notin Message /\ ~ InQueue(queue, e) /\ ~ InCache(cache, e) /\ e \notin discarded
    BY <1>1, <1>3, Events DEF Received
<1>6. x \in Entry /\ Whole(x) /\ IsComplete(x) /\ x.correlation = e
    BY <1>5 DEF Entry, Whole, IsComplete
<1> HIDE DEF x
<1>7. /\ c \in Seq(Entry) /\ DOMAIN c = 1 .. Len(cache) + 1 /\ c[Len(cache) + 1] = x
      /\ \A i \in 1 .. Len(cache) : c[i] = cache[i]
      /\ DOMAIN cache = 1 .. Len(cache) /\ Len(cache) \in Nat
    BY <1>1, <1>6, Appended
<1> HIDE DEF c
<1>8. /\ \A i \in DOMAIN cache : i \in DOMAIN c /\ c[i] = cache[i] /\ i < Len(cache) + 1
      /\ Len(cache) + 1 \in DOMAIN c
      /\ \A i \in DOMAIN c : i \in DOMAIN cache \/ (i = Len(cache) + 1 /\ c[i] = x)
    BY <1>7
<1>9. \A m : InCache(c, m) <=> InCache(cache, m) \/ m = e
    BY <1>6, <1>7, <1>8 DEF InCache
<1>10. Cut(queue)' /\ InMiddle'
    <2>1. \A s \in Sender : \A y \in sending[s] : y.message # e
        BY <1>1, <1>5 DEF InMiddle
    <2>2. Cut(queue)'
        BY <1>1, <1>2, <1>4 DEF Cut
    <2>3. InMiddle'
        BY <1>1, <1>2, <1>4, <2>1 DEF InMiddle
    <2> QED BY <2>2, <2>3
<1>11. Stored(cache, queue)'
    <2>1. \A i \in DOMAIN c : Whole(c[i]) \/ Partial(c[i])
        BY <1>1, <1>6, <1>8 DEF Stored
    <2>2. \A i \in DOMAIN c : IsComplete(c[i]) => c[i].correlation \in Range(sent')
        BY <1>1, <1>4, <1>6, <1>8 DEF Stored
    <2>3. \A i \in DOMAIN c, k \in DOMAIN queue : IsComplete(c[i]) => queue[k].message # c[i].correlation
        BY <1>1, <1>5, <1>6, <1>8 DEF Stored, InQueue
    <2>4. \A i \in DOMAIN c : c[i].correlation \notin discarded
        BY <1>1, <1>5, <1>6, <1>8 DEF Stored
    <2>5. \A i, k \in DOMAIN c : c[i].correlation = c[k].correlation => i = k
        BY <1>1, <1>5, <1>6, <1>8 DEF Stored, InCache
    <2> QED BY <1>2, <1>7, <2>1, <2>2, <2>3, <2>4, <2>5 DEF Stored
<1>12. Preceded(cache, queue)'
    <2>1. \A m, off, n : Reached(cache, queue, m, off, n) => Reached(c, queue, m, off, n)
        BY <1>8 DEF Reached
    <2>2. Preceded(c, queue)
        BY <1>1, <2>1 DEF Preceded
    <2> QED BY <1>2, <2>2 DEF Preceded, Reached
<1>13. Ordered(cache, queue)'
    <2> SUFFICES ASSUME NEW a \in Message \cup Event, NEW b \in Message \cup Event, Prompt(a, b)'
                 PROVE  /\ \A i, k \in DOMAIN queue : queue[i].message = a /\ queue[k].message = b => i < k
                        /\ InCache(c, b) => ~ InQueue(queue, a)
                        /\ \A i, k \in DOMAIN c : c[i].correlation = a /\ c[k].correlation = b => i < k
        BY <1>2 DEF Ordered, InQueue, InCache
    <2>1. a \notin late /\ b \notin late /\ Source[a] = Source[b] /\ Before(a, b)'
        BY <1>2 DEF Prompt
    <2>2. a \in Event <=> b \in Event
        BY <2>1 DEF Source
    <2>3. CASE Before(a, b)
        <3>1. Prompt(a, b)
            BY <2>1, <2>3 DEF Prompt
        <3>2. /\ \A i, k \in DOMAIN queue : queue[i].message = a /\ queue[k].message = b => i < k
              /\ InCache(cache, b) => ~ InQueue(queue, a)
              /\ \A i, k \in DOMAIN cache : cache[i].correlation = a /\ cache[k].correlation = b => i < k
            BY <1>1, <3>1 DEF Delivery, Ordered
        <3>3. a # e
            BY <1>3, <2>3 DEF Before, Range
        <3>4. InCache(c, b) => ~ InQueue(queue, a)
            BY <1>1, <1>9, <2>2, <3>2, Events
        <3>5. ASSUME NEW i \in DOMAIN c, NEW k \in DOMAIN c, c[i].correlation = a, c[k].correlation = b
              PROVE  i < k
            <4>1. i \in DOMAIN cache /\ cache[i].correlation = a
                BY <1>6, <1>8, <3>3, <3>5
            <4>2. CASE k \in DOMAIN cache
                BY <1>8, <3>2, <3>5, <4>1, <4>2
            <4>3. CASE k \notin DOMAIN cache
                BY <1>8, <4>1, <4>3
            <4> QED BY <4>2, <4>3
        <3> QED BY <3>2, <3>4, <3>5
    <2>4. CASE a = e /\ b \notin Range(sent) \cup {e}
        <3>1. b \in Event /\ ~ InQueue(queue, b) /\ ~ InCache(cache, b) /\ b # e /\ ~ InQueue(queue, a)
            BY <1>1, <2>2, <2>4, Events
        <3>2. ~ InCache(c, b)
            BY <1>9, <3>1
        <3> QED BY <3>1, <3>2 DEF InQueue, InCache
    <2> QED BY <1>4, <2>1, <2>3, <2>4
<1>14. Arrived(cache, queue)'
    <2>1. ASSUME NEW m \in (Range(sent) \cup {e}) \ Gone
          PROVE  \/ \E i \in DOMAIN c : c[i].correlation = m /\ IsComplete(c[i])
                 \/ \E i \in DOMAIN queue : queue[i].message = m /\ LastPart(queue[i])
        <3>1. CASE m = e
            BY <1>6, <1>7, <1>8, <3>1
        <3>2. CASE m # e
            BY <1>1, <1>8, <2>1, <3>2 DEF Delivery, Arrived
        <3> QED BY <3>1, <3>2
    <2>2. Gone' = Gone
        BY <1>2 DEF Gone
    <2> QED BY <1>2, <1>4, <2>1, <2>2 DEF Arrived
<1>15. Finished(cache, queue)'
    <2>1. \A m \in handed \cup dropped : m \in Range(sent) /\ ~ InQueue(queue, m) /\ ~ InCache(c, m)
        BY <1>1, <1>3, <1>9 DEF Delivery, Finished
    <2> QED BY <1>2, <1>4, <2>1 DEF Finished, InQueue, InCache
<1>16. Doing(cache, queue)'
    <2>1. \A m \in Message : InCache(c, m) => InCache(cache, m)
        BY <1>5, <1>9
    <2>2. Doing(c, queue)
        BY <1>1, <2>1 DEF Delivery, Doing
    <2> QED BY <1>2, <1>4, <2>2 DEF Doing, InQueue, InCache
<1>17. Delivery(cache, queue)'
    BY <1>4, <1>13, <1>14, <1>15, <1>16 DEF Delivery
<1>18. Received'
    BY <1>1, <1>2 DEF Received
<1> QED BY <1>1, <1>2, <1>4, <1>10, <1>11, <1>12, <1>17, <1>18 DEF DeviceInv, Assembly


-----------------------------------------------------------------------------
(* The steps of the senders.                                               *)

\* A physical message is as PutPart cuts it.
LEMMA Transported ==
    ASSUME NEW m \in Message, NEW off \in Nat, off = 0 \/ off < Size[m]
    PROVE  /\ Transport(m, off) \in Part
           /\ Transport(m, off).message = m /\ Transport(m, off).offset = off
           /\ Transport(m, off).complete = Size[m] /\ Size[m] \in Nat
           /\ Transport(m, off).count \in Nat
           /\ off + Transport(m, off).count <= Size[m]
           /\ LastPart(Transport(m, off)) <=> off + Transport(m, off).count >= Size[m]
<1>1. Size[m] \in Nat /\ PayloadMax \in Nat
    BY SizeAssumption, PayloadAssumption
<1> DEFINE n == IF Size[m] - off > PayloadMax THEN PayloadMax ELSE Size[m] - off
<1>2. n \in 0 .. PayloadMax /\ off + n <= Size[m] /\ n \in Nat
    BY <1>1
<1> HIDE DEF n
<1>3. Transport(m, off) = [message |-> m, offset |-> off, complete |-> Size[m], count |-> n]
    BY DEF Transport, n
<1> QED BY <1>1, <1>2, <1>3 DEF Part, LastPart

\* A sender that puts a part into the queue, the first of a message or the next one.
LEMMA PutStep ==
    ASSUME DeviceInv, NEW s \in Sender, NEW m \in Message, NEW off \in Nat, off = 0 \/ off < Size[m],
           m \notin Range(sent), From[m] = s, s \in alive, \A x \in sending[s] : x.message = m,
           off > 0 /\ m \notin discarded => Reached(cache, queue, m, off, Len(queue)),
           PutPart(s, m, off), UNCHANGED <<alive, late, deviceVars>>
    PROVE  DeviceInv'
<1> DEFINE t == Transport(m, off)
           q == Append(queue, t)
           L == Len(queue) + 1
<1>1. /\ Assembly /\ Delivery(cache, queue) /\ InMiddle /\ Received /\ queue \in Seq(Part) /\ Cut(queue)
      /\ Stored(cache, queue) /\ Preceded(cache, queue) /\ sent \in Seq(Message \cup Event)
      /\ Len(queue) <= Capacity /\ Capacity \in Nat
    BY CapacityAssumption DEF DeviceInv, Assembly
<1>2. UNCHANGED <<alive, late, cache, discarded, wanted, handed, got, dropped>>
    BY DEF deviceVars
<1>3. /\ t \in Part /\ t.message = m /\ t.offset = off /\ t.complete = Size[m] /\ Size[m] \in Nat
      /\ t.count \in Nat /\ off + t.count <= Size[m]
      /\ LastPart(t) <=> off + t.count >= Size[m]
    BY Transported
<1>4. /\ Len(queue) < Capacity /\ queue' = q
      /\ LastPart(t) => sent' = Append(sent, m) /\ sending' = [sending EXCEPT ![s] = {}]
      /\ ~ LastPart(t) => /\ sent' = sent
                          /\ sending' = [sending EXCEPT ![s] = {[message |-> m, offset |-> off + t.count]}]
    BY <1>3 DEF PutPart
<1> HIDE DEF t
<1>5. /\ q \in Seq(Part) /\ DOMAIN q = 1 .. L /\ Len(q) = L /\ q[L] = t
      /\ \A i \in 1 .. Len(queue) : q[i] = queue[i]
      /\ DOMAIN queue = 1 .. Len(queue) /\ Len(queue) \in Nat
    BY <1>1, <1>3, Appended
<1> HIDE DEF q
<1>6. /\ \A i \in DOMAIN queue : i \in DOMAIN q /\ q[i] = queue[i] /\ i < L
      /\ L \in DOMAIN q
      /\ \A i \in DOMAIN q : i \in DOMAIN queue \/ (i = L /\ q[i] = t)
      /\ \A i \in DOMAIN q : ~ (L < i) /\ i <= L
    BY <1>5
<1>7. \A x : InQueue(q, x) <=> InQueue(queue, x) \/ x = m
    BY <1>3, <1>5, <1>6 DEF InQueue
<1>8. /\ sent' \in Seq(Message \cup Event)
      /\ Range(sent') = IF LastPart(t) THEN Range(sent) \cup {m} ELSE Range(sent)
      /\ (\A i, k \in DOMAIN sent : sent[i] = sent[k] => i = k)'
      /\ \A a, b : Before(a, b)' => Before(a, b) \/ (a = m /\ b \notin Range(sent) \cup {m} /\ LastPart(t))
    <2>1. CASE LastPart(t)
        BY <1>1, <1>4, <2>1, SentLast DEF Delivery
    <2>2. CASE ~ LastPart(t)
        BY <1>1, <1>4, <2>2 DEF Delivery, Before
    <2> QED BY <2>1, <2>2
<1>9. DOMAIN sending' = Sender /\ \A z \in Sender : z # s => sending'[z] = sending[z]
    BY <1>1, <1>4 DEF InMiddle
<1>10. /\ LastPart(t) => sending'[s] = {}
       /\ ~ LastPart(t) => sending'[s] = {[message |-> m, offset |-> off + t.count]}
    BY <1>1, <1>4 DEF InMiddle
<1>11. Len(queue') <= Capacity /\ queue' \in Seq(Part)
    BY <1>1, <1>4, <1>5
<1>12. Cut(queue)'
    <2>1. ASSUME NEW i \in DOMAIN q
          PROVE  /\ q[i].complete = Size[q[i].message]
                 /\ q[i].offset + q[i].count <= q[i].complete
                 /\ LastPart(q[i]) => q[i].message \in Range(sent')
        <3>1. CASE i \in DOMAIN queue
            BY <1>1, <1>6, <1>8, <3>1 DEF Cut
        <3>2. CASE i = L /\ q[i] = t
            BY <1>3, <1>8, <3>2
        <3> QED BY <1>6, <3>1, <3>2
    <2>2. ASSUME NEW i \in DOMAIN q, NEW k \in DOMAIN q, q[i].message = q[k].message, i < k
          PROVE  ~ LastPart(q[i])
        <3>1. i \in DOMAIN queue /\ q[i] = queue[i]
            BY <1>6, <2>2
        <3>2. CASE k \in DOMAIN queue
            BY <1>1, <1>6, <2>2, <3>1, <3>2 DEF Cut
        <3>3. CASE k = L /\ q[k] = t
            BY <1>1, <1>3, <2>2, <3>1, <3>3 DEF Cut
        <3> QED BY <1>6, <3>2, <3>3
    <2> QED BY <1>4, <2>1, <2>2 DEF Cut
<1>13. InMiddle'
    <2>1. ASSUME NEW z \in Sender
          PROVE  /\ sending'[z] \in SUBSET [message : Message, offset : Nat]
                 /\ \A x, y \in sending'[z] : x = y
                 /\ \A x \in sending'[z] :
                       /\ From[x.message] = z /\ x.offset < Size[x.message] /\ z \in alive
                       /\ x.message \notin Range(sent')
        <3>1. CASE z # s
            BY <1>1, <1>8, <1>9, <3>1 DEF InMiddle
        <3>2. CASE z = s /\ LastPart(t)
            BY <1>10, <3>2
        <3>3. CASE z = s /\ ~ LastPart(t)
            <4>1. off + t.count < Size[m] /\ off + t.count \in Nat
                BY <1>3, <3>3
            <4> QED BY <1>8, <1>10, <3>3, <4>1
        <3> QED BY <3>1, <3>2, <3>3
    <2>2. sending' \in [Sender -> SUBSET [message : Message, offset : Nat]]
        <3>1. sending' = [z \in Sender |-> sending'[z]]
            BY <1>1, <1>4 DEF InMiddle
        <3> QED BY <2>1, <3>1
    <2> QED BY <1>2, <2>1, <2>2 DEF InMiddle
<1>14. Stored(cache, queue)'
    <2>1. \A i \in DOMAIN cache : IsComplete(cache[i]) => cache[i].correlation \in Range(sent')
        BY <1>1, <1>8 DEF Stored
    <2>2. \A i \in DOMAIN cache, k \in DOMAIN q : IsComplete(cache[i]) => q[k].message # cache[i].correlation
        BY <1>1, <1>3, <1>6 DEF Stored
    <2> QED BY <1>1, <1>2, <1>4, <2>1, <2>2 DEF Stored
<1>15. ASSUME NEW x, NEW o, NEW n, n \in 0 .. Len(queue), NEW k, k \in Nat, n <= k,
              Reached(cache, queue, x, o, n)
       PROVE  Reached(cache, q, x, o, k)
    <2>1. \A j \in 1 .. n : j \in 1 .. k /\ q[j] = queue[j]
        BY <1>5, <1>15
    <2> QED BY <1>15, <2>1 DEF Reached
<1>16. Preceded(cache, queue)'
    <2>1. ASSUME NEW n \in DOMAIN q, q[n].offset > 0, q[n].message \notin discarded
          PROVE  Reached(cache, q, q[n].message, q[n].offset, n - 1)
        <3>1. n - 1 \in Nat /\ n - 1 \in 0 .. Len(queue) /\ n - 1 <= n - 1
            BY <1>5
        <3>2. CASE n \in DOMAIN queue
            <4>1. Reached(cache, queue, q[n].message, q[n].offset, n - 1)
                BY <1>1, <1>6, <2>1, <3>2 DEF Preceded
            <4> QED BY <1>15, <3>1, <4>1
        <3>3. CASE n = L /\ q[n] = t
            <4>1. Reached(cache, queue, q[n].message, q[n].offset, n - 1)
                BY <1>3, <1>5, <2>1, <3>3
            <4> QED BY <1>15, <3>1, <4>1
        <3> QED BY <1>6, <3>2, <3>3
    <2>2. ASSUME NEW z \in Sender, NEW x \in sending'[z], x.offset > 0, x.message \notin discarded
          PROVE  Reached(cache, q, x.message, x.offset, Len(q))
        <3>1. CASE z # s
            <4>1. Reached(cache, queue, x.message, x.offset, Len(queue))
                BY <1>1, <1>9, <2>2, <3>1 DEF Preceded
            <4>2. Len(queue) \in 0 .. Len(queue) /\ Len(q) \in Nat /\ Len(queue) <= Len(q)
                BY <1>5
            <4> QED BY <1>15, <4>1, <4>2
        <3>2. CASE z = s
            <4>1. x.message = m /\ x.offset = off + t.count
                BY <1>10, <2>2, <3>2
            <4>2. L \in 1 .. Len(q)
                BY <1>5
            <4> QED BY <1>3, <1>5, <4>1, <4>2 DEF Reached
        <3> QED BY <3>1, <3>2
    <2>3. queue' = q /\ cache' = cache /\ discarded' = discarded
        BY <1>2, <1>4
    <2>4. \A n \in DOMAIN queue' : queue'[n].offset > 0 /\ queue'[n].message \notin discarded' =>
              Reached(cache', queue', queue'[n].message, queue'[n].offset, n - 1)
        BY <2>1, <2>3
    <2>5. \A z \in Sender : \A x \in sending'[z] : x.offset > 0 /\ x.message \notin discarded' =>
              Reached(cache', queue', x.message, x.offset, Len(queue'))
        BY <2>2, <2>3
    <2> QED BY <2>4, <2>5 DEF Preceded, Reached
<1>17. Ordered(cache, queue)'
    <2> SUFFICES ASSUME NEW a \in Message \cup Event, NEW b \in Message \cup Event, Prompt(a, b)'
                 PROVE  /\ \A i, k \in DOMAIN q : q[i].message = a /\ q[k].message = b => i < k
                        /\ InCache(cache, b) => ~ InQueue(q, a)
                        /\ \A i, k \in DOMAIN cache : cache[i].correlation = a /\ cache[k].correlation = b => i < k
        BY <1>2, <1>4 DEF Ordered, InQueue, InCache
    <2>1. a \notin late /\ b \notin late /\ Source[a] = Source[b] /\ Before(a, b)'
        BY <1>2 DEF Prompt
    <2>2. CASE Before(a, b)
        <3>1. Prompt(a, b)
            BY <2>1, <2>2 DEF Prompt
        <3>2. /\ \A i, k \in DOMAIN queue : queue[i].message = a /\ queue[k].message = b => i < k
              /\ InCache(cache, b) => ~ InQueue(queue, a)
              /\ \A i, k \in DOMAIN cache : cache[i].correlation = a /\ cache[k].correlation = b => i < k
            BY <1>1, <3>1 DEF Delivery, Ordered
        <3>3. a # m
            BY <2>2 DEF Before, Range
        <3>4. ASSUME NEW i \in DOMAIN q, NEW k \in DOMAIN q, q[i].message = a, q[k].message = b
              PROVE  i < k
            <4>1. i \in DOMAIN queue /\ queue[i].message = a
                BY <1>3, <1>6, <3>3, <3>4
            <4>2. CASE k \in DOMAIN queue
                BY <1>6, <3>2, <3>4, <4>1, <4>2
            <4>3. CASE k = L
                BY <1>6, <4>1, <4>3
            <4> QED BY <1>6, <4>2, <4>3
        <3> QED BY <1>7, <3>2, <3>3, <3>4
    <2>3. CASE a = m /\ b \notin Range(sent) \cup {m}
        <3>1. b \in Message /\ From[b] = s
            BY <2>1, <2>3, EventAssumption DEF Source
        <3>2. ~ InQueue(queue, b) /\ ~ InCache(cache, b)
            BY <1>1, <2>1, <2>3, <3>1 DEF Delivery, Doing
        <3>3. ~ InQueue(q, b)
            BY <1>7, <2>3, <3>2
        <3> QED BY <3>2, <3>3 DEF InQueue, InCache
    <2> QED BY <1>8, <2>1, <2>2, <2>3
<1>18. Arrived(cache, queue)'
    <2>1. ASSUME NEW x \in Range(sent') \ Gone
          PROVE  \/ \E i \in DOMAIN cache : cache[i].correlation = x /\ IsComplete(cache[i])
                 \/ \E i \in DOMAIN q : q[i].message = x /\ LastPart(q[i])
        <3>1. CASE x \in Range(sent)
            BY <1>1, <1>6, <2>1, <3>1 DEF Delivery, Arrived
        <3>2. CASE x = m /\ LastPart(t)
            BY <1>3, <1>5, <1>6, <3>2
        <3> QED BY <1>8, <2>1, <3>1, <3>2
    <2>2. Gone' = Gone
        BY <1>2 DEF Gone
    <2> QED BY <1>2, <1>4, <2>1, <2>2 DEF Arrived
<1>19. Finished(cache, queue)'
    <2>1. \A x \in handed \cup dropped : x \in Range(sent') /\ ~ InQueue(q, x) /\ ~ InCache(cache, x)
        BY <1>1, <1>7, <1>8 DEF Delivery, Finished
    <2> QED BY <1>2, <1>4, <2>1 DEF Finished, InQueue, InCache
<1>20. Doing(cache, queue)'
    <2>1. ASSUME NEW x \in Message \ late, InQueue(q, x) \/ InCache(cache, x)
          PROVE  \/ x \in Range(sent')
                 \/ From[x] \notin alive
                 \/ \E y \in sending'[From[x]] : y.message = x
        <3>1. CASE x = m
            <4>1. CASE LastPart(t)
                BY <1>8, <3>1, <4>1
            <4>2. CASE ~ LastPart(t)
                <5> DEFINE y == [message |-> m, offset |-> off + t.count]
                <5>3. y \in sending'[s] /\ y.message = m
                    BY <1>10, <4>2
                <5> HIDE DEF y
                <5>1. \E z \in sending'[s] : z.message = m
                    BY <5>3
                <5>2. From[x] = s
                    BY <3>1
                <5> QED BY <3>1, <5>1, <5>2
            <4> QED BY <4>1, <4>2
        <3>2. CASE x # m
            <4>1. \/ x \in Range(sent)
                  \/ From[x] \notin alive
                  \/ \E y \in sending[From[x]] : y.message = x
                BY <1>1, <1>7, <2>1, <3>2 DEF Delivery, Doing
            <4>2. From[x] = s => \A y \in sending[From[x]] : y.message # x
                BY <3>2
            <4>3. From[x] \in Sender
                BY FromAssumption
            <4> QED BY <1>8, <1>9, <4>1, <4>2, <4>3
        <3> QED BY <3>1, <3>2
    <2> QED BY <1>2, <1>4, <2>1 DEF Doing, InQueue, InCache
<1>21. Delivery(cache, queue)'
    BY <1>8, <1>17, <1>18, <1>19, <1>20 DEF Delivery
<1>22. Received'
    BY <1>1, <1>2 DEF Received
<1>23. alive' \subseteq Sender /\ late' \subseteq Message
    BY <1>1, <1>2 DEF Assembly
<1> QED BY <1>8, <1>11, <1>12, <1>13, <1>14, <1>16, <1>21, <1>22, <1>23 DEF DeviceInv, Assembly

\* A message begins.
LEMMA SendStep ==
    ASSUME DeviceInv, NEW s \in Sender, NEW m \in Message, Send(s, m)
    PROVE  DeviceInv'
<1>1. sent \in Seq(Message \cup Event)
    BY DEF DeviceInv, Assembly
<1>2. m \notin Range(sent)
    BY <1>1 DEF Send, Contains, Range
<1>3. /\ s \in alive /\ sending[s] = {} /\ From[m] = s /\ PutPart(s, m, 0)
      /\ UNCHANGED <<alive, late, deviceVars>>
    BY DEF Send
<1>4. 0 \in Nat /\ ~ (0 > 0)
    OBVIOUS
<1> QED BY <1>2, <1>3, <1>4, PutStep

\* A message goes on.
LEMMA SendNextStep ==
    ASSUME DeviceInv, NEW s \in Sender, SendNext(s)
    PROVE  DeviceInv'
<1>1. InMiddle /\ Preceded(cache, queue)
    BY DEF DeviceInv, Assembly
<1>2. PICK x \in sending[s] : PutPart(s, x.message, x.offset) /\ UNCHANGED <<alive, late, deviceVars>>
    BY DEF SendNext
<1>3. /\ x.message \in Message /\ x.offset \in Nat /\ From[x.message] = s /\ x.offset < Size[x.message]
      /\ s \in alive /\ x.message \notin Range(sent)
    BY <1>1 DEF InMiddle
<1>4. \A y \in sending[s] : y.message = x.message
    BY <1>1 DEF InMiddle
<1>5. x.offset > 0 /\ x.message \notin discarded => Reached(cache, queue, x.message, x.offset, Len(queue))
    BY <1>1 DEF Preceded
<1> QED BY <1>2, <1>3, <1>4, <1>5, PutStep

\* A sender that leaves the middle of a message, given up (late) or dead, leaves the rest as it is.
LEMMA LeaveStep ==
    ASSUME DeviceInv, NEW s \in Sender, sending' = [sending EXCEPT ![s] = {}],
           late \subseteq late', late' \subseteq Message, alive' \subseteq alive,
           \A z \in Sender \ {s} : z \in alive => z \in alive',
           s \notin alive' \/ \A x \in sending[s] : x.message \in late',
           UNCHANGED <<queue, sent, deviceVars>>
    PROVE  DeviceInv'
<1>1. /\ Assembly /\ Delivery(cache, queue) /\ InMiddle /\ Received /\ queue \in Seq(Part) /\ Cut(queue)
      /\ Stored(cache, queue) /\ Preceded(cache, queue)
    BY DEF DeviceInv, Assembly
<1>2. UNCHANGED <<queue, sent, cache, discarded, wanted, handed, got, dropped>>
    BY DEF deviceVars
<1>3. sending' \in [Sender -> SUBSET [message : Message, offset : Nat]] /\ sending'[s] = {}
      /\ \A z \in Sender : z # s => sending'[z] = sending[z]
    BY <1>1 DEF InMiddle
<1>4. \A z \in Sender : \A x \in sending'[z] : x \in sending[z] /\ z # s
    BY <1>3
<1>5. InMiddle'
    BY <1>1, <1>2, <1>3, <1>4 DEF InMiddle
<1>6. Preceded(cache, queue)'
    <2>1. \A z \in Sender : \A x \in sending'[z] : x.offset > 0 /\ x.message \notin discarded =>
              Reached(cache, queue, x.message, x.offset, Len(queue))
        BY <1>1, <1>4 DEF Preceded
    <2>2. \A n \in DOMAIN queue : queue[n].offset > 0 /\ queue[n].message \notin discarded =>
              Reached(cache, queue, queue[n].message, queue[n].offset, n - 1)
        BY <1>1 DEF Preceded
    <2> QED BY <1>2, <2>1, <2>2 DEF Preceded, Reached
<1>7. Cut(queue)' /\ Stored(cache, queue)' /\ Received'
    BY <1>1, <1>2 DEF Cut, Stored, Received
<1>8. Ordered(cache, queue)'
    <2>1. \A a, b : Prompt(a, b)' => Prompt(a, b)
        BY <1>2 DEF Prompt, Before
    <2> QED BY <1>1, <1>2, <2>1 DEF Delivery, Ordered, InQueue, InCache
<1>9. Arrived(cache, queue)' /\ Finished(cache, queue)' /\ (\A i, k \in DOMAIN sent : sent[i] = sent[k] => i = k)'
    BY <1>1, <1>2 DEF Delivery, Arrived, Gone, Finished, InQueue, InCache
<1>10. Doing(cache, queue)'
    <2>1. ASSUME NEW m \in Message \ late', InQueue(queue, m) \/ InCache(cache, m)
          PROVE  \/ m \in Range(sent)
                 \/ From[m] \notin alive'
                 \/ \E x \in sending'[From[m]] : x.message = m
        <3>1. \/ m \in Range(sent)
              \/ From[m] \notin alive
              \/ \E x \in sending[From[m]] : x.message = m
            BY <1>1, <2>1 DEF Delivery, Doing
        <3>2. From[m] \in Sender
            BY FromAssumption
        <3>3. CASE From[m] = s
            BY <2>1, <3>1, <3>3
        <3>4. CASE From[m] # s
            BY <1>3, <3>1, <3>2, <3>4
        <3> QED BY <3>3, <3>4
    <2> QED BY <1>2, <2>1 DEF Doing, InQueue, InCache
<1>11. Assembly'
    BY <1>1, <1>2, <1>5, <1>6, <1>7 DEF Assembly
<1> QED BY <1>8, <1>9, <1>10, <1>11 DEF DeviceInv, Delivery

\* EAGAIN in the middle of a message.
LEMMA RefuseStep ==
    ASSUME DeviceInv, NEW s \in Sender, Refuse(s)
    PROVE  DeviceInv'
<1>1. PICK x \in sending[s] : late' = late \cup {x.message}
    BY DEF Refuse
<1>2. InMiddle /\ late \subseteq Message
    BY DEF DeviceInv, Assembly
<1>3. x.message \in Message /\ \A y \in sending[s] : y = x
    BY <1>2 DEF InMiddle
<1>4. sending' = [sending EXCEPT ![s] = {}] /\ alive' = alive /\ UNCHANGED <<queue, sent, deviceVars>>
    BY DEF Refuse
<1> QED BY <1>1, <1>2, <1>3, <1>4, LeaveStep

\* A sender dies.
LEMMA DieStep ==
    ASSUME DeviceInv, NEW s \in Sender, Die(s)
    PROVE  DeviceInv'
<1>1. late \subseteq Message
    BY DEF DeviceInv, Assembly
<1>2. /\ sending' = [sending EXCEPT ![s] = {}] /\ alive' = alive \ {s} /\ late' = late
      /\ UNCHANGED <<queue, sent, deviceVars>>
    BY DEF Die
<1> QED BY <1>1, <1>2, LeaveStep

-----------------------------------------------------------------------------
(* The theorems.                                                           *)

\* Nothing has been sent.
LEMMA InitInv == Init => DeviceInv
<1> SUFFICES ASSUME Init PROVE DeviceInv
    OBVIOUS
<1>1. /\ queue = <<>> /\ cache = <<>> /\ sent = <<>> /\ alive = Sender /\ late = {} /\ discarded = {}
      /\ wanted = {} /\ handed = {} /\ got = {} /\ dropped = {}
      /\ sending = [s \in Sender |-> {}] /\ \A s \in Sender : sending[s] = {}
    BY DEF Init
<1>2. Range(sent) = {} /\ DOMAIN queue = {} /\ DOMAIN cache = {} /\ DOMAIN sent = {} /\ Len(queue) = 0
    BY <1>1 DEF Range
<1>3. queue \in Seq(Part) /\ cache \in Seq(Entry) /\ sent \in Seq(Message \cup Event) /\ Len(queue) <= Capacity
    BY <1>1, CapacityAssumption
<1>4. Cut(queue) /\ InMiddle /\ Stored(cache, queue) /\ Preceded(cache, queue) /\ Received
    BY <1>1, <1>2, <1>3 DEF Cut, InMiddle, Stored, Preceded, Received
<1>5. Ordered(cache, queue) /\ Arrived(cache, queue) /\ Finished(cache, queue) /\ Doing(cache, queue)
    BY <1>1, <1>2 DEF Ordered, InQueue, InCache, Arrived, Finished, Doing
<1> QED BY <1>1, <1>2, <1>3, <1>4, <1>5 DEF DeviceInv, Assembly, Delivery

\* Every step keeps the invariant.
LEMMA NextInv == DeviceInv /\ [Next]_vars => DeviceInv'
<1> SUFFICES ASSUME DeviceInv, [Next]_vars PROVE DeviceInv'
    OBVIOUS
<1>1. ASSUME NEW s \in Sender, NEW m \in Message, Send(s, m) PROVE DeviceInv'
    BY <1>1, SendStep
<1>2. ASSUME NEW s \in Sender, SendNext(s) PROVE DeviceInv'
    BY <1>2, SendNextStep
<1>3. ASSUME NEW s \in Sender, Refuse(s) PROVE DeviceInv'
    BY <1>3, RefuseStep
<1>4. ASSUME NEW s \in Sender, Die(s) PROVE DeviceInv'
    BY <1>4, DieStep
<1>5. ASSUME NEW w \in Wish, Receive(w) PROVE DeviceInv'
    BY <1>5, ReceiveStep
<1>6. CASE Read
    BY <1>6, ReadStep
<1>7. CASE GiveUp
    BY <1>7, GiveUpStep
<1>8. ASSUME NEW c \in Abandoned, Discard(c) PROVE DeviceInv'
    BY <1>8, DiscardStep
<1>9. ASSUME NEW e \in Event, Push(e) PROVE DeviceInv'
    BY <1>9, PushStep
<1>10. CASE UNCHANGED vars
    <2>1. UNCHANGED <<queue, sending, alive, sent, late, cache, discarded, wanted, handed, got, dropped>>
        BY <1>10 DEF vars, sendVars, deviceVars
    <2>2. Assembly'
        BY <2>1 DEF DeviceInv, Assembly, Cut, InMiddle, Stored, Preceded, Reached, Received
    <2>3. Delivery(cache, queue)'
        BY <2>1 DEF DeviceInv, Delivery, Ordered, Prompt, Before, Arrived, Finished, Doing, Gone, InQueue, InCache
    <2> QED BY <2>2, <2>3 DEF DeviceInv
<1> QED BY <1>1, <1>2, <1>3, <1>4, <1>5, <1>6, <1>7, <1>8, <1>9, <1>10 DEF Next, SenderNext

\* DeviceInv holds in every state.
THEOREM DeviceCorrect == Spec => []DeviceInv
<1>1. Init => DeviceInv
    BY InitInv
<1>2. DeviceInv /\ [Next]_vars => DeviceInv'
    BY NextInv
<1> QED BY <1>1, <1>2, PTL DEF Spec

\* Every variable keeps its type: the queue its bound, and the ranges that an entry of the cache
\* misses lie in its payload and are not empty (message::Complete).
THEOREM DeviceTypes == Spec => []TypeOK
<1>1. DeviceInv => TypeOK
    <2> SUFFICES ASSUME DeviceInv PROVE TypeOK
        OBVIOUS
    <2>1. Assembly /\ InMiddle /\ Stored(cache, queue) /\ Received
        BY DEF DeviceInv, Assembly
    <2>2. /\ queue \in Seq([message : Message, offset : Nat, complete : Nat, count : 0 .. PayloadMax])
          /\ Len(queue) <= Capacity /\ alive \subseteq Sender /\ late \subseteq Message
          /\ sent \in Seq(Message \cup Event)
        BY <2>1 DEF Assembly, Part
    <2>3. Range(sent) \subseteq Message \cup Event
        BY <2>2 DEF Range
    <2>4. \A s \in Sender : \A x \in sending[s] :
              x.message \in Message /\ From[x.message] = s /\ x.offset < Size[x.message] /\ s \in alive
        BY <2>1 DEF InMiddle
    <2>5. ASSUME NEW i \in DOMAIN cache, NEW k \in DOMAIN cache[i].unhandled
          PROVE  LET r == cache[i].unhandled[k] IN 0 <= r[1] /\ r[1] < r[2] /\ r[2] <= Len(cache[i].payload)
        <3>1. ~ Whole(cache[i])
            BY <2>5 DEF Whole
        <3>2. PICK f \in Nat : f < Size[cache[i].correlation] /\ UpTo(cache[i], f)
            BY <2>1, <3>1 DEF Stored, Partial
        <3>3. /\ cache[i].unhandled = << <<f, Size[cache[i].correlation]>> >>
              /\ Len(cache[i].payload) = Size[cache[i].correlation]
              /\ Size[cache[i].correlation] \in Nat
            BY <3>2, SizeAssumption DEF UpTo
        <3>4. k = 1 /\ cache[i].unhandled[1] = <<f, Size[cache[i].correlation]>>
            BY <2>5, <3>3
        <3> QED BY <3>2, <3>3, <3>4
    <2>6. Cardinality(wanted) <= 1
        <3>1. CASE wanted = {}
            BY <3>1, FS_EmptySet
        <3>2. CASE wanted # {}
            <4>1. PICK w \in wanted : TRUE
                BY <3>2
            <4>2. wanted = {w}
                BY <2>1, <4>1 DEF Received
            <4>3. Cardinality({w}) = 1
                BY FS_Singleton
            <4> QED BY <4>2, <4>3
        <3> QED BY <3>1, <3>2
    <2> QED BY <2>1, <2>2, <2>3, <2>4, <2>5, <2>6 DEF TypeOK, Received
<1> QED BY <1>1, DeviceCorrect, PTL

\* What a receive hands out is a whole message of one sender, however its parts were mixed with
\* those of others (Device::cache, Complete::add).
THEOREM DeviceIntact == Spec => []Intact
<1>1. DeviceInv => Intact
    <2> SUFFICES ASSUME DeviceInv, NEW g \in got
                 PROVE  LET m == g.message.correlation
                        IN  /\ m \in Message => Len(g.message.payload) = Size[m]
                            /\ Range(g.message.payload) \subseteq {{m}}
        BY DEF Intact
    <2>1. Whole(g.message)
        BY DEF DeviceInv, Assembly, Received
    <2>2. Range(g.message.payload) \subseteq {{g.message.correlation}}
        BY <2>1 DEF Whole, Range
    <2> QED BY <2>1, <2>2 DEF Whole
<1> QED BY <1>1, DeviceCorrect, PTL

\* A message in the cache misses one range, its end, so that the one piece that Complete::add
\* keeps is enough, and it is there once.
THEOREM DeviceOneRange == Spec => []OneRangeMissing
<1>1. DeviceInv => OneRangeMissing
    <2> SUFFICES ASSUME DeviceInv PROVE OneRangeMissing
        OBVIOUS
    <2>1. Stored(cache, queue)
        BY DEF DeviceInv, Assembly
    <2>2. ASSUME NEW i \in DOMAIN cache, ~ IsComplete(cache[i])
          PROVE  Len(cache[i].unhandled) = 1 /\ cache[i].unhandled[1][2] = Len(cache[i].payload)
        <3>1. PICK f \in Nat : UpTo(cache[i], f)
            BY <2>1, <2>2, Shapes DEF Stored, Partial
        <3>2. /\ cache[i].unhandled = << <<f, Size[cache[i].correlation]>> >>
              /\ Len(cache[i].payload) = Size[cache[i].correlation]
            BY <3>1 DEF UpTo
        <3> QED BY <3>2
    <2> QED BY <2>1, <2>2 DEF OneRangeMissing, Stored
<1> QED BY <1>1, DeviceCorrect, PTL

-----------------------------------------------------------------------------
(* The refinement of Mailbox.                                              *)

\* The first complete entry that is asked for is in the box, and of what is asked for no other
\* message of its sender has been in it for longer, unless one of the two was sent again.
LEMMA FirstFound ==
    ASSUME NEW c, NEW q, Stored(c, q), Delivery(c, q), sent \in Seq(Message \cup Event),
           NEW w, NEW i \in Found(c, w), \A k \in Found(c, w) : i <= k
    PROVE  \E n \in Box!Box :
              /\ sent[n] = c[i].correlation /\ Fits(w, sent[n])
              /\ \A k \in Box!Box : k < n /\ Fits(w, sent[k]) /\ Source[sent[k]] = Source[sent[n]]
                                       => {sent[k], sent[n]} \cap late # {}
<1> DEFINE m == c[i].correlation
<1>1. c \in Seq(Entry) /\ i \in DOMAIN c /\ IsComplete(c[i]) /\ Fits(w, m) /\ i \in Nat
    BY DEF Stored, Found
<1>2. m \in Range(sent) /\ m \notin discarded
    BY <1>1 DEF Stored
<1>3. InCache(c, m) /\ m \notin handed /\ m \notin dropped
    BY <1>1 DEF InCache, Delivery, Finished
<1>4. PICK n \in DOMAIN sent : sent[n] = m
    BY <1>2 DEF Range
<1>5. n \in Box!Box
    BY <1>2, <1>3, <1>4 DEF Box!Box
<1>6. ASSUME NEW k \in Box!Box, k < n, Fits(w, sent[k]), Source[sent[k]] = Source[sent[n]],
             sent[k] \notin late, sent[n] \notin late
      PROVE  FALSE
    <2> DEFINE a == sent[k]
    <2>1. k \in DOMAIN sent /\ a \in Message \cup Event /\ a \in Range(sent) /\ a \notin Gone
        BY DEF Box!Box, Range, Gone
    <2>2. \A j \in 1 .. k : j \in DOMAIN sent /\ j # n
        BY <1>4, <1>6, <2>1
    <2>3. \A j \in 1 .. k : sent[j] # m
        BY <1>4, <2>2 DEF Delivery
    <2>4. Before(a, m)
        BY <2>1, <2>3 DEF Before
    <2>5. Prompt(a, m) /\ m \in Message \cup Event
        BY <1>4, <1>6, <2>4 DEF Prompt
    <2> HIDE DEF a
    <2>6. /\ InCache(c, m) => ~ InQueue(q, a)
          /\ \A x, y \in DOMAIN c : c[x].correlation = a /\ c[y].correlation = m => x < y
        BY <2>1, <2>5 DEF Delivery, Ordered
    <2>7. PICK j \in DOMAIN c : c[j].correlation = a /\ IsComplete(c[j])
        BY <1>3, <2>1, <2>6 DEF Delivery, Arrived, InQueue
    <2>8. j \in Found(c, w)
        BY <1>6, <2>7 DEF Found, a
    <2>9. j < i /\ i <= j /\ j \in Nat
        BY <1>1, <2>6, <2>7, <2>8
    <2> QED BY <1>1, <2>9
<1>7. \A k \in Box!Box : k < n /\ Fits(w, sent[k]) /\ Source[sent[k]] = Source[sent[n]]
                            => {sent[k], sent[n]} \cap late # {}
    BY <1>6
<1> QED BY <1>1, <1>4, <1>5, <1>7

\* Device::find_complete asks, goes on waiting, or takes a message.
LEMMA FindMaps ==
    ASSUME NEW c, NEW q, Stored(c, q), Delivery(c, q), sent \in Seq(Message \cup Event),
           NEW w \in Wish, wanted \in {{}, {w}}, FindComplete(c, w),
           UNCHANGED <<sendVars, discarded, dropped>>
    PROVE  Box!Next \/ UNCHANGED Box!vars
<1>1. UNCHANGED <<sending, alive, sent, late, discarded, dropped>>
    BY DEF sendVars
<1>2. CASE cache' = c /\ wanted' = {w} /\ UNCHANGED <<handed, got>>
    <2>1. CASE wanted = {}
        <3>1. Box!Ask(w)
            BY <1>1, <1>2, <2>1 DEF Box!Ask
        <3> QED BY <3>1 DEF Box!Next
    <2>2. CASE wanted = {w}
        BY <1>1, <1>2, <2>2 DEF Box!vars
    <2> QED BY <2>1, <2>2
<1>3. ASSUME NEW i \in Found(c, w), \A k \in Found(c, w) : i <= k,
             handed' = handed \cup {c[i].correlation},
             got' = {[asked |-> w, message |-> c[i]]}, wanted' = {}
      PROVE  Box!Next
    <2>1. PICK n \in Box!Box :
              /\ sent[n] = c[i].correlation /\ Fits(w, sent[n])
              /\ \A k \in Box!Box : k < n /\ Fits(w, sent[k]) /\ Source[sent[k]] = Source[sent[n]]
                                       => {sent[k], sent[n]} \cap late # {}
        BY <1>3, FirstFound
    <2>2. {<<g.asked, g.message.correlation>> : g \in got'} = {<<w, sent[n]>>}
        BY <1>3, <2>1
    <2>3. (handed \cup dropped \cup discarded)' = (handed \cup dropped \cup discarded) \cup {sent[n]}
        BY <1>1, <1>3, <2>1
    <2>4. Box!Take(n, w)
        BY <1>1, <1>3, <2>1, <2>2, <2>3 DEF Box!Take
    <2>5. CASE wanted = {}
        <3>1. Box!AskAndReceive
            BY <2>4, <2>5 DEF Box!AskAndReceive
        <3> QED BY <3>1 DEF Box!Next
    <2>6. CASE wanted = {w}
        <3>1. Box!Receive
            BY <2>4, <2>6 DEF Box!Receive
        <3> QED BY <3>1 DEF Box!Next
    <2> QED BY <2>5, <2>6
<1> QED BY <1>2, <1>3 DEF FindComplete

\* The last part of a message puts it into the box; the other parts are not seen.
LEMMA PutMaps ==
    ASSUME sent \in Seq(Message \cup Event), NEW s \in Sender, NEW m \in Message, NEW off,
           m \notin Range(sent), PutPart(s, m, off), UNCHANGED <<alive, late, deviceVars>>
    PROVE  Box!Next \/ UNCHANGED Box!vars
<1>1. UNCHANGED <<late, wanted, got, handed, dropped, discarded>>
    BY DEF deviceVars
<1>2. CASE sent' = Append(sent, m)
    <2>1. ~ Contains(sent, m)
        BY DEF Contains, Range
    <2>2. Box!Send(m)
        BY <1>1, <1>2, <2>1 DEF Box!Send, Contains, Box!Contains
    <2> QED BY <2>2 DEF Box!Next
<1>3. CASE sent' = sent
    BY <1>1, <1>3 DEF Box!vars
<1> QED BY <1>2, <1>3 DEF PutPart

\* One turn of the loop of Device::find takes a message from the box, or is not seen.
LEMMA ReadMaps ==
    ASSUME DeviceInv, Read
    PROVE  Box!Next \/ UNCHANGED Box!vars
<1>1. Assembly /\ Delivery(cache, queue) /\ Received /\ sent \in Seq(Message \cup Event)
    BY DEF DeviceInv, Assembly
<1>2. queue # <<>> /\ UNCHANGED sendVars
    BY DEF Read
<1>3. PICK w \in wanted :
          \/ /\ Head(queue).message \in discarded
             /\ discarded' = IF LastPart(Head(queue)) THEN discarded \ {Head(queue).message} ELSE discarded
             /\ dropped' = IF LastPart(Head(queue)) THEN dropped \cup {Head(queue).message} ELSE dropped
             /\ UNCHANGED <<cache, wanted, handed, got>>
          \/ /\ Head(queue).message \notin discarded
             /\ FindComplete(Enter(cache, Head(queue)), w)
             /\ UNCHANGED <<discarded, dropped>>
    BY DEF Read
<1>4. CASE Head(queue).message \in discarded
    <2>1. (handed \cup dropped \cup discarded)' = handed \cup dropped \cup discarded
        BY <1>3, <1>4
    <2>2. UNCHANGED <<sent, late, wanted, got>>
        BY <1>2, <1>3, <1>4 DEF sendVars
    <2> QED BY <2>1, <2>2 DEF Box!vars
<1>5. CASE Head(queue).message \notin discarded
    <2>1. PICK c : c = Enter(cache, Head(queue))
        OBVIOUS
    <2>2. PICK q : q = Tail(queue)
        OBVIOUS
    <2>3. PICK i \in DOMAIN c : Grown(cache, c, i, Head(queue))
        BY <1>1, <1>2, <1>5, <2>1, Entered
    <2>4. Stored(c, q) /\ Delivery(c, q)
        BY <1>1, <1>2, <1>5, <2>2, <2>3, GrownAssembly, GrownDelivery
    <2>5. w \in Wish /\ wanted = {w}
        BY <1>1 DEF Received
    <2>6. FindComplete(c, w) /\ UNCHANGED <<sendVars, discarded, dropped>>
        BY <1>2, <1>3, <1>5, <2>1
    <2> QED BY <1>1, <2>4, <2>5, <2>6, FindMaps
<1> QED BY <1>4, <1>5

\* Every step of the device is one of the box, or is not seen.
LEMMA NextMaps ==
    ASSUME DeviceInv, [Next]_vars
    PROVE  [Box!Next]_Box!vars
<1>1. /\ Assembly /\ Delivery(cache, queue) /\ InMiddle /\ Stored(cache, queue) /\ Received
      /\ sent \in Seq(Message \cup Event)
    BY DEF DeviceInv, Assembly
<1>2. ASSUME NEW s \in Sender, NEW m \in Message, Send(s, m) PROVE Box!Next \/ UNCHANGED Box!vars
    <2>1. m \notin Range(sent)
        BY <1>1, <1>2 DEF Send, Contains, Range
    <2>2. PutPart(s, m, 0) /\ UNCHANGED <<alive, late, deviceVars>>
        BY <1>2 DEF Send
    <2> QED BY <1>1, <2>1, <2>2, PutMaps
<1>3. ASSUME NEW s \in Sender, SendNext(s) PROVE Box!Next \/ UNCHANGED Box!vars
    <2>1. PICK x \in sending[s] : PutPart(s, x.message, x.offset) /\ UNCHANGED <<alive, late, deviceVars>>
        BY <1>3 DEF SendNext
    <2>2. x.message \in Message /\ x.message \notin Range(sent)
        BY <1>1 DEF InMiddle
    <2> QED BY <1>1, <2>1, <2>2, PutMaps
<1>4. ASSUME NEW s \in Sender, Refuse(s) PROVE Box!Next
    <2>1. PICK x \in sending[s] : late' = late \cup {x.message}
        BY <1>4 DEF Refuse
    <2>2. x.message \in Message
        BY <1>1 DEF InMiddle
    <2>3. UNCHANGED <<sent, wanted, got, handed, dropped, discarded>>
        BY <1>4 DEF Refuse, deviceVars
    <2>4. Box!Abort(x.message)
        BY <2>1, <2>3 DEF Box!Abort
    <2> QED BY <2>2, <2>4 DEF Box!Next
<1>5. ASSUME NEW s \in Sender, Die(s) PROVE UNCHANGED Box!vars
    BY <1>5 DEF Die, deviceVars, Box!vars
<1>6. ASSUME NEW w \in Wish, Receive(w) PROVE Box!Next \/ UNCHANGED Box!vars
    <2>1. PICK c : c = cache
        OBVIOUS
    <2>2. PICK q : q = queue
        OBVIOUS
    <2>3. FindComplete(c, w) /\ wanted = {} /\ UNCHANGED <<sendVars, discarded, dropped>>
        BY <1>6, <2>1 DEF Receive
    <2> QED BY <1>1, <2>1, <2>2, <2>3, FindMaps
<1>7. CASE Read
    BY <1>7, ReadMaps
<1>8. CASE GiveUp
    <2>1. Box!GiveUp
        BY <1>8 DEF GiveUp, sendVars, Box!GiveUp
    <2> QED BY <2>1 DEF Box!Next
<1>9. ASSUME NEW m \in Abandoned, Discard(m) PROVE Box!Next
    <2>1. wanted = {} /\ UNCHANGED <<sent, late, wanted, handed, got>>
        BY <1>9 DEF Discard, sendVars
    <2>2. \/ discarded' = discarded \cup {m} /\ dropped' = dropped
          \/ discarded' = discarded /\ dropped' = dropped \cup {m}
        BY <1>9 DEF Discard
    <2>3. (handed \cup dropped \cup discarded)' = (handed \cup dropped \cup discarded) \cup {m}
        BY <2>1, <2>2
    <2>4. Box!Discard(m)
        BY <2>1, <2>3 DEF Box!Discard
    <2>5. m \in Message
        BY PolicyAssumption
    <2> QED BY <2>4, <2>5 DEF Box!Next
<1>10. ASSUME NEW e \in Event, Push(e) PROVE Box!Next
    <2>1. /\ ~ Contains(sent, e) /\ sent' = Append(sent, e)
          /\ UNCHANGED <<late, wanted, got, handed, dropped, discarded>>
        BY <1>10 DEF Push
    <2>2. Box!Send(e)
        BY <2>1 DEF Box!Send, Contains, Box!Contains
    <2> QED BY <2>2 DEF Box!Next
<1>11. CASE UNCHANGED vars
    BY <1>11 DEF vars, sendVars, deviceVars, Box!vars
<1> QED BY <1>2, <1>3, <1>4, <1>5, <1>6, <1>7, <1>8, <1>9, <1>10, <1>11 DEF Next, SenderNext

\* What the processes of casual rely on: transports, cache and discards together are a box of
\* whole messages that keeps the order of each sender (Device::next, Device::discard,
\* Device::push).
THEOREM DeviceImplementsMailbox == Spec => ImplementsMailbox
<1>1. Init => Box!Init
    BY DEF Init, Box!Init
<1>2. DeviceInv /\ [Next]_vars => [Box!Next]_Box!vars
    BY NextMaps
<1> QED BY <1>1, <1>2, DeviceCorrect, PTL DEF Spec, ImplementsMailbox, Box!Spec
=============================================================================

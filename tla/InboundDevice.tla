---------------------------- MODULE InboundDevice ----------------------------
(***************************************************************************)
(* The transport between the processes of casual:                          *)
(* common/communication/device.h, message.h and ipc.cpp.                   *)
(*                                                                         *)
(* A logical message is cut into transports that go through a System V     *)
(* message queue, which holds a bounded number of them and which all       *)
(* senders share.  The receiving device reads transports one by one, puts  *)
(* the messages together in a cache and hands out the first complete one   *)
(* that the caller asks for.  A correlation can be discarded, an event can *)
(* be pushed straight into the cache by the error handler of a receive, a  *)
(* non-blocking send can fail half way and be tried again, a sender can    *)
(* die half way, and a signal can end a receive.                           *)
(*                                                                         *)
(* One unit of Size is any number of bytes.  A payload is known by the     *)
(* message its bytes come from.                                            *)
(***************************************************************************)
EXTENDS Integers, Sequences, FiniteSets, SequencesExt

CONSTANTS
    Sender,       \* processes that send to the device
    Message,      \* the logical messages they send, each one once
    Event,        \* messages the device's own process pushes
    From,         \* [Message -> Sender]
    Type,         \* [Message \cup Event -> message type]
    Size,         \* [Message -> payload size]
    PayloadMax,   \* basic_transport::payload_max_size
    Capacity,     \* transports the queue can hold
    NonBlocking,  \* messages sent with a non-blocking policy
    Abandoned,    \* messages whose correlation the receiver may discard
    Mortal        \* senders that may die

\* A correlation is a uuid of its own for every message. Messages that answer one request
\* more than once share theirs; the device is not made for both in the cache at once.
ASSUME SizeAssumption == Size \in [Message -> Nat]
ASSUME PayloadAssumption == PayloadMax \in Nat \ {0}
ASSUME CapacityAssumption == Capacity \in Nat \ {0}
ASSUME FromAssumption == From \in [Message -> Sender]
ASSUME TypeAssumption == DOMAIN Type = Message \cup Event
ASSUME EventAssumption == Message \cap Event = {}
ASSUME PolicyAssumption == NonBlocking \subseteq Message /\ Abandoned \subseteq Message

VARIABLES
    queue,        \* the System V queue: transports
    sending,      \* [Sender -> what it is in the middle of: a set of at most one record]
    alive,        \* senders that run
    sent,         \* messages completely sent or pushed, in that order
    late,         \* messages whose non-blocking send has failed half way
    cache,        \* Device::m_cache
    discarded,    \* Device::m_discarded
    wanted,       \* the predicate of the receive in progress: a set of at most one
    handed,       \* messages handed out
    got,          \* the last of them and what was asked for: a set of at most one
    dropped       \* messages the device has thrown away

sendVars == <<sending, alive, sent, late>>
deviceVars == <<cache, discarded, wanted, handed, got, dropped>>
vars == <<queue, sendVars, deviceVars>>

AnyMessage == [kind |-> "any", of |-> "any"]
Wish == {AnyMessage} \cup [kind : {"type"}, of : {Type[m] : m \in Message \cup Event}]
              \cup [kind : {"correlation"}, of : Message]

\* The predicates of Device::next; a message stands for its correlation.
Fits(w, m) ==
    \/ w.kind = "any"
    \/ w.kind = "type" /\ Type[m] = w.of
    \/ w.kind = "correlation" /\ m = w.of

-----------------------------------------------------------------------------
(* Putting a message together: message::Complete.                          *)

Nothing == <<0, 0>>
IsEmpty(r) == r[1] = r[2]

\* Mutant of Subtract: what follows begins one too far.
SubtractTooMuch(l, r) ==
    IF l[2] >= r[1] /\ l[1] <= r[2] /\ l[2] > r[2]
    THEN << <<r[2] + 1, l[2]>>, Nothing>>
    ELSE <<Nothing, Nothing>>

\* range::position::overlap and subtract: what is left of range l, in at most two pieces.
Overlap(l, r) == l[2] >= r[1] /\ l[1] <= r[2]
Subtract(l, r) ==
    IF ~ Overlap(l, r) THEN <<l, Nothing>>
    ELSE IF l[1] < r[1] /\ l[2] > r[2] THEN << <<l[1], r[1]>>, <<r[2], l[2]>> >>
    ELSE IF l[1] < r[1] THEN << <<l[1], r[1]>>, Nothing>>
    ELSE IF l[2] > r[2] THEN << <<r[2], l[2]>>, Nothing>>
    ELSE <<Nothing, Nothing>>

\* The partition and erase at the end of Complete::add: the ranges that are not empty.
Missing[ranges \in Seq(Nat \X Nat)] ==
    LET left == {i \in DOMAIN ranges : ~ IsEmpty(ranges[i])}
    IN  [n \in 1 .. Cardinality(left) |->
            ranges[CHOOSE i \in left : Cardinality({k \in left : k <= i}) = n]]

\* Complete::add. Only the piece split off the last range is kept; the others are
\* overwritten in the loop.
Add(entry, t) ==
    LET rest == [i \in DOMAIN entry.unhandled |-> Subtract(entry.unhandled[i], <<t.offset, t.offset + t.count>>)]
        splitted == IF rest = <<>> THEN Nothing ELSE rest[Len(rest)][2]
        ranges == [i \in DOMAIN rest |-> rest[i][1]]
    IN  [correlation |-> entry.correlation,
         payload |-> [i \in DOMAIN entry.payload |->
                         IF i \in t.offset + 1 .. t.offset + t.count THEN {t.message} ELSE entry.payload[i]],
         unhandled |-> Missing[IF IsEmpty(splitted) THEN ranges ELSE Append(ranges, splitted)]]

\* The constructor from a transport.
Complete(t) ==
    Add([correlation |-> t.message,
         payload |-> [i \in 1 .. t.complete |-> {}],
         unhandled |-> << <<0, t.complete>> >>], t)

IsComplete(entry) == entry.unhandled = <<>>

\* Mutant of Enter: a transport of a known correlation starts a message of its own.
EnterAnew(c, t) == Append(c, Complete(t))

\* Device::cache.
Enter(c, t) ==
    LET known == {i \in DOMAIN c : c[i].correlation = t.message}
    IN  IF known = {} THEN Append(c, Complete(t))
        ELSE LET i == CHOOSE i \in known : \A k \in known : i <= k
             IN  [c EXCEPT ![i] = Add(c[i], t)]

-----------------------------------------------------------------------------
(* Sending: outbound::Device::put, one action per physical message.        *)

\* Mutant of Transport: no header says which part of the payload it is.
TransportNoOffset(m, offset) ==
    [message |-> m, offset |-> 0, complete |-> Size[m],
     count |-> IF Size[m] - offset > PayloadMax THEN PayloadMax ELSE Size[m] - offset]

\* The part of m that begins at offset; an empty message is one empty part.
Transport(m, offset) ==
    [message |-> m, offset |-> offset, complete |-> Size[m],
     count |-> IF Size[m] - offset > PayloadMax THEN PayloadMax ELSE Size[m] - offset]

\* basic_transport::last.
LastPart(t) == t.offset + t.count = t.complete

\* Mutant of PutPart: the loop ends one part too late.
PutPartTrailing(s, m, offset) ==
    LET t == Transport(m, offset)
    IN  /\ Len(queue) < Capacity
        /\ queue' = Append(queue, t)
        /\ IF offset + t.count > Size[m]
           THEN /\ sent' = Append(sent, m)
                /\ sending' = [sending EXCEPT ![s] = {}]
           ELSE /\ sending' = [sending EXCEPT ![s] = {[message |-> m, offset |-> offset + t.count]}]
                /\ UNCHANGED sent

\* msgsnd: the next part goes into the queue; after the last one the send returns.
PutPart(s, m, offset) ==
    LET t == Transport(m, offset)
    IN  /\ Len(queue) < Capacity
        /\ queue' = Append(queue, t)
        /\ IF offset + t.count >= Size[m]
           THEN /\ sent' = Append(sent, m)
                /\ sending' = [sending EXCEPT ![s] = {}]
           ELSE /\ sending' = [sending EXCEPT ![s] =
                                 {[message |-> m, offset |-> offset + t.count]}]
                /\ UNCHANGED sent

\* A sender begins a message, again if an earlier try has failed.
Send(s, m) ==
    /\ s \in alive
    /\ sending[s] = {}
    /\ From[m] = s /\ ~ Contains(sent, m)
    /\ PutPart(s, m, 0)
    /\ UNCHANGED <<alive, late, deviceVars>>

SendNext(s) ==
    /\ \E x \in sending[s] : PutPart(s, x.message, x.offset)
    /\ UNCHANGED <<alive, late, deviceVars>>

\* EAGAIN from a non-blocking send in the middle of a message.
Refuse(s) ==
    /\ Len(queue) >= Capacity
    /\ \E x \in sending[s] : x.message \in NonBlocking /\ late' = late \cup {x.message}
    /\ sending' = [sending EXCEPT ![s] = {}]
    /\ UNCHANGED <<queue, alive, sent, deviceVars>>

\* The operating system ends a sender.
Die(s) ==
    /\ s \in alive \cap Mortal
    /\ alive' = alive \ {s}
    /\ sending' = [sending EXCEPT ![s] = {}]
    /\ UNCHANGED <<queue, sent, late, deviceVars>>

-----------------------------------------------------------------------------
(* Receiving: inbound::Device.                                             *)

\* The complete messages of cache c that w asks for.
Found(c, w) == {i \in DOMAIN c : IsComplete(c[i]) /\ Fits(w, c[i].correlation)}

\* Mutant of FindComplete: the last message found is handed out.
FindCompleteLast(c, w) ==
    \E found \in {Found(c, w)} :
        IF found = {}
        THEN cache' = c /\ wanted' = {w} /\ UNCHANGED <<handed, got>>
        ELSE \E i \in found :
                /\ \A k \in found : i >= k
                /\ cache' = RemoveAt(c, i)
                /\ handed' = handed \cup {c[i].correlation}
                /\ got' = {[asked |-> w, message |-> c[i]]}
                /\ wanted' = {}

\* Device::find_complete: the first message found leaves the cache, otherwise the device
\* is read.
FindComplete(c, w) ==
    \E found \in {Found(c, w)} :
        IF found = {}
        THEN cache' = c /\ wanted' = {w} /\ UNCHANGED <<handed, got>>
        ELSE \E i \in found :
                /\ \A k \in found : i <= k
                /\ cache' = RemoveAt(c, i)
                /\ handed' = handed \cup {c[i].correlation}
                /\ got' = {[asked |-> w, message |-> c[i]]}
                /\ wanted' = {}

\* The caller receives: the cache is searched before the queue is read.
Receive(w) ==
    /\ wanted = {}
    /\ FindComplete(cache, w)
    /\ UNCHANGED <<queue, sendVars, discarded, dropped>>

\* One turn of the loop of Device::find: a transport is dropped or put in the cache, and
\* the cache is searched again.
Read ==
    /\ queue # <<>>
    /\ queue' = Tail(queue)
    /\ \E w \in wanted, t \in {Head(queue)} :
          \/ /\ t.message \in discarded
             /\ discarded' = IF LastPart(t) THEN discarded \ {t.message} ELSE discarded
             /\ dropped' = IF LastPart(t) THEN dropped \cup {t.message} ELSE dropped
             /\ UNCHANGED <<cache, wanted, handed, got>>
          \/ /\ t.message \notin discarded
             /\ \E c \in {Enter(cache, t)} : FindComplete(c, w)
             /\ UNCHANGED <<discarded, dropped>>
    /\ UNCHANGED sendVars

\* A non-blocking receive finds nothing, or a signal throws out of a blocking one. What
\* has been read stays in the cache.
GiveUp ==
    /\ wanted # {}
    /\ wanted' = {}
    /\ UNCHANGED <<queue, sendVars, cache, discarded, handed, got, dropped>>

\* Device::discard: tpcancel, a lookup that is abandoned, a commit reply nobody needs.
Discard(c) ==
    /\ wanted = {}
    /\ LET known == {i \in DOMAIN cache : cache[i].correlation = c}
       IN  IF known = {}
           THEN discarded' = discarded \cup {c} /\ UNCHANGED <<cache, dropped>>
           ELSE \E i \in known :
                   /\ cache' = RemoveAt(cache, i)
                   /\ IF IsComplete(cache[i])
                      THEN dropped' = dropped \cup {c} /\ UNCHANGED discarded
                      ELSE discarded' = discarded \cup {c} /\ UNCHANGED dropped
    /\ UNCHANGED <<queue, sendVars, wanted, handed, got>>

\* Device::push, from the error handler of a receive: the blocking read goes on, the
\* cache is not searched before the next transport has come.
Push(e) ==
    /\ wanted # {}
    /\ ~ Contains(sent, e)
    /\ sent' = Append(sent, e)
    /\ cache' = Append(cache, [correlation |-> e, payload |-> <<{e}>>, unhandled |-> <<>>])
    /\ UNCHANGED <<queue, sending, alive, late, discarded, wanted, handed, got, dropped>>

Init ==
    /\ queue = <<>>
    /\ sending = [s \in Sender |-> {}]
    /\ alive = Sender
    /\ sent = <<>>
    /\ late = {}
    /\ cache = <<>>
    /\ discarded = {}
    /\ wanted = {}
    /\ handed = {}
    /\ got = {}
    /\ dropped = {}

SenderNext(s) ==
    \/ \E m \in Message : Send(s, m)
    \/ SendNext(s) \/ Refuse(s) \/ Die(s)

Next ==
    \/ \E s \in Sender : SenderNext(s)
    \/ \E w \in Wish : Receive(w)
    \/ Read \/ GiveUp
    \/ \E c \in Abandoned : Discard(c)
    \/ \E e \in Event : Push(e)

Spec == Init /\ [][Next]_vars

\* A blocked msgrcv returns when there is a transport.
FairSpec == Spec /\ WF_vars(Read)

-----------------------------------------------------------------------------
(* Properties.                                                             *)

\* Every variable stays in its type: an entry of the cache has as many bytes as its header
\* says and its ranges lie inside them (message::Complete), and the queue keeps its bound.
TypeOK ==
    /\ queue \in Seq([message : Message, offset : Nat, complete : Nat, count : 0 .. PayloadMax])
    /\ Len(queue) <= Capacity
    /\ \A s \in Sender : \A x \in sending[s] :
          x.message \in Message /\ From[x.message] = s /\ x.offset < Size[x.message] /\ s \in alive
    /\ alive \subseteq Sender
    /\ Range(sent) \subseteq Message \cup Event
    /\ late \subseteq Message
    /\ \A i \in DOMAIN cache : \A k \in DOMAIN cache[i].unhandled :
          LET r == cache[i].unhandled[k] IN 0 <= r[1] /\ r[1] < r[2] /\ r[2] <= Len(cache[i].payload)
    /\ discarded \subseteq Message
    /\ Cardinality(wanted) <= 1 /\ wanted \subseteq Wish
    /\ dropped \subseteq Message
    /\ handed \subseteq Message \cup Event

\* What a receive hands out is a whole message: every byte of its payload has been written,
\* by a transport of that message, however transports of other senders, failed tries and
\* discards were mixed with it (Device::cache, Complete::add).
Intact ==
    \A g \in got :
        LET m == g.message.correlation
        IN  /\ m \in Message => Len(g.message.payload) = Size[m]
            /\ Range(g.message.payload) \subseteq {{m}}

\* A message being put together misses one range of bytes, the end of it. Complete::add
\* keeps no more than one piece split off, which is enough as long as this holds; a message
\* is cached once only.
OneRangeMissing ==
    /\ \A i \in DOMAIN cache :
          ~ IsComplete(cache[i]) =>
              Len(cache[i].unhandled) = 1 /\ cache[i].unhandled[1][2] = Len(cache[i].payload)
    /\ \A i, k \in DOMAIN cache : cache[i].correlation = cache[k].correlation => i = k

\* What the processes of casual rely on: transports, cache and discards together are a box
\* of whole messages that keeps the order of each sender.
Source == [m \in Message \cup Event |-> IF m \in Event THEN <<>> ELSE <<From[m]>>]
Box == INSTANCE Mailbox WITH
          Message <- Message \cup Event,
          From <- Source,
          posted <- sent,
          gone <- handed \cup dropped \cup discarded,
          got <- {<<g.asked, g.message.correlation>> : g \in got}
ImplementsMailbox == Box!Spec

\* A receive that waits for a message that has been sent, and is not discarded, ends
\* (Device::find), whatever parts of other messages are before it in the queue.
Deliverable(m) == Contains(sent, m) /\ m \notin handed \cup dropped \cup discarded
Delivered == (\E w \in wanted : \E m \in Message : Fits(w, m) /\ Deliverable(m)) ~> (wanted = {})

\* "We put a dead process event on our own ipc device, that will be handled later on": a
\* receive of any message during which an event is pushed ends.
EventHandled == (wanted = {AnyMessage} /\ \E e \in Event : Deliverable(e)) ~> (wanted = {})
=============================================================================

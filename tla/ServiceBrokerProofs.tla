------------------------- MODULE ServiceBrokerProofs -------------------------
(***************************************************************************)
(* What holds of the broker for any number of callers, services and        *)
(* instances, whatever dies, times out or is scaled:                       *)
(*                                                                         *)
(*   - the registry of services is consistent, and every variable keeps    *)
(*     its type;                                                           *)
(*   - an instance serves one caller at a time: Scheduling names the four  *)
(*     places that can hold an instance, and says that at most one of them *)
(*     does, and none while it is idle or has not connected;               *)
(*   - the forward cache keeps one call for every lookup of its own that   *)
(*     is under way: Kept, which rests on Scheduling, for an instance that *)
(*     is granted again while it is held would be one entry for two calls; *)
(*   - lookups that wait for a service are served in their order.          *)
(***************************************************************************)
EXTENDS ServiceBroker, FiniteSetTheorems, WellFoundedInduction, TLAPS

\* The types of the registry and of the instances it refers to.
RegistryType ==
    /\ instance \in [Instance -> InstanceState]
    /\ services \subseteq Service
    /\ advertised \in [Service -> SUBSET Instance]
    /\ offers \in [Instance -> SUBSET Service]

\* The inductive invariant
Registry == RegistryType /\ RegistryConsistent

\* No instance that was spawned is removed.
NoneRemoved ==
    /\ instance' \in [Instance -> InstanceState]
    /\ \A i \in Instance : instance[i] \notin {"none", "gone"} => instance'[i] \notin {"none", "gone"}

\* The names of the services, and who offers them, stay.
SameNames == services' = services /\ advertised' = advertised /\ offers' = offers

\* A step that removes no instance and leaves the names alone keeps the registry.
LEMMA NamesKept ==
    ASSUME Registry, NoneRemoved, SameNames
    PROVE  Registry'
BY DEF Registry, RegistryType, RegistryConsistent, NoneRemoved, SameNames, Spawned

\* addServices enters an instance that is spawned in both directions.
LEMMA AddServicesKeeps ==
    ASSUME Registry, NoneRemoved, NEW i \in Instance, i \in Spawned(instance)',
           NEW ss \in SUBSET Service, AddServices(i, ss)
    PROVE  Registry'
<1>1. RegistryType'
    BY DEF Registry, RegistryType, NoneRemoved, AddServices
<1>2. RegistryConsistent'
    BY DEF Registry, RegistryType, RegistryConsistent, NoneRemoved, AddServices, Spawned
<1> QED
    BY <1>1, <1>2 DEF Registry

\* A grant flags an instance busy and removes none.
LEMMA GrantRemovesNone ==
    ASSUME RegistryType, NEW inst \in [Instance -> InstanceState], NEW r, Grant(inst, r),
           \A i \in Instance : instance[i] \notin {"none", "gone"} => inst[i] \notin {"none", "gone"}
    PROVE  NoneRemoved
<1> DEFINE g == Min(Idle(inst, r.service))
<1>1. instance' = [inst EXCEPT ![g] = "busy"]
    BY DEF Grant
<1>2. \A i \in Instance : instance'[i] \in {"busy", inst[i]}
    BY <1>1
<1> QED
    BY <1>1, <1>2 DEF NoneRemoved, InstanceState

\* update::instances boots or flags instances and removes none of inst.
LEMMA UpdateRemovesNone ==
    ASSUME NEW inst \in [Instance -> InstanceState], NEW conf, NEW q,
           UpdateInstances(inst, conf, q)
    PROVE  /\ instance' \in [Instance -> InstanceState]
           /\ \A i \in Instance : inst[i] \notin {"none", "gone"} => instance'[i] \notin {"none", "gone"}
           /\ \A i \in Instance : instance'[i] \in {"booted", "shutdown", inst[i]}
BY DEF UpdateInstances, InstanceState

\* The registry never refers to an instance that has been removed, and both of its
\* directions agree (State::addServices, removeServices, remove_process).
THEOREM RegistryAlwaysConsistent == Spec => []RegistryConsistent
<1>1. Init => Registry
    BY DEF Init, Registry, RegistryType, RegistryConsistent, InstanceState, Spawned
<1>2. Registry /\ [Next]_vars => Registry'
    <2> SUFFICES ASSUME Registry, [Next]_vars PROVE Registry'
        OBVIOUS
    <2> USE DEF SameNames
    <2>0. RegistryType
        BY DEF Registry
    <2>1. ASSUME UNCHANGED brokerVars PROVE Registry'
        BY <2>0, <2>1, NamesKept DEF brokerVars, NoneRemoved, RegistryType
    <2>2. ASSUME NEW i \in Instance, Connect(i) PROVE Registry'
        <3>1. PICK ss \in SUBSET Service : AddServices(i, ss)
            BY <2>2 DEF Connect
        <3>2. NoneRemoved /\ i \in Spawned(instance)'
            BY <2>0, <2>2 DEF Connect, NoneRemoved, RegistryType, InstanceState, Spawned
        <3> QED
            BY <3>1, <3>2, AddServicesKeeps
    <2>3. ASSUME NEW i \in Instance, Advertise(i) PROVE Registry'
        <3>1. PICK ss \in SUBSET Service : AddServices(i, ss)
            BY <2>3 DEF Advertise
        <3>2. NoneRemoved /\ i \in Spawned(instance)'
            BY <2>0, <2>3 DEF Advertise, NoneRemoved, RegistryType, Spawned
        <3> QED
            BY <3>1, <3>2, AddServicesKeeps
    <2>4. ASSUME NEW i \in Instance, Unadvertise(i) PROVE Registry'
        <3>1. PICK s \in offers[i] : /\ advertised' = [advertised EXCEPT ![s] = @ \ {i}]
                                     /\ offers' = [offers EXCEPT ![i] = @ \ {s}]
            BY <2>4 DEF Unadvertise
        <3>2. s \in Service
            BY <2>0 DEF RegistryType
        <3>3. instance' = instance /\ services' = services
            BY <2>4 DEF Unadvertise
        <3> QED
            BY <3>1, <3>2, <3>3 DEF Registry, RegistryType, RegistryConsistent, Spawned
    <2>5. ASSUME NEW i \in Instance, HandleAck(i) PROVE Registry'
        <3> DEFINE idle == [instance EXCEPT ![i] = "idle"]
        <3>1. SameNames
            BY <2>5 DEF HandleAck
        <3>2. idle \in [Instance -> InstanceState]
            BY <2>0 DEF RegistryType, InstanceState
        <3>3. \A j \in Instance : instance[j] \notin {"none", "gone"} => idle[j] \notin {"none", "gone"}
            BY <2>0 DEF RegistryType
        <3>4. CASE instance' = instance
            BY <2>0, <3>1, <3>4, NamesKept DEF NoneRemoved, RegistryType
        <3>5. CASE instance' = idle
            BY <3>1, <3>2, <3>3, <3>5, NamesKept DEF NoneRemoved
        <3>6. CASE Grant(idle, pending[Min(Wanted(i))])
            BY <2>0, <3>1, <3>2, <3>3, <3>6, NamesKept, GrantRemovesNone
        <3> QED
            BY <2>5, <3>4, <3>5, <3>6 DEF HandleAck
    <2>6. ASSUME NEW i \in Instance, HandleDeath(i) PROVE Registry'
        <3> DEFINE inst == [instance EXCEPT ![i] = "gone"]
        <3>1. inst \in [Instance -> InstanceState]
            BY <2>0 DEF RegistryType, InstanceState
        <3>2. UpdateInstances(inst, configured, [queue EXCEPT ![i] = <<>>])
            BY <2>6 DEF HandleDeath
        <3>3. /\ instance' \in [Instance -> InstanceState]
              /\ \A j \in Instance \ {i} :
                    instance[j] \notin {"none", "gone"} => instance'[j] \notin {"none", "gone"}
            BY <2>0, <3>1, <3>2, UpdateRemovesNone DEF RegistryType
        <3>4. /\ advertised' = [s \in Service |-> IF s \in offers[i] THEN advertised[s] \ {i} ELSE advertised[s]]
              /\ offers' = [offers EXCEPT ![i] = {}]
              /\ services' = services
            BY <2>6 DEF HandleDeath
        <3>5. \A s \in Service : i \notin advertised'[s]
            BY <3>4 DEF Registry, RegistryConsistent
        <3>6. \A s \in Service, j \in Instance \ {i} :
                  /\ j \in advertised'[s] <=> j \in advertised[s]
                  /\ offers'[j] = offers[j]
            BY <2>0, <3>4 DEF RegistryType
        <3>7. RegistryType'
            BY <2>0, <3>3, <3>4 DEF RegistryType
        <3>8. RegistryConsistent'
            BY <2>0, <3>3, <3>4, <3>5, <3>6 DEF Registry, RegistryType, RegistryConsistent, Spawned
        <3> QED
            BY <3>7, <3>8 DEF Registry
    <2>7. ASSUME NEW c \in Caller, HandleLookup(c) PROVE Registry'
        <3>1. SameNames
            BY <2>7 DEF HandleLookup
        <3>2. CASE instance' = instance
            BY <2>0, <3>1, <3>2, NamesKept DEF NoneRemoved, RegistryType
        <3>3. ASSUME NEW r, Grant(instance, r) PROVE Registry'
            BY <2>0, <3>1, <3>3, NamesKept, GrantRemovesNone DEF RegistryType
        <3> QED
            BY <2>7, <3>2, <3>3 DEF HandleLookup
    <2>8. ASSUME NEW s \in Service, HandleForwardLookup(s) PROVE Registry'
        <3>1. SameNames
            BY <2>8 DEF HandleForwardLookup
        <3>2. CASE instance' = instance
            BY <2>0, <3>1, <3>2, NamesKept DEF NoneRemoved, RegistryType
        <3>3. ASSUME NEW r, Grant(instance, r) PROVE Registry'
            BY <2>0, <3>1, <3>3, NamesKept, GrantRemovesNone DEF RegistryType
        <3> QED
            BY <2>8, <3>2, <3>3 DEF HandleForwardLookup
    <2>9. ASSUME NEW n \in ScaleTo, Scale(n) PROVE Registry'
        <3>1. SameNames /\ UpdateInstances(instance, n, queue)
            BY <2>9 DEF Scale
        <3>2. NoneRemoved
            BY <2>0, <3>1, UpdateRemovesNone DEF NoneRemoved, RegistryType
        <3> QED
            BY <3>1, <3>2, NamesKept
    <2>10. CASE ServerNext
        BY <2>1, <2>10 DEF ServerNext, Serve, Exit, Kill
    <2>11. CASE CallerNext
        BY <2>1, <2>11 DEF CallerNext, Lookup, Call, Timeout, Die
    <2>12. CASE ForwardCall
        BY <2>1, <2>12 DEF ForwardCall
    <2>13. CASE UNCHANGED vars
        BY <2>1, <2>13 DEF vars, brokerVars
    <2> QED
        BY <2>2, <2>3, <2>4, <2>5, <2>6, <2>7, <2>8, <2>9, <2>10, <2>11, <2>12, <2>13
        DEF Next, BrokerNext
<1>3. Registry => RegistryConsistent
    BY DEF Registry
<1> QED
    BY <1>1, <1>2, <1>3, PTL DEF Spec

-----------------------------------------------------------------------------
(* Types.                                                                  *)

\* A set of natural numbers that is not empty has a least element.
LEMMA Least ==
    ASSUME NEW S \in SUBSET Nat, S # {}
    PROVE  Min(S) \in S /\ \A x \in S : Min(S) <= x
<1> DEFINE R == OpToRel(<, Nat)
<1>1. IsWellFoundedOn(R, Nat)
    BY NatLessThanWellFounded
<1>2. \A x, y \in Nat : <<y, x>> \in R <=> y < x
    BY DEF OpToRel
<1> HIDE DEF R
<1>a. S \subseteq Nat
    OBVIOUS
<1>b. \E x \in S : \A y \in S : ~ (<<y, x>> \in R)
    BY <1>1, <1>a, WFMin
<1>3. PICK x \in S : \A y \in S : ~ (<<y, x>> \in R)
    BY <1>b
<1>4. ASSUME NEW y \in S PROVE x <= y
    <2>1. x \in Nat /\ y \in Nat /\ ~ (<<y, x>> \in R)
        BY <1>3
    <2>2. ~ y < x
        BY <1>2, <2>1, Zenon
    <2> QED BY <2>1, <2>2
<1> QED BY <1>4 DEF Min

\* Appending to a sequence.
LEMMA Appended ==
    ASSUME NEW S, NEW q \in Seq(S), NEW e \in S
    PROVE  /\ Append(q, e) \in Seq(S) /\ Len(q) \in Nat /\ Len(Append(q, e)) = Len(q) + 1
           /\ DOMAIN q = 1 .. Len(q) /\ DOMAIN Append(q, e) = 1 .. Len(q) + 1
           /\ \A k \in 1 .. Len(q) : Append(q, e)[k] = q[k]
           /\ Append(q, e)[Len(q) + 1] = e
OBVIOUS

\* Reading a sequence.
LEMMA Removed ==
    ASSUME NEW S, NEW q \in Seq(S), q # <<>>
    PROVE  /\ Tail(q) \in Seq(S) /\ Len(q) \in Nat /\ Len(q) > 0 /\ Len(Tail(q)) = Len(q) - 1
           /\ DOMAIN q = 1 .. Len(q) /\ DOMAIN Tail(q) = 1 .. Len(q) - 1
           /\ \A k \in 1 .. Len(q) - 1 : Tail(q)[k] = q[k + 1]
           /\ Head(q) = q[1] /\ q[1] \in S
OBVIOUS

\* A concatenation.
LEMMA Joined ==
    ASSUME NEW S, NEW q \in Seq(S), NEW r \in Seq(S)
    PROVE  /\ q \o r \in Seq(S) /\ Len(q \o r) = Len(q) + Len(r) /\ Len(q) \in Nat /\ Len(r) \in Nat
           /\ DOMAIN (q \o r) = 1 .. Len(q) + Len(r)
           /\ \A k \in 1 .. Len(q) + Len(r) : (q \o r)[k] = IF k <= Len(q) THEN q[k] ELSE r[k - Len(q)]
OBVIOUS

\* Taking the element at k out of a sequence.
LEMMA RemovedAt ==
    ASSUME NEW S, NEW q \in Seq(S), NEW k \in DOMAIN q
    PROVE  /\ RemoveAt(q, k) \in Seq(S) /\ Len(q) \in Nat /\ Len(RemoveAt(q, k)) = Len(q) - 1
           /\ DOMAIN q = 1 .. Len(q) /\ DOMAIN RemoveAt(q, k) = 1 .. Len(q) - 1
           /\ \A j \in 1 .. Len(q) - 1 : RemoveAt(q, k)[j] = IF j < k THEN q[j] ELSE q[j + 1]
<1> DEFINE a == SubSeq(q, 1, k - 1)
           b == SubSeq(q, k + 1, Len(q))
<1>1. k \in 1 .. Len(q) /\ Len(q) \in Nat /\ DOMAIN q = 1 .. Len(q)
    OBVIOUS
<1>2. /\ a \in Seq(S) /\ Len(a) = k - 1 /\ \A j \in 1 .. k - 1 : a[j] = q[j]
    BY <1>1
<1>3. /\ b \in Seq(S) /\ Len(b) = Len(q) - k /\ \A j \in 1 .. Len(q) - k : b[j] = q[k + j]
    BY <1>1
<1>4. RemoveAt(q, k) = a \o b
    BY DEF RemoveAt
<1> HIDE DEF a, b
<1>j. /\ a \o b \in Seq(S) /\ Len(a \o b) = Len(a) + Len(b) /\ Len(a) \in Nat /\ Len(b) \in Nat
      /\ DOMAIN (a \o b) = 1 .. Len(a) + Len(b)
      /\ \A x \in 1 .. Len(a) + Len(b) : (a \o b)[x] = IF x <= Len(a) THEN a[x] ELSE b[x - Len(a)]
    BY <1>2, <1>3, Joined
<1>5. /\ a \o b \in Seq(S) /\ Len(a \o b) = Len(q) - 1 /\ DOMAIN (a \o b) = 1 .. Len(q) - 1
    BY <1>1, <1>2, <1>3, <1>j
<1>6. ASSUME NEW j \in 1 .. Len(q) - 1
      PROVE  (a \o b)[j] = IF j < k THEN q[j] ELSE q[j + 1]
    <2>1. (a \o b)[j] = IF j <= k - 1 THEN a[j] ELSE b[j - (k - 1)]
        BY <1>1, <1>2, <1>3, <1>j
    <2>2. CASE j < k
        BY <1>1, <1>2, <2>1, <2>2
    <2>3. CASE ~ j < k
        <3>1. j - (k - 1) \in 1 .. Len(q) - k /\ k + (j - (k - 1)) = j + 1 /\ ~ j <= k - 1
            BY <1>1, <2>3
        <3>2. b[j - (k - 1)] = q[k + (j - (k - 1))]
            BY <1>3, <3>1
        <3> QED BY <2>1, <2>3, <3>1, <3>2
    <2> QED BY <2>2, <2>3
<1> QED BY <1>1, <1>4, <1>5, <1>6

\* What a caller knows of an instance.
Having == {"granted", "offered"}
Waits == {"idle", "looking", "waiting", "calling"}

\* A caller that gives up or gets an answer.
LEMMA StateGiven ==
    ASSUME NEW o \in CallerState, NEW st \in Waits
    PROVE  [o EXCEPT !.state = st] \in CallerState /\ [o EXCEPT !.state = st].state = st
<1>1. o.service \in Service /\ o.noreply \in BOOLEAN /\ o.instance \in 0 .. MaxPid
    BY BoundAssumption DEF CallerState, Instance
<1>2. [o EXCEPT !.state = st] =
         [state |-> st, service |-> o.service, noreply |-> o.noreply, instance |-> o.instance]
    <2>1. o = [state |-> o.state, service |-> o.service, noreply |-> o.noreply, instance |-> o.instance]
        BY DEF CallerState
    <2> QED BY <2>1
<1> QED BY <1>1, <1>2 DEF CallerState, Waits

\* A caller that is given an instance.
LEMMA InstanceGiven ==
    ASSUME NEW o \in CallerState, NEW st, NEW i
    PROVE  [o EXCEPT !.state = st, !.instance = i] =
               [state |-> st, service |-> o.service, noreply |-> o.noreply, instance |-> i]
<1>1. o = [state |-> o.state, service |-> o.service, noreply |-> o.noreply, instance |-> o.instance]
    BY DEF CallerState
<1> DEFINE a == [o EXCEPT !.state = st]
<1>2. a = [state |-> st, service |-> o.service, noreply |-> o.noreply, instance |-> o.instance]
    BY <1>1
<1>3. [o EXCEPT !.state = st, !.instance = i] = [a EXCEPT !.instance = i]
    BY Zenon
<1> HIDE DEF a
<1>4. [a EXCEPT !.instance = i] =
         [state |-> st, service |-> o.service, noreply |-> o.noreply, instance |-> i]
    BY <1>2
<1> QED BY <1>3, <1>4, Zenon

\* A caller is done, waits, or is given an instance.
Settles(c) == \E s \in CallerState : s.state \in Waits /\ caller' = [caller EXCEPT ![c] = s]
IsGiven(c, i) ==
    \E s \in CallerState :
        s.state \in Having /\ s.instance = i /\ caller' = [caller EXCEPT ![c] = s]

\* What ServiceLookup and ACK do when an instance is idle: it is busy, and the forward cache
\* has it, or the caller, or nobody, if the caller is gone or has given the lookup up.
LEMMA GrantCases ==
    ASSUME TypeOK, NEW inst \in [Instance -> InstanceState], NEW r \in Request,
           Idle(inst, r.service) # {}, Grant(inst, r)
    PROVE  \E i \in Instance :
              /\ inst[i] = "idle" /\ instance' = [inst EXCEPT ![i] = "busy"]
              /\ \/ /\ r.caller = Forward /\ granted' = granted \cup {<<r.service, i>>}
                    /\ running' = running /\ caller' = caller
                 \/ /\ r.caller \in Caller /\ caller[r.caller].state \notin Having
                    /\ IsGiven(r.caller, i)
                    /\ running' = running /\ granted' = granted
                 \/ /\ r.caller \in Caller /\ running' = (r.caller \in alive)
                    /\ caller' = caller /\ granted' = granted
<1> DEFINE S == Idle(inst, r.service)
           i == Min(S)
           st == IF caller[r.caller].state = "looking" THEN "granted" ELSE "offered"
           o == caller[r.caller]
           a == [o EXCEPT !.state = st, !.instance = i]
<1>1. S \in SUBSET Nat
    BY DEF Idle, TypeOK, Instance, Request
<1>2. i \in S
    BY <1>1, Least
<1>3. i \in Instance /\ inst[i] = "idle"
    BY <1>2 DEF Idle, TypeOK, Request
<1>4. st \in Having
    BY DEF Having
<1>5. /\ instance' = [inst EXCEPT ![i] = "busy"]
      /\ \/ /\ r.caller = Forward
            /\ granted' = granted \cup {<<r.service, i>>}
            /\ running' = running /\ caller' = caller
         \/ /\ r.caller # Forward /\ Current(r)
            /\ caller' = [caller EXCEPT ![r.caller] = a]
            /\ running' = running /\ granted' = granted
         \/ /\ r.caller # Forward
            /\ running' = (r.caller \in alive)
            /\ caller' = caller /\ granted' = granted
    BY Zenon DEF Grant
<1> HIDE DEF i, S, st
<1>6. CASE r.caller = Forward /\ granted' = granted \cup {<<r.service, i>>} /\ running' = running /\ caller' = caller
    BY <1>3, <1>5, <1>6
<1>7. CASE /\ r.caller # Forward /\ Current(r)
           /\ caller' = [caller EXCEPT ![r.caller] = a]
           /\ running' = running /\ granted' = granted
    <2>1. r.caller \in Caller /\ caller[r.caller].state \in {"looking", "waiting"}
        BY <1>7 DEF Current, Request
    <2>2. o \in CallerState
        BY <2>1 DEF TypeOK
    <2> HIDE DEF o
    <2>3. a = [state |-> st, service |-> o.service, noreply |-> o.noreply, instance |-> i]
        BY <2>2, InstanceGiven
    <2> HIDE DEF a
    <2>5. a \in CallerState /\ a.state = st /\ a.instance = i
        BY <1>3, <1>4, <2>2, <2>3 DEF CallerState, Having
    <2>4. IsGiven(r.caller, i)
        BY <1>4, <1>7, <2>5 DEF IsGiven
    <2> QED BY <1>3, <1>5, <1>7, <2>1, <2>4 DEF Having
<1>8. CASE r.caller # Forward /\ running' = (r.caller \in alive) /\ caller' = caller /\ granted' = granted
    <2>1. r.caller \in Caller
        BY <1>8 DEF Request
    <2> QED BY <1>3, <1>5, <1>8, <2>1
<1> QED BY <1>5, <1>6, <1>7, <1>8

\* A caller whose state is set.
LEMMA StateSet ==
    ASSUME TypeOK, NEW c \in Caller, NEW st \in Waits, caller' = [caller EXCEPT ![c].state = st]
    PROVE  Settles(c)
<1> DEFINE o == caller[c]
           a == [o EXCEPT !.state = st]
<1>1. caller' = [caller EXCEPT ![c] = a]
    BY Zenon
<1>2. o \in CallerState
    BY DEF TypeOK
<1> HIDE DEF o
<1>3. a \in CallerState /\ a.state = st
    BY <1>2, StateGiven
<1> HIDE DEF a
<1> QED BY <1>1, <1>3 DEF Settles

\* What ServiceLookup does for a caller.
LEMMA LookupCases ==
    ASSUME TypeOK, NEW c \in Caller, HandleLookup(c)
    PROVE  /\ running
           /\ UNCHANGED <<configured, scales, services, advertised, offers, process, queue, acks, deaths,
                          lookups, alive>>
           /\ \/ running' = FALSE /\ UNCHANGED <<instance, pending, caller, requested, asked, granted>>
              \/ /\ Settles(c) /\ caller[c].state \notin Having /\ UNCHANGED <<running, instance, granted>>
                 /\ \/ UNCHANGED <<pending, requested, asked>>
                    \/ \E s \in Service : /\ requested' = [requested EXCEPT ![s] = @ + 1]
                                          /\ asked' = [asked EXCEPT ![s] = @ + 1]
                                          /\ pending' = pending
                    \/ \E r \in Request : /\ r.caller = c /\ pending' = Append(pending, r)
                                          /\ UNCHANGED <<requested, asked>>
              \/ /\ UNCHANGED <<pending, requested, asked>>
                 /\ \E r \in Request :
                       r.caller = c /\ Idle(instance, r.service) # {} /\ Grant(instance, r)
<1> DEFINE s == caller[c].service
           r == [caller |-> c, service |-> s, correlation |-> lookups[c]]
<1>1. s \in Service /\ lookups[c] \in Nat
    BY DEF TypeOK, CallerState
<1>2. r \in Request /\ r.caller = c /\ r.service = s
    BY <1>1 DEF Request
<1>3. /\ running /\ caller[c].state = "looking"
      /\ \/ /\ c \notin alive
            /\ running' = FALSE
            /\ UNCHANGED <<instance, pending, caller, requested, asked, granted>>
         \/ /\ caller' = [caller EXCEPT ![c].state = "idle"]
            /\ UNCHANGED <<running, instance, pending, requested, asked, granted>>
         \/ /\ Idle(instance, s) # {}
            /\ Grant(instance, r)
            /\ UNCHANGED <<pending, requested, asked>>
         \/ /\ caller' = [caller EXCEPT ![c].state = "idle"]
            /\ requested' = [requested EXCEPT ![s] = @ + 1]
            /\ asked' = [asked EXCEPT ![s] = @ + 1]
            /\ UNCHANGED pending
            /\ UNCHANGED <<running, instance, granted>>
         \/ /\ pending' = Append(pending, r)
            /\ caller' = [caller EXCEPT ![c].state = "waiting"]
            /\ UNCHANGED <<requested, asked>>
            /\ UNCHANGED <<running, instance, granted>>
      /\ UNCHANGED <<configured, scales, services, advertised, offers, serverVars, lookups, alive>>
    BY Zenon DEF HandleLookup
<1>4. caller[c].state \notin Having
    BY <1>3 DEF Having
<1> HIDE DEF r, s
<1>5. caller' = [caller EXCEPT ![c].state = "idle"] => Settles(c)
    BY StateSet DEF Waits
<1>6. caller' = [caller EXCEPT ![c].state = "waiting"] => Settles(c)
    BY StateSet DEF Waits
<1> QED BY <1>1, <1>2, <1>3, <1>4, <1>5, <1>6 DEF serverVars

\* What ServiceLookup does for the forward cache.
LEMMA ForwardCases ==
    ASSUME TypeOK, NEW s \in Service, HandleForwardLookup(s)
    PROVE  /\ running /\ asked[s] > 0 /\ asked' = [asked EXCEPT ![s] = @ - 1]
           /\ UNCHANGED <<configured, scales, services, advertised, offers, process, queue, acks, deaths,
                          lookups, alive, requested>>
           /\ \E r \in Request :
                 /\ r.caller = Forward /\ r.service = s
                 /\ \/ Idle(instance, r.service) # {} /\ Grant(instance, r) /\ pending' = pending
                    \/ pending' = Append(pending, r) /\ UNCHANGED <<running, instance, caller, granted>>
<1> DEFINE r == [caller |-> Forward, service |-> s, correlation |-> 0]
<1>1. r \in Request /\ r.caller = Forward /\ r.service = s
    BY DEF Request
<1>2. /\ running /\ asked[s] > 0
      /\ asked' = [asked EXCEPT ![s] = @ - 1]
      /\ \/ /\ Idle(instance, s) # {}
            /\ Grant(instance, r)
            /\ UNCHANGED pending
         \/ /\ pending' = Append(pending, r)
            /\ UNCHANGED <<running, instance, caller, granted>>
      /\ UNCHANGED <<configured, scales, services, advertised, offers, serverVars, lookups, alive, requested>>
    BY Zenon DEF HandleForwardLookup
<1> HIDE DEF r
<1> QED BY <1>1, <1>2 DEF serverVars

\* What ACK does: the first request that waits for a service of the instance is served.
LEMMA AckCases ==
    ASSUME TypeOK, RegistryConsistent, NEW i \in Instance, HandleAck(i)
    PROVE  /\ running /\ acks[i] > 0 /\ acks' = [acks EXCEPT ![i] = @ - 1]
           /\ UNCHANGED <<configured, scales, services, advertised, offers, process, queue, deaths, lookups,
                          alive, requested, asked>>
           /\ \/ UNCHANGED <<running, instance, pending, caller, granted>>
              \/ /\ instance' = [instance EXCEPT ![i] = "idle"]
                 /\ UNCHANGED <<running, pending, caller, granted>>
              \/ \E k \in DOMAIN pending :
                    /\ pending[k] \in Request /\ pending[k].service \in offers[i]
                    /\ \A j \in 1 .. k - 1 : pending[j].service \notin offers[i]
                    /\ Idle([instance EXCEPT ![i] = "idle"], pending[k].service) # {}
                    /\ Grant([instance EXCEPT ![i] = "idle"], pending[k])
                    /\ pending' = IF running' THEN RemoveAt(pending, k) ELSE pending
<1> DEFINE idle == [instance EXCEPT ![i] = "idle"]
           W == Wanted(i)
           k == Min(W)
<1>1. /\ running /\ acks[i] > 0 /\ acks' = [acks EXCEPT ![i] = @ - 1]
      /\ \/ UNCHANGED <<running, instance, pending, caller, granted>>
         \/ instance' = idle /\ UNCHANGED <<running, pending, caller, granted>>
         \/ /\ W # {} /\ Grant(idle, pending[k])
            /\ pending' = IF running' THEN RemoveAt(pending, k) ELSE pending
      /\ UNCHANGED <<configured, scales, services, advertised, offers, process, queue, deaths, lookups,
                     alive, requested, asked>>
    BY Zenon DEF HandleAck
<1>2. ASSUME W # {}
      PROVE  /\ k \in DOMAIN pending /\ pending[k] \in Request /\ pending[k].service \in offers[i]
             /\ \A j \in 1 .. k - 1 : pending[j].service \notin offers[i]
             /\ Idle(idle, pending[k].service) # {}
    <2>1. W \in SUBSET Nat /\ DOMAIN pending = 1 .. Len(pending) /\ Len(pending) \in Nat
        BY DEF Wanted, TypeOK
    <2>2. k \in W /\ \A x \in W : k <= x
        BY <1>2, <2>1, Least
    <2> HIDE DEF k
    <2>3. k \in 1 .. Len(pending) /\ pending[k] \in Request /\ pending[k].service \in offers[i]
        BY <2>1, <2>2 DEF Wanted, TypeOK
    <2>4. ASSUME NEW j \in 1 .. k - 1 PROVE pending[j].service \notin offers[i]
        <3>1. j \in 1 .. Len(pending) /\ ~ k <= j
            BY <2>1, <2>3
        <3> QED BY <2>1, <2>2, <3>1 DEF Wanted
    <2>5. pending[k].service \in Service
        BY <2>3 DEF Request
    <2>6. i \in advertised[pending[k].service] /\ idle[i] = "idle"
        BY <2>3, <2>5 DEF RegistryConsistent, TypeOK
    <2> QED BY <2>1, <2>3, <2>4, <2>6 DEF Idle
<1> HIDE DEF W, k, idle
<1>3. CASE W # {} /\ Grant(idle, pending[k]) /\ pending' = IF running' THEN RemoveAt(pending, k) ELSE pending
    <2>1. Grant(idle, pending[k]) /\ pending' = IF running' THEN RemoveAt(pending, k) ELSE pending
        BY <1>3
    <2> QED BY <1>1, <1>2, <1>3, <2>1 DEF idle
<1> QED BY <1>1, <1>3 DEF idle

\* What a grant leaves of the types.
LEMMA GrantTypes ==
    ASSUME TypeOK, NEW inst \in [Instance -> InstanceState], NEW r \in Request,
           Idle(inst, r.service) # {}, Grant(inst, r)
    PROVE  /\ running' \in BOOLEAN /\ instance' \in [Instance -> InstanceState]
           /\ caller' \in [Caller -> CallerState] /\ granted' \subseteq Service \X Instance
<1>1. PICK i \in Instance :
              /\ inst[i] = "idle" /\ instance' = [inst EXCEPT ![i] = "busy"]
              /\ \/ /\ r.caller = Forward /\ granted' = granted \cup {<<r.service, i>>}
                    /\ running' = running /\ caller' = caller
                 \/ /\ r.caller \in Caller /\ caller[r.caller].state \notin Having
                    /\ IsGiven(r.caller, i)
                    /\ running' = running /\ granted' = granted
                 \/ /\ r.caller \in Caller /\ running' = (r.caller \in alive)
                    /\ caller' = caller /\ granted' = granted
    BY Zenon, GrantCases
<1>2. running' \in BOOLEAN
    <2> DEFINE b == r.caller \in alive
    <2>1. running' = running \/ running' = b
        BY Zenon, <1>1
    <2>2. b \in BOOLEAN
        OBVIOUS
    <2>3. running \in BOOLEAN
        BY DEF TypeOK
    <2> HIDE DEF b
    <2> QED BY <2>1, <2>2, <2>3
<1>3. instance' \in [Instance -> InstanceState]
    BY <1>1 DEF InstanceState
<1>4. caller' \in [Caller -> CallerState]
    BY <1>1 DEF TypeOK, IsGiven
<1>5. r.service \in Service
    BY DEF Request
<1>6. granted' \subseteq Service \X Instance
    BY <1>1, <1>5 DEF TypeOK
<1> QED BY <1>2, <1>3, <1>4, <1>6

\* update::instances keeps the types.
LEMMA UpdateTypes ==
    ASSUME NEW inst \in [Instance -> InstanceState], NEW conf, NEW q \in [Instance -> Seq(Message)],
           UpdateInstances(inst, conf, q)
    PROVE  instance' \in [Instance -> InstanceState] /\ queue' \in [Instance -> Seq(Message)]
<1>1. Shutdown \in Message
    BY DEF Message
<1>2. instance' \in [Instance -> InstanceState]
    BY UpdateRemovesNone
<1>3. PICK last : queue' = [i \in Instance |-> IF i \in last /\ process[i] \in {"up", "killed"}
                                               THEN Append(q[i], Shutdown) ELSE q[i]]
    BY Zenon DEF UpdateInstances
<1>4. \A i \in Instance : Append(q[i], Shutdown) \in Seq(Message)
    BY <1>1
<1> QED BY <1>2, <1>3, <1>4

\* Every step keeps the types.
LEMMA TypesKept ==
    ASSUME TypeOK, RegistryConsistent, [Next]_vars
    PROVE  TypeOK'
<1> USE DEF brokerVars, serverVars, callerVars, forwardVars
<1>1. CASE UNCHANGED vars
    BY <1>1 DEF vars, TypeOK
<1>2. ASSUME NEW i \in Instance, NEW ss \in SUBSET Service, AddServices(i, ss)
      PROVE  /\ services' \subseteq Service /\ advertised' \in [Service -> SUBSET Instance]
             /\ offers' \in [Instance -> SUBSET Service]
    BY <1>2 DEF AddServices, TypeOK
<1>3. ASSUME NEW i \in Instance, Connect(i) PROVE TypeOK'
    <2>1. PICK ss \in SUBSET Service : AddServices(i, ss)
        BY <1>3 DEF Connect
    <2>2. /\ services' \subseteq Service /\ advertised' \in [Service -> SUBSET Instance]
          /\ offers' \in [Instance -> SUBSET Service]
        BY <1>2, <2>1
    <2>3. /\ process' \in [Instance -> {"starting", "up", "killed", "exited"}]
          /\ instance' \in [Instance -> InstanceState]
        BY <1>3 DEF Connect, TypeOK, InstanceState
    <2> QED BY <1>3, <2>2, <2>3 DEF Connect, TypeOK
<1>4. ASSUME NEW i \in Instance, Advertise(i) PROVE TypeOK'
    <2>1. PICK ss \in SUBSET Service : AddServices(i, ss)
        BY <1>4 DEF Advertise
    <2>2. /\ services' \subseteq Service /\ advertised' \in [Service -> SUBSET Instance]
          /\ offers' \in [Instance -> SUBSET Service]
        BY <1>2, <2>1
    <2> QED BY <1>4, <2>2 DEF Advertise, TypeOK
<1>5. ASSUME NEW i \in Instance, Unadvertise(i) PROVE TypeOK'
    <2>1. advertised' \in [Service -> SUBSET Instance] /\ offers' \in [Instance -> SUBSET Service]
        BY <1>5 DEF Unadvertise, TypeOK
    <2> QED BY <1>5, <2>1 DEF Unadvertise, TypeOK
<1>6. ASSUME NEW i \in Instance, HandleAck(i) PROVE TypeOK'
    <2>0. acks[i] > 0 /\ acks' = [acks EXCEPT ![i] = @ - 1]
        BY Zenon, <1>6, AckCases
    <2>1. acks' \in [Instance -> Nat]
        BY <2>0 DEF TypeOK
    <2>2. [instance EXCEPT ![i] = "idle"] \in [Instance -> InstanceState]
        BY DEF TypeOK, InstanceState
    <2>3. ASSUME NEW k \in DOMAIN pending, pending[k] \in Request,
                 Idle([instance EXCEPT ![i] = "idle"], pending[k].service) # {},
                 Grant([instance EXCEPT ![i] = "idle"], pending[k]),
                 pending' = IF running' THEN RemoveAt(pending, k) ELSE pending
          PROVE  /\ running' \in BOOLEAN /\ instance' \in [Instance -> InstanceState]
                 /\ caller' \in [Caller -> CallerState] /\ granted' \subseteq Service \X Instance
                 /\ pending' \in Seq(Request)
        <3>1. RemoveAt(pending, k) \in Seq(Request)
            BY RemovedAt DEF TypeOK
        <3>2. pending' \in Seq(Request)
            BY <2>3, <3>1 DEF TypeOK
        <3> QED BY <2>2, <2>3, <3>2, GrantTypes
    <2>4. /\ running' \in BOOLEAN /\ instance' \in [Instance -> InstanceState]
          /\ caller' \in [Caller -> CallerState] /\ granted' \subseteq Service \X Instance
          /\ pending' \in Seq(Request)
        BY <1>6, <2>2, <2>3, AckCases DEF TypeOK
    <2>5. UNCHANGED <<configured, scales, services, advertised, offers, process, queue, deaths, lookups,
                      alive, requested, asked>>
        BY <1>6, AckCases
    <2> QED BY <2>1, <2>4, <2>5 DEF TypeOK
<1>7. ASSUME NEW i \in Instance, HandleDeath(i) PROVE TypeOK'
    <2>1. [instance EXCEPT ![i] = "gone"] \in [Instance -> InstanceState]
        BY DEF TypeOK, InstanceState
    <2>2. [queue EXCEPT ![i] = <<>>] \in [Instance -> Seq(Message)]
        BY DEF TypeOK
    <2>3. instance' \in [Instance -> InstanceState] /\ queue' \in [Instance -> Seq(Message)]
        BY <1>7, <2>1, <2>2, UpdateTypes DEF HandleDeath
    <2>4. /\ process' \in [Instance -> {"starting", "up", "killed", "exited"}]
          /\ advertised' \in [Service -> SUBSET Instance] /\ offers' \in [Instance -> SUBSET Service]
        BY <1>7 DEF HandleDeath, TypeOK
    <2> QED BY <1>7, <2>3, <2>4 DEF HandleDeath, TypeOK
<1>8. ASSUME NEW c \in Caller, HandleLookup(c) PROVE TypeOK'
    <2>1. ASSUME NEW r \in Request, Idle(instance, r.service) # {}, Grant(instance, r)
          PROVE  /\ running' \in BOOLEAN /\ instance' \in [Instance -> InstanceState]
                 /\ caller' \in [Caller -> CallerState] /\ granted' \subseteq Service \X Instance
        BY <2>1, GrantTypes DEF TypeOK
    <2>2. Settles(c) => caller' \in [Caller -> CallerState]
        BY DEF Settles, TypeOK
    <2>3. /\ running' \in BOOLEAN /\ instance' \in [Instance -> InstanceState]
          /\ caller' \in [Caller -> CallerState] /\ granted' \subseteq Service \X Instance
        BY <1>8, <2>1, <2>2, LookupCases DEF TypeOK
    <2>7. \/ UNCHANGED <<pending, requested, asked>>
          \/ \E s \in Service : /\ requested' = [requested EXCEPT ![s] = @ + 1]
                                /\ asked' = [asked EXCEPT ![s] = @ + 1]
                                /\ pending' = pending
          \/ \E r \in Request : pending' = Append(pending, r) /\ UNCHANGED <<requested, asked>>
        BY <1>8, LookupCases
    <2>8. pending \in Seq(Request) /\ requested \in [Service -> Nat] /\ asked \in [Service -> Nat]
        BY DEF TypeOK
    <2>9. \A r \in Request : Append(pending, r) \in Seq(Request)
        BY <2>8
    <2>4. pending' \in Seq(Request)
        BY <2>7, <2>8, <2>9
    <2>5. requested' \in [Service -> Nat] /\ asked' \in [Service -> Nat]
        <3>1. ASSUME NEW s \in Service, requested' = [requested EXCEPT ![s] = @ + 1], asked' = [asked EXCEPT ![s] = @ + 1]
              PROVE  requested' \in [Service -> Nat] /\ asked' \in [Service -> Nat]
            BY <2>8, <3>1
        <3> QED BY <2>7, <2>8, <3>1
    <2>6. UNCHANGED <<configured, scales, services, advertised, offers, process, queue, acks, deaths,
                      lookups, alive>>
        BY <1>8, LookupCases
    <2> QED BY <2>3, <2>4, <2>5, <2>6 DEF TypeOK
<1>9. ASSUME NEW s \in Service, HandleForwardLookup(s) PROVE TypeOK'
    <2>1. PICK r \in Request :
              \/ Idle(instance, r.service) # {} /\ Grant(instance, r) /\ pending' = pending
              \/ pending' = Append(pending, r) /\ UNCHANGED <<running, instance, caller, granted>>
        BY <1>9, ForwardCases
    <2>2. /\ running' \in BOOLEAN /\ instance' \in [Instance -> InstanceState]
          /\ caller' \in [Caller -> CallerState] /\ granted' \subseteq Service \X Instance
        BY <2>1, GrantTypes DEF TypeOK
    <2>5. pending \in Seq(Request)
        BY DEF TypeOK
    <2>3. pending' \in Seq(Request)
        BY <2>1, <2>5
    <2>4. /\ UNCHANGED <<configured, scales, services, advertised, offers, process, queue, acks, deaths,
                         lookups, alive, requested>>
          /\ asked' \in [Service -> Nat]
        BY <1>9, ForwardCases DEF TypeOK
    <2> QED BY <2>2, <2>3, <2>4 DEF TypeOK
<1>10. ASSUME NEW n \in ScaleTo, Scale(n) PROVE TypeOK'
    <2>1. instance' \in [Instance -> InstanceState] /\ queue' \in [Instance -> Seq(Message)]
        BY <1>10, UpdateTypes DEF Scale, TypeOK
    <2>2. configured' \in 0 .. MaxPid /\ scales' \in Nat
        BY <1>10, BoundAssumption DEF Scale, TypeOK
    <2> QED BY <1>10, <2>1, <2>2 DEF Scale, TypeOK
<1>11. ASSUME NEW i \in Instance, Serve(i) PROVE TypeOK'
    <2>1. queue[i] \in Seq(Message) /\ queue[i] # <<>>
        BY <1>11 DEF Serve, Reads, TypeOK
    <2>2. queue' \in [Instance -> Seq(Message)] /\ acks' \in [Instance -> Nat]
        BY <1>11, <2>1 DEF Serve, TypeOK
    <2>3. caller' \in [Caller -> CallerState]
        <3> DEFINE c == Head(queue[i]).caller
        <3>1. \/ caller' = caller
              \/ c # Forward /\ caller' = [caller EXCEPT ![c].state = "idle"]
            BY <1>11, Zenon DEF Serve
        <3>2. CASE c # Forward /\ caller' = [caller EXCEPT ![c].state = "idle"]
            <4>1. Head(queue[i]).type = "call" /\ Head(queue[i]) \in Message
                BY <1>11, <2>1 DEF Serve, Reads
            <4>2. c \in Caller
                BY <3>2, <4>1 DEF Message, Shutdown
            <4> HIDE DEF c
            <4>3. Settles(c)
                BY <3>2, <4>2, StateSet DEF Waits
            <4> QED BY <4>2, <4>3 DEF Settles, TypeOK
        <3> QED BY <3>1, <3>2 DEF TypeOK
    <2> QED BY <1>11, <2>2, <2>3 DEF Serve, TypeOK
<1>12. ASSUME NEW i \in Instance, Exit(i) PROVE TypeOK'
    <2>1. queue \in [Instance -> Seq(Message)] /\ queue' = [queue EXCEPT ![i] = <<>>]
        BY <1>12 DEF Exit, TypeOK
    <2>2. queue' \in [Instance -> Seq(Message)]
        BY <2>1
    <2>3. /\ process' \in [Instance -> {"starting", "up", "killed", "exited"}]
          /\ deaths' \subseteq Instance
        BY <1>12 DEF Exit, TypeOK
    <2> QED BY <1>12, <2>2, <2>3 DEF Exit, TypeOK
<1>18. ASSUME NEW i \in Instance, Kill(i) PROVE TypeOK'
    <2>3. /\ process' \in [Instance -> {"starting", "up", "killed", "exited"}]
          /\ deaths' \subseteq Instance
        BY <1>18 DEF Kill, TypeOK
    <2> QED BY <1>18, <2>3 DEF Kill, TypeOK
<1>13. ASSUME NEW c \in Caller, Lookup(c) PROVE TypeOK'
    <2>1. PICK s \in Service, n \in BOOLEAN :
              caller' = [caller EXCEPT ![c] = [state |-> "looking", service |-> s, noreply |-> n, instance |-> 0]]
        BY <1>13 DEF Lookup
    <2>2. [state |-> "looking", service |-> s, noreply |-> n, instance |-> 0] \in CallerState
        BY BoundAssumption DEF CallerState
    <2>3. caller' \in [Caller -> CallerState]
        BY <2>1, <2>2 DEF TypeOK
    <2>4. lookups' \in [Caller -> Nat]
        BY <1>13 DEF Lookup, TypeOK
    <2> QED BY <1>13, <2>3, <2>4 DEF Lookup, TypeOK
<1>14. ASSUME NEW c \in Caller, Call(c) PROVE TypeOK'
    <2> DEFINE i == caller[c].instance
    <2>1. i \in Instance
        BY <1>14 DEF Call, HasInstance, TypeOK, CallerState
    <2>2. Query(c, lookups[c]) \in Message
        BY DEF Query, Message, TypeOK
    <2>3. /\ \/ queue' = [queue EXCEPT ![i] = Append(@, Query(c, lookups[c]))] /\ acks' = acks
             \/ acks' = [acks EXCEPT ![i] = @ + 1] /\ queue' = queue
          /\ \/ caller' = [caller EXCEPT ![c].state = "idle"]
             \/ caller' = [caller EXCEPT ![c].state = "calling"]
        BY <1>14, Zenon DEF Call
    <2> HIDE DEF i
    <2>4. Settles(c)
        BY <2>3, StateSet DEF Waits
    <2>5. caller' \in [Caller -> CallerState]
        BY <2>4 DEF Settles, TypeOK
    <2>7. queue \in [Instance -> Seq(Message)] /\ acks \in [Instance -> Nat]
        BY DEF TypeOK
    <2>8. Append(queue[i], Query(c, lookups[c])) \in Seq(Message)
        BY <2>1, <2>2, <2>7
    <2> DEFINE a == Append(queue[i], Query(c, lookups[c]))
    <2>9. queue' = [queue EXCEPT ![i] = a] \/ queue' = queue
        BY <2>3
    <2>10. a \in Seq(Message)
        BY <2>8
    <2> HIDE DEF a
    <2>6. queue' \in [Instance -> Seq(Message)] /\ acks' \in [Instance -> Nat]
        <3>1. queue' \in [Instance -> Seq(Message)]
            BY <2>7, <2>9, <2>10
        <3>2. acks' \in [Instance -> Nat]
            BY <2>1, <2>3, <2>7
        <3> QED BY <3>1, <3>2
    <2> QED BY <1>14, <2>5, <2>6 DEF Call, TypeOK
<1>15. ASSUME NEW c \in Caller, Timeout(c) PROVE TypeOK'
    <2>1. Settles(c)
        BY <1>15, StateSet DEF Timeout, Waits
    <2>2. caller' \in [Caller -> CallerState]
        BY <2>1 DEF Settles, TypeOK
    <2>3. acks' \in [Instance -> Nat]
        BY <1>15 DEF Timeout, HasInstance, TypeOK, CallerState
    <2> QED BY <1>15, <2>2, <2>3 DEF Timeout, TypeOK
<1>16. ASSUME NEW c \in Caller, Die(c) PROVE TypeOK'
    BY <1>16 DEF Die, TypeOK
<1>17. ASSUME ForwardCall PROVE TypeOK'
    <2>1. PICK g \in granted :
              /\ granted' = granted \ {g}
              /\ requested' = [requested EXCEPT ![g[1]] = IF @ > 0 THEN @ - 1 ELSE 0]
              /\ \/ queue' = queue
                 \/ queue' = [queue EXCEPT ![g[2]] = Append(@, Query(Forward, 0))]
              /\ UNCHANGED <<brokerVars, process, acks, deaths, callerVars, asked>>
        BY <1>17, Zenon DEF ForwardCall
    <2>2. g[1] \in Service /\ g[2] \in Instance
        BY DEF TypeOK
    <2>3. Query(Forward, 0) \in Message
        BY DEF Query, Message
    <2> DEFINE a == Append(queue[g[2]], Query(Forward, 0))
    <2>5. queue \in [Instance -> Seq(Message)]
        BY DEF TypeOK
    <2>6. a \in Seq(Message)
        BY <2>2, <2>3, <2>5
    <2>7. queue' = [queue EXCEPT ![g[2]] = a] \/ queue' = queue
        BY <2>1
    <2> HIDE DEF a
    <2>8. queue' \in [Instance -> Seq(Message)]
        BY <2>5, <2>6, <2>7
    <2>4. requested' \in [Service -> Nat]
        BY <2>1, <2>2 DEF TypeOK
    <2> QED BY <2>1, <2>4, <2>8 DEF TypeOK
<1> QED BY <1>1, <1>3, <1>4, <1>5, <1>6, <1>7, <1>8, <1>9, <1>10, <1>11, <1>12, <1>13, <1>14, <1>15, <1>16, <1>17, <1>18
        DEF Next, BrokerNext, ServerNext, CallerNext

\* The initial states have the types.
LEMMA InitTypes ==
    ASSUME Init
    PROVE  TypeOK
<1>1. NoCall \in CallerState
    BY BoundAssumption, ServiceAssumption DEF NoCall, CallerState
<1> QED BY <1>1, BoundAssumption DEF Init, TypeOK, InstanceState

\* The variables have their types, for any callers, services and number of instances.
THEOREM TypesCorrect == Spec => []TypeOK
<1>1. Init => TypeOK
    BY InitTypes
<1>2. TypeOK /\ RegistryConsistent /\ [Next]_vars => TypeOK'
    BY TypesKept
<1> QED BY <1>1, <1>2, RegistryAlwaysConsistent, PTL DEF Spec

-----------------------------------------------------------------------------
(* Who holds an instance.                                                  *)

\* The four places that Holders counts: the callers and the entries of the forward cache that have
\* been granted instance i, and the calls in its queue; the fourth is acks[i].
HeldBy(i) == {c \in Caller : caller[c].state \in Having /\ caller[c].instance = i}
GrantedOf(i) == {g \in granted : g[2] = i}
CallsIn(i) == {k \in DOMAIN queue[i] : queue[i][k].type = "call"}

\* Nobody holds the instance, or one place does, once.
One(S) == \A x, y \in S : x = y
Free(i) == HeldBy(i) = {} /\ GrantedOf(i) = {} /\ CallsIn(i) = {} /\ acks[i] = 0
Sole(i) ==
    \/ One(HeldBy(i)) /\ GrantedOf(i) = {} /\ CallsIn(i) = {} /\ acks[i] = 0
    \/ HeldBy(i) = {} /\ One(GrantedOf(i)) /\ CallsIn(i) = {} /\ acks[i] = 0
    \/ HeldBy(i) = {} /\ GrantedOf(i) = {} /\ One(CallsIn(i)) /\ acks[i] = 0
    \/ HeldBy(i) = {} /\ GrantedOf(i) = {} /\ CallsIn(i) = {} /\ acks[i] <= 1

\* The inductive invariant of the schedule: an instance has at most one holder, and none while it is
\* idle or has not connected, so that a connect or an ACK may call it idle whatever its state is.
Scheduled(i) ==
    /\ Sole(i)
    /\ process[i] = "starting" \/ instance[i] = "idle" => Free(i)
    /\ process[i] = "starting" => instance[i] # "idle"
Scheduling == \A i \in Instance : Scheduled(i)

\* A step gives instance i to nobody.
Fewer(i) ==
    /\ HeldBy(i)' \subseteq HeldBy(i)
    /\ GrantedOf(i)' \subseteq GrantedOf(i)
    /\ CallsIn(i)' \subseteq CallsIn(i)
    /\ acks'[i] \in Nat /\ acks'[i] <= acks[i]

\* Such a step keeps an instance free, or with its one holder.
LEMMA FewerKeeps ==
    ASSUME TypeOK, NEW i \in Instance, Fewer(i)
    PROVE  (Sole(i) => Sole(i)') /\ (Free(i) => Free(i)')
<1>1. acks[i] \in Nat /\ acks'[i] \in Nat /\ acks'[i] <= acks[i]
    BY DEF TypeOK, Fewer
<1>2. Free(i) => Free(i)'
    BY <1>1 DEF Free, Fewer
<1>3. ASSUME Sole(i) PROVE Sole(i)'
    BY <1>1, <1>3 DEF Sole, Fewer, One
<1> QED BY <1>2, <1>3

\* An instance that is given to nobody, connects not and is not made idle.
LEMMA Undisturbed ==
    ASSUME TypeOK, NEW i \in Instance, Scheduled(i), Fewer(i),
           process'[i] = "starting" => process[i] = "starting",
           instance'[i] = "idle" => instance[i] = "idle"
    PROVE  Scheduled(i)'
BY FewerKeeps DEF Scheduled

\* Free instances have one holder at most.
LEMMA FreeIsSole ==
    ASSUME NEW i \in Instance
    PROVE  Free(i) => Sole(i)
BY DEF Free, Sole, One

\* A caller that is done or waits holds nothing.
LEMMA SettlesHolds ==
    ASSUME TypeOK, NEW c \in Caller, Settles(c), NEW i \in Instance
    PROVE  HeldBy(i)' = HeldBy(i) \ {c}
<1>1. PICK s \in CallerState : s.state \in Waits /\ caller' = [caller EXCEPT ![c] = s]
    BY DEF Settles
<1> QED BY <1>1 DEF HeldBy, Having, Waits, TypeOK

\* A caller that had none is given one.
LEMMA GivenHolds ==
    ASSUME TypeOK, NEW c \in Caller, NEW g \in Instance, IsGiven(c, g), NEW i \in Instance
    PROVE  HeldBy(i)' \subseteq IF i = g THEN HeldBy(i) \cup {c} ELSE HeldBy(i)
<1>1. PICK s \in CallerState : s.state \in Having /\ s.instance = g /\ caller' = [caller EXCEPT ![c] = s]
    BY DEF IsGiven
<1> QED BY <1>1 DEF HeldBy, TypeOK

\* Variables that are left alone.
LEMMA SameHolders ==
    ASSUME TypeOK, NEW i \in Instance
    PROVE  /\ caller' = caller => HeldBy(i)' = HeldBy(i)
           /\ granted' = granted => GrantedOf(i)' = GrantedOf(i)
           /\ queue'[i] = queue[i] => CallsIn(i)' = CallsIn(i)
           /\ acks[i] \in Nat
BY DEF HeldBy, GrantedOf, CallsIn, TypeOK

\* A shutdown message is no call, and a queue that is gone holds none.
LEMMA NoNewCall ==
    ASSUME TypeOK, NEW i \in Instance
    PROVE  /\ queue'[i] = Append(queue[i], Shutdown) => CallsIn(i)' = CallsIn(i)
           /\ queue'[i] = <<>> => CallsIn(i)' = {}
           /\ queue'[i] = Append(<<>>, Shutdown) => CallsIn(i)' = {}
<1>1. queue[i] \in Seq(Message) /\ Shutdown \in Message /\ Shutdown.type # "call"
    BY DEF TypeOK, Message, Shutdown
<1>2. ASSUME queue'[i] = Append(queue[i], Shutdown) PROVE CallsIn(i)' = CallsIn(i)
    <2> DEFINE q == queue[i]
               r == queue'[i]
    <2>1. q \in Seq(Message) /\ r = Append(q, Shutdown)
        BY <1>1, <1>2
    <2>2. CallsIn(i) = {k \in DOMAIN q : q[k].type = "call"} /\ CallsIn(i)' = {k \in DOMAIN r : r[k].type = "call"}
        BY DEF CallsIn
    <2> HIDE DEF q, r
    <2>3. /\ Len(q) \in Nat /\ DOMAIN q = 1 .. Len(q) /\ DOMAIN r = 1 .. Len(q) + 1
          /\ \A k \in 1 .. Len(q) : r[k] = q[k]
          /\ r[Len(q) + 1] = Shutdown
        BY <1>1, <2>1, Appended
    <2> QED BY <1>1, <2>2, <2>3
<1>3. queue'[i] = <<>> => CallsIn(i)' = {}
    BY DEF CallsIn
<1>4. ASSUME queue'[i] = Append(<<>>, Shutdown) PROVE CallsIn(i)' = {}
    <2>1. queue'[i] = <<Shutdown>>
        BY <1>4
    <2> QED BY <1>1, <2>1 DEF CallsIn
<1> QED BY <1>2, <1>3, <1>4

\* ServiceLookup and ACK give an instance that is idle, and free, to one holder.
LEMMA GrantKeeps ==
    ASSUME TypeOK, Scheduling, TypeOK', queue' = queue, process' = process,
           NEW inst \in [Instance -> InstanceState], NEW r \in Request,
           Idle(inst, r.service) # {}, Grant(inst, r),
           \A j \in Instance : acks'[j] <= acks[j],
           \A j \in Instance : inst[j] = "idle" =>
               HeldBy(j) = {} /\ GrantedOf(j) = {} /\ CallsIn(j) = {} /\ acks'[j] = 0,
           \A j \in Instance : process[j] = "starting" => inst[j] # "idle"
    PROVE  Scheduling'
<1>1. PICK g \in Instance :
              /\ inst[g] = "idle" /\ instance' = [inst EXCEPT ![g] = "busy"]
              /\ \/ /\ r.caller = Forward /\ granted' = granted \cup {<<r.service, g>>}
                    /\ running' = running /\ caller' = caller
                 \/ /\ r.caller \in Caller /\ caller[r.caller].state \notin Having
                    /\ IsGiven(r.caller, g)
                    /\ running' = running /\ granted' = granted
                 \/ /\ r.caller \in Caller /\ running' = (r.caller \in alive)
                    /\ caller' = caller /\ granted' = granted
    BY Zenon, GrantCases
<1>2. ASSUME NEW j \in Instance PROVE Scheduled(j)'
    <2>1. CallsIn(j)' = CallsIn(j) /\ acks'[j] \in Nat /\ acks'[j] <= acks[j] /\ Scheduled(j)
        BY SameHolders DEF TypeOK, Scheduling
    <2>2. CASE j # g
        <3>1. HeldBy(j)' \subseteq HeldBy(j)
            BY <1>1, <2>2, GivenHolds, SameHolders
        <3>2. GrantedOf(j)' \subseteq GrantedOf(j)
            BY <1>1, <2>2 DEF GrantedOf
        <3>3. Fewer(j)
            BY <2>1, <3>1, <3>2 DEF Fewer
        <3>4. instance'[j] = inst[j]
            BY <1>1, <2>2
        <3>5. Sole(j)' /\ (process[j] = "starting" => Free(j)')
            BY <2>1, <3>3, FewerKeeps DEF Scheduled
        <3>6. inst[j] = "idle" => Free(j)'
            BY <2>1, <3>1, <3>2 DEF Free
        <3> QED BY <3>4, <3>5, <3>6 DEF Scheduled
    <2>3. CASE j = g
        <3>1. HeldBy(g) = {} /\ GrantedOf(g) = {} /\ CallsIn(g) = {} /\ acks'[g] = 0
            BY <1>1
        <3>2. ASSUME r.caller = Forward /\ granted' = granted \cup {<<r.service, g>>} /\ caller' = caller
              PROVE  Sole(g)'
            <4>1. HeldBy(g)' = {} /\ One(GrantedOf(g))'
                BY <3>1, <3>2, SameHolders DEF GrantedOf, One
            <4> QED BY <2>1, <2>3, <3>1, <4>1 DEF Sole
        <3>3. ASSUME r.caller \in Caller /\ IsGiven(r.caller, g) /\ granted' = granted
              PROVE  Sole(g)'
            <4>1. HeldBy(g)' \subseteq {r.caller}
                BY <3>1, <3>3, GivenHolds
            <4>2. GrantedOf(g)' = {} /\ One(HeldBy(g))'
                BY <3>1, <3>3, <4>1, SameHolders DEF One
            <4> QED BY <2>1, <2>3, <3>1, <4>2 DEF Sole
        <3>4. ASSUME caller' = caller /\ granted' = granted
              PROVE  Sole(g)'
            <4>1. HeldBy(g)' = {} /\ GrantedOf(g)' = {}
                BY <3>1, <3>4, SameHolders
            <4> QED BY <2>1, <2>3, <3>1, <4>1 DEF Sole
        <3>5. instance'[g] = "busy" /\ process'[g] # "starting"
            BY <1>1
        <3>6. Sole(g)'
            BY <1>1, <3>2, <3>3, <3>4 DEF Scheduled
        <3> QED BY <2>3, <3>5, <3>6 DEF Scheduled
    <2> QED BY <2>2, <2>3
<1> QED BY <1>2 DEF Scheduling

\* update::instances calls nobody idle, and sends no calls.
LEMMA UpdateKeeps ==
    ASSUME TypeOK, NEW inst \in [Instance -> InstanceState], NEW conf, NEW q \in [Instance -> Seq(Message)],
           \A j \in Instance : q[j] \in {queue[j], <<>>},
           UpdateInstances(inst, conf, q), NEW i \in Instance
    PROVE  /\ CallsIn(i)' \subseteq CallsIn(i)
           /\ instance'[i] = "idle" => inst[i] = "idle"
<1>1. PICK last, boot :
         /\ instance' = [j \in Instance |-> IF j \in boot THEN "booted"
                                            ELSE IF j \in last THEN "shutdown" ELSE inst[j]]
         /\ queue' = [j \in Instance |-> IF j \in last /\ process[j] \in {"up", "killed"}
                                         THEN Append(q[j], Shutdown) ELSE q[j]]
    BY Zenon DEF UpdateInstances
<1>2. instance'[i] = "idle" => inst[i] = "idle"
    BY <1>1
<1>3. queue'[i] \in {Append(q[i], Shutdown), q[i]}
    BY <1>1
<1>4. \/ queue'[i] = queue[i] \/ queue'[i] = Append(queue[i], Shutdown)
      \/ queue'[i] = <<>> \/ queue'[i] = Append(<<>>, Shutdown)
    BY <1>3
<1> QED BY <1>2, <1>4, NoNewCall, SameHolders

\* Steps that leave the holders alone.
LEMMA QuietKeeps ==
    ASSUME TypeOK, Scheduling, UNCHANGED <<caller, granted, queue, acks>>,
           \A i \in Instance : process'[i] = "starting" => process[i] = "starting",
           \A i \in Instance : instance'[i] = "idle" => instance[i] = "idle"
    PROVE  Scheduling'
<1>1. ASSUME NEW i \in Instance PROVE Scheduled(i)'
    <2>1. Fewer(i)
        BY SameHolders DEF Fewer
    <2>2. Scheduled(i)
        BY DEF Scheduling
    <2> QED BY <2>1, <2>2, Undisturbed
<1> QED BY <1>1 DEF Scheduling

\* Connect calls an instance idle that nobody can hold yet.
LEMMA ConnectKeeps ==
    ASSUME TypeOK, Scheduling, NEW i \in Instance, Connect(i)
    PROVE  Scheduling'
<1>1. ASSUME NEW j \in Instance PROVE Scheduled(j)'
    <2>1. Fewer(j)
        BY SameHolders DEF Fewer, Connect, callerVars, forwardVars
    <2>2. Scheduled(j)
        BY DEF Scheduling
    <2>3. CASE j # i
        <3>1. process'[j] = process[j] /\ instance'[j] = instance[j]
            BY <2>3 DEF Connect, TypeOK
        <3> QED BY <2>1, <2>2, <3>1, Undisturbed
    <2>4. CASE j = i
        <3>1. process[j] = "starting" /\ process'[j] = "up"
            BY <2>4 DEF Connect, TypeOK
        <3>2. Free(j)'
            BY <2>1, <2>2, <3>1, FewerKeeps DEF Scheduled
        <3> QED BY <2>1, <2>2, <3>1, <3>2, FewerKeeps DEF Scheduled
    <2> QED BY <2>3, <2>4
<1> QED BY <1>1 DEF Scheduling

\* Scale and the death of an instance.
LEMMA ScaleKeeps ==
    ASSUME TypeOK, Scheduling, NEW n \in ScaleTo, Scale(n)
    PROVE  Scheduling'
<1>1. ASSUME NEW j \in Instance PROVE Scheduled(j)'
    <2>1. UpdateInstances(instance, n, queue) /\ UNCHANGED <<process, acks, caller, granted>>
        BY DEF Scale, callerVars, forwardVars
    <2>2. CallsIn(j)' \subseteq CallsIn(j) /\ (instance'[j] = "idle" => instance[j] = "idle")
        BY <2>1, UpdateKeeps DEF TypeOK
    <2>3. Fewer(j)
        BY <2>1, <2>2, SameHolders DEF Fewer
    <2>4. Scheduled(j)
        BY DEF Scheduling
    <2> QED BY <2>1, <2>2, <2>3, <2>4, Undisturbed
<1> QED BY <1>1 DEF Scheduling

\* The queue of an instance that has died is gone, with the calls in it.
LEMMA DeathKeeps ==
    ASSUME TypeOK, Scheduling, NEW i \in Instance, HandleDeath(i)
    PROVE  Scheduling'
<1> DEFINE inst == [instance EXCEPT ![i] = "gone"]
           q == [queue EXCEPT ![i] = <<>>]
<1>a. inst \in [Instance -> InstanceState] /\ q \in [Instance -> Seq(Message)]
    BY DEF TypeOK, InstanceState
<1>b. \A j \in Instance : q[j] \in {queue[j], <<>>} /\ (inst[j] = "idle" => instance[j] = "idle")
    BY DEF TypeOK
<1>c. UpdateInstances(inst, configured, q) /\ UNCHANGED <<acks, caller, granted>>
    BY DEF HandleDeath, callerVars, forwardVars
<1> HIDE DEF inst, q
<1>1. ASSUME NEW j \in Instance PROVE Scheduled(j)'
    <2>2. CallsIn(j)' \subseteq CallsIn(j) /\ (instance'[j] = "idle" => inst[j] = "idle")
        BY <1>a, <1>b, <1>c, UpdateKeeps
    <2>3. Fewer(j)
        BY <1>c, <2>2, SameHolders DEF Fewer
    <2>4. Scheduled(j)
        BY DEF Scheduling
    <2>5. process'[j] = "starting" => process[j] = "starting"
        BY DEF HandleDeath, TypeOK
    <2> QED BY <1>b, <2>2, <2>3, <2>4, <2>5, Undisturbed
<1> QED BY <1>1 DEF Scheduling

\* ACK: the instance that has sent it is free, and may be granted at once.
LEMMA AckKeeps ==
    ASSUME TypeOK, RegistryConsistent, Scheduling, TypeOK', NEW i \in Instance, HandleAck(i)
    PROVE  Scheduling'
<1> DEFINE idle == [instance EXCEPT ![i] = "idle"]
<1>0. /\ acks[i] > 0 /\ acks' = [acks EXCEPT ![i] = @ - 1]
      /\ UNCHANGED <<process, queue>>
      /\ \/ UNCHANGED <<running, instance, pending, caller, granted>>
         \/ /\ instance' = idle
            /\ UNCHANGED <<running, pending, caller, granted>>
         \/ \E k \in DOMAIN pending :
               /\ pending[k] \in Request
               /\ Idle(idle, pending[k].service) # {}
               /\ Grant(idle, pending[k])
    BY Zenon, AckCases
<1>1. idle \in [Instance -> InstanceState] /\ \A j \in Instance : idle[j] = IF j = i THEN "idle" ELSE instance[j]
    BY DEF TypeOK, InstanceState
<1>2. \A j \in Instance : /\ acks[j] \in Nat /\ acks'[j] \in Nat /\ acks'[j] <= acks[j]
                          /\ acks'[j] = IF j = i THEN acks[j] - 1 ELSE acks[j]
    BY <1>0 DEF TypeOK
<1>3. /\ HeldBy(i) = {} /\ GrantedOf(i) = {} /\ CallsIn(i) = {} /\ acks'[i] = 0
      /\ process[i] # "starting"
    BY <1>0, <1>2 DEF Scheduling, Scheduled, Sole, Free
<1> HIDE DEF idle
<1>4. CASE \/ UNCHANGED <<running, instance, pending, caller, granted>>
           \/ instance' = idle /\ UNCHANGED <<running, pending, caller, granted>>
    <2>1. ASSUME NEW j \in Instance PROVE Scheduled(j)'
        <3>1. Fewer(j)
            BY <1>0, <1>2, <1>4, SameHolders DEF Fewer
        <3>2. Scheduled(j)
            BY DEF Scheduling
        <3>3. CASE instance'[j] = "idle" => instance[j] = "idle"
            BY <1>0, <3>1, <3>2, <3>3, Undisturbed
        <3>4. CASE j = i
            <4>1. Free(j)'
                BY <1>0, <1>3, <1>4, <3>4, SameHolders DEF Free
            <4> QED BY <1>0, <1>3, <3>1, <3>2, <3>4, <4>1, FewerKeeps DEF Scheduled
        <3>5. j # i => (instance'[j] = "idle" => instance[j] = "idle")
            BY <1>1, <1>4
        <3> QED BY <3>3, <3>4, <3>5
    <2> QED BY <2>1 DEF Scheduling
<1>5. ASSUME NEW k \in DOMAIN pending, pending[k] \in Request, Idle(idle, pending[k].service) # {},
             Grant(idle, pending[k])
      PROVE  Scheduling'
    <2>1. \A j \in Instance : idle[j] = "idle" =>
              HeldBy(j) = {} /\ GrantedOf(j) = {} /\ CallsIn(j) = {} /\ acks'[j] = 0
        BY <1>1, <1>2, <1>3 DEF Scheduling, Scheduled, Free
    <2>2. \A j \in Instance : process[j] = "starting" => idle[j] # "idle"
        BY <1>1, <1>3 DEF Scheduling, Scheduled
    <2>3. \A j \in Instance : acks'[j] <= acks[j]
        BY <1>2
    <2>4. queue' = queue /\ process' = process
        BY <1>0
    <2> QED BY <1>1, <1>5, <2>1, <2>2, <2>3, <2>4, GrantKeeps
<1> QED BY <1>0, <1>4, <1>5

\* ServiceLookup of a caller and of the forward cache.
LEMMA LookupGrantKeeps ==
    ASSUME TypeOK, Scheduling, TypeOK', UNCHANGED <<queue, process, acks>>,
           NEW r \in Request, Idle(instance, r.service) # {}, Grant(instance, r)
    PROVE  Scheduling'
<1>1. \A j \in Instance : instance[j] = "idle" =>
          HeldBy(j) = {} /\ GrantedOf(j) = {} /\ CallsIn(j) = {} /\ acks'[j] = 0
    BY DEF Scheduling, Scheduled, Free
<1>2. \A j \in Instance : process[j] = "starting" => instance[j] # "idle"
    BY DEF Scheduling, Scheduled
<1>3. (\A j \in Instance : acks'[j] <= acks[j]) /\ instance \in [Instance -> InstanceState]
    BY DEF TypeOK
<1> QED BY <1>1, <1>2, <1>3, GrantKeeps

\* A caller that settles takes nothing, as long as the rest is left alone.
LEMMA SettlesKeeps ==
    ASSUME TypeOK, Scheduling, NEW c \in Caller, Settles(c),
           UNCHANGED <<queue, process, acks, granted, instance>>
    PROVE  Scheduling'
<1>1. ASSUME NEW j \in Instance PROVE Scheduled(j)'
    <2>1. Fewer(j)
        BY SameHolders, SettlesHolds DEF Fewer
    <2>2. Scheduled(j)
        BY DEF Scheduling
    <2> QED BY <2>1, <2>2, Undisturbed
<1> QED BY <1>1 DEF Scheduling

\* A lookup of a caller is answered, waits, or is granted an instance that is free.
LEMMA HandleLookupKeeps ==
    ASSUME TypeOK, Scheduling, TypeOK', NEW c \in Caller, HandleLookup(c)
    PROVE  Scheduling'
<1>1. /\ UNCHANGED <<queue, process, acks>>
      /\ \/ UNCHANGED <<instance, caller, granted>>
         \/ Settles(c) /\ UNCHANGED <<instance, granted>>
         \/ \E r \in Request : Idle(instance, r.service) # {} /\ Grant(instance, r)
    BY Zenon, LookupCases
<1>2. CASE UNCHANGED <<instance, caller, granted>>
    BY <1>1, <1>2, QuietKeeps
<1>3. CASE Settles(c) /\ UNCHANGED <<instance, granted>>
    BY <1>1, <1>3, SettlesKeeps
<1>4. CASE \E r \in Request : Idle(instance, r.service) # {} /\ Grant(instance, r)
    BY <1>1, <1>4, LookupGrantKeeps
<1> QED BY <1>1, <1>2, <1>3, <1>4

\* A lookup of the forward cache waits, or is granted an instance that is free.
LEMMA ForwardLookupKeeps ==
    ASSUME TypeOK, Scheduling, TypeOK', NEW s \in Service, HandleForwardLookup(s)
    PROVE  Scheduling'
<1>1. UNCHANGED <<queue, process, acks>>
    BY ForwardCases
<1>2. \/ UNCHANGED <<instance, caller, granted>>
      \/ \E r \in Request : Idle(instance, r.service) # {} /\ Grant(instance, r)
    BY ForwardCases
<1>3. CASE UNCHANGED <<instance, caller, granted>>
    BY <1>1, <1>3, QuietKeeps
<1>4. CASE \E r \in Request : Idle(instance, r.service) # {} /\ Grant(instance, r)
    BY <1>1, <1>4, LookupGrantKeeps
<1> QED BY <1>2, <1>3, <1>4

\* An instance that somebody holds passes from one place to another.
LEMMA HandedOver ==
    ASSUME TypeOK, Scheduling, NEW i \in Instance, ~ Free(i), Sole(i)',
           \A j \in Instance : j # i => Fewer(j),
           UNCHANGED <<process, instance>>
    PROVE  Scheduling'
<1>1. ASSUME NEW j \in Instance PROVE Scheduled(j)'
    <2>1. Scheduled(j)
        BY DEF Scheduling
    <2>2. CASE j # i
        BY <2>1, <2>2, Undisturbed
    <2>3. CASE j = i
        BY <2>1, <2>3 DEF Scheduled
    <2> QED BY <2>2, <2>3
<1> QED BY <1>1 DEF Scheduling

\* An instance that serves a call holds it; the ACK takes its place.
LEMMA ServeKeeps ==
    ASSUME TypeOK, Scheduling, NEW i \in Instance, Serve(i)
    PROVE  Scheduling'
<1> DEFINE q == queue[i]
           c == Head(q).caller
<1>1. q \in Seq(Message) /\ q # <<>> /\ Head(q).type = "call"
    BY DEF Serve, Reads, TypeOK
<1>2. /\ queue' = [queue EXCEPT ![i] = Tail(q)] /\ acks' = [acks EXCEPT ![i] = @ + 1]
      /\ UNCHANGED <<process, instance, granted>>
    BY DEF Serve, brokerVars, forwardVars
<1>3. caller' = caller \/ (c # Forward /\ caller' = [caller EXCEPT ![c].state = "idle"])
    BY Zenon DEF Serve
<1>4. Head(q) \in Message
    BY <1>1
<1>5. c # Forward => c \in Caller
    BY <1>1, <1>4 DEF Message, Shutdown
<1>6. \A j \in Instance : HeldBy(j)' \subseteq HeldBy(j)
    <2> HIDE DEF c
    <2>1. CASE caller' = caller
        BY <2>1, SameHolders
    <2>2. CASE c # Forward /\ caller' = [caller EXCEPT ![c].state = "idle"]
        <3>1. c \in Caller /\ Settles(c)
            BY <1>5, <2>2, StateSet DEF Waits
        <3> QED BY <3>1, SettlesHolds
    <2> QED BY <1>3, <2>1, <2>2
<1>7. 1 \in CallsIn(i) /\ ~ Free(i)
    <2>1. 1 \in DOMAIN q /\ q[1] = Head(q)
        BY <1>1
    <2> QED BY <1>1, <2>1 DEF CallsIn, Free
<1>8. HeldBy(i) = {} /\ GrantedOf(i) = {} /\ One(CallsIn(i)) /\ acks[i] = 0
    BY <1>7 DEF Scheduling, Scheduled, Sole
<1>9. CallsIn(i)' = {}
    <2> DEFINE r == queue'[i]
    <2>1. r = Tail(q)
        BY <1>2 DEF TypeOK
    <2>2. CallsIn(i) = {k \in DOMAIN q : q[k].type = "call"} /\ CallsIn(i)' = {k \in DOMAIN r : r[k].type = "call"}
        BY DEF CallsIn
    <2> HIDE DEF q, r
    <2>3. /\ Len(q) \in Nat /\ Len(q) > 0 /\ DOMAIN q = 1 .. Len(q) /\ DOMAIN r = 1 .. Len(q) - 1
          /\ \A k \in 1 .. Len(q) - 1 : r[k] = q[k + 1]
        BY <1>1, <2>1, Removed
    <2>4. ASSUME NEW k \in CallsIn(i)' PROVE FALSE
        <3>1. k \in 1 .. Len(q) - 1 /\ q[k + 1].type = "call"
            BY <2>2, <2>3
        <3>2. k + 1 \in CallsIn(i) /\ k + 1 # 1
            BY <2>2, <2>3, <3>1
        <3> QED BY <1>7, <1>8, <3>2 DEF One
    <2> QED BY <2>4
<1>10. Sole(i)'
    <2>1. acks'[i] = 1
        BY <1>2, <1>8 DEF TypeOK
    <2>2. GrantedOf(i)' = {} /\ HeldBy(i)' = {}
        BY <1>2, <1>6, <1>8, SameHolders
    <2> QED BY <1>9, <2>1, <2>2 DEF Sole
<1>11. ASSUME NEW j \in Instance, j # i PROVE Fewer(j)
    <2>1. queue'[j] = queue[j] /\ acks'[j] = acks[j]
        BY <1>2, <1>11 DEF TypeOK
    <2> QED BY <1>2, <1>6, <2>1, SameHolders DEF Fewer
<1> QED BY <1>2, <1>7, <1>10, <1>11, HandedOver

\* A server that exits drops the calls it has not read.
LEMMA ExitKeeps ==
    ASSUME TypeOK, Scheduling, NEW i \in Instance, Exit(i)
    PROVE  Scheduling'
<1>0. /\ queue' = [queue EXCEPT ![i] = <<>>]
      /\ UNCHANGED <<instance, acks, caller, granted>>
    BY DEF Exit, brokerVars, callerVars, forwardVars
<1>1. ASSUME NEW j \in Instance PROVE Scheduled(j)'
    <2>1. queue'[j] \in {queue[j], <<>>}
        BY <1>0 DEF TypeOK
    <2>2. CallsIn(j)' \subseteq CallsIn(j)
        BY <2>1, SameHolders, NoNewCall
    <2>3. Fewer(j)
        BY <1>0, <2>2, SameHolders DEF Fewer
    <2>4. process'[j] = "starting" => process[j] = "starting"
        BY DEF Exit, TypeOK
    <2>5. Scheduled(j)
        BY DEF Scheduling
    <2> QED BY <1>0, <2>3, <2>4, <2>5, Undisturbed
<1> QED BY <1>1 DEF Scheduling

\* A caller that holds an instance is its holder, and the only one.
LEMMA HolderIsSole ==
    ASSUME TypeOK, Scheduling, NEW c \in Caller, NEW i \in Instance, c \in HeldBy(i)
    PROVE  HeldBy(i) = {c} /\ GrantedOf(i) = {} /\ CallsIn(i) = {} /\ acks[i] = 0 /\ ~ Free(i)
<1>1. Sole(i)
    BY DEF Scheduling, Scheduled
<1>2. One(HeldBy(i)) /\ GrantedOf(i) = {} /\ CallsIn(i) = {} /\ acks[i] = 0
    BY <1>1 DEF Sole
<1>3. HeldBy(i) = {c}
    BY <1>2 DEF One
<1> QED BY <1>2, <1>3 DEF Free

\* One call appended to a queue that holds none.
LEMMA OneCall ==
    ASSUME TypeOK, NEW i \in Instance, NEW m \in Message, queue'[i] = Append(queue[i], m), CallsIn(i) = {}
    PROVE  One(CallsIn(i))'
<1> DEFINE q == queue[i]
           r == queue'[i]
<1>1. q \in Seq(Message) /\ r = Append(q, m)
    BY DEF TypeOK
<1>2. CallsIn(i) = {k \in DOMAIN q : q[k].type = "call"} /\ CallsIn(i)' = {k \in DOMAIN r : r[k].type = "call"}
    BY DEF CallsIn
<1> HIDE DEF q, r
<1>3. /\ Len(q) \in Nat /\ DOMAIN q = 1 .. Len(q) /\ DOMAIN r = 1 .. Len(q) + 1
      /\ \A k \in 1 .. Len(q) : r[k] = q[k]
    BY <1>1, Appended
<1>4. ASSUME NEW k \in CallsIn(i)' PROVE k = Len(q) + 1
    BY <1>2, <1>3, <1>4
<1> QED BY <1>4 DEF One

\* The call, or the ACK in its place, takes the instance from the caller to the queue.
LEMMA CallKeeps ==
    ASSUME TypeOK, Scheduling, NEW c \in Caller, Call(c)
    PROVE  Scheduling'
<1>0. caller[c].instance \in Instance
    BY DEF Call, HasInstance, TypeOK, CallerState
<1>i. PICK i \in Instance : i = caller[c].instance
    BY <1>0
<1>m. PICK m : m = Query(c, lookups[c])
    OBVIOUS
<1>1. i \in Instance /\ c \in HeldBy(i)
    BY <1>i DEF Call, HasInstance, HeldBy, Having
<1>2. m \in Message
    BY <1>m DEF Query, Message, TypeOK
<1>3. /\ \/ queue' = [queue EXCEPT ![i] = Append(@, m)] /\ acks' = acks
         \/ acks' = [acks EXCEPT ![i] = @ + 1] /\ queue' = queue
      /\ \/ caller' = [caller EXCEPT ![c].state = "idle"]
         \/ caller' = [caller EXCEPT ![c].state = "calling"]
    BY Zenon, <1>i, <1>m DEF Call
<1>4. UNCHANGED <<process, instance, granted>>
    BY DEF Call, brokerVars, forwardVars
<1>5. Settles(c)
    BY <1>3, StateSet DEF Waits
<1>6. HeldBy(i) = {c} /\ GrantedOf(i) = {} /\ CallsIn(i) = {} /\ acks[i] = 0 /\ ~ Free(i)
    BY <1>1, HolderIsSole
<1>7. HeldBy(i)' = {} /\ GrantedOf(i)' = {}
    BY <1>1, <1>4, <1>5, <1>6, SettlesHolds, SameHolders
<1>8. Sole(i)'
    <2>1. CASE queue' = [queue EXCEPT ![i] = Append(@, m)] /\ acks' = acks
        <3>1. queue'[i] = Append(queue[i], m) /\ acks'[i] = 0
            BY <1>1, <1>6, <2>1 DEF TypeOK
        <3>2. One(CallsIn(i))'
            BY <1>1, <1>2, <1>6, <3>1, OneCall
        <3> QED BY <1>7, <3>1, <3>2 DEF Sole
    <2>2. CASE acks' = [acks EXCEPT ![i] = @ + 1] /\ queue' = queue
        <3>1. acks'[i] = 1 /\ CallsIn(i)' = {}
            BY <1>1, <1>6, <2>2, SameHolders DEF TypeOK
        <3> QED BY <1>7, <3>1 DEF Sole
    <2> QED BY <1>3, <2>1, <2>2
<1>9. ASSUME NEW j \in Instance, j # i PROVE Fewer(j)
    <2>1. queue'[j] = queue[j] /\ acks'[j] = acks[j]
        BY <1>3, <1>9 DEF TypeOK
    <2> QED BY <1>4, <1>5, <2>1, SettlesHolds, SameHolders DEF Fewer
<1> QED BY <1>1, <1>4, <1>6, <1>8, <1>9, HandedOver

\* A caller whose deadline passes gives the instance back, or forgets it.
LEMMA TimeoutKeeps ==
    ASSUME TypeOK, Scheduling, NEW c \in Caller, Timeout(c)
    PROVE  Scheduling'
<1>0. HasInstance(c) => caller[c].instance \in Instance
    BY DEF HasInstance, TypeOK, CallerState
<1>i. PICK i : i = caller[c].instance
    OBVIOUS
<1>1. /\ acks' = acks \/ (HasInstance(c) /\ acks' = [acks EXCEPT ![i] = @ + 1])
      /\ caller' = [caller EXCEPT ![c].state = "idle"]
      /\ UNCHANGED <<process, instance, granted, queue>>
    BY Zenon, <1>i DEF Timeout, brokerVars, forwardVars
<1>2. Settles(c)
    BY <1>1, StateSet DEF Waits
<1>3. HasInstance(c) => i \in Instance /\ c \in HeldBy(i)
    BY <1>0, <1>i DEF HasInstance, HeldBy, Having
<1>4. CASE acks' = acks
    BY <1>1, <1>2, <1>4, SettlesKeeps
<1>5. CASE HasInstance(c) /\ acks' = [acks EXCEPT ![i] = @ + 1]
    <2>0. i \in Instance /\ c \in HeldBy(i)
        BY <1>3, <1>5
    <2>1. HeldBy(i) = {c} /\ GrantedOf(i) = {} /\ CallsIn(i) = {} /\ acks[i] = 0 /\ ~ Free(i)
        BY <2>0, HolderIsSole
    <2>2. HeldBy(i)' = {} /\ GrantedOf(i)' = {} /\ CallsIn(i)' = {}
        BY <1>1, <1>2, <2>0, <2>1, SettlesHolds, SameHolders
    <2>3. acks'[i] = 1
        BY <1>5, <2>0, <2>1 DEF TypeOK
    <2>4. Sole(i)'
        BY <2>2, <2>3 DEF Sole
    <2>5. ASSUME NEW j \in Instance, j # i PROVE Fewer(j)
        <3>1. acks'[j] = acks[j]
            BY <1>5, <2>5 DEF TypeOK
        <3> QED BY <1>1, <1>2, <3>1, SettlesHolds, SameHolders DEF Fewer
    <2> QED BY <1>1, <2>0, <2>1, <2>4, <2>5, HandedOver
<1> QED BY <1>1, <1>4, <1>5

\* The forward cache sends a call to an instance it has been granted, or drops the grant.
LEMMA ForwardCallKeeps ==
    ASSUME TypeOK, Scheduling, ForwardCall
    PROVE  Scheduling'
<1>1. PICK g \in granted :
          /\ granted' = granted \ {g}
          /\ \/ queue' = queue
             \/ queue' = [queue EXCEPT ![g[2]] = Append(@, Query(Forward, 0))]
          /\ UNCHANGED <<brokerVars, process, acks, deaths, callerVars, asked>>
    BY Zenon DEF ForwardCall
<1> DEFINE i == g[2]
<1>2. i \in Instance /\ g \in GrantedOf(i)
    BY DEF TypeOK, GrantedOf
<1>3. Query(Forward, 0) \in Message
    BY DEF Query, Message
<1>4. UNCHANGED <<instance, process, acks, caller>>
    BY <1>1 DEF brokerVars, callerVars
<1> HIDE DEF i
<1>5. HeldBy(i) = {} /\ One(GrantedOf(i)) /\ CallsIn(i) = {} /\ acks[i] = 0 /\ ~ Free(i)
    BY <1>2 DEF Scheduling, Scheduled, Sole, Free
<1>6. HeldBy(i)' = {} /\ GrantedOf(i)' = {} /\ acks'[i] = 0
    <2>1. GrantedOf(i)' = GrantedOf(i) \ {g}
        BY <1>1 DEF GrantedOf
    <2>2. GrantedOf(i)' = {}
        BY <1>2, <1>5, <2>1 DEF One
    <2> QED BY <1>2, <1>4, <1>5, <2>2, SameHolders
<1>7. One(CallsIn(i))'
    <2>1. CASE queue' = queue
        <3>1. CallsIn(i)' = {}
            BY <1>2, <1>5, <2>1, SameHolders
        <3> QED BY <3>1 DEF One
    <2>2. CASE queue' = [queue EXCEPT ![i] = Append(@, Query(Forward, 0))]
        <3>1. queue'[i] = Append(queue[i], Query(Forward, 0))
            BY <1>2, <2>2 DEF TypeOK
        <3> QED BY <1>2, <1>3, <1>5, <3>1, OneCall
    <2> QED BY <1>1, <2>1, <2>2 DEF i
<1>8. Sole(i)'
    BY <1>6, <1>7 DEF Sole
<1>9. ASSUME NEW j \in Instance, j # i PROVE Fewer(j)
    <2>1. queue'[j] = queue[j]
        BY <1>1, <1>9 DEF TypeOK, i
    <2>2. GrantedOf(j)' \subseteq GrantedOf(j)
        BY <1>1 DEF GrantedOf
    <2> QED BY <1>4, <2>1, <2>2, SameHolders DEF Fewer
<1> QED BY <1>2, <1>4, <1>5, <1>8, <1>9, HandedOver

\* Every step keeps the schedule.
LEMMA SchedulingKept ==
    ASSUME TypeOK, RegistryConsistent, Scheduling, [Next]_vars
    PROVE  Scheduling'
<1>0. TypeOK'
    BY TypesKept
<1> USE DEF brokerVars, serverVars, callerVars, forwardVars
<1>1. CASE UNCHANGED vars
    BY <1>1, QuietKeeps DEF vars
<1>2. ASSUME NEW i \in Instance, Advertise(i) PROVE Scheduling'
    BY <1>2, QuietKeeps DEF Advertise
<1>3. ASSUME NEW i \in Instance, Unadvertise(i) PROVE Scheduling'
    BY <1>3, QuietKeeps DEF Unadvertise
<1>4. ASSUME NEW i \in Instance, Kill(i) PROVE Scheduling'
    BY <1>4, QuietKeeps DEF Kill, TypeOK
<1>5. ASSUME NEW c \in Caller, Lookup(c) PROVE Scheduling'
    <2>1. PICK s \in Service, n \in BOOLEAN :
              caller' = [caller EXCEPT ![c] = [state |-> "looking", service |-> s, noreply |-> n, instance |-> 0]]
        BY <1>5 DEF Lookup
    <2>2. [state |-> "looking", service |-> s, noreply |-> n, instance |-> 0] \in CallerState
        BY BoundAssumption DEF CallerState
    <2>3. Settles(c)
        BY <2>1, <2>2 DEF Settles, Waits
    <2> QED BY <1>5, <2>3, SettlesKeeps DEF Lookup
<1>6. ASSUME NEW c \in Caller, Die(c) PROVE Scheduling'
    BY <1>6, QuietKeeps DEF Die
<1>7. ASSUME NEW i \in Instance, Connect(i) \/ HandleAck(i) \/ HandleDeath(i) \/ Serve(i) \/ Exit(i)
      PROVE  Scheduling'
    BY <1>0, <1>7, ConnectKeeps, AckKeeps, DeathKeeps, ServeKeeps, ExitKeeps
<1>8. ASSUME NEW c \in Caller, HandleLookup(c) \/ Call(c) \/ Timeout(c)
      PROVE  Scheduling'
    BY <1>0, <1>8, HandleLookupKeeps, CallKeeps, TimeoutKeeps
<1>9. ASSUME NEW s \in Service, HandleForwardLookup(s) PROVE Scheduling'
    BY <1>0, <1>9, ForwardLookupKeeps
<1>10. ASSUME NEW n \in ScaleTo, Scale(n) PROVE Scheduling'
    BY <1>10, ScaleKeeps
<1>11. ASSUME ForwardCall PROVE Scheduling'
    BY <1>11, ForwardCallKeeps
<1> QED BY <1>1, <1>2, <1>3, <1>4, <1>5, <1>6, <1>7, <1>8, <1>9, <1>10, <1>11
        DEF Next, BrokerNext, ServerNext, CallerNext

\* At boot nobody holds an instance and none is idle.
LEMMA InitSchedules ==
    ASSUME Init
    PROVE  Scheduling
<1>1. ASSUME NEW i \in Instance PROVE Free(i)
    BY DEF Init, NoCall, Free, HeldBy, Having, GrantedOf, CallsIn
<1>2. \A i \in Instance : instance[i] # "idle"
    BY DEF Init
<1> QED BY <1>1, <1>2, FreeIsSole DEF Scheduling, Scheduled

\* A set with one element at most.
LEMMA AtMostOne ==
    ASSUME NEW S, One(S)
    PROVE  Cardinality(S) \in {0, 1}
<1>1. CASE S = {}
    BY <1>1, FS_EmptySet
<1>2. ASSUME NEW x \in S PROVE Cardinality(S) = 1
    <2>1. S = {x}
        BY DEF One
    <2> QED BY <2>1, FS_Singleton
<1> QED BY <1>1, <1>2

\* Exclusive follows: Holders counts the four places.
LEMMA SchedulingGives ==
    ASSUME TypeOK, Scheduling
    PROVE  Exclusive
<1>1. ASSUME NEW i \in Instance PROVE Holders(i) <= 1 /\ (instance[i] = "idle" => Holders(i) = 0)
    <2>1. Holders(i) = Cardinality(HeldBy(i)) + Cardinality(GrantedOf(i)) + Cardinality(CallsIn(i)) + acks[i]
        BY DEF Holders, HeldBy, Having, GrantedOf, CallsIn
    <2>2. acks[i] \in Nat /\ Cardinality({}) = 0
        BY FS_EmptySet DEF TypeOK
    <2>3. Free(i) => Holders(i) = 0
        BY <2>1, <2>2 DEF Free
    <2>4. Sole(i) => Holders(i) <= 1
        <3>1. CASE One(HeldBy(i)) /\ GrantedOf(i) = {} /\ CallsIn(i) = {} /\ acks[i] = 0
            <4>1. Cardinality(HeldBy(i)) \in {0, 1}
                BY <3>1, AtMostOne
            <4> QED BY <2>1, <2>2, <3>1, <4>1
        <3>2. CASE HeldBy(i) = {} /\ One(GrantedOf(i)) /\ CallsIn(i) = {} /\ acks[i] = 0
            <4>1. Cardinality(GrantedOf(i)) \in {0, 1}
                BY <3>2, AtMostOne
            <4> QED BY <2>1, <2>2, <3>2, <4>1
        <3>3. CASE HeldBy(i) = {} /\ GrantedOf(i) = {} /\ One(CallsIn(i)) /\ acks[i] = 0
            <4>1. Cardinality(CallsIn(i)) \in {0, 1}
                BY <3>3, AtMostOne
            <4> QED BY <2>1, <2>2, <3>3, <4>1
        <3>4. CASE HeldBy(i) = {} /\ GrantedOf(i) = {} /\ CallsIn(i) = {} /\ acks[i] <= 1
            BY <2>1, <2>2, <3>4
        <3> QED BY <3>1, <3>2, <3>3, <3>4 DEF Sole
    <2> QED BY <2>3, <2>4 DEF Scheduling, Scheduled
<1> QED BY <1>1 DEF Exclusive

\* An instance serves one caller at a time, whoever gives up, dies or is killed, for any number of
\* callers, services and instances.
THEOREM ExclusiveAlways == Spec => []Exclusive
<1>1. Init => Scheduling
    BY InitSchedules
<1>2. TypeOK /\ RegistryConsistent /\ Scheduling /\ [Next]_vars => Scheduling'
    BY SchedulingKept
<1>3. TypeOK /\ Scheduling => Exclusive
    BY SchedulingGives
<1> QED BY <1>1, <1>2, <1>3, RegistryAlwaysConsistent, TypesCorrect, PTL DEF Spec

-----------------------------------------------------------------------------
(* What the forward cache keeps.                                           *)

\* The instances the forward cache has been granted for a service, and its lookups in a sequence of
\* requests.
GrantedFor(s) == {g \in granted : g[1] = s}
ForwardIn(p, s) == {k \in DOMAIN p : p[k].caller = Forward /\ p[k].service = s}

\* Only so many instances can be granted.
LEMMA GrantedFinite ==
    ASSUME TypeOK, NEW s \in Service
    PROVE  IsFiniteSet(GrantedFor(s))
<1> DEFINE I == {i \in Instance : <<s, i>> \in granted}
           f == [i \in I |-> <<s, i>>]
<1>1. IsFiniteSet(1 .. MaxPid)
    <2>1. MaxPid \in Int /\ 1 \in Int
        BY BoundAssumption
    <2> QED BY <2>1, FS_Interval
<1>2. IsFiniteSet(I)
    <2>1. I \in SUBSET (1 .. MaxPid)
        BY DEF Instance
    <2> HIDE DEF I
    <2> QED BY <1>1, <2>1, FS_Subset
<1>3. \A g \in GrantedFor(s) : \E i \in I : g = <<s, i>>
    <2>1. ASSUME NEW g \in GrantedFor(s) PROVE \E i \in I : g = <<s, i>>
        <3>1. g \in granted /\ g[1] = s /\ g \in Service \X Instance
            BY DEF GrantedFor, TypeOK
        <3>2. g[2] \in Instance /\ g = <<s, g[2]>>
            BY <3>1
        <3> QED BY <3>1, <3>2
    <2> QED BY <2>1
<1>4. f \in Surjection(I, GrantedFor(s))
    <2>1. f \in [I -> GrantedFor(s)]
        BY DEF GrantedFor
    <2>2. \A g \in GrantedFor(s) : \E i \in I : f[i] = g
        BY <1>3
    <2> HIDE DEF f, I
    <2> QED BY <2>1, <2>2 DEF Surjection
<1> HIDE DEF f, I
<1> QED BY <1>2, <1>4, FS_Surjection

\* The lookups in a sequence of requests are finitely many.
LEMMA ForwardFinite ==
    ASSUME NEW p \in Seq(Request), NEW s
    PROVE  IsFiniteSet(ForwardIn(p, s)) /\ ForwardIn(p, s) \subseteq 1 .. Len(p)
<1>1. ForwardIn(p, s) \subseteq 1 .. Len(p) /\ 1 \in Int /\ Len(p) \in Int
    BY DEF ForwardIn
<1> QED BY <1>1, FS_Interval, FS_Subset

\* A request that comes last is one more if it is of the forward cache and for the service.
LEMMA ForwardAppended ==
    ASSUME NEW p \in Seq(Request), NEW r \in Request, NEW s
    PROVE  Cardinality(ForwardIn(Append(p, r), s)) =
               Cardinality(ForwardIn(p, s)) + (IF r.caller = Forward /\ r.service = s THEN 1 ELSE 0)
<1> DEFINE q == Append(p, r)
           n == Len(p) + 1
<1>1. /\ Len(p) \in Nat /\ DOMAIN p = 1 .. Len(p) /\ DOMAIN q = 1 .. Len(p) + 1
      /\ \A k \in 1 .. Len(p) : q[k] = p[k]
      /\ q[n] = r
    BY Appended
<1> HIDE DEF q
<1>2. ForwardIn(q, s) = ForwardIn(p, s) \cup (IF r.caller = Forward /\ r.service = s THEN {n} ELSE {})
    BY <1>1 DEF ForwardIn
<1>3. n \notin ForwardIn(p, s) /\ IsFiniteSet(ForwardIn(p, s))
    BY <1>1, ForwardFinite
<1>4. Cardinality(ForwardIn(p, s)) \in Nat
    BY <1>3, FS_CardinalityType
<1>5. CASE r.caller = Forward /\ r.service = s
    <2>1. Cardinality(ForwardIn(p, s) \cup {n}) = Cardinality(ForwardIn(p, s)) + 1
        BY <1>3, FS_AddElement
    <2> QED BY <1>2, <1>5, <2>1 DEF q
<1>6. CASE ~ (r.caller = Forward /\ r.service = s)
    <2>1. ForwardIn(q, s) = ForwardIn(p, s)
        BY <1>2, <1>6
    <2> QED BY <1>4, <1>6, <2>1 DEF q
<1> QED BY <1>5, <1>6

\* A request that is taken out is one less.
LEMMA ForwardRemoved ==
    ASSUME NEW p \in Seq(Request), NEW k \in DOMAIN p, NEW s
    PROVE  Cardinality(ForwardIn(p, s)) =
               Cardinality(ForwardIn(RemoveAt(p, k), s))
               + (IF p[k].caller = Forward /\ p[k].service = s THEN 1 ELSE 0)
<1> DEFINE q == RemoveAt(p, k)
           P == ForwardIn(p, s)
           Q == ForwardIn(q, s)
           f == [j \in Q |-> IF j < k THEN j ELSE j + 1]
<1>1. /\ q \in Seq(Request) /\ Len(p) \in Nat /\ DOMAIN p = 1 .. Len(p) /\ DOMAIN q = 1 .. Len(p) - 1
      /\ \A j \in 1 .. Len(p) - 1 : q[j] = IF j < k THEN p[j] ELSE p[j + 1]
      /\ k \in 1 .. Len(p)
    BY RemovedAt
<1> HIDE DEF q
<1>2. IsFiniteSet(P) /\ IsFiniteSet(Q)
    BY <1>1, ForwardFinite
<1>3. Q \subseteq 1 .. Len(p) - 1 /\ P \subseteq 1 .. Len(p)
    BY <1>1 DEF ForwardIn
<1>4. \A j \in 1 .. Len(p) - 1 : j \in Q <=> (IF j < k THEN j ELSE j + 1) \in P \ {k}
    <2>1. ASSUME NEW j \in 1 .. Len(p) - 1, j < k PROVE j \in Q <=> j \in P \ {k}
        BY <1>1, <2>1 DEF ForwardIn
    <2>2. ASSUME NEW j \in 1 .. Len(p) - 1, ~ j < k PROVE j \in Q <=> j + 1 \in P \ {k}
        BY <1>1, <2>2 DEF ForwardIn
    <2> QED BY <2>1, <2>2
<1> HIDE DEF P, Q
<1>5. f \in [Q -> P \ {k}]
    BY <1>3, <1>4
<1>6. \A x, y \in Q : f[x] = f[y] => x = y
    BY <1>1, <1>3
<1>7. \A y \in P \ {k} : \E x \in Q : f[x] = y
    <2>1. ASSUME NEW y \in P \ {k} PROVE \E x \in Q : f[x] = y
        <3>1. y \in 1 .. Len(p) /\ y # k /\ k \in 1 .. Len(p) /\ Len(p) \in Nat
            BY <1>1, <1>3
        <3>2. CASE y < k
            <4>1. y \in 1 .. Len(p) - 1
                BY <3>1, <3>2
            <4>2. y \in Q
                BY <1>4, <3>2, <4>1
            <4> QED BY <3>2, <4>2
        <3>3. CASE ~ y < k
            <4>1. y - 1 \in 1 .. Len(p) - 1 /\ ~ y - 1 < k /\ (y - 1) + 1 = y
                BY <3>1, <3>3
            <4>2. y - 1 \in Q
                BY <1>4, <4>1
            <4> QED BY <4>1, <4>2
        <3> QED BY <3>2, <3>3
    <2> QED BY <2>1
<1> HIDE DEF f
<1>8. f \in Bijection(Q, P \ {k})
    BY <1>5, <1>6, <1>7 DEF Bijection, Injection, Surjection, IsInjective
<1>9. Cardinality(P \ {k}) = Cardinality(Q)
    BY <1>2, <1>8, FS_Bijection DEF ExistsBijection
<1>10. Cardinality(P) = Cardinality(Q) + (IF k \in P THEN 1 ELSE 0)
    <2>1. Cardinality(P) \in Nat /\ Cardinality(P \ {k}) = IF k \in P THEN Cardinality(P) - 1 ELSE Cardinality(P)
        BY <1>2, FS_RemoveElement, FS_CardinalityType
    <2> QED BY <1>9, <2>1
<1>11. k \in P <=> p[k].caller = Forward /\ p[k].service = s
    BY <1>1 DEF P, ForwardIn
<1> QED BY <1>10, <1>11 DEF P, Q, q

\* The calls the forward cache keeps, the inductive invariant of ForwardKeepsCalls.
Kept ==
    running => \A s \in Service :
        requested[s] = asked[s] + Cardinality(GrantedFor(s)) + Cardinality(ForwardIn(pending, s))

\* The broker does not come back.
LEMMA KeptWhenStopped ==
    ASSUME running' = FALSE
    PROVE  Kept'
BY DEF Kept

\* Steps that leave the lookups of the forward cache alone.
LEMMA KeptWhenQuiet ==
    ASSUME Kept, running' = running, UNCHANGED <<requested, asked, granted, pending>>
    PROVE  Kept'
<1>1. ASSUME NEW s \in Service PROVE GrantedFor(s)' = GrantedFor(s) /\ ForwardIn(pending, s)' = ForwardIn(pending, s)
    BY DEF GrantedFor, ForwardIn
<1> QED BY <1>1 DEF Kept

\* The counts of the forward cache, as numbers.
LEMMA KeptCounts ==
    ASSUME TypeOK, NEW s \in Service
    PROVE  /\ Cardinality(GrantedFor(s)) \in Nat /\ Cardinality(ForwardIn(pending, s)) \in Nat
           /\ requested[s] \in Nat /\ asked[s] \in Nat
<1>1. pending \in Seq(Request)
    BY DEF TypeOK
<1>2. IsFiniteSet(GrantedFor(s)) /\ IsFiniteSet(ForwardIn(pending, s))
    BY <1>1, GrantedFinite, ForwardFinite
<1> QED BY <1>2, FS_CardinalityType DEF TypeOK

\* A grant to the forward cache is one more for its service: the instance was free.
LEMMA GrantCounts ==
    ASSUME TypeOK, NEW i \in Instance, GrantedOf(i) = {}, NEW t \in Service, NEW s \in Service,
           granted' = granted \cup {<<t, i>>}
    PROVE  Cardinality(GrantedFor(s)') = Cardinality(GrantedFor(s)) + (IF t = s THEN 1 ELSE 0)
<1>1. <<t, i>> \notin granted
    BY DEF GrantedOf
<1>2. IsFiniteSet(GrantedFor(s)) /\ Cardinality(GrantedFor(s)) \in Nat
    BY GrantedFinite, KeptCounts
<1>3. CASE t = s
    <2>1. GrantedFor(s)' = GrantedFor(s) \cup {<<t, i>>} /\ <<t, i>> \notin GrantedFor(s)
        BY <1>1, <1>3 DEF GrantedFor
    <2>2. Cardinality(GrantedFor(s) \cup {<<t, i>>}) = Cardinality(GrantedFor(s)) + 1
        BY <1>2, <2>1, FS_AddElement
    <2> QED BY <1>3, <2>1, <2>2
<1>4. CASE t # s
    <2>1. GrantedFor(s)' = GrantedFor(s)
        BY <1>4 DEF GrantedFor
    <2> QED BY <1>2, <1>4, <2>1
<1> QED BY <1>3, <1>4

\* What a grant does to the counts, for a request of the forward cache and for that of a caller.
LEMMA GrantKept ==
    ASSUME TypeOK, NEW inst \in [Instance -> InstanceState], NEW r \in Request,
           Idle(inst, r.service) # {}, Grant(inst, r),
           \A j \in Instance : inst[j] = "idle" => GrantedOf(j) = {},
           NEW s \in Service
    PROVE  Cardinality(GrantedFor(s)') =
               Cardinality(GrantedFor(s)) + (IF r.caller = Forward /\ r.service = s THEN 1 ELSE 0)
<1>1. PICK i \in Instance :
         /\ inst[i] = "idle"
         /\ \/ r.caller = Forward /\ granted' = granted \cup {<<r.service, i>>}
            \/ r.caller \in Caller /\ granted' = granted
    BY GrantCases
<1>2. r.service \in Service /\ GrantedOf(i) = {}
    BY <1>1 DEF Request
<1>3. CASE r.caller = Forward /\ granted' = granted \cup {<<r.service, i>>}
    BY <1>2, <1>3, GrantCounts
<1>4. CASE r.caller \in Caller /\ granted' = granted
    <2>1. GrantedFor(s)' = GrantedFor(s) /\ r.caller # Forward
        BY <1>4, ForwardAssumption DEF GrantedFor
    <2>2. Cardinality(GrantedFor(s)) \in Nat
        BY KeptCounts
    <2> QED BY <2>1, <2>2
<1> QED BY <1>1, <1>3, <1>4

\* A lookup of a caller: the call it leaves to the forward cache comes with a lookup of its own.
LEMMA LookupKept ==
    ASSUME TypeOK, TypeOK', Scheduling, Kept, NEW c \in Caller, HandleLookup(c)
    PROVE  Kept'
<1> SUFFICES ASSUME running', NEW s \in Service
             PROVE  requested'[s] = asked'[s] + Cardinality(GrantedFor(s)') + Cardinality(ForwardIn(pending', s))
    BY DEF Kept, ForwardIn
<1>0. /\ requested[s] = asked[s] + Cardinality(GrantedFor(s)) + Cardinality(ForwardIn(pending, s))
      /\ Cardinality(GrantedFor(s)) \in Nat /\ Cardinality(ForwardIn(pending, s)) \in Nat
      /\ requested[s] \in Nat /\ asked[s] \in Nat
    BY LookupCases, KeptCounts DEF Kept
<1>1. c # Forward
    BY ForwardAssumption
<1>2. granted' = granted => GrantedFor(s)' = GrantedFor(s)
    BY DEF GrantedFor
<1>3. \/ granted' = granted /\ UNCHANGED <<pending, requested, asked>>
      \/ /\ granted' = granted
         /\ \E t \in Service : /\ requested' = [requested EXCEPT ![t] = @ + 1]
                               /\ asked' = [asked EXCEPT ![t] = @ + 1]
                               /\ pending' = pending
      \/ /\ granted' = granted /\ UNCHANGED <<requested, asked>>
         /\ \E r \in Request : r.caller = c /\ pending' = Append(pending, r)
      \/ /\ UNCHANGED <<pending, requested, asked>>
         /\ \E r \in Request : r.caller = c /\ Idle(instance, r.service) # {} /\ Grant(instance, r)
    BY LookupCases
<1>4. CASE granted' = granted /\ UNCHANGED <<pending, requested, asked>>
    BY <1>0, <1>2, <1>4
<1>5. ASSUME granted' = granted, NEW t \in Service, requested' = [requested EXCEPT ![t] = @ + 1],
             asked' = [asked EXCEPT ![t] = @ + 1], pending' = pending
      PROVE  requested'[s] = asked'[s] + Cardinality(GrantedFor(s)') + Cardinality(ForwardIn(pending', s))
    <2>1. /\ requested'[s] = IF s = t THEN requested[s] + 1 ELSE requested[s]
          /\ asked'[s] = IF s = t THEN asked[s] + 1 ELSE asked[s]
        BY <1>5 DEF TypeOK
    <2> QED BY <1>0, <1>2, <1>5, <2>1
<1>6. ASSUME granted' = granted, UNCHANGED <<requested, asked>>, NEW r \in Request, r.caller = c,
             pending' = Append(pending, r)
      PROVE  requested'[s] = asked'[s] + Cardinality(GrantedFor(s)') + Cardinality(ForwardIn(pending', s))
    <2>1. Cardinality(ForwardIn(Append(pending, r), s)) = Cardinality(ForwardIn(pending, s)) + 0
        BY <1>1, <1>6, ForwardAppended DEF TypeOK
    <2> QED BY <1>0, <1>2, <1>6, <2>1
<1>7. ASSUME UNCHANGED <<pending, requested, asked>>, NEW r \in Request, r.caller = c,
             Idle(instance, r.service) # {}, Grant(instance, r)
      PROVE  requested'[s] = asked'[s] + Cardinality(GrantedFor(s)') + Cardinality(ForwardIn(pending', s))
    <2>1. \A j \in Instance : instance[j] = "idle" => GrantedOf(j) = {}
        BY DEF Scheduling, Scheduled, Free
    <2>2. instance \in [Instance -> InstanceState]
        BY DEF TypeOK
    <2>3. Cardinality(GrantedFor(s)') = Cardinality(GrantedFor(s)) + 0
        BY <1>1, <1>7, <2>1, <2>2, GrantKept
    <2> QED BY <1>0, <1>7, <2>3
<1> QED BY <1>3, <1>4, <1>5, <1>6, <1>7

\* A lookup of the forward cache waits, or is granted an instance.
LEMMA ForwardLookupKept ==
    ASSUME TypeOK, Scheduling, Kept, NEW t \in Service, HandleForwardLookup(t)
    PROVE  Kept'
<1> SUFFICES ASSUME running', NEW s \in Service
             PROVE  requested'[s] = asked'[s] + Cardinality(GrantedFor(s)') + Cardinality(ForwardIn(pending', s))
    BY DEF Kept, ForwardIn
<1>0. /\ requested[s] = asked[s] + Cardinality(GrantedFor(s)) + Cardinality(ForwardIn(pending, s))
      /\ Cardinality(GrantedFor(s)) \in Nat /\ Cardinality(ForwardIn(pending, s)) \in Nat
      /\ requested[s] \in Nat /\ asked[s] \in Nat
    BY ForwardCases, KeptCounts DEF Kept
<1>1. asked[t] > 0 /\ asked' = [asked EXCEPT ![t] = @ - 1] /\ requested' = requested
    BY ForwardCases
<1>2. requested'[s] = requested[s] /\ asked'[s] = IF s = t THEN asked[s] - 1 ELSE asked[s]
    BY <1>1 DEF TypeOK
<1>3. PICK r \in Request :
          /\ r.caller = Forward /\ r.service = t
          /\ \/ Idle(instance, r.service) # {} /\ Grant(instance, r) /\ pending' = pending
             \/ pending' = Append(pending, r) /\ granted' = granted
    BY ForwardCases
<1>4. CASE Idle(instance, r.service) # {} /\ Grant(instance, r) /\ pending' = pending
    <2>1. \A j \in Instance : instance[j] = "idle" => GrantedOf(j) = {}
        BY DEF Scheduling, Scheduled, Free
    <2>2. instance \in [Instance -> InstanceState]
        BY DEF TypeOK
    <2>3. Cardinality(GrantedFor(s)') = Cardinality(GrantedFor(s)) + (IF r.caller = Forward /\ r.service = s THEN 1 ELSE 0)
        BY <1>4, <2>1, <2>2, GrantKept
    <2> QED BY <1>0, <1>2, <1>3, <1>4, <2>3
<1>5. CASE pending' = Append(pending, r) /\ granted' = granted
    <2>1. GrantedFor(s)' = GrantedFor(s)
        BY <1>5 DEF GrantedFor
    <2>2. Cardinality(ForwardIn(Append(pending, r), s)) =
              Cardinality(ForwardIn(pending, s)) + (IF r.caller = Forward /\ r.service = s THEN 1 ELSE 0)
        <3>1. pending \in Seq(Request)
            BY DEF TypeOK
        <3> QED BY <3>1, ForwardAppended
    <2>3. Cardinality(ForwardIn(pending', s)) =
              Cardinality(ForwardIn(pending, s)) + (IF t = s THEN 1 ELSE 0)
        BY <1>3, <1>5, <2>2
    <2> QED BY <1>0, <1>2, <2>1, <2>3
<1> QED BY <1>3, <1>4, <1>5

\* An ACK turns a lookup that waits into a grant.
LEMMA AckKept ==
    ASSUME TypeOK, RegistryConsistent, Scheduling, Kept, NEW i \in Instance, HandleAck(i)
    PROVE  Kept'
<1> DEFINE idle == [instance EXCEPT ![i] = "idle"]
<1> SUFFICES ASSUME running', NEW s \in Service
             PROVE  requested'[s] = asked'[s] + Cardinality(GrantedFor(s)') + Cardinality(ForwardIn(pending', s))
    BY DEF Kept, ForwardIn
<1>0. /\ requested[s] = asked[s] + Cardinality(GrantedFor(s)) + Cardinality(ForwardIn(pending, s))
      /\ Cardinality(GrantedFor(s)) \in Nat /\ Cardinality(ForwardIn(pending, s)) \in Nat
      /\ requested[s] \in Nat /\ asked[s] \in Nat
    BY AckCases, KeptCounts DEF Kept
<1>1. /\ acks[i] > 0 /\ requested' = requested /\ asked' = asked
      /\ \/ UNCHANGED <<pending, granted>>
         \/ \E k \in DOMAIN pending :
               /\ pending[k] \in Request
               /\ Idle(idle, pending[k].service) # {}
               /\ Grant(idle, pending[k])
               /\ pending' = IF running' THEN RemoveAt(pending, k) ELSE pending
    BY Zenon, AckCases
<1>2. idle \in [Instance -> InstanceState] /\ \A j \in Instance : idle[j] = IF j = i THEN "idle" ELSE instance[j]
    BY DEF TypeOK, InstanceState
<1>3. \A j \in Instance : idle[j] = "idle" => GrantedOf(j) = {}
    <2>1. GrantedOf(i) = {}
        <3>1. acks[i] > 0 /\ Sole(i)
            BY <1>1 DEF Scheduling, Scheduled
        <3>2. acks[i] # 0
            BY <3>1
        <3> QED BY <3>1, <3>2 DEF Sole
    <2> QED BY <1>2, <2>1 DEF Scheduling, Scheduled, Free
<1> HIDE DEF idle
<1>4. CASE UNCHANGED <<pending, granted>>
    <2>1. GrantedFor(s)' = GrantedFor(s)
        BY <1>4 DEF GrantedFor
    <2> QED BY <1>0, <1>1, <1>4, <2>1
<1>5. ASSUME NEW k \in DOMAIN pending, pending[k] \in Request, Idle(idle, pending[k].service) # {},
             Grant(idle, pending[k]), pending' = IF running' THEN RemoveAt(pending, k) ELSE pending
      PROVE  requested'[s] = asked'[s] + Cardinality(GrantedFor(s)') + Cardinality(ForwardIn(pending', s))
    <2>1. Cardinality(GrantedFor(s)') =
              Cardinality(GrantedFor(s)) + (IF pending[k].caller = Forward /\ pending[k].service = s THEN 1 ELSE 0)
        BY <1>2, <1>3, <1>5, GrantKept
    <2>2. pending \in Seq(Request)
        BY DEF TypeOK
    <2>3. Cardinality(ForwardIn(pending, s)) =
              Cardinality(ForwardIn(RemoveAt(pending, k), s))
              + (IF pending[k].caller = Forward /\ pending[k].service = s THEN 1 ELSE 0)
        BY <2>2, ForwardRemoved
    <2>4. Cardinality(ForwardIn(RemoveAt(pending, k), s)) \in Nat
        <3>1. RemoveAt(pending, k) \in Seq(Request)
            BY <2>2, RemovedAt
        <3>2. IsFiniteSet(ForwardIn(RemoveAt(pending, k), s))
            BY <3>1, ForwardFinite
        <3> QED BY <3>2, FS_CardinalityType
    <2>5. pending' = RemoveAt(pending, k)
        BY <1>5
    <2> QED BY <1>0, <1>1, <2>1, <2>3, <2>4, <2>5
<1> QED BY <1>1, <1>4, <1>5

\* A grant finds a call that the cache keeps, and takes it.
LEMMA ForwardCallKept ==
    ASSUME TypeOK, Kept, ForwardCall
    PROVE  Kept'
<1>1. PICK g \in granted :
          /\ granted' = granted \ {g}
          /\ requested' = [requested EXCEPT ![g[1]] = IF @ > 0 THEN @ - 1 ELSE 0]
          /\ UNCHANGED <<brokerVars, process, acks, deaths, callerVars, asked>>
    BY Zenon DEF ForwardCall
<1>2. running' = running /\ pending' = pending /\ asked' = asked
    BY <1>1 DEF brokerVars
<1> SUFFICES ASSUME running', NEW s \in Service
             PROVE  requested'[s] = asked'[s] + Cardinality(GrantedFor(s)') + Cardinality(ForwardIn(pending', s))
    BY DEF Kept, ForwardIn
<1>0. /\ requested[s] = asked[s] + Cardinality(GrantedFor(s)) + Cardinality(ForwardIn(pending, s))
      /\ Cardinality(GrantedFor(s)) \in Nat /\ Cardinality(ForwardIn(pending, s)) \in Nat
      /\ requested[s] \in Nat /\ asked[s] \in Nat
    BY <1>2, KeptCounts DEF Kept
<1>3. IsFiniteSet(GrantedFor(s))
    BY GrantedFinite
<1>4. CASE g[1] = s
    <2>1. g \in GrantedFor(s) /\ GrantedFor(s)' = GrantedFor(s) \ {g}
        BY <1>1, <1>4 DEF GrantedFor
    <2>2. Cardinality(GrantedFor(s) \ {g}) = Cardinality(GrantedFor(s)) - 1
        BY <1>3, <2>1, FS_RemoveElement
    <2>3. Cardinality(GrantedFor(s)) # 0
        BY <1>3, <2>1, FS_EmptySet
    <2>4. requested'[s] = requested[s] - 1
        BY <1>0, <1>1, <1>4, <2>3 DEF TypeOK
    <2> QED BY <1>0, <1>2, <2>1, <2>2, <2>4
<1>5. CASE g[1] # s
    <2>1. GrantedFor(s)' = GrantedFor(s)
        BY <1>1, <1>5 DEF GrantedFor
    <2>2. requested'[s] = requested[s]
        BY <1>1, <1>5 DEF TypeOK
    <2> QED BY <1>0, <1>2, <2>1, <2>2
<1> QED BY <1>4, <1>5

\* Every step keeps the forward cache's account.
LEMMA AccountKept ==
    ASSUME TypeOK, RegistryConsistent, Scheduling, Kept, [Next]_vars
    PROVE  Kept'
<1>0. TypeOK'
    BY TypesKept
<1> USE DEF brokerVars, serverVars, callerVars, forwardVars
<1>1. CASE UNCHANGED vars
    BY <1>1, KeptWhenQuiet DEF vars
<1>2. ASSUME NEW i \in Instance, Connect(i) \/ Advertise(i) \/ Unadvertise(i) \/ HandleDeath(i) PROVE Kept'
    BY <1>2, KeptWhenQuiet DEF Connect, Advertise, Unadvertise, HandleDeath
<1>3. ASSUME NEW i \in Instance, Serve(i) \/ Exit(i) \/ Kill(i) PROVE Kept'
    BY <1>3, KeptWhenQuiet DEF Serve, Exit, Kill
<1>4. ASSUME NEW c \in Caller, Lookup(c) \/ Call(c) \/ Timeout(c) \/ Die(c) PROVE Kept'
    BY <1>4, KeptWhenQuiet DEF Lookup, Call, Timeout, Die
<1>5. ASSUME NEW n \in ScaleTo, Scale(n) PROVE Kept'
    BY <1>5, KeptWhenQuiet DEF Scale
<1>6. ASSUME NEW i \in Instance, HandleAck(i) PROVE Kept'
    BY <1>6, AckKept
<1>7. ASSUME NEW c \in Caller, HandleLookup(c) PROVE Kept'
    BY <1>0, <1>7, LookupKept
<1>8. ASSUME NEW s \in Service, HandleForwardLookup(s) PROVE Kept'
    BY <1>8, ForwardLookupKept
<1>9. ASSUME ForwardCall PROVE Kept'
    BY <1>9, ForwardCallKept
<1> QED BY <1>1, <1>2, <1>3, <1>4, <1>5, <1>6, <1>7, <1>8, <1>9
        DEF Next, BrokerNext, ServerNext, CallerNext

\* The cache keeps one call for every lookup of it that is under way, for any number of callers,
\* services and instances.
THEOREM ForwardAlwaysKeepsCalls == Spec => []ForwardKeepsCalls
<1>1. Init => Kept
    <2>1. ASSUME Init, NEW s \in Service PROVE GrantedFor(s) = {} /\ ForwardIn(pending, s) = {}
        <3>1. granted = {} /\ pending = <<>> /\ DOMAIN pending = {}
            BY <2>1 DEF Init
        <3> QED BY <3>1 DEF GrantedFor, ForwardIn
    <2>2. ASSUME Init, NEW s \in Service PROVE requested[s] = 0 /\ asked[s] = 0
        BY <2>2 DEF Init
    <2> QED BY <2>1, <2>2, FS_EmptySet DEF Kept
<1>2. TypeOK /\ RegistryConsistent /\ Scheduling /\ Kept /\ [Next]_vars => Kept'
    BY AccountKept
<1>3. Kept => ForwardKeepsCalls
    BY DEF Kept, ForwardKeepsCalls, GrantedFor, ForwardIn
<1>4. Init => Scheduling
    BY InitSchedules
<1>5. TypeOK /\ RegistryConsistent /\ Scheduling /\ [Next]_vars => Scheduling'
    BY SchedulingKept
<1> QED BY <1>1, <1>2, <1>3, <1>4, <1>5, RegistryAlwaysConsistent, TypesCorrect, PTL DEF Spec

-----------------------------------------------------------------------------
(* The order of the requests that wait.                                    *)

\* If it makes no difference which of two elements is taken out, all between them are the same.
LEMMA SameBetween ==
    ASSUME NEW S, NEW p \in Seq(S), NEW k \in DOMAIN p, NEW l \in DOMAIN p, k <= l,
           RemoveAt(p, k) = RemoveAt(p, l)
    PROVE  \A j \in k .. l : p[j] = p[k]
<1>1. /\ Len(p) \in Nat /\ DOMAIN p = 1 .. Len(p) /\ k \in 1 .. Len(p) /\ l \in 1 .. Len(p)
      /\ \A j \in 1 .. Len(p) - 1 : RemoveAt(p, k)[j] = IF j < k THEN p[j] ELSE p[j + 1]
      /\ \A j \in 1 .. Len(p) - 1 : RemoveAt(p, l)[j] = IF j < l THEN p[j] ELSE p[j + 1]
    BY RemovedAt
<1>2. ASSUME NEW j \in k .. l - 1 PROVE p[j] = p[j + 1]
    <2>1. j \in 1 .. Len(p) - 1 /\ j < l /\ ~ j < k
        BY <1>1
    <2>2. RemoveAt(p, k)[j] = p[j + 1] /\ RemoveAt(p, l)[j] = p[j]
        BY <1>1, <2>1
    <2> QED BY <2>2
<1> DEFINE B == {j \in k .. l : p[j] # p[k]}
<1>3. ASSUME B # {} PROVE FALSE
    <2>1. B \in SUBSET Nat
        BY <1>1
    <2>2. Min(B) \in B /\ \A x \in B : Min(B) <= x
        BY <1>3, <2>1, Least
    <2>3. PICK m \in B : \A x \in B : m <= x
        BY <2>2
    <2>4. m \in k .. l /\ p[m] # p[k] /\ m # k
        OBVIOUS
    <2>5. m - 1 \in k .. l - 1 /\ m - 1 \in k .. l /\ (m - 1) + 1 = m /\ ~ m <= m - 1
        BY <1>1, <2>4
    <2>6. p[m - 1] = p[k]
        BY <2>3, <2>5
    <2>7. p[m - 1] = p[(m - 1) + 1]
        BY <1>2, <2>5
    <2> QED BY <2>4, <2>5, <2>6, <2>7
<1> QED BY <1>3

\* ACK serves the first request that waits for a service of the instance.
LEMMA AckServesFirst ==
    ASSUME TypeOK, RegistryConsistent, NEW i \in Instance, HandleAck(i),
           NEW k \in DOMAIN pending, Len(pending') < Len(pending), pending' = RemoveAt(pending, k)
    PROVE  /\ acks'[i] < acks[i]
           /\ pending[k].service \in offers[i]
           /\ \A j \in 1 .. k - 1 : pending[j].service \in offers[i] => pending[j] = pending[k]
<1>1. pending \in Seq(Request)
    BY DEF TypeOK
<1>2. Len(pending) \in Nat /\ DOMAIN pending = 1 .. Len(pending) /\ k \in 1 .. Len(pending)
    BY <1>1
<1>3. pending' # pending
    BY <1>2
<1>4. \E l \in DOMAIN pending :
          /\ pending[l].service \in offers[i]
          /\ \A x \in 1 .. l - 1 : pending[x].service \notin offers[i]
          /\ pending' = IF running' THEN RemoveAt(pending, l) ELSE pending
    BY <1>3, AckCases
<1>5. PICK l \in DOMAIN pending :
          /\ pending[l].service \in offers[i]
          /\ \A x \in 1 .. l - 1 : pending[x].service \notin offers[i]
          /\ RemoveAt(pending, k) = RemoveAt(pending, l)
    BY <1>3, <1>4
<1>6. l \in 1 .. Len(pending)
    BY <1>2
<1>7. acks'[i] < acks[i]
    BY DEF HandleAck, TypeOK
<1>8. CASE k <= l
    <2>1. pending[l] = pending[k]
        BY <1>1, <1>2, <1>5, <1>6, <1>8, SameBetween
    <2>2. \A j \in 1 .. k - 1 : j \in 1 .. l - 1
        BY <1>2, <1>6, <1>8
    <2> QED BY <1>5, <1>7, <2>1, <2>2
<1>9. CASE ~ k <= l
    <2>1. \A x \in l .. k : pending[x] = pending[l]
        BY <1>1, <1>2, <1>5, <1>6, <1>9, SameBetween
    <2>2. pending[k] = pending[l]
        BY <1>2, <1>6, <1>9, <2>1
    <2>3. \A j \in 1 .. k - 1 : j \in 1 .. l - 1 \/ j \in l .. k
        BY <1>2, <1>6, <1>9
    <2> QED BY <1>5, <1>7, <2>1, <2>2, <2>3
<1> QED BY <1>8, <1>9

\* No step but an ACK makes pending.requests shorter.
LEMMA OnlyAckServes ==
    ASSUME TypeOK, [Next]_vars, \A i \in Instance : ~ HandleAck(i)
    PROVE  ~ Len(pending') < Len(pending)
<1> USE DEF brokerVars, serverVars, callerVars, forwardVars
<1>0. pending \in Seq(Request) /\ Len(pending) \in Nat
    BY DEF TypeOK
<1>1. pending' = pending => ~ Len(pending') < Len(pending)
    BY <1>0
<1>2. (\E r \in Request : pending' = Append(pending, r)) => ~ Len(pending') < Len(pending)
    BY <1>0
<1>3. CASE UNCHANGED vars
    BY <1>1, <1>3 DEF vars
<1>4. ASSUME NEW i \in Instance, Connect(i) \/ Advertise(i) \/ Unadvertise(i) \/ HandleDeath(i)
      PROVE  ~ Len(pending') < Len(pending)
    BY <1>1, <1>4 DEF Connect, Advertise, Unadvertise, HandleDeath
<1>5. ASSUME NEW i \in Instance, Serve(i) \/ Exit(i) \/ Kill(i) PROVE ~ Len(pending') < Len(pending)
    BY <1>1, <1>5 DEF Serve, Exit, Kill
<1>6. ASSUME NEW c \in Caller, Lookup(c) \/ Call(c) \/ Timeout(c) \/ Die(c)
      PROVE  ~ Len(pending') < Len(pending)
    BY <1>1, <1>6 DEF Lookup, Call, Timeout, Die
<1>7. ASSUME NEW n \in ScaleTo, Scale(n) PROVE ~ Len(pending') < Len(pending)
    BY <1>1, <1>7 DEF Scale
<1>8. ASSUME NEW c \in Caller, HandleLookup(c) PROVE ~ Len(pending') < Len(pending)
    BY <1>1, <1>2, <1>8, LookupCases
<1>9. ASSUME NEW s \in Service, HandleForwardLookup(s) PROVE ~ Len(pending') < Len(pending)
    BY <1>1, <1>2, <1>9, ForwardCases
<1>10. ASSUME ForwardCall PROVE ~ Len(pending') < Len(pending)
    BY <1>1, <1>10 DEF ForwardCall
<1> QED BY <1>3, <1>4, <1>5, <1>6, <1>7, <1>8, <1>9, <1>10
        DEF Next, BrokerNext, ServerNext, CallerNext

\* Of the lookups that the instance which becomes idle can serve, for one of its services or another,
\* the one that came first is served first.
THEOREM FirstIsServedFirst == Spec => FirstComeFirstServed
<1> DEFINE Served ==
        \A k \in DOMAIN pending :
            Len(pending') < Len(pending) /\ pending' = RemoveAt(pending, k) =>
                \E i \in Instance :
                    /\ acks'[i] < acks[i]
                    /\ pending[k].service \in offers[i]
                    /\ \A j \in 1 .. k - 1 : pending[j].service \in offers[i] => pending[j] = pending[k]
<1>1. TypeOK /\ RegistryConsistent /\ [Next]_vars => Served
    <2>1. ASSUME TypeOK, RegistryConsistent, [Next]_vars, \A i \in Instance : ~ HandleAck(i) PROVE Served
        BY <2>1, OnlyAckServes
    <2>2. ASSUME TypeOK, RegistryConsistent, NEW i \in Instance, HandleAck(i) PROVE Served
        BY <2>2, AckServesFirst
    <2> QED BY <2>1, <2>2
<1>2. TypeOK /\ RegistryConsistent /\ [Next]_vars => [Served]_vars
    BY <1>1
<1> HIDE DEF Served
<1>3. Spec => [][Served]_vars
    BY <1>2, RegistryAlwaysConsistent, TypesCorrect, PTL DEF Spec
<1> QED BY <1>3 DEF FirstComeFirstServed, Served
=============================================================================

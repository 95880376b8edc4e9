---------------------------- MODULE ServiceBroker ----------------------------
(***************************************************************************)
(* casual's broker (middleware/broker) as the scheduler of service calls,  *)
(* with the processes it schedules:                                        *)
(*                                                                         *)
(*   - the broker knows the server instances it has spawned, the services  *)
(*     they advertise and who is idle; it grants an idle instance to one   *)
(*     caller, who sends the call to the instance itself;                  *)
(*   - a lookup that finds nobody idle waits in pending.requests; it gets  *)
(*     a busy reply first and is served by the ACK of an instance;         *)
(*   - callers that want no reply are sent to the forward cache, a process *)
(*     that looks the service up on their behalf.                          *)
(*                                                                         *)
(* All instances belong to one server. Instance numbers are pids.          *)
(***************************************************************************)
EXTENDS Integers, Sequences, FiniteSets, FiniteSetsExt, SequencesExt

CONSTANTS
    Caller,      \* processes that call services
    Forward,     \* the forward cache
    Service,     \* service names
    MaxPid,      \* bound: instances ever spawned
    Configured,  \* configured_instances at boot
    ScaleTo,     \* instance counts the administrator may ask for
    MaxScales,   \* bound: how often he asks
    MaxLookups,  \* bound: calls per caller
    Timeouts,    \* calls may miss their deadline
    Killable,    \* instances that may be killed
    Mortal       \* callers that may die

ASSUME ForwardAssumption == Forward \notin Caller
ASSUME ServiceAssumption == Service # {}
ASSUME BoundAssumption ==
    /\ MaxPid \in Nat /\ Configured \in 0 .. MaxPid
    /\ ScaleTo \subseteq 0 .. MaxPid
    /\ MaxScales \in Nat /\ MaxLookups \in [Caller -> Nat] /\ Timeouts \in BOOLEAN

Instance == 1 .. MaxPid

\* Server::Instance::State; "none": not spawned yet, "gone": removed.
InstanceState == {"none", "booted", "idle", "busy", "shutdown", "gone"}

\* A lookup in pending.requests
Request == [caller : Caller \cup {Forward}, service : Service, correlation : Nat]

\* What a caller is doing: it has sent a lookup; waits for an instance to
\* become idle; has got an instance at once ("granted") or after it has waited
\* ("offered"); or waits for the reply of the service.
CallerState ==
    [state : {"idle", "looking", "waiting", "calling"}, service : Service,
     noreply : BOOLEAN, instance : 0 .. MaxPid]
    \cup
    [state : {"granted", "offered"}, service : Service,
     noreply : BOOLEAN, instance : Instance]

\* What an instance reads
Shutdown == [type |-> "shutdown", caller |-> Forward, correlation |-> 0]
Message ==
    [type : {"call"}, caller : Caller \cup {Forward}, correlation : Nat]
    \cup {Shutdown}

VARIABLES
    running,     \* the broker runs
    instance,    \* State::instances
    configured,  \* Server::configured_instances
    scales,      \* how often it was set
    services,    \* the names State::services holds
    advertised,  \* Service::instances of every name
    offers,      \* Instance::services of every instance
    pending,     \* State::pending.requests
    process,     \* "starting", "up", "killed" (its ipc-queue is left) or "exited", of every instance
    queue,       \* the ipc-queue of every instance
    acks,        \* ACKs the broker has not read, by instance
    deaths,      \* dead::process::Events the broker has not read
    caller,      \* CallerState of every caller
    lookups,     \* lookups a caller has made, the correlation of the last one
    alive,       \* callers that run
    requested,   \* calls the forward cache keeps, by service
    asked,       \* lookups of the forward cache the broker has not read
    granted      \* instances the forward cache has been granted

brokerVars == <<running, instance, configured, scales, services, advertised, offers, pending>>
serverVars == <<process, queue, acks, deaths>>
callerVars == <<caller, lookups, alive>>
forwardVars == <<requested, asked, granted>>
vars == <<running, instance, configured, scales, services, advertised, offers, pending, process, queue,
          acks, deaths, caller, lookups, alive, requested, asked, granted>>

Spawned(inst) == {i \in Instance : inst[i] \notin {"none", "gone"}}
NoCall == [state |-> "idle", service |-> CHOOSE s \in Service : TRUE,
           noreply |-> FALSE, instance |-> 0]

Init ==
    /\ running = TRUE
    /\ instance = [i \in Instance |-> IF i <= Configured THEN "booted" ELSE "none"]
    /\ configured = Configured
    /\ scales = 0
    /\ services = {}
    /\ advertised = [s \in Service |-> {}]
    /\ offers = [i \in Instance |-> {}]
    /\ pending = <<>>
    /\ process = [i \in Instance |-> "starting"]
    /\ queue = [i \in Instance |-> <<>>]
    /\ acks = [i \in Instance |-> 0]
    /\ deaths = {}
    /\ caller = [c \in Caller |-> NoCall]
    /\ lookups = [c \in Caller |-> 0]
    /\ alive = Caller
    /\ requested = [s \in Service |-> 0]
    /\ asked = [s \in Service |-> 0]
    /\ granted = {}

-----------------------------------------------------------------------------
(* The registry of services.                                               *)

\* State::addServices
AddServices(i, ss) ==
    /\ services' = services \cup ss
    /\ advertised' = [s \in Service |-> IF s \in ss THEN advertised[s] \cup {i} ELSE advertised[s]]
    /\ offers' = [offers EXCEPT ![i] = @ \cup ss]

\* Connect: the instance is started for the first time. It is idle, also when
\* it has been flagged shutdown since it was booted.
Connect(i) ==
    /\ running /\ i \in Spawned(instance) /\ process[i] = "starting"
    /\ process' = [process EXCEPT ![i] = "up"]
    /\ \E ss \in SUBSET Service : AddServices(i, ss)
    /\ instance' = [instance EXCEPT ![i] = "idle"]
    /\ UNCHANGED <<running, configured, scales, pending, queue, acks, deaths, callerVars, forwardVars>>

\* What instance i, which runs, reads next
Reads(i, type) == process[i] = "up" /\ queue[i] # <<>> /\ Head(queue[i]).type = type

\* Advertise, which a service sends while it is called
Advertise(i) ==
    /\ running /\ i \in Spawned(instance) /\ Reads(i, "call")
    /\ \E s \in Service \ offers[i] : AddServices(i, {s})
    /\ UNCHANGED <<running, instance, configured, scales, pending, serverVars, callerVars, forwardVars>>

\* Unadvertise, State::removeServices: the name stays in State::services.
Unadvertise(i) ==
    /\ running /\ i \in Spawned(instance) /\ Reads(i, "call")
    /\ \E s \in offers[i] :
          /\ advertised' = [advertised EXCEPT ![s] = @ \ {i}]
          /\ offers' = [offers EXCEPT ![i] = @ \ {s}]
    /\ UNCHANGED <<running, instance, configured, scales, services, pending, serverVars, callerVars, forwardVars>>

-----------------------------------------------------------------------------
(* Lookups.                                                                *)

Idle(inst, s) == {i \in advertised[s] : inst[i] = "idle"}

\* The request still is the caller's latest: its reply is not discarded.
Current(r) ==
    /\ r.caller \in alive
    /\ lookups[r.caller] = r.correlation
    /\ caller[r.caller].state \in {"looking", "waiting"}

\* Mutant of Grant: the instance is not flagged busy.
GrantLeavesIdle(inst, r) ==
    LET i == Min(Idle(inst, r.service))
    IN  /\ instance' = inst
        /\ r.caller \in Caller /\ Current(r)
        /\ caller' = [caller EXCEPT ![r.caller].state = "granted", ![r.caller].instance = i]
        /\ UNCHANGED <<running, granted>>

\* ServiceLookup finds an instance idle: it is flagged busy and sent to the
\* caller. A caller that is gone makes the send throw queue::Unavailable,
\* which ends message::pump. A caller that has given the lookup up discards
\* the reply.
Grant(inst, r) ==
    LET i == Min(Idle(inst, r.service))
    IN  /\ instance' = [inst EXCEPT ![i] = "busy"]
        /\ \/ /\ r.caller = Forward
              /\ granted' = granted \cup {<<r.service, i>>}
              /\ UNCHANGED <<running, caller>>
           \/ /\ r.caller # Forward /\ Current(r)
              /\ caller' = [caller EXCEPT
                    ![r.caller].state = IF @ = "looking" THEN "granted" ELSE "offered",
                    ![r.caller].instance = i]
              /\ UNCHANGED <<running, granted>>
           \/ /\ r.caller # Forward /\ ~ Current(r)
              /\ running' = (r.caller \in alive)
              /\ UNCHANGED <<caller, granted>>

\* Mutant of HandleLookup: the reply to a stacked request says idle.
LookupNeverBusy(c) ==
    /\ running /\ caller[c].state = "looking" /\ c \in alive
    /\ caller[c].service \in services
    /\ caller' = [caller EXCEPT ![c].state = "granted"]
    /\ UNCHANGED <<brokerVars, serverVars, lookups, alive, forwardVars>>

\* ServiceLookup of a caller
HandleLookup(c) ==
    LET s == caller[c].service
        r == [caller |-> c, service |-> s, correlation |-> lookups[c]]
    IN  /\ running /\ caller[c].state = "looking"
        /\ \/ /\ c \notin alive
              /\ running' = FALSE
              /\ UNCHANGED <<instance, pending, caller, requested, asked, granted>>
           \/ /\ c \in alive /\ s \notin services
              /\ caller' = [caller EXCEPT ![c].state = "idle"]
              /\ UNCHANGED <<running, instance, pending, requested, asked, granted>>
           \/ /\ c \in alive /\ s \in services /\ Idle(instance, s) # {}
              /\ Grant(instance, r)
              /\ UNCHANGED <<pending, requested, asked>>
           \/ /\ c \in alive /\ s \in services /\ Idle(instance, s) = {}
              /\ \/ /\ caller[c].noreply  \* the call goes to the forward cache
                    /\ caller' = [caller EXCEPT ![c].state = "idle"]
                    /\ requested' = [requested EXCEPT ![s] = @ + 1]
                    /\ asked' = [asked EXCEPT ![s] = @ + 1]
                    /\ UNCHANGED pending
                 \/ /\ ~ caller[c].noreply
                    /\ pending' = Append(pending, r)
                    /\ caller' = [caller EXCEPT ![c].state = "waiting"]
                    /\ UNCHANGED <<requested, asked>>
              /\ UNCHANGED <<running, instance, granted>>
        /\ UNCHANGED <<configured, scales, services, advertised, offers, serverVars, lookups, alive>>

\* Mutant of HandleForwardLookup: the cache takes the busy reply for an idle one.
BusyConsumesCall(s) ==
    LET r == [caller |-> Forward, service |-> s, correlation |-> 0]
    IN  /\ running /\ asked[s] > 0
        /\ asked' = [asked EXCEPT ![s] = @ - 1]
        /\ Idle(instance, s) = {}
        /\ pending' = Append(pending, r)
        /\ requested' = [requested EXCEPT ![s] = @ - 1]
        /\ UNCHANGED <<running, instance, caller, granted, configured, scales, services, advertised,
                       offers, serverVars, lookups, alive>>

\* ServiceLookup of the forward cache, for a call it keeps; the cache ignores
\* the busy reply
HandleForwardLookup(s) ==
    LET r == [caller |-> Forward, service |-> s, correlation |-> 0]
    IN  /\ running /\ asked[s] > 0
        /\ asked' = [asked EXCEPT ![s] = @ - 1]
        /\ \/ /\ Idle(instance, s) # {}
              /\ Grant(instance, r)
              /\ UNCHANGED pending
           \/ /\ Idle(instance, s) = {}
              /\ pending' = Append(pending, r)
              /\ UNCHANGED <<running, instance, caller, granted>>
        /\ UNCHANGED <<configured, scales, services, advertised, offers, serverVars, lookups, alive, requested>>

\* Pending requests for services that instance i has
Wanted(i) == {k \in DOMAIN pending : pending[k].service \in offers[i]}

\* Mutant of HandleAck: the last request is served first.
AckServesLast(i) ==
    /\ running /\ acks[i] > 0
    /\ acks' = [acks EXCEPT ![i] = @ - 1]
    /\ instance[i] # "gone"
    /\ LET idle == [instance EXCEPT ![i] = "idle"]
       IN  \/ /\ Wanted(i) = {}
              /\ instance' = idle
              /\ UNCHANGED <<running, pending, caller, granted>>
           \/ /\ Wanted(i) # {}
              /\ Grant(idle, pending[Max(Wanted(i))])
              /\ pending' = RemoveAt(pending, Max(Wanted(i)))
    /\ UNCHANGED <<configured, scales, services, advertised, offers, process, queue, deaths, lookups, alive, requested, asked>>

\* ACK: the instance is idle, whatever its state was, and the first pending
\* request that it can serve gets an idle instance.
HandleAck(i) ==
    /\ running /\ acks[i] > 0
    /\ acks' = [acks EXCEPT ![i] = @ - 1]
    /\ LET idle == [instance EXCEPT ![i] = "idle"]
       IN  \/ /\ instance[i] = "gone"
              /\ UNCHANGED <<running, instance, pending, caller, granted>>
           \/ /\ instance[i] # "gone" /\ Wanted(i) = {}
              /\ instance' = idle
              /\ UNCHANGED <<running, pending, caller, granted>>
           \/ /\ instance[i] # "gone" /\ Wanted(i) # {}
              /\ Grant(idle, pending[Min(Wanted(i))])
              /\ pending' = IF running' THEN RemoveAt(pending, Min(Wanted(i))) ELSE pending
    /\ UNCHANGED <<configured, scales, services, advertised, offers, process, queue, deaths, lookups, alive, requested, asked>>

-----------------------------------------------------------------------------
(* The number of instances.                                                *)

\* update::instances: boot what is missing, or flag the last ones shutdown
\* and tell them, those excepted whose ipc-queue is gone or not known yet.
\* Instances are spawned in the order of their numbers.
UpdateInstances(inst, conf, q) ==
    LET now == Spawned(inst)
        missing == conf - Cardinality(now)
        fresh == {i \in Instance : inst[i] = "none"}
        boot == {i \in fresh : Cardinality({j \in fresh : j < i}) < missing}
        last == {i \in now : Cardinality({j \in now : j > i}) < - missing}
    IN  /\ instance' = [i \in Instance |-> IF i \in boot THEN "booted"
                                           ELSE IF i \in last THEN "shutdown" ELSE inst[i]]
        /\ queue' = [i \in Instance |-> IF i \in last /\ process[i] \in {"up", "killed"}
                                        THEN Append(q[i], Shutdown) ELSE q[i]]

\* The administrator sets the number of instances (admin update::instances).
Scale(n) ==
    /\ running /\ n # configured /\ scales < MaxScales
    /\ scales' = scales + 1
    /\ n - Cardinality(Spawned(instance)) <= Cardinality({i \in Instance : instance[i] = "none"})
    /\ configured' = n
    /\ UpdateInstances(instance, n, queue)
    /\ UNCHANGED <<running, services, advertised, offers, pending, process, acks, deaths, callerVars, forwardVars>>

\* Mutant of HandleDeath: the services keep their reference to the instance.
DeathKeepsServices(i) ==
    /\ running /\ i \in deaths
    /\ deaths' = deaths \ {i}
    /\ process' = [process EXCEPT ![i] = "exited"]
    /\ offers' = [offers EXCEPT ![i] = {}]
    /\ UpdateInstances([instance EXCEPT ![i] = "gone"], configured,
                       [queue EXCEPT ![i] = <<>>])
    /\ UNCHANGED <<running, configured, scales, services, advertised, pending, acks, callerVars, forwardVars>>

\* dead::process::Event, State::remove_process; the server is restarted.
HandleDeath(i) ==
    /\ running /\ i \in deaths
    /\ deaths' = deaths \ {i}
    /\ process' = [process EXCEPT ![i] = "exited"]
    /\ advertised' = [s \in Service |-> IF s \in offers[i] THEN advertised[s] \ {i} ELSE advertised[s]]
    /\ offers' = [offers EXCEPT ![i] = {}]
    /\ UpdateInstances([instance EXCEPT ![i] = "gone"], configured,
                       [queue EXCEPT ![i] = <<>>])
    /\ UNCHANGED <<running, configured, scales, services, pending, acks, callerVars, forwardVars>>

-----------------------------------------------------------------------------
(* The server instances.                                                   *)

\* The server calls the service, replies to the caller and sends the ACK.
Serve(i) ==
    /\ Reads(i, "call")
    /\ LET c == Head(queue[i]).caller
       IN  caller' = IF c # Forward /\ c \in alive /\ caller[c].state = "calling"
                        /\ lookups[c] = Head(queue[i]).correlation
                     THEN [caller EXCEPT ![c].state = "idle"] ELSE caller
    /\ queue' = [queue EXCEPT ![i] = Tail(@)]
    /\ acks' = [acks EXCEPT ![i] = @ + 1]
    /\ UNCHANGED <<brokerVars, process, deaths, lookups, alive, forwardVars>>

\* The server reads the shutdown message and exits.
Exit(i) ==
    /\ Reads(i, "shutdown")
    /\ process' = [process EXCEPT ![i] = "exited"]
    /\ deaths' = deaths \cup {i}
    /\ queue' = [queue EXCEPT ![i] = <<>>]
    /\ UNCHANGED <<brokerVars, acks, callerVars, forwardVars>>

\* The server is killed. Its ipc-queue is left until the broker knows.
Kill(i) ==
    /\ i \in Killable /\ i \in Spawned(instance) /\ process[i] \in {"starting", "up"}
    /\ process' = [process EXCEPT ![i] = IF @ = "up" THEN "killed" ELSE "exited"]
    /\ deaths' = deaths \cup {i}
    /\ UNCHANGED <<brokerVars, queue, acks, callerVars, forwardVars>>

-----------------------------------------------------------------------------
(* The callers, and the forward cache.                                     *)

\* Context::async: the lookup is sent.
Lookup(c) ==
    /\ c \in alive /\ caller[c].state = "idle" /\ lookups[c] < MaxLookups[c]
    /\ lookups' = [lookups EXCEPT ![c] = @ + 1]
    /\ \E s \in Service, n \in BOOLEAN :
          caller' = [caller EXCEPT ![c] = [state |-> "looking", service |-> s,
                                           noreply |-> n, instance |-> 0]]
    /\ UNCHANGED <<brokerVars, serverVars, alive, forwardVars>>

Query(c, n) == [type |-> "call", caller |-> c, correlation |-> n]

HasInstance(c) == c \in alive /\ caller[c].state \in {"granted", "offered"}

\* Context::async: the call is sent to the instance. If the instance's queue
\* is gone the caller sends the ACK.
Call(c) ==
    LET i == caller[c].instance
    IN  /\ HasInstance(c)
        /\ \/ /\ process[i] # "exited"
              /\ queue' = [queue EXCEPT ![i] = Append(@, Query(c, lookups[c]))]
              /\ caller' = [caller EXCEPT ![c].state = IF caller[c].noreply THEN "idle" ELSE "calling"]
              /\ UNCHANGED acks
           \/ /\ process[i] = "exited"
              /\ acks' = [acks EXCEPT ![i] = @ + 1]
              /\ caller' = [caller EXCEPT ![c].state = "idle"]
              /\ UNCHANGED queue
    /\ UNCHANGED <<brokerVars, process, deaths, lookups, alive, forwardVars>>

\* The deadline passes. Before the call is sent, the caller sends the ACK for
\* the instance it knows. While it waits for one it knows none, and the lookup
\* stays with the broker; the same if the broker's second reply is not read.
Timeout(c) ==
    /\ Timeouts /\ c \in alive
    /\ \/ caller[c].state \in {"waiting", "offered", "calling"} /\ UNCHANGED acks
       \/ HasInstance(c) /\ acks' = [acks EXCEPT ![caller[c].instance] = @ + 1]
    /\ caller' = [caller EXCEPT ![c].state = "idle"]
    /\ UNCHANGED <<brokerVars, process, queue, deaths, lookups, alive, forwardVars>>

\* The environment: a caller ends or is killed.
Die(c) ==
    /\ c \in alive \cap Mortal
    /\ alive' = alive \ {c}
    /\ UNCHANGED <<brokerVars, serverVars, caller, lookups, forwardVars>>

\* service::name::Lookup of the forward cache: the oldest call it keeps for
\* the service is sent to the instance, or answered with an error. Without a
\* call that it keeps, the reply is discarded.
ForwardCall ==
    \E g \in granted :
        /\ granted' = granted \ {g}
        /\ requested' = [requested EXCEPT ![g[1]] = IF @ > 0 THEN @ - 1 ELSE 0]
        /\ queue' = IF process[g[2]] = "exited" \/ requested[g[1]] = 0 THEN queue
                    ELSE [queue EXCEPT ![g[2]] = Append(@, Query(Forward, 0))]
        /\ UNCHANGED <<brokerVars, process, acks, deaths, callerVars, asked>>

-----------------------------------------------------------------------------
BrokerNext ==
    \/ \E i \in Instance : \/ Connect(i) \/ Advertise(i) \/ Unadvertise(i)
                           \/ HandleAck(i) \/ HandleDeath(i)
    \/ \E c \in Caller : HandleLookup(c)
    \/ \E s \in Service : HandleForwardLookup(s)
    \/ \E n \in ScaleTo : Scale(n)

ServerNext == \E i \in Instance : Serve(i) \/ Exit(i) \/ Kill(i)
CallerNext == \E c \in Caller : Lookup(c) \/ Call(c) \/ Timeout(c) \/ Die(c)

Next == BrokerNext \/ ServerNext \/ CallerNext \/ ForwardCall

Spec == Init /\ [][Next]_vars

-----------------------------------------------------------------------------
(* Properties.                                                             *)

\* The variables have their types.
TypeOK ==
    /\ running \in BOOLEAN
    /\ instance \in [Instance -> InstanceState]
    /\ configured \in 0 .. MaxPid /\ scales \in Nat
    /\ services \subseteq Service
    /\ advertised \in [Service -> SUBSET Instance]
    /\ offers \in [Instance -> SUBSET Service]
    /\ pending \in Seq(Request)
    /\ process \in [Instance -> {"starting", "up", "killed", "exited"}]
    /\ queue \in [Instance -> Seq(Message)]
    /\ acks \in [Instance -> Nat]
    /\ deaths \subseteq Instance
    /\ caller \in [Caller -> CallerState]
    /\ lookups \in [Caller -> Nat]
    /\ alive \subseteq Caller
    /\ requested \in [Service -> Nat] /\ asked \in [Service -> Nat]
    /\ granted \subseteq Service \X Instance

\* The two directions of the registry agree, and it never refers to an
\* instance that has been removed: both sides hold references into the map of
\* instances (State::addServices, removeServices, remove_process).
RegistryConsistent ==
    \A s \in Service, i \in Instance :
        /\ i \in advertised[s] <=> s \in offers[i]
        /\ i \in advertised[s] => i \in Spawned(instance) /\ s \in services

\* Who has been given instance i and has not given it back
Holders(i) ==
    Cardinality({c \in Caller : caller[c].state \in {"granted", "offered"}
                                /\ caller[c].instance = i})
    + Cardinality({g \in granted : g[2] = i})
    + Cardinality({k \in DOMAIN queue[i] : queue[i][k].type = "call"})
    + acks[i]

\* An instance serves one caller at a time: between the lookup that grants it
\* and the ACK, the broker grants it to nobody else (ServiceLookup, ACK).
Exclusive ==
    \A i \in Instance :
        /\ Holders(i) <= 1
        /\ instance[i] = "idle" => Holders(i) = 0

\* The forward cache keeps one call for every lookup of it that is under way:
\* every reply that is not busy finds a call to send, "has no registered call"
\* is never logged, and no call stays in the cache without a lookup
\* (forward::Cache's Call and Lookup, ServiceLookup, ACK).
ForwardKeepsCalls ==
    \A s \in Service :
        running => requested[s] =
            asked[s] + Cardinality({g \in granted : g[1] = s})
            + Cardinality({k \in DOMAIN pending : pending[k].caller = Forward
                                                  /\ pending[k].service = s})

\* A lookup leaves pending.requests only when an ACK makes an instance idle that has its
\* service, and then no older lookup waits, for the same service or for another, that this
\* instance could serve (ACK looks pending.requests through from the front).
FirstComeFirstServed ==
    [][\A k \in DOMAIN pending :
          Len(pending') < Len(pending) /\ pending' = RemoveAt(pending, k) =>
              \E i \in Instance :
                  /\ acks'[i] < acks[i]
                  /\ pending[k].service \in offers[i]
                  /\ \A j \in 1 .. k - 1 : pending[j].service \in offers[i] =>
                         pending[j] = pending[k]]_vars

\* A busy instance that runs is busy for somebody: if a call goes wrong, by a
\* timeout say, its ACK makes the instance idle again (Context::async).
BusyForSomebody ==
    \A i \in Instance :
        running /\ instance[i] = "busy" /\ process[i] = "up" => Holders(i) > 0
=============================================================================

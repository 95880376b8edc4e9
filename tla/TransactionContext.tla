------------------------- MODULE TransactionContext -------------------------
(***************************************************************************)
(* The transactions of a process: common::transaction::Context, with what  *)
(* call::Context (outgoing calls) and server::handle (incoming calls) do   *)
(* to it.                                                                  *)
(*                                                                         *)
(* A process keeps a stack of transactions, the last one current. It       *)
(* begins, commits, rolls back, suspends and resumes transactions; its     *)
(* calls carry the current transaction, and the descriptor of such a call  *)
(* stays associated with the transaction until the reply is fetched. A     *)
(* server joins or starts a transaction for every call it serves and       *)
(* settles whatever is on its stack before it replies.                     *)
(*                                                                         *)
(* The resource managers and the transaction manager are external: `xa'    *)
(* holds what they know. A branch stands for the work a process has done,  *)
(* or may have done, at a resource manager in a transaction. A resource    *)
(* manager refuses, and the code only logs, a call that XA does not allow. *)
(* The manager answers while its caller blocks, so its part of a commit or *)
(* a rollback belongs to the caller's step; how it decides is the subject  *)
(* of TransactionManager.                                                  *)
(***************************************************************************)
EXTENDS Naturals, FiniteSets, SequencesExt

CONSTANTS
    Clients, Servers,
    RM,
    Fixed, Dynamic,   \* [Process -> SUBSET RM]: resources linked statically, dynamically
    Targets,          \* [Process -> SUBSET Servers]: whom a process calls or forwards to
    Program,          \* [Process -> SUBSET Operation]: what the user's code of a process does
    Services,         \* [Servers -> SUBSET Mode]: the transaction modes of its services
    Controls,         \* transaction controls that a process sets
    MaxTrans,         \* [Process -> Nat], bound: transactions that a process starts
    MaxCalls,         \* bound: calls
    MaxFailed         \* bound: descriptors of failed calls in one transaction

Process == Clients \cup Servers
Control == {"unchained", "chained", "stacked"}
Mode == {"automatic", "join", "atomic", "none"}
Flag == {"tran", "notran", "noreply"}
Operation == {"begin", "end", "suspend", "control", "register", "fail", "cancel"} \cup Flag

ASSUME ContextAssumption ==
    /\ Clients \cap Servers = {}
    /\ Fixed \in [Process -> SUBSET RM] /\ Dynamic \in [Process -> SUBSET RM]
    /\ \A p \in Process : Fixed[p] \cap Dynamic[p] = {} /\ p \notin Targets[p]
    /\ Targets \in [Process -> SUBSET Servers]
    /\ Program \in [Process -> SUBSET Operation] /\ Services \in [Servers -> SUBSET Mode]
    /\ Controls \subseteq Control
    /\ MaxTrans \in [Process -> Nat] /\ MaxCalls \in Nat /\ MaxFailed \in Nat

VARIABLES
    stack,     \* m_transactions
    outside,   \* resources of the null transaction that current() gives for an empty stack
    control,   \* m_control
    active,    \* call::State::Pending: reserved descriptors
    caller,    \* transaction of the call a server serves
    serving,   \* index in calls of the call a server serves, 0 when idle
    calls,     \* every call made
    started,   \* number of transactions that a process has started
    xa,        \* what the resource managers and the transaction manager know
    stranded,  \* processes that have left a transaction behind
    failed     \* transactions in which a service has failed

vars == <<stack, outside, control, active, caller, serving, calls, started, xa,
          stranded, failed>>

Null == <<>>
Trid == UNION {{p} \X (1 .. MaxTrans[p]) : p \in Process}
Owner(t) == t[1]

(* Transaction::Transaction *)
New(t) == [trid |-> t, state |-> "active", resources |-> {}, descs |-> <<>>,
           local |-> TRUE]

(* Context::current *)
Current(p) == IF stack[p] = <<>> THEN [New(Null) EXCEPT !.resources = outside[p]]
                                 ELSE Last(stack[p])

SetCurrent(p, tr) ==
    IF stack[p] = <<>>
    THEN outside' = [outside EXCEPT ![p] = tr.resources] /\ UNCHANGED stack
    ELSE stack' = [stack EXCEPT ![p][Len(stack[p])] = tr] /\ UNCHANGED outside

(* The user's code of a process does op; that of a server runs while it    *)
(* serves a call.                                                          *)
Running(p) == p \in Servers => serving[p] # 0
Does(p, op) == Running(p) /\ op \in Program[p]

Init ==
    /\ stack = [p \in Process |-> <<>>]
    /\ outside = [p \in Process |-> {}]
    /\ control = [p \in Process |-> "unchained"]
    /\ active = [p \in Process |-> {}]
    /\ caller = [s \in Servers |-> Null]
    /\ serving = [s \in Servers |-> 0]
    /\ calls = <<>>
    /\ started = [p \in Process |-> 0]
    /\ xa = [assoc |-> [p \in Process |-> Null],
             suspended |-> [p \in Process |-> {}],
             branch |-> {}, involved |-> {},
             outcome |-> [t \in Trid |-> "open"]]
    /\ stranded = {}
    /\ failed = {}

-----------------------------------------------------------------------------
(* Resource managers. Each of these is one loop over the static resources  *)
(* of process p; the dynamic ones associate themselves.                    *)

(* Those of p are associated with t, and with ts when they are resumed.    *)
AssociateWith(x, p, t, ts) ==
    [assoc |-> [x.assoc EXCEPT ![p] = t], suspended |-> [x.suspended EXCEPT ![p] = ts],
     branch |-> x.branch, involved |-> x.involved, outcome |-> x.outcome]

(* xa_start(TMNOFLAGS), then TMJOIN: refused while another transaction is  *)
(* associated.                                                             *)
ResourcesStart(x, p, t) ==
    IF t = Null \/ Fixed[p] = {} \/ x.assoc[p] # Null THEN x
    ELSE [AssociateWith(x, p, t, x.suspended[p] \ {t})
             EXCEPT !.branch = x.branch \cup ({t} \X Fixed[p])]

(* xa_start(TMRESUME) *)
ResourcesResume(x, p, t) ==
    IF x.assoc[p] = Null /\ t \in x.suspended[p]
    THEN AssociateWith(x, p, t, x.suspended[p] \ {t}) ELSE x

(* xa_end(TMSUCCESS) *)
ResourcesEnd(x, p, t) ==
    AssociateWith(x, p, IF x.assoc[p] = t THEN Null ELSE x.assoc[p],
                  x.suspended[p] \ {t})

(* Mutant of ResourcesSuspend: the resources are not told. *)
SuspendNobody(x, p, t) == x

(* xa_end(TMSUSPEND) *)
ResourcesSuspend(x, p, t) ==
    IF x.assoc[p] = t /\ t # Null
    THEN AssociateWith(x, p, Null, x.suspended[p] \cup {t}) ELSE x

(* Mutant of Resources: the static ones are forgotten. *)
RegisteredOnly(p, tr) == tr.resources

(* The resources of a commit or rollback request *)
Resources(p, tr) == tr.resources \cup Fixed[p]

(* Mutant of OnePhase: local() is not asked. *)
OnePhaseAnyhow(p, tr) == Cardinality(tr.resources) + Cardinality(Fixed[p]) <= 1

(* The transaction is local and has at most one resource: no manager. *)
OnePhase(p, tr) ==
    tr.local /\ Cardinality(tr.resources) + Cardinality(Fixed[p]) <= 1

Told(x, t) == {r \in RM : <<t, r>> \in x.involved}
Reached(x, p, tr) ==
    Resources(p, tr) \cup (IF OnePhase(p, tr) THEN {} ELSE Told(x, tr.trid))

(* What a commit can answer: yes when every resource manager that is asked *)
(* knows the transaction, no when there is one to refuse.                  *)
CommitAnswers(x, p, tr) ==
    LET rms == Reached(x, p, tr) IN
    (IF {tr.trid} \X rms \subseteq x.branch THEN {TRUE} ELSE {}) \cup
    (IF rms # {} THEN {FALSE} ELSE {})

(* A rollback that finds its transaction gone may be answered with an error. *)
RollbackAnswers(x, tr) ==
    IF x.outcome[tr.trid] = "open" THEN {TRUE} ELSE BOOLEAN

(* The branches are gone, and the manager forgets the transaction. *)
Resolve(x, t, rms, how) ==
    [assoc |-> x.assoc, suspended |-> x.suspended,
     branch |-> x.branch \ ({t} \X rms), involved |-> {e \in x.involved : e[1] # t},
     outcome |-> [x.outcome EXCEPT ![t] = how]]

(* Context::commit(transaction) and Context::rollback(transaction) *)
Committed(x, p, tr, ok) ==
    Resolve(ResourcesEnd(x, p, tr.trid), tr.trid, Reached(x, p, tr),
            IF ok THEN "committed" ELSE "rolledback")

RolledBack(x, p, tr) ==
    Resolve(ResourcesEnd(x, p, tr.trid), tr.trid,
            Resources(p, tr) \cup Told(x, tr.trid), "rolledback")

-----------------------------------------------------------------------------
(* The TX interface *)

CanStart(p) == started[p] < MaxTrans[p]
NextTrid(p) == <<p, started[p] + 1>>
CountStart(p) == started' = [started EXCEPT ![p] = @ + 1]

(* Context::begin *)
Begin(p) ==
    /\ Does(p, "begin") /\ CanStart(p)
    /\ LET cur == Current(p)
           t == NextTrid(p)
       IN  /\ IF cur.trid # Null THEN control[p] = "stacked" ELSE cur.resources = {}
           /\ xa' = ResourcesStart(ResourcesSuspend(xa, p, cur.trid), p, t)
           /\ stack' = [stack EXCEPT ![p] = Append(@, New(t))]
    /\ CountStart(p)
    /\ UNCHANGED <<outside, control, active, caller, serving, calls, stranded, failed>>

(* Context::pop_transaction, with x what is known after the commit or      *)
(* rollback. The stacked alternative calls xa_end with TMRESUME for the    *)
(* transaction that becomes current, which the resource managers refuse.   *)
(* When none becomes current it reads back() of the empty stack; the       *)
(* reference goes no further than the same refused call.                   *)
PopTransaction(p, x) ==
    \/ /\ control[p] = "unchained"
       /\ stack' = [stack EXCEPT ![p] = Append(Front(@), New(Null))]
       /\ xa' = x
       /\ UNCHANGED started
    \/ /\ control[p] = "chained"
       /\ CanStart(p)
       /\ stack' = [stack EXCEPT ![p] = Front(@) \o <<New(Null), New(NextTrid(p))>>]
       /\ xa' = ResourcesStart(x, p, NextTrid(p))
       /\ CountStart(p)
    \/ /\ control[p] = "stacked"
       /\ stack' = [stack EXCEPT ![p] = Front(@)]
       /\ xa' = x
       /\ UNCHANGED started

(* The transaction stays current unless it was a success. *)
PopIf(ok, p, x) ==
    \/ ok /\ PopTransaction(p, x)
    \/ ~ok /\ xa' = x /\ UNCHANGED <<stack, started>>

(* Context::commit *)
Commit(p) ==
    /\ Does(p, "end")
    /\ LET cur == Current(p)
       IN  /\ cur.trid # Null
           /\ Owner(cur.trid) = p
           /\ cur.state = "active"
           /\ cur.descs = <<>>
           /\ \E ok \in CommitAnswers(xa, p, cur) : PopIf(ok, p, Committed(xa, p, cur, ok))
    /\ UNCHANGED <<outside, control, active, caller, serving, calls, stranded, failed>>

(* Context::rollback: pending replies do not matter. *)
Rollback(p) ==
    /\ Does(p, "end")
    /\ LET cur == Current(p)
       IN  /\ cur.trid # Null
           /\ Owner(cur.trid) = p
           /\ \E ok \in RollbackAnswers(xa, cur) : PopIf(ok, p, RolledBack(xa, p, cur))
    /\ UNCHANGED <<outside, control, active, caller, serving, calls, stranded, failed>>

(* Context::suspend: a null transaction is pushed. *)
Suspend(p) ==
    /\ Does(p, "suspend")
    /\ Current(p).trid # Null
    /\ xa' = ResourcesSuspend(xa, p, Current(p).trid)
    /\ stack' = [stack EXCEPT ![p] = Append(@, New(Null))]
    /\ UNCHANGED <<outside, control, active, caller, serving, calls, started, stranded,
                   failed>>

(* Context::resume: the null transaction is popped, the wanted one rotated *)
(* to the end.                                                             *)
Resume(p, i) ==
    /\ Does(p, "suspend")
    /\ Current(p).trid = Null
    /\ Current(p).resources = {}
    /\ stack[p][i].trid # Null
    /\ xa' = ResourcesResume(xa, p, stack[p][i].trid)
    /\ stack' = [stack EXCEPT ![p] = Append(RemoveAt(Front(@), i), @[i])]
    /\ UNCHANGED <<outside, control, active, caller, serving, calls, started, stranded,
                   failed>>

(* Context::setTransactionControl *)
SetControl(p, c) ==
    /\ Does(p, "control")
    /\ control[p] # c
    /\ control' = [control EXCEPT ![p] = c]
    /\ UNCHANGED <<stack, outside, active, caller, serving, calls, started, xa, stranded,
                   failed>>

(* Context::resourceRegistration (ax_reg); a resource that has registered  *)
(* before is told to resume.                                               *)
Register(p, r) ==
    /\ Does(p, "register")
    /\ LET cur == Current(p)
       IN  /\ r \notin cur.resources
           /\ SetCurrent(p, [cur EXCEPT !.resources = @ \cup {r}])
           /\ xa' = IF cur.trid = Null THEN xa
                    ELSE [xa EXCEPT !.branch = @ \cup {<<cur.trid, r>>}]
    /\ UNCHANGED <<control, active, caller, serving, calls, started, stranded, failed>>

(* Context::resourceUnregistration (ax_unreg) *)
Unregister(p, r) ==
    /\ Does(p, "register")
    /\ LET cur == Current(p)
       IN  /\ cur.trid = Null
           /\ r \in cur.resources
           /\ SetCurrent(p, [cur EXCEPT !.resources = @ \ {r}])
    /\ UNCHANGED <<control, active, caller, serving, calls, started, xa, stranded, failed>>

-----------------------------------------------------------------------------
(* Outgoing calls *)

(* Mutant of Reserve: descriptors from 0. *)
ReserveZero(p) == Min(0 .. MaxCalls \ active[p])

(* State::Pending::reserve *)
Reserve(p) == Min(1 .. MaxCalls + 1 \ active[p])

(* Transaction::associate *)
Associate(tr, d) ==
    [trid |-> tr.trid, state |-> tr.state, resources |-> tr.resources,
     descs |-> Append(tr.descs, d), local |-> FALSE]

(* Transaction::discard: every occurrence of the descriptor is removed.    *)
Without(ds, d) ==
    LET upTo[n \in 0 .. Len(ds)] ==
            IF n = 0 THEN <<>>
            ELSE IF ds[n] = d THEN upTo[n - 1] ELSE Append(upTo[n - 1], ds[n])
    IN  upTo[Len(ds)]
Discard(tr, d) == [tr EXCEPT !.descs = Without(tr.descs, d)]

(* call::Context::async that succeeds. Without a reply there is neither a  *)
(* descriptor nor a transaction.                                           *)
Call(p, s, mode, flag) ==
    /\ Does(p, flag)
    /\ Len(calls) < MaxCalls
    /\ LET cur == Current(p)
           inside == flag = "tran" /\ cur.trid # Null
           d == IF flag = "noreply" THEN 0 ELSE Reserve(p)
       IN  /\ active' = [active EXCEPT ![p] = IF flag = "noreply" THEN @ ELSE @ \cup {d}]
           /\ IF inside THEN SetCurrent(p, Associate(cur, d))
                        ELSE UNCHANGED <<stack, outside>>
           /\ calls' = Append(calls, [from |-> p, to |-> s, mode |-> mode,
                                      trid |-> IF inside THEN cur.trid ELSE Null,
                                      desc |-> d, wanted |-> flag # "noreply",
                                      phase |-> "sent", reply |-> New(Null)])
    /\ UNCHANGED <<control, caller, serving, started, xa, stranded, failed>>

(* call::Context::async that fails after the descriptor is associated: the *)
(* instance does not become idle in time, or its queue is gone. The        *)
(* descriptor is unreserved, the association is left.                      *)
CallFails(p) ==
    /\ Does(p, "fail")
    /\ LET cur == Current(p)
       IN  /\ cur.trid # Null
           /\ Len(cur.descs) < MaxFailed
           /\ SetCurrent(p, Associate(cur, Reserve(p)))
    /\ UNCHANGED <<control, active, caller, serving, calls, started, xa, stranded, failed>>

(* A call that is over; only the number of calls matters from here on. *)
Over(call) ==
    [from |-> call.from, to |-> call.to, mode |-> "none", trid |-> Null, desc |-> 0,
     wanted |-> FALSE, phase |-> "done", reply |-> New(Null)]

(* A call whose reply nobody waits for any more. *)
Dropped(call) ==
    [from |-> call.from, to |-> call.to, mode |-> call.mode, trid |-> call.trid,
     desc |-> 0, wanted |-> FALSE, phase |-> call.phase, reply |-> call.reply]

(* The replies to calls that are cancelled are discarded by the device, in *)
(* its cache or when they come.                                            *)
Unwanted(cs, p, ds) ==
    [i \in DOMAIN cs |->
        IF cs[i].from # p \/ cs[i].desc \notin ds THEN cs[i]
        ELSE IF cs[i].phase = "replied" THEN Over(cs[i])
        ELSE Dropped(cs[i])]

(* Mutant of Update: the state of the reply is ignored. *)
UpdateKeepsState(st, reply, d) == [i \in DOMAIN st |-> Discard(st[i], d)]

(* Context::update: the state of the transaction can only get worse. *)
Update(st, reply, d) ==
    [i \in DOMAIN st |->
        IF reply.trid = Null THEN Discard(st[i], d)
        ELSE IF st[i].trid # reply.trid THEN st[i]
        ELSE [Discard(st[i], d) EXCEPT !.state =
                  IF reply.state = "rollback" THEN "rollback" ELSE @]]

(* call::Context::reply. A reply for a transaction that is no longer here  *)
(* is an error, after which the descriptor is unreserved all the same.     *)
GetReply(p, i) ==
    /\ Running(p)
    /\ calls[i].from = p /\ calls[i].wanted /\ calls[i].phase = "replied"
    /\ calls' = [calls EXCEPT ![i] = Over(@)]
    /\ active' = [active EXCEPT ![p] = @ \ {calls[i].desc}]
    /\ stack' = [stack EXCEPT ![p] = Update(@, calls[i].reply, calls[i].desc)]
    /\ UNCHANGED <<outside, control, caller, serving, started, xa, stranded, failed>>

(* call::Context::cancel from the user: State::Pending::discard refuses a  *)
(* descriptor that is associated with an active transaction. What is       *)
(* associated with a transaction to be rolled back stays associated.       *)
Cancel(p, d) ==
    /\ Does(p, "cancel")
    /\ \A i \in DOMAIN stack[p] :
           stack[p][i].state = "active" => ~Contains(stack[p][i].descs, d)
    /\ active' = [active EXCEPT ![p] = @ \ {d}]
    /\ calls' = Unwanted(calls, p, {d})
    /\ UNCHANGED <<stack, outside, control, caller, serving, started, xa, stranded, failed>>

-----------------------------------------------------------------------------
(* Incoming calls *)

(* policy::Default::transaction with Context::join and Context::start *)
ServeIn(s, t) ==
    /\ stack' = [stack EXCEPT ![s] = Append(@, New(t))]
    /\ xa' = ResourcesStart(xa, s, t)

Serve(s, i) ==
    /\ serving[s] = 0
    /\ calls[i].to = s /\ calls[i].phase = "sent"
    /\ serving' = [serving EXCEPT ![s] = i]
    /\ calls' = [calls EXCEPT ![i] = [calls[i] EXCEPT !.phase = "running"]]
    /\ caller' = [caller EXCEPT ![s] = calls[i].trid]
    /\ \/ /\ \/ calls[i].mode = "join"
             \/ calls[i].mode = "automatic" /\ calls[i].trid # Null
          /\ ServeIn(s, calls[i].trid)
          /\ UNCHANGED started
       \/ /\ \/ calls[i].mode = "atomic"
             \/ calls[i].mode = "automatic" /\ calls[i].trid = Null
          /\ CanStart(s)
          /\ ServeIn(s, NextTrid(s))
          /\ CountStart(s)
       \/ /\ calls[i].mode = "none"
          /\ ServeIn(s, Null)
          /\ UNCHANGED started
    /\ UNCHANGED <<outside, control, active, stranded, failed>>

HasTransaction(st) == \E i \in DOMAIN st : st[i].trid # Null

(* Context::finalize: pending_check cancels the descriptors of every       *)
(* transaction in turn, until one is found that is not reserved.           *)
Descs(st) == FlattenSeq([i \in DOMAIN st |-> st[i].descs])
NotReserved(p) ==
    LET ds == Descs(stack[p])
    IN  {k \in DOMAIN ds : \/ ds[k] \notin active[p]
                           \/ \E j \in 1 .. k - 1 : ds[j] = ds[k]}
Cancelled(p) ==
    LET ds == Descs(stack[p])
    IN  {ds[k] : k \in {k \in DOMAIN ds : \A j \in NotReserved(p) : k < j}}

(* A transaction with pending replies is to be rolled back. *)
Checked(tr) == IF tr.descs = <<>> THEN tr ELSE [tr EXCEPT !.state = "rollback"]

(* Owned transactions are settled, and the caller's is given back. *)
Owned(p) == {tr \in {Checked(e) : e \in ToSet(stack[p])} :
                tr.trid # Null /\ Owner(tr.trid) = p}
Joined(p) == {tr \in {Checked(e) : e \in ToSet(stack[p])} :
                tr.trid # Null /\ Owner(tr.trid) # p /\ tr.trid = caller[p]}

(* What the resource managers and the manager know when every transaction  *)
(* of own has been committed or rolled back, and the resources of those of *)
(* join have been told to the manager (Context::involved) and have ended.  *)
(* A transaction is not on a stack twice unless the process has left one   *)
(* behind, so the order of the loop does not matter.                       *)
ToCommit(tr, rv) == rv = "success" /\ tr.state = "active"
Settled(x, p, own, join, rv, oks) ==
    LET owned == {tr.trid : tr \in own}
        over == owned \cup {tr.trid : tr \in join}
        Asked(tr) == IF ToCommit(tr, rv) THEN Reached(x, p, tr)
                     ELSE Resources(p, tr) \cup Told(x, tr.trid)
    IN  [assoc |-> [x.assoc EXCEPT ![p] = IF x.assoc[p] \in over THEN Null
                                          ELSE x.assoc[p]],
         suspended |-> [x.suspended EXCEPT ![p] = x.suspended[p] \ over],
         branch |-> x.branch \ UNION {{tr.trid} \X Asked(tr) : tr \in own},
         involved |-> {e \in x.involved : e[1] \notin owned}
                          \cup UNION {{tr.trid} \X Resources(p, tr) : tr \in join},
         outcome |-> [t \in Trid |-> IF t \notin owned THEN x.outcome[t]
                                     ELSE IF t \in oks THEN "committed"
                                     ELSE "rolledback"]]

(* The state that the reply gives of the caller's transaction. *)
ReplyState(p, rv) ==
    IF \E tr \in Joined(p) : rv = "fail" \/ tr.state = "rollback"
    THEN "rollback" ELSE "active"

Answered(call, t, state) ==
    [from |-> call.from, to |-> call.to, mode |-> call.mode, trid |-> call.trid,
     desc |-> call.desc, wanted |-> call.wanted, phase |-> "replied",
     reply |-> [New(t) EXCEPT !.state = state]]

(* The end of basic_call::dispatch: the reply is sent, whatever finalize   *)
(* has done; in every case m_transactions has been emptied.                *)
Reply(s, t, state) ==
    LET i == serving[s]
    IN  /\ calls' = [Unwanted(calls, s, Cancelled(s)) EXCEPT ![i] =
                        IF calls[i].wanted THEN Answered(@, t, state) ELSE Over(@)]
        /\ active' = [active EXCEPT ![s] = @ \ Cancelled(s)]
        /\ stack' = [stack EXCEPT ![s] = <<>>]
        /\ serving' = [serving EXCEPT ![s] = 0]

(* tpreturn, or a service that fails, and finalize goes through. *)
Return(s, rv) ==
    /\ serving[s] # 0
    /\ NotReserved(s) = {}
    /\ \E oks \in SUBSET {tr.trid : tr \in Owned(s)} :
          /\ \A tr \in Owned(s) :
                IF ToCommit(tr, rv) THEN (tr.trid \in oks) \in CommitAnswers(xa, s, tr)
                                    ELSE tr.trid \notin oks
          /\ xa' = Settled(xa, s, Owned(s), Joined(s), rv, oks)
    /\ Reply(s, caller[s], ReplyState(s, rv))
    /\ failed' = IF rv = "fail" THEN failed \cup {tr.trid : tr \in Joined(s)}
                                ELSE failed
    /\ UNCHANGED <<outside, control, caller, started, stranded>>

(* tpreturn, or a service that fails, and cancel throws for a descriptor   *)
(* that is not reserved: no transaction is settled, no resource ended, and *)
(* the reply names no transaction.                                         *)
ReturnThrows(s, rv) ==
    /\ serving[s] # 0
    /\ NotReserved(s) # {}
    /\ Reply(s, Null, "active")
    /\ stranded' = stranded \cup {s}
    /\ failed' = IF rv = "fail" THEN failed \cup {tr.trid : tr \in Joined(s)}
                                ELSE failed
    /\ UNCHANGED <<outside, control, caller, started, xa>>

Forwarded(call, to, mode) ==
    [from |-> call.from, to |-> to, mode |-> mode, trid |-> call.trid, desc |-> call.desc,
     wanted |-> call.wanted, phase |-> "sent", reply |-> call.reply]

(* casual_service_forward: refused with calls in flight, or when Context:: *)
(* pending finds a transaction of another owner (then the service fails,   *)
(* as in Return); m_transactions is left as it is.                         *)
Forward(s, to, mode) ==
    /\ serving[s] # 0
    /\ active[s] = {}
    /\ \A k \in DOMAIN stack[s] : stack[s][k].trid # Null => Owner(stack[s][k].trid) = s
    /\ calls' = [calls EXCEPT ![serving[s]] = Forwarded(@, to, mode)]
    /\ serving' = [serving EXCEPT ![s] = 0]
    /\ stranded' = IF HasTransaction(stack[s]) THEN stranded \cup {s} ELSE stranded
    /\ UNCHANGED <<stack, outside, control, active, caller, started, xa, failed>>

-----------------------------------------------------------------------------
Next ==
    \/ \E p \in Process :
          \/ Begin(p) \/ Commit(p) \/ Rollback(p) \/ Suspend(p) \/ CallFails(p)
          \/ \E i \in DOMAIN stack[p] : Resume(p, i)
          \/ \E c \in Controls : SetControl(p, c)
          \/ \E r \in Dynamic[p] : Register(p, r) \/ Unregister(p, r)
          \/ \E s \in Targets[p], flag \in Flag :
                \E mode \in Services[s] : Call(p, s, mode, flag)
          \/ \E i \in DOMAIN calls : GetReply(p, i)
          \/ \E d \in active[p] : Cancel(p, d)
    \/ \E s \in Servers :
          \/ \E i \in DOMAIN calls : Serve(s, i)
          \/ \E rv \in {"success", "fail"} : Return(s, rv) \/ ReturnThrows(s, rv)
          \/ \E to \in Targets[s] : \E mode \in Services[to] : Forward(s, to, mode)

Spec == Init /\ [][Next]_vars

-----------------------------------------------------------------------------
(* Calls never come back to a process they have passed through: there is a *)
(* strict order of the processes that every call and every forward follows.*)
NoCallBack ==
    \E below \in SUBSET (Process \X Process) :
        /\ \A p \in Process : <<p, p>> \notin below
        /\ \A p, q, r \in Process :
              <<p, q>> \in below /\ <<q, r>> \in below => <<p, r>> \in below
        /\ \A p \in Process : \A q \in Targets[p] : <<p, q>> \in below

(* Types. A descriptor is never 0, which means that there is no reply.     *)
TransactionType ==
    [trid : Trid \cup {Null}, state : {"active", "rollback"}, resources : SUBSET RM,
     descs : Seq(1 .. MaxCalls + 1), local : BOOLEAN]

TypeOK ==
    /\ \A p \in Process : ToSet(stack[p]) \subseteq TransactionType
    /\ outside \in [Process -> SUBSET RM]
    /\ control \in [Process -> Control]
    /\ active \in [Process -> SUBSET (1 .. MaxCalls)]
    /\ caller \in [Servers -> Trid \cup {Null}]
    /\ serving \in [Servers -> 0 .. Len(calls)]
    /\ started \in [Process -> Nat]
    /\ \A p \in Process : started[p] <= MaxTrans[p]
    /\ xa.assoc \in [Process -> Trid \cup {Null}]
    /\ xa.branch \subseteq Trid \X RM
    /\ \A p \in Process : \A d \in active[p] :
           \E i \in DOMAIN calls : calls[i].from = p /\ calls[i].desc = d
                                   /\ calls[i].wanted

(* While no process has left a transaction behind: when a transaction is   *)
(* committed, by the manager or directly against the one resource of a     *)
(* local transaction, the commit reaches every branch, whichever process   *)
(* made it, and no process makes one afterwards.                           *)
CommitCoversWork ==
    stranded = {} =>
        \A t \in Trid : xa.outcome[t] = "committed" =>
                            \A r \in RM : <<t, r>> \notin xa.branch

(* While no process has left a transaction behind: a transaction in which  *)
(* a service has failed is never committed, however many processes the     *)
(* failure passes on its way to the owner.                                 *)
FailureHonoured ==
    stranded = {} => \A t \in failed : xa.outcome[t] # "committed"

(* Unless a process has left a transaction behind, its resource managers   *)
(* work in its current transaction or in none: never in one that it has    *)
(* suspended, ended or never joined.                                       *)
AssociationCurrent ==
    \A p \in Process \ stranded : xa.assoc[p] \in {Null, Current(p).trid}

(* The static resource managers that no other process uses. *)
Private(p) == Fixed[p] \ UNION {Fixed[q] \cup Dynamic[q] : q \in Process \ {p}}

(* What has been rolled back is not committed afterwards, although the     *)
(* transaction stays current after a commit that fails, callees may still  *)
(* be at work in it, and its owner may call again and commit again. It     *)
(* takes a static resource manager that only the owner uses, which does    *)
(* not know the transaction any more: nothing in Context itself remembers  *)
(* the failure.                                                            *)
OutcomeFinal ==
    [][\A t \in Trid : Private(Owner(t)) # {} /\ xa.outcome[t] = "rolledback"
                           => xa'.outcome[t] # "committed"]_vars

(* Context::finalize, "Regardless, we will consume every transaction": a   *)
(* server that is idle has nothing on its stack, no resource manager at    *)
(* work and every transaction that it has started resolved, the suspended  *)
(* ones too. It does not hold: finalize throws when it cancels a call that *)
(* is not reserved, and a forward keeps the owned transactions, as         *)
(* Context::pending, which is to tell of transactions owned by the         *)
(* process, looks for those that are not.                                  *)
ServerClean ==
    \A s \in Servers :
        serving[s] = 0 =>
            /\ ~HasTransaction(stack[s])
            /\ xa.assoc[s] = Null
            /\ \A n \in 1 .. started[s] : xa.outcome[<<s, n>>] # "open"

(* No process has left a transaction behind in one of these two ways. *)
NothingLeftBehind == stranded = {}
=============================================================================

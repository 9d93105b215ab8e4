---------------------------- MODULE DbusRequests ----------------------------
(***************************************************************************)
(* Requests of one client in the build with DBus: calls of DBus objects,   *)
(* and lists, which ask for the names on the bus and then walk the objects *)
(* of each service, one Introspect call after the other.  libdbus          *)
(* (external) holds the pending calls; each has a timeout in one of the    *)
(* slots of dbus-io.c.  A reply, or the error that stands for a timeout,   *)
(* is dispatched later, from a timer of uloop.                             *)
(***************************************************************************)
EXTENDS Integers, FiniteSets

CONSTANTS
    Req,        \* requests of the client
    None,       \* no request
    MaxTimers,  \* MAX_WSD_TIMERS
    MaxTargets, \* bound: objects that a list visits
    ReqMax      \* req_max of the session

ASSUME DbusAssumption ==
    None \notin Req /\ MaxTimers \in Nat \ {0} /\ MaxTargets \in Nat /\ ReqMax \in Nat

Slot == 1..MaxTimers

VARIABLES
    stage,        \* new, call, names, walk, over
    mem,          \* the ctx: none, live, freed, lost (nothing refers to it)
    rpc_call_q,   \* the requests linked into the queue of the session
    rpc_q_len,    \* its length, as the session counts it
    call_req,     \* call_req of the ctx is set
    targets,      \* number of introspectables of the ctx
    visited,      \* number of introspectables it has had
    pending,      \* libdbus: calls without a reply
    arrived,      \* libdbus: calls with a reply that is not dispatched yet
    dtimer,       \* timers[i].dtimer
    armed,        \* timers[i].utimer is pending in uloop
    answers,      \* number of answers to a request
    open,         \* the session is open
    crashed       \* the program has ended

ctxVars == <<stage, mem, call_req, targets, visited, answers>>
busVars == <<pending, arrived, dtimer, armed>>
vars == <<ctxVars, rpc_call_q, rpc_q_len, busVars, open, crashed>>

Init ==
    /\ stage = [r \in Req |-> "new"] /\ mem = [r \in Req |-> "none"]
    /\ call_req = [r \in Req |-> FALSE] /\ answers = [r \in Req |-> 0]
    /\ targets = [r \in Req |-> 0] /\ visited = [r \in Req |-> 0]
    /\ rpc_call_q = {} /\ rpc_q_len = 0
    /\ pending = {} /\ arrived = {}
    /\ dtimer = [i \in Slot |-> None] /\ armed = {}
    /\ open = TRUE /\ crashed = FALSE

Running == open /\ ~crashed

-----------------------------------------------------------------------------
(* Timeouts and pending calls *)

FreeSlots == {i \in Slot : dtimer[i] = None}

First(i, S) == i \in S /\ \A j \in S : i <= j

\* dbus_connection_send_with_reply: the call is sent if a slot takes its timeout.
wsd_add_timeout(r) ==
    \E i \in Slot :
        /\ First(i, FreeSlots)
        /\ dtimer' = [dtimer EXCEPT ![i] = r]
        /\ armed' = armed \cup {i}
        /\ pending' = pending \cup {r}

\* Mutant: the timer is cancelled, its slot stays taken.
DelTimeoutKeepsSlot(rs) ==
    /\ dtimer' = dtimer
    /\ armed' = {i \in armed : dtimer[i] \notin rs}

\* The slots and timers without the timeouts of these requests.
wsd_del_timeout(rs) ==
    /\ dtimer' = [i \in Slot |-> IF dtimer[i] \in rs THEN None ELSE dtimer[i]]
    /\ armed' = {i \in armed : dtimer[i] \notin rs}

\* The reply comes in; the connection has something to dispatch.
ReplyArrives(r) ==
    /\ ~crashed
    /\ r \in pending
    /\ pending' = pending \ {r}
    /\ arrived' = arrived \cup {r}
    /\ UNCHANGED <<ctxVars, rpc_call_q, rpc_q_len, dtimer, armed, open, crashed>>

\* The timer of a slot fires: libdbus makes an error of it and deletes the timeout, so that
\* the timer is not set again.
wsd_trigger_timer(i) ==
    /\ ~crashed
    /\ i \in armed
    /\ pending' = pending \ {dtimer[i]}
    /\ arrived' = arrived \cup {dtimer[i]}
    /\ wsd_del_timeout({dtimer[i]})
    /\ UNCHANGED <<ctxVars, rpc_call_q, rpc_q_len, open, crashed>>

\* wsd_trigger_dispatch reaches the reply of r: libdbus deletes the timeout, and the
\* callback lets go of the pending call.
Dispatched(r) ==
    /\ Running
    /\ r \in arrived
    /\ arrived' = arrived \ {r}

\* What the queue does to a neighbour that was freed while it was linked is undefined.
Dangling == \E r \in rpc_call_q : mem[r] # "live"
TouchQueue == crashed' \in IF Dangling THEN BOOLEAN ELSE {FALSE}

\* The answer is queued, the ctx unlinked and freed.
FinishAndFree(r) ==
    /\ stage' = [stage EXCEPT ![r] = "over"]
    /\ mem' = [mem EXCEPT ![r] = "freed"]
    /\ call_req' = [call_req EXCEPT ![r] = FALSE]
    /\ answers' = [answers EXCEPT ![r] = @ + 1]
    /\ rpc_call_q' = rpc_call_q \ {r}
    /\ TouchQueue

-----------------------------------------------------------------------------
(* Calls *)

Admitted(r) == Running /\ stage[r] = "new" /\ rpc_q_len <= ReqMax

\* The service exists and the call can be sent: the caller counts the request.
handle_call_dbus(r) ==
    /\ Admitted(r)
    /\ wsd_add_timeout(r)
    /\ stage' = [stage EXCEPT ![r] = "call"]
    /\ mem' = [mem EXCEPT ![r] = "live"]
    /\ call_req' = [call_req EXCEPT ![r] = TRUE]
    /\ rpc_call_q' = rpc_call_q \cup {r}
    /\ TouchQueue
    /\ rpc_q_len' = rpc_q_len + 1
    /\ UNCHANGED <<targets, visited, answers, arrived, open>>

\* The service is unknown, a parameter cannot be converted, or the call cannot be sent:
\* the request goes to ubus.
CallGoesToUbus(r) ==
    /\ Admitted(r)
    /\ stage' = [stage EXCEPT ![r] = "over"]
    /\ UNCHANGED <<mem, call_req, targets, visited, answers, rpc_call_q, rpc_q_len, busVars, open, crashed>>

\* A reply or an error, both of which are answered.  Nobody takes the call off rpc_q_len.
wsd_call_cb(r) ==
    /\ stage[r] = "call"
    /\ Dispatched(r)
    /\ wsd_del_timeout({r})
    /\ FinishAndFree(r)
    /\ UNCHANGED <<targets, visited, rpc_q_len, pending, open>>

-----------------------------------------------------------------------------
(* Lists *)

\* The part over ubus takes one off rpc_q_len, the caller adds one.
handle_list_dbus(r) ==
    /\ Admitted(r)
    /\ wsd_add_timeout(r)
    /\ stage' = [stage EXCEPT ![r] = "names"]
    /\ mem' = [mem EXCEPT ![r] = "live"]
    /\ call_req' = [call_req EXCEPT ![r] = TRUE]
    /\ rpc_call_q' = rpc_call_q \cup {r}
    /\ TouchQueue
    /\ UNCHANGED <<targets, visited, answers, rpc_q_len, arrived, open>>

\* No slot is free: the ctx is forgotten, and the client is told nothing.
ListNotSent(r) ==
    /\ Admitted(r)
    /\ FreeSlots = {}
    /\ stage' = [stage EXCEPT ![r] = "over"]
    /\ mem' = [mem EXCEPT ![r] = "lost"]
    /\ UNCHANGED <<call_req, targets, visited, answers, rpc_call_q, rpc_q_len, busVars, open, crashed>>

\* introspect_list_next or introspect_list_finish, with n targets left.  If no slot is free
\* (the one of r is, unless its timeout has fired and another call has taken it) the ctx is
\* left without a call.
NextOrFinish(r, n) ==
    /\ targets' = [targets EXCEPT ![r] = n]
    /\ IF n = 0
       THEN /\ wsd_del_timeout({r})
            /\ FinishAndFree(r)
            /\ UNCHANGED pending
       ELSE LET own == {i \in Slot : dtimer[i] = r}
                free == FreeSlots \cup own
            IN  /\ stage' = [stage EXCEPT ![r] = "walk"]
                /\ call_req' = [call_req EXCEPT ![r] = free # {}]
                /\ \/ free = {} /\ UNCHANGED <<dtimer, armed, pending>>
                   \/ \E i \in Slot :
                        /\ First(i, free)
                        /\ dtimer' = [j \in Slot |-> IF j = i THEN r
                                                     ELSE IF j \in own THEN None ELSE dtimer[j]]
                        /\ armed' = (armed \ own) \cup {i}
                        /\ pending' = pending \cup {r}
                /\ UNCHANGED <<mem, answers, rpc_call_q, crashed>>
    /\ UNCHANGED <<rpc_q_len, open>>

\* The names of n services.
wsd_list_cb(r, n) ==
    /\ stage[r] = "names"
    /\ Dispatched(r)
    /\ n <= MaxTargets
    /\ visited' = [visited EXCEPT ![r] = n]
    /\ NextOrFinish(r, n)

\* Mutant: the client is told of the failure, and the list goes on.
ListFailedGoesOn(r) ==
    /\ stage[r] = "names"
    /\ Dispatched(r)
    /\ wsd_del_timeout({r})
    /\ answers' = [answers EXCEPT ![r] = @ + 1]
    /\ UNCHANGED <<stage, mem, call_req, targets, visited, rpc_call_q, rpc_q_len, pending, open, crashed>>

\* The list of names failed: the client is told, and the reply that owns the ctx is let go.
\* The ctx stays linked.
ListFailed(r) ==
    /\ stage[r] = "names"
    /\ Dispatched(r)
    /\ wsd_del_timeout({r})
    /\ stage' = [stage EXCEPT ![r] = "over"]
    /\ mem' = [mem EXCEPT ![r] = "freed"]
    /\ call_req' = [call_req EXCEPT ![r] = FALSE]
    /\ answers' = [answers EXCEPT ![r] = @ + 1]
    /\ UNCHANGED <<targets, visited, rpc_call_q, rpc_q_len, pending, open, crashed>>

\* Mutant: an object that cannot be introspected stays a target.
IntrospectAgain(r, n) ==
    /\ stage[r] = "walk"
    /\ Dispatched(r)
    /\ visited[r] + n <= MaxTargets
    /\ visited' = [visited EXCEPT ![r] = @ + n]
    /\ NextOrFinish(r, IF n = 0 THEN targets[r] ELSE targets[r] - 1 + n)

\* An object with n children, or (n = 0) an error, which is skipped.
wsd_introspect_cb(r, n) ==
    /\ stage[r] = "walk"
    /\ Dispatched(r)
    /\ visited[r] + n <= MaxTargets
    /\ visited' = [visited EXCEPT ![r] = @ + n]
    /\ NextOrFinish(r, targets[r] - 1 + n)

-----------------------------------------------------------------------------
\* Mutant: the calls are not taken back from libdbus.
CloseKeepsCalls ==
    /\ Running
    /\ open' = FALSE
    /\ rpc_call_q' = {}
    /\ mem' = [r \in Req |-> IF r \in rpc_call_q THEN "freed" ELSE mem[r]]
    /\ stage' = [r \in Req |-> IF r \in rpc_call_q THEN "over" ELSE stage[r]]
    /\ crashed' = FALSE
    /\ UNCHANGED <<call_req, targets, visited, answers, rpc_q_len, busVars>>

\* wsu_peer_deinit: every request in the queue is cancelled.  A call with call_req set is
\* not freed.  A list that waits for the names has no list of targets yet and follows a
\* null pointer; after that it is freed.
Close ==
    /\ Running
    /\ open' = FALSE
    /\ rpc_call_q' = {}
    /\ pending' = pending \ rpc_call_q /\ arrived' = arrived \ rpc_call_q
    /\ wsd_del_timeout(rpc_call_q)
    /\ mem' = [r \in Req |-> CASE r \notin rpc_call_q -> mem[r]
                               [] stage[r] = "call" -> "lost"
                               [] OTHER -> "freed"]
    /\ stage' = [r \in Req |-> IF r \in rpc_call_q THEN "over" ELSE stage[r]]
    /\ call_req' = [r \in Req |-> call_req[r] /\ r \notin rpc_call_q]
    /\ IF \E r \in rpc_call_q : stage[r] = "names" THEN crashed' = TRUE ELSE TouchQueue
    /\ UNCHANGED <<targets, visited, answers, rpc_q_len>>

Next ==
    \/ \E r \in Req :
        \/ handle_call_dbus(r) \/ CallGoesToUbus(r) \/ wsd_call_cb(r)
        \/ handle_list_dbus(r) \/ ListNotSent(r) \/ ListFailed(r)
        \/ \E n \in 0..MaxTargets : wsd_list_cb(r, n) \/ wsd_introspect_cb(r, n)
        \/ ReplyArrives(r)
    \/ \E i \in Slot : wsd_trigger_timer(i)
    \/ Close

Spec == Init /\ [][Next]_vars

\* Timers that are set fire, and what has arrived is dispatched.
Dispatch(r) ==
    \/ wsd_call_cb(r) \/ ListFailed(r)
    \/ \E n \in 0..MaxTargets : wsd_list_cb(r, n) \/ wsd_introspect_cb(r, n)
FairSpec ==
    /\ Spec
    /\ \A i \in Slot : WF_vars(wsd_trigger_timer(i))
    /\ \A r \in Req : WF_vars(Dispatch(r))

-----------------------------------------------------------------------------
(* Properties *)

InProgress(r) == stage[r] \in {"call", "names", "walk"}

TypeOK ==
    /\ stage \in [Req -> {"new", "call", "names", "walk", "over"}]
    /\ mem \in [Req -> {"none", "live", "freed", "lost"}]
    /\ call_req \in [Req -> BOOLEAN] /\ answers \in [Req -> Nat]
    /\ targets \in [Req -> 0..MaxTargets] /\ visited \in [Req -> 0..MaxTargets]
    /\ rpc_call_q \subseteq Req /\ rpc_q_len \in 0..ReqMax + 1
    /\ pending \subseteq Req /\ arrived \subseteq Req
    /\ dtimer \in [Slot -> Req \cup {None}] /\ armed \subseteq Slot
    /\ open \in BOOLEAN /\ crashed \in BOOLEAN

\* A reply is dispatched only to a ctx that is alive and waits for it, also when the reply,
\* the timeout and the end of the session meet: the assertions of the callbacks hold.
RepliesReachLive ==
    ~crashed => \A r \in pending \cup arrived :
        mem[r] = "live" /\ call_req[r] /\ r \in rpc_call_q

\* A call without a reply has exactly one slot, with a timer that will end it; a timer
\* belongs to a timeout; and a slot is not held by a request that is over.
TimerPerCall ==
    ~crashed =>
        /\ \A r \in pending : Cardinality({i \in armed : dtimer[i] = r}) = 1
        /\ \A i \in Slot : i \in armed <=> dtimer[i] # None
        /\ \A i \in armed : dtimer[i] \in pending \cup arrived

\* No request is answered twice, and none that is in progress has been answered.
AtMostOneAnswer ==
    \A r \in Req : answers[r] <= (IF stage[r] = "over" THEN 1 ELSE 0)

\* The promise of RpcService, with the session as its only connection.  A request that goes
\* to ubus, or cannot be sent, is over here without an answer.
Service == INSTANCE RpcService WITH
    Wsi <- {"session"},
    None <- "none",
    open <- IF open THEN {"session"} ELSE {},
    wsi <- [r \in Req |-> IF stage[r] = "new" THEN "none" ELSE "session"],
    pending <- {r \in Req : InProgress(r)},
    replies <- answers

\* Calls and lists over DBus keep that promise: each is answered at most once, by the step
\* that ends it and while the session is open, and the end of the session gives up all that
\* are in progress and no other.  So the queue that Close walks holds every one of them,
\* although a failed list stays linked and a list may be left without a call.
ImplementsRpc == Service!Spec

\* A list is left without a pending call only if all slots were taken.
Stuck(r) == InProgress(r) /\ ~call_req[r]

\* Every request ends, whether or not anything on the bus answers, unless it was left
\* without a call because all timer slots were taken.
RequestsEnd == \A r \in Req : InProgress(r) ~> (~InProgress(r) \/ Stuck(r) \/ crashed)
=============================================================================

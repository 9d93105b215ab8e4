--------------------------- MODULE ClientSessions ---------------------------
(***************************************************************************)
(* The server side of owsd: WebSocket clients of the "ubus-json" protocol  *)
(* send JSON-RPC requests; owsd checks access, forwards calls to the local *)
(* bus, keeps event subscriptions and answers over the socket.             *)
(*                                                                         *)
(* owsd runs one uloop thread, so an action is one callback: a libwebsocket*)
(* callback (session opened, message received, session closed), a ubus     *)
(* reply, a ubus event, or a timer.  Whatever happens between two actions  *)
(* is another callback.                                                    *)
(*                                                                         *)
(* A request is an element of Req.  Its identity stands for the message    *)
(* and, once a handler has created it, for the heap object that tracks it: *)
(* struct wsubus_percall_ctx for a call, struct ws_sub_info_ubus for a     *)
(* subscription.                                                           *)
(***************************************************************************)
EXTENDS Integers, FiniteSets

CONSTANTS
    Wsi,           \* connection handles (struct lws *); one is reused after a close
    Req,           \* messages the clients may send, each at most once
    Pattern,       \* event patterns a client may subscribe to
    None,          \* "no connection" / "no pattern"
    TotalReqMax,   \* prog->total_req_max
    MaxAsyncReqs,  \* MAX_ASYNC_REQS, 512
    QLenMax,       \* the largest value of the uint32_t rpc_q_len
    StaleAge,      \* clock ticks that make the 10 seconds of the stale-call cleaner
    MaxEvents      \* bound: bus events delivered to owsd

ASSUME ConstantsAssumption ==
    /\ None \notin Wsi
    /\ None \notin Pattern
    /\ TotalReqMax \in Nat \ {0}
    /\ MaxAsyncReqs \in Nat \ {0}
    /\ QLenMax \in Nat /\ QLenMax > MaxAsyncReqs + 1
    /\ StaleAge \in Nat \ {0}
    /\ MaxEvents \in Nat

VARIABLES
    open,            \* connections whose wsu_peer has the role CLIENT
    num_active_ses,  \* prog->num_active_ses
    req_max,         \* prog->req_max
    rpc_q_len,       \* per connection: peer->u.client.rpc_q_len
    wsi,             \* per request: the connection it arrived on
    call,            \* per request: the stage of its wsubus_percall_ctx
    age,             \* per request: ticks since req_start
    sub,             \* per request: the pattern of its live ws_sub_info_ubus
    access_check_q,  \* access checks in progress, of all connections
    events,          \* number of bus events so far
    replies,         \* per request: replies queued for it
    crashed          \* freed memory was used; nothing is claimed afterwards

sessionVars == <<open, num_active_ses, req_max>>
callVars == <<call, age>>
vars == <<sessionVars, rpc_q_len, wsi, callVars, sub, access_check_q, events,
          replies, crashed>>

-----------------------------------------------------------------------------
(* The objects *)

\* "checking": waiting for the access check; "invoked": waiting for the bus;
\* "freed": wsubus_percall_ctx_destroy has run.
CallStages == {"none", "checking", "invoked", "freed"}

LiveCall(r) == call[r] \in {"checking", "invoked"}
LiveSub(r) == sub[r] # None

\* The method calls in the rpc_call_q of a connection.
Calls(w) == {r \in Req : wsi[r] = w /\ LiveCall(r)}

\* An access check in progress.  ev = 0: the one embedded in the call ctx "of".
\* ev > 0: the check for notifying the subscription "of" of bus event ev.
Check == [of : Req, ev : 0..MaxEvents]
CallCheck(r) == [of |-> r, ev |-> 0]
IsCallCheck(c) == c.ev = 0

\* The check is in access_check_q, but the object its callback works on is gone.
Dangling(c) == IF IsCallCheck(c) THEN ~LiveCall(c.of) ELSE ~LiveSub(c.of)

\* rpc_q_len is a uint32_t: it wraps.
Plus1(q) == IF q = QLenMax THEN 0 ELSE q + 1
Minus(q, n) == IF n <= q THEN q - n ELSE q - n + QLenMax + 1

recalc_req_max(n) ==
    IF n = 0 THEN MaxAsyncReqs
    ELSE IF TotalReqMax \div n < MaxAsyncReqs THEN TotalReqMax \div n
         ELSE MaxAsyncReqs

TypeOK ==
    /\ open \subseteq Wsi
    /\ num_active_ses \in Int
    /\ req_max \in Int
    /\ rpc_q_len \in [Wsi -> 0..QLenMax]
    /\ wsi \in [Req -> Wsi \cup {None}]
    /\ call \in [Req -> CallStages]
    /\ age \in [Req -> 0..StaleAge]
    /\ sub \in [Req -> Pattern \cup {None}]
    /\ access_check_q \subseteq Check
    /\ events \in 0..MaxEvents
    /\ replies \in [Req -> Nat]
    /\ crashed \in BOOLEAN

Init ==
    /\ open = {}
    /\ num_active_ses = 0
    /\ req_max = 0
    /\ rpc_q_len = [w \in Wsi |-> 0]
    /\ wsi = [r \in Req |-> None]
    /\ call = [r \in Req |-> "none"]
    /\ age = [r \in Req |-> 0]
    /\ sub = [r \in Req |-> None]
    /\ access_check_q = {}
    /\ events = 0
    /\ replies = [r \in Req |-> 0]
    /\ crashed = FALSE

\* owsd is running, and this callback does not bring it down.
Running == ~crashed /\ UNCHANGED crashed

-----------------------------------------------------------------------------
(* Sessions *)

\* Mutant: the new session is counted, the shares of the others stay.
EstablishNoRecalc(w) ==
    /\ Running
    /\ w \notin open
    /\ open' = open \cup {w}
    /\ num_active_ses' = num_active_ses + 1
    /\ rpc_q_len' = [rpc_q_len EXCEPT ![w] = 0]
    /\ UNCHANGED <<req_max, wsi, callVars, sub, access_check_q, events, replies>>

\* LWS_CALLBACK_ESTABLISHED: wsu_peer_init on user memory that lws has zeroed.
Establish(w) ==
    /\ Running
    /\ w \notin open
    /\ open' = open \cup {w}
    /\ num_active_ses' = num_active_ses + 1
    /\ req_max' = recalc_req_max(num_active_ses + 1)
    /\ rpc_q_len' = [rpc_q_len EXCEPT ![w] = 0]
    /\ UNCHANGED <<wsi, callVars, sub, access_check_q, events, replies>>

\* wsubus_percall_ctx_destroy for every call of S, all of connection w: the ctx is
\* freed, a bus request in progress is aborted, rpc_q_len goes down.  The access
\* check embedded in the ctx is not cancelled here.
DestroyCalls(w, S) ==
    /\ call' = [r \in Req |-> IF r \in S THEN "freed" ELSE call[r]]
    /\ rpc_q_len' = [rpc_q_len EXCEPT ![w] = Minus(@, Cardinality(S))]

\* Mutant: the close leaves the access checks in progress alone.
CloseKeepsChecks(w) ==
    /\ Running
    /\ w \in open
    /\ open' = open \ {w}
    /\ num_active_ses' = num_active_ses - 1
    /\ req_max' = recalc_req_max(num_active_ses - 1)
    /\ DestroyCalls(w, Calls(w))
    /\ sub' = [r \in Req |-> IF wsi[r] = w THEN None ELSE sub[r]]
    /\ UNCHANGED <<wsi, age, access_check_q, events, replies>>

\* LWS_CALLBACK_CLOSED: wsu_peer_deinit cancels the access checks of the
\* connection, then its calls and subscriptions.  (Walking over the node of a freed
\* call may also be UseFreed.)
Close(w) ==
    /\ Running
    /\ w \in open
    /\ open' = open \ {w}
    /\ num_active_ses' = num_active_ses - 1
    /\ req_max' = recalc_req_max(num_active_ses - 1)
    /\ access_check_q' = {c \in access_check_q : wsi[c.of] # w}
    /\ DestroyCalls(w, Calls(w))
    /\ sub' = [r \in Req |-> IF wsi[r] = w THEN None ELSE sub[r]]
    /\ UNCHANGED <<wsi, age, events, replies>>

-----------------------------------------------------------------------------
(* Messages from a client *)

\* Request r arrives on the open connection w.
Receive(w, r) ==
    /\ Running
    /\ w \in open
    /\ wsi[r] = None
    /\ wsi' = [wsi EXCEPT ![r] = w]

\* Mutant: one more.
AdmittedOneMore(w) == rpc_q_len[w] <= req_max + 1

\* rpc_q_len <= req_max: the message goes past the check for a full queue.
Admitted(w) == rpc_q_len[w] <= req_max

\* wsu_queue_write_str of the reply to r.
Reply(r) == replies' = [replies EXCEPT ![r] = @ + 1]

\* Mutant: the handler forgets to take its request off the count.
AnsweredNotCounted(w) == rpc_q_len' = [rpc_q_len EXCEPT ![w] = Plus1(@)]

\* What the handlers that answer at once do to rpc_q_len: they take one off, and
\* wsu_on_msg_from_client adds one when they return.
AnsweredAtOnce(w) == rpc_q_len' = [rpc_q_len EXCEPT ![w] = Plus1(Minus(@, 1))]

\* wsubus_rx_json: the text is not one JSON object (PARSE_ERROR, at any queue length).
RxNotJson(w, r) ==
    /\ Receive(w, r)
    /\ Reply(r)
    /\ UNCHANGED <<sessionVars, rpc_q_len, callVars, sub, access_check_q, events>>

\* The queue is full: the message is dropped without an answer.
RxQueueFull(w, r) ==
    /\ Receive(w, r)
    /\ ~Admitted(w)
    /\ UNCHANGED <<sessionVars, rpc_q_len, callVars, sub, access_check_q, events,
                   replies>>

\* Not JSON-RPC 2.0, input that fails its schema, unknown method or bad parameters.
RxInvalid(w, r) ==
    /\ Receive(w, r)
    /\ Admitted(w)
    /\ Reply(r)
    /\ UNCHANGED <<sessionVars, rpc_q_len, callVars, sub, access_check_q, events>>

\* Mutant: the access check is never queued.
HandleCallUnqueued(w, r) ==
    /\ Receive(w, r)
    /\ Admitted(w)
    /\ call' = [call EXCEPT ![r] = "checking"]
    /\ rpc_q_len' = [rpc_q_len EXCEPT ![w] = Plus1(@)]
    /\ UNCHANGED <<sessionVars, age, sub, access_check_q, events, replies>>

\* "call": the ctx is created and queued, and its access check is started.
HandleCall(w, r) ==
    /\ Receive(w, r)
    /\ Admitted(w)
    /\ call' = [call EXCEPT ![r] = "checking"]
    /\ access_check_q' = access_check_q \cup {CallCheck(r)}
    /\ rpc_q_len' = [rpc_q_len EXCEPT ![w] = Plus1(@)]
    /\ UNCHANGED <<sessionVars, age, sub, events, replies>>

\* "call" whose access check cannot be started: denied and destroyed at once.
HandleCallCheckError(w, r) ==
    /\ Receive(w, r)
    /\ Admitted(w)
    /\ call' = [call EXCEPT ![r] = "freed"]
    /\ AnsweredAtOnce(w)
    /\ Reply(r)
    /\ UNCHANGED <<sessionVars, age, sub, access_check_q, events>>

\* "list" and "subscribe-list", and a "subscribe" that ubus refuses to register:
\* answered at once, nothing is kept.
HandleNoState(w, r) ==
    /\ Receive(w, r)
    /\ Admitted(w)
    /\ AnsweredAtOnce(w)
    /\ Reply(r)
    /\ UNCHANGED <<sessionVars, callVars, sub, access_check_q, events>>

\* "subscribe": ubusrpc_handle_sub, the entry joins listen_list and rpc_call_q.
HandleSub(w, r, p) ==
    /\ Receive(w, r)
    /\ Admitted(w)
    /\ sub' = [sub EXCEPT ![r] = p]
    /\ AnsweredAtOnce(w)
    /\ Reply(r)
    /\ UNCHANGED <<sessionVars, callVars, access_check_q, events>>

\* "unsubscribe": every entry of this connection with this very pattern goes, the
\* event checks started for it do not.  Answered OK or NOT_FOUND.
HandleUnsub(w, r, p) ==
    /\ Receive(w, r)
    /\ Admitted(w)
    /\ sub' = [s \in Req |-> IF wsi[s] = w /\ sub[s] = p THEN None ELSE sub[s]]
    /\ AnsweredAtOnce(w)
    /\ Reply(r)
    /\ UNCHANGED <<sessionVars, callVars, access_check_q, events>>

-----------------------------------------------------------------------------
(* Answers of the bus *)

\* Mutant: a call that the cleaner has dropped is answered when its check ends.
DeniedLate(r) ==
    /\ Running
    /\ CallCheck(r) \in access_check_q
    /\ access_check_q' = access_check_q \ {CallCheck(r)}
    /\ DestroyCalls(wsi[r], {r} \cap Calls(wsi[r]))
    /\ Reply(r)
    /\ UNCHANGED <<sessionVars, wsi, age, sub, events>>

\* Mutant: the completed call stays in the queue.
CompletedStays(r) ==
    /\ Running
    /\ call[r] = "invoked"
    /\ replies[r] < 2
    /\ Reply(r)
    /\ UNCHANGED <<sessionVars, rpc_q_len, wsi, callVars, sub, access_check_q, events>>

\* wsubus_access_on_completed, allowed, and ubus_invoke_async accepts the call.
AccessGranted(r) ==
    /\ Running
    /\ call[r] = "checking"
    /\ CallCheck(r) \in access_check_q
    /\ access_check_q' = access_check_q \ {CallCheck(r)}
    /\ call' = [call EXCEPT ![r] = "invoked"]
    /\ UNCHANGED <<sessionVars, rpc_q_len, wsi, age, sub, events, replies>>

\* wsubus_access_on_completed, not allowed, or object lookup or invoke fails:
\* every error is answered with PERMISSION_DENIED.
AccessDenied(r) ==
    /\ Running
    /\ call[r] = "checking"
    /\ CallCheck(r) \in access_check_q
    /\ access_check_q' = access_check_q \ {CallCheck(r)}
    /\ DestroyCalls(wsi[r], {r})
    /\ Reply(r)
    /\ UNCHANGED <<sessionVars, wsi, age, sub, events>>

\* wsubus_call_on_completed: the result, or the schema error for it, is sent.
CallCompleted(r) ==
    /\ Running
    /\ call[r] = "invoked"
    /\ DestroyCalls(wsi[r], {r})
    /\ Reply(r)
    /\ UNCHANGED <<sessionVars, wsi, age, sub, access_check_q, events>>

\* wsubus_sub_cb: ubus hands an event to subscription s, whose access check starts.
\* (A check that cannot be started drops the event: no step.)
BusEvent(s) ==
    /\ Running
    /\ LiveSub(s)
    /\ events < MaxEvents
    /\ events' = events + 1
    /\ access_check_q' = access_check_q \cup {[of |-> s, ev |-> events + 1]}
    /\ UNCHANGED <<sessionVars, rpc_q_len, wsi, callVars, sub, replies>>

\* wsubus_ev_check_cb: the client is notified or, access denied, it is not.  (A
\* notification for a subscription that is gone may also be UseFreed.)
EventChecked(c) ==
    /\ Running
    /\ c \in access_check_q
    /\ ~IsCallCheck(c)
    /\ access_check_q' = access_check_q \ {c}
    /\ UNCHANGED <<sessionVars, rpc_q_len, wsi, callVars, sub, events, replies>>

-----------------------------------------------------------------------------
(* Time *)

\* The monotonic clock moves on.
Tick ==
    /\ Running
    /\ \E r \in Req : LiveCall(r) /\ age[r] < StaleAge
    /\ age' = [r \in Req |-> IF LiveCall(r) /\ age[r] < StaleAge
                             THEN age[r] + 1 ELSE age[r]]
    /\ UNCHANGED <<sessionVars, rpc_q_len, wsi, call, sub, access_check_q,
                   events, replies>>

\* Mutant: a call that is already on the bus is never stale.
StaleChecks(w) == {r \in Calls(w) : age[r] >= StaleAge /\ call[r] = "checking"}

\* The method calls that have been there for 10 seconds, whatever they wait for.
StaleCalls(w) == {r \in Calls(w) : age[r] >= StaleAge}

\* Mutant: the cleaner does not look at method_call.
CleanStaleAll(w) ==
    /\ Running
    /\ w \in open
    /\ StaleCalls(w) # {}
    /\ DestroyCalls(w, StaleCalls(w))
    /\ sub' = [r \in Req |-> IF wsi[r] = w THEN None ELSE sub[r]]
    /\ UNCHANGED <<sessionVars, wsi, age, access_check_q, events, replies>>

\* wsubus_percall_clean_stale: the timer of connection w destroys its stale calls
\* and answers none of them.
CleanStale(w) ==
    /\ Running
    /\ w \in open
    /\ StaleCalls(w) # {}
    /\ DestroyCalls(w, StaleCalls(w))
    /\ UNCHANGED <<sessionVars, wsi, age, sub, access_check_q, events,
                   replies>>

\* Freed memory is used: the callback of a check whose call ctx or subscription is
\* gone, the walk of access_check_q at the close, or a list operation on the
\* neighbour of a freed node.  The model follows the program no further.
UseFreed ==
    /\ \E c \in access_check_q : Dangling(c)
    /\ crashed' = TRUE
    /\ UNCHANGED <<sessionVars, rpc_q_len, wsi, callVars, sub, access_check_q, events,
                   replies>>

-----------------------------------------------------------------------------
ClientStep(w, r) ==
    \/ RxNotJson(w, r) \/ RxQueueFull(w, r) \/ RxInvalid(w, r)
    \/ HandleCall(w, r) \/ HandleCallCheckError(w, r) \/ HandleNoState(w, r)
    \/ \E p \in Pattern : HandleSub(w, r, p) \/ HandleUnsub(w, r, p)

BusStep(r) ==
    AccessGranted(r) \/ AccessDenied(r) \/ CallCompleted(r) \/ BusEvent(r)

Next ==
    \/ \E w \in Wsi : Establish(w) \/ Close(w) \/ CleanStale(w)
    \/ \E w \in Wsi, r \in Req : ClientStep(w, r)
    \/ \E r \in Req : BusStep(r)
    \/ \E c \in access_check_q : EventChecked(c)
    \/ Tick
    \/ UseFreed

Spec == Init /\ [][Next]_vars

\* Time passes, and uloop runs the timer of the cleaner, which re-arms itself.
\* Neither the bus nor the clients owe owsd anything.
Fairness ==
    /\ WF_vars(Tick)
    /\ \A w \in Wsi : WF_vars(CleanStale(w))

FairSpec == Spec /\ Fairness

-----------------------------------------------------------------------------
(* Properties *)

\* rpc_q_len is exactly the number of calls in progress on the connection, however
\* replies, cancellations, the cleaner and the handlers that take one off before
\* their caller adds one interleave.  (wsubus.c:204, rpc_call_ubus.h:43,
\* rpc_sub.c:254, rpc_list_ubus.h:110)
QLenExact == \A w \in Wsi : rpc_q_len[w] = Cardinality(Calls(w))

\* A connection never has more than MAX_ASYNC_REQS + 1 calls in progress, even when
\* sessions come and go and its share of the total is recomputed under it.
OutstandingBounded == \A w \in Wsi : Cardinality(Calls(w)) <= MaxAsyncReqs + 1

\* Once a connection is closed no call, subscription or access check refers to it:
\* no later callback can reach its freed user memory, nor the session that reuses
\* the handle.  (wsu_peer_deinit)
NoOrphans ==
    /\ \A r \in Req : LiveCall(r) \/ LiveSub(r) => wsi[r] \in open
    /\ \A c \in access_check_q : wsi[c.of] \in open

\* A call that waits for its access check has one in progress: no call waits for
\* an answer nobody will give.  (wsubus_call_do_check_then_do_call)
NoLostCheck == \A r \in Req : call[r] = "checking" => CallCheck(r) \in access_check_q

\* No request is answered twice, and a call is not answered while it is still in
\* progress: every path that replies also takes the ctx off the queue.
AtMostOneReply ==
    \A r \in Req : replies[r] <= 1 /\ (LiveCall(r) => replies[r] = 0)

\* The session count and the per-session share derived from it are never stale.
ShareUpToDate ==
    /\ num_active_ses = Cardinality(open)
    /\ open # {} => req_max = recalc_req_max(Cardinality(open))

\* A subscription lasts until its client unsubscribes or leaves: in particular the
\* cleaner, which walks the same rpc_call_q, never takes it for a stale call.
SubscriptionLasts ==
    [][\A r \in Req : LiveSub(r) /\ ~LiveSub(r)' =>
          \/ wsi[r] \notin open'
          \/ \E u \in Req : wsi[u] = None /\ wsi'[u] = wsi[r]]_vars

\* No call occupies a place in its queue for ever, even if neither the access
\* check nor the bus ever answers.  (wsubus_percall_clean_stale)
CallsEnd == \A r \in Req : LiveCall(r) ~> (~LiveCall(r) \/ crashed)

-----------------------------------------------------------------------------
(* The service these sessions implement: a request is pending while its call ctx
   is alive. *)
Service == INSTANCE RpcService WITH pending <- {r \in Req : LiveCall(r)}

\* Every behaviour of the sessions is one of the service: a request is taken once,
\* answered at most once and only on an open connection, and nothing happens to it
\* after it was answered or given up.
ImplementsService == Service!Spec

-----------------------------------------------------------------------------
(* What a comment says of this code, and the code does not do. *)

\* rpc.h:58-59: destroying a request frees what it acquired, so an access check never
\* outlives the call or the subscription that it refers to.
ChecksReferToOwners == \A c \in access_check_q : ~Dangling(c)
=============================================================================

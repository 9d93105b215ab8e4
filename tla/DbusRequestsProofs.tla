------------------------- MODULE DbusRequestsProofs -------------------------
(***************************************************************************)
(* The safety properties of DbusRequests, for any number of requests,      *)
(* timer slots and targets.                                                *)
(***************************************************************************)
EXTENDS DbusRequests, FiniteSetTheorems, TLAPS

-----------------------------------------------------------------------------
(* The inductive invariant *)

\* What libdbus holds and what the contexts say, as long as the program runs: a call has
\* a reply or has none, a timer belongs to one of them, and no slot is shared.
BusInv ==
    /\ pending \cap arrived = {}
    /\ \A r \in pending \cup arrived : mem[r] = "live" /\ call_req[r] /\ r \in rpc_call_q
    /\ \A r \in pending : \E i \in Slot : dtimer[i] = r
    /\ \A i, j \in Slot : dtimer[i] = dtimer[j] /\ dtimer[i] # None => i = j
    /\ \A i \in Slot : i \in armed <=> dtimer[i] # None
    /\ \A i \in armed : dtimer[i] \in pending \cup arrived
    /\ \A r \in Req : InProgress(r) /\ call_req[r] => r \in pending \cup arrived

\* A request that has not come in has no ctx; a list walks as long as it has targets.
StageInv ==
    /\ \A r \in Req : stage[r] = "new" => mem[r] = "none"
    /\ \A r \in Req : stage[r] = "walk" => targets[r] >= 1 /\ targets[r] <= visited[r]

\* Every request in progress is in the queue, where the end of the session finds it, and
\* none that has not come in.
QueueInv == \A r \in Req : (InProgress(r) => r \in rpc_call_q) /\ (r \in rpc_call_q => stage[r] # "new")

IInv == TypeOK /\ StageInv /\ AtMostOneAnswer /\ QueueInv /\ (~crashed => BusInv)

-----------------------------------------------------------------------------
(* Steps *)

\* The ways a request gets its first pending call: handle_call_dbus and handle_list_dbus.
LEMMA SendKeeps ==
    ASSUME IInv, NEW r \in Req, handle_call_dbus(r) \/ handle_list_dbus(r)
    PROVE  IInv'
<1> USE DbusAssumption
<1>1. PICK i \in Slot :
          /\ First(i, FreeSlots)
          /\ dtimer' = [dtimer EXCEPT ![i] = r]
          /\ armed' = armed \cup {i}
          /\ pending' = pending \cup {r}
  BY DEF handle_call_dbus, handle_list_dbus, wsd_add_timeout
<1>2. /\ dtimer[i] = None /\ ~crashed /\ stage[r] = "new" /\ rpc_q_len <= ReqMax
      /\ stage' \in {[stage EXCEPT ![r] = "call"], [stage EXCEPT ![r] = "names"]}
      /\ mem' = [mem EXCEPT ![r] = "live"]
      /\ call_req' = [call_req EXCEPT ![r] = TRUE]
      /\ rpc_call_q' = rpc_call_q \cup {r}
      /\ rpc_q_len' \in {rpc_q_len, rpc_q_len + 1}
      /\ UNCHANGED <<targets, visited, answers, arrived, open>>
      /\ crashed' \in BOOLEAN
  BY Zenon, <1>1 DEF handle_call_dbus, handle_list_dbus, Admitted, Running, First, FreeSlots, TouchQueue
<1>3. TypeOK'
  BY <1>1, <1>2 DEF IInv, TypeOK
<1>4. StageInv' /\ AtMostOneAnswer' /\ QueueInv'
  BY <1>2 DEF IInv, TypeOK, StageInv, AtMostOneAnswer, QueueInv, InProgress
<1>5. BusInv'
  <2>1. r \notin pending \cup arrived
    BY <1>2 DEF IInv, StageInv, BusInv, InProgress
  <2>2. \A j \in Slot : dtimer[j] # r
    BY <1>2, <2>1 DEF IInv, BusInv, InProgress, TypeOK
  <2> QED BY <1>1, <1>2, <2>1, <2>2 DEF IInv, BusInv, InProgress, TypeOK
<1> QED BY <1>3, <1>4, <1>5 DEF IInv

\* A request that leaves nothing with libdbus: CallGoesToUbus and ListNotSent.
LEMMA RefusedKeeps ==
    ASSUME IInv, NEW r \in Req, CallGoesToUbus(r) \/ ListNotSent(r)
    PROVE  IInv'
<1>1. /\ ~crashed /\ stage[r] = "new"
      /\ stage' = [stage EXCEPT ![r] = "over"]
      /\ mem' \in {mem, [mem EXCEPT ![r] = "lost"]}
      /\ UNCHANGED <<call_req, targets, visited, answers, rpc_call_q, rpc_q_len, busVars, open, crashed>>
  BY DEF CallGoesToUbus, ListNotSent, Admitted, Running
<1>2. TypeOK' /\ StageInv' /\ AtMostOneAnswer' /\ QueueInv'
  BY <1>1 DEF IInv, TypeOK, StageInv, AtMostOneAnswer, QueueInv, InProgress, busVars
<1>3. BusInv'
  <2>1. r \notin pending \cup arrived
    BY <1>1 DEF IInv, StageInv, BusInv, InProgress
  <2> QED BY <1>1, <2>1 DEF IInv, TypeOK, BusInv, InProgress, busVars
<1> QED BY <1>2, <1>3 DEF IInv

\* A reply or a timeout: a call moves from pending to arrived.
LEMMA ArrivalKeeps ==
    ASSUME IInv, (\E r \in Req : ReplyArrives(r)) \/ (\E i \in Slot : wsd_trigger_timer(i))
    PROVE  IInv'
<1>1. CASE \E r \in Req : ReplyArrives(r)
  BY <1>1 DEF ReplyArrives, IInv, TypeOK, StageInv, AtMostOneAnswer, QueueInv, InProgress, BusInv, ctxVars
<1>2. CASE \E i \in Slot : wsd_trigger_timer(i)
  <2>1. PICK i \in Slot : wsd_trigger_timer(i)
    BY <1>2
  <2>2. dtimer[i] \in pending \cup arrived /\ dtimer[i] \in Req
    BY <2>1 DEF wsd_trigger_timer, IInv, BusInv, InProgress, TypeOK
  <2>3. TypeOK' /\ StageInv' /\ AtMostOneAnswer' /\ QueueInv'
    BY <2>1, <2>2 DEF wsd_trigger_timer, wsd_del_timeout, IInv, TypeOK, StageInv, AtMostOneAnswer, QueueInv, InProgress, ctxVars
  <2>4. BusInv'
    BY <2>1, <2>2, DbusAssumption DEF wsd_trigger_timer, wsd_del_timeout, IInv, TypeOK, BusInv, InProgress, ctxVars
  <2> QED BY <2>3, <2>4 DEF IInv
<1> QED BY <1>1, <1>2

\* The reply of r is dispatched and r is over; what happens to its link in the queue and
\* to crashed is left open.
LEMMA EndKeeps ==
    ASSUME IInv, NEW r \in Req, Dispatched(r), wsd_del_timeout({r}),
           stage[r] \in {"call", "names", "walk"},
           stage' = [stage EXCEPT ![r] = "over"],
           mem' = [mem EXCEPT ![r] = "freed"],
           call_req' = [call_req EXCEPT ![r] = FALSE],
           answers' = [answers EXCEPT ![r] = @ + 1],
           rpc_call_q' \in {rpc_call_q, rpc_call_q \ {r}},
           targets' \in [Req -> 0..MaxTargets], visited' \in [Req -> 0..MaxTargets],
           \A s \in Req \ {r} : targets'[s] = targets[s] /\ visited'[s] = visited[s],
           crashed' \in BOOLEAN,
           UNCHANGED <<rpc_q_len, pending, open>>
    PROVE  IInv'
<1>1. ~crashed /\ r \in arrived /\ arrived' = arrived \ {r} /\ r \notin pending
  BY DEF Dispatched, Running, IInv, BusInv, InProgress
<1>2. TypeOK'
  <2>1. TypeOK /\ rpc_call_q' \subseteq rpc_call_q
    BY DEF IInv
  <2>2. dtimer' \in [Slot -> Req \cup {None}] /\ armed' \subseteq Slot
    BY <2>1 DEF TypeOK, wsd_del_timeout
  <2>3. answers' \in [Req -> Nat] /\ call_req' \in [Req -> BOOLEAN]
    BY <2>1 DEF TypeOK
  <2> QED BY <1>1, <2>1, <2>2, <2>3 DEF TypeOK
<1>3. StageInv' /\ AtMostOneAnswer' /\ QueueInv'
  BY DEF IInv, TypeOK, StageInv, AtMostOneAnswer, QueueInv, InProgress
<1>4. BusInv'
  BY <1>1, DbusAssumption DEF IInv, TypeOK, BusInv, InProgress, wsd_del_timeout
<1> QED BY <1>2, <1>3, <1>4 DEF IInv

\* The answer of a call, and the failed list of names.
LEMMA AnswerKeeps ==
    ASSUME IInv, NEW r \in Req, wsd_call_cb(r) \/ ListFailed(r)
    PROVE  IInv'
<1>1. /\ Dispatched(r) /\ wsd_del_timeout({r})
      /\ stage[r] \in {"call", "names", "walk"}
      /\ stage' = [stage EXCEPT ![r] = "over"]
      /\ mem' = [mem EXCEPT ![r] = "freed"]
      /\ call_req' = [call_req EXCEPT ![r] = FALSE]
      /\ answers' = [answers EXCEPT ![r] = @ + 1]
      /\ rpc_call_q' \in {rpc_call_q, rpc_call_q \ {r}}
      /\ UNCHANGED <<targets, visited, rpc_q_len, pending, open>>
  BY DEF wsd_call_cb, ListFailed, FinishAndFree
<1>2. crashed' \in BOOLEAN
  BY Zenon DEF wsd_call_cb, ListFailed, FinishAndFree, TouchQueue, IInv, TypeOK
<1>3. /\ targets' \in [Req -> 0..MaxTargets] /\ visited' \in [Req -> 0..MaxTargets]
      /\ \A s \in Req \ {r} : targets'[s] = targets[s] /\ visited'[s] = visited[s]
  BY <1>1 DEF IInv, TypeOK
<1> QED BY Zenon, <1>1, <1>2, <1>3, EndKeeps

\* A list that has n targets left goes on or is answered.
LEMMA WalkKeeps ==
    ASSUME IInv, NEW r \in Req, Dispatched(r), stage[r] \in {"names", "walk"},
           NEW n \in 0..MaxTargets, NEW v \in 0..MaxTargets, n <= v,
           visited' = [visited EXCEPT ![r] = v],
           NextOrFinish(r, n)
    PROVE  IInv'
<1> USE DbusAssumption
<1>1. CASE n = 0
  <2>1. /\ wsd_del_timeout({r})
        /\ stage' = [stage EXCEPT ![r] = "over"]
        /\ mem' = [mem EXCEPT ![r] = "freed"]
        /\ call_req' = [call_req EXCEPT ![r] = FALSE]
        /\ answers' = [answers EXCEPT ![r] = @ + 1]
        /\ rpc_call_q' \in {rpc_call_q, rpc_call_q \ {r}}
        /\ targets' = [targets EXCEPT ![r] = 0]
        /\ UNCHANGED <<rpc_q_len, pending, open>>
    BY <1>1 DEF NextOrFinish, FinishAndFree
  <2>2. crashed' \in BOOLEAN
    BY Zenon, <1>1 DEF NextOrFinish, FinishAndFree, TouchQueue
  <2>3. /\ targets' \in [Req -> 0..MaxTargets] /\ visited' \in [Req -> 0..MaxTargets]
        /\ \A s \in Req \ {r} : targets'[s] = targets[s] /\ visited'[s] = visited[s]
    BY <2>1 DEF IInv, TypeOK
  <2> QED BY Zenon, <2>1, <2>2, <2>3, EndKeeps
<1>2. CASE n # 0
  <2> DEFINE own == {i \in Slot : dtimer[i] = r}
             free == FreeSlots \cup own
  <2>1. ~crashed /\ r \in arrived /\ arrived' = arrived \ {r} /\ r \notin pending
    BY DEF Dispatched, Running, IInv, BusInv, InProgress
  <2>2. /\ targets' = [targets EXCEPT ![r] = n]
        /\ stage' = [stage EXCEPT ![r] = "walk"]
        /\ call_req' = [call_req EXCEPT ![r] = free # {}]
        /\ UNCHANGED <<mem, answers, rpc_call_q, crashed, rpc_q_len, open>>
    BY <1>2 DEF NextOrFinish
  <2>3. CASE free = {} /\ UNCHANGED <<dtimer, armed, pending>>
    <3>1. TypeOK' /\ StageInv' /\ AtMostOneAnswer' /\ QueueInv'
      BY <1>2, <2>1, <2>2, <2>3 DEF IInv, TypeOK, StageInv, AtMostOneAnswer, QueueInv, InProgress
    <3>2. BusInv'
      BY <2>1, <2>2, <2>3 DEF IInv, TypeOK, BusInv, InProgress
    <3> QED BY <3>1, <3>2 DEF IInv
  <2>4. CASE \E i \in Slot :
               /\ First(i, free)
               /\ dtimer' = [j \in Slot |-> IF j = i THEN r
                                            ELSE IF j \in own THEN None ELSE dtimer[j]]
               /\ armed' = (armed \ own) \cup {i}
               /\ pending' = pending \cup {r}
    <3>1. PICK i \in Slot :
               /\ i \in free
               /\ dtimer' = [j \in Slot |-> IF j = i THEN r
                                            ELSE IF j \in own THEN None ELSE dtimer[j]]
               /\ armed' = (armed \ own) \cup {i}
               /\ pending' = pending \cup {r}
      BY <2>4 DEF First
    <3>2. TypeOK' /\ StageInv' /\ AtMostOneAnswer' /\ QueueInv'
      BY <1>2, <2>1, <2>2, <3>1 DEF IInv, TypeOK, StageInv, AtMostOneAnswer, QueueInv, InProgress
    <3>3. BusInv'
      BY <2>1, <2>2, <3>1 DEF IInv, TypeOK, BusInv, InProgress, FreeSlots
    <3> QED BY <3>2, <3>3 DEF IInv
  <2> QED BY <1>2, <2>3, <2>4 DEF NextOrFinish
<1> QED BY <1>1, <1>2

\* The names of the services, and the targets one after the other.
LEMMA ListKeeps ==
    ASSUME IInv, NEW r \in Req, NEW n \in 0..MaxTargets, wsd_list_cb(r, n) \/ wsd_introspect_cb(r, n)
    PROVE  IInv'
<1> USE DbusAssumption
<1>1. CASE wsd_list_cb(r, n)
  <2>1. n <= n /\ stage[r] \in {"names", "walk"}
    BY <1>1 DEF wsd_list_cb
  <2> QED BY Zenon, <1>1, <2>1, WalkKeeps DEF wsd_list_cb
<1>2. CASE wsd_introspect_cb(r, n)
  <2>1. /\ targets[r] \in 0..MaxTargets /\ visited[r] \in 0..MaxTargets
        /\ targets[r] >= 1 /\ targets[r] <= visited[r] /\ visited[r] + n <= MaxTargets
    BY <1>2 DEF wsd_introspect_cb, IInv, StageInv, TypeOK
  <2>2. /\ targets[r] - 1 + n \in 0..MaxTargets /\ visited[r] + n \in 0..MaxTargets
        /\ targets[r] - 1 + n <= visited[r] + n
    BY <2>1
  <2> QED BY Zenon, <1>2, <2>2, WalkKeeps DEF wsd_introspect_cb
<1> QED BY <1>1, <1>2

\* The end of the session: no call of it is left with libdbus.
LEMMA CloseKeeps ==
    ASSUME IInv, Close
    PROVE  IInv'
<1>1. /\ ~crashed /\ crashed' \in BOOLEAN
      /\ open' = FALSE /\ rpc_call_q' = {}
      /\ pending' = pending \ rpc_call_q /\ arrived' = arrived \ rpc_call_q
      /\ UNCHANGED <<targets, visited, answers, rpc_q_len>>
  BY Zenon DEF Close, Running, TouchQueue
<1>2. TypeOK'
  BY Zenon, <1>1, DbusAssumption DEF Close, IInv, TypeOK, wsd_del_timeout
<1>3. StageInv' /\ AtMostOneAnswer' /\ QueueInv'
  BY <1>1 DEF Close, IInv, TypeOK, StageInv, AtMostOneAnswer, QueueInv, InProgress
<1>4. BusInv'
  <2>1. pending' = {} /\ arrived' = {}
    BY <1>1 DEF IInv, BusInv, InProgress
  <2>2. \A i \in Slot : dtimer'[i] = None /\ i \notin armed'
    BY <1>1, DbusAssumption DEF Close, wsd_del_timeout, IInv, BusInv, InProgress, TypeOK
  <2>3. \A r \in Req : ~InProgress(r)'
    BY DEF Close, IInv, TypeOK, QueueInv, InProgress
  <2> QED BY Zenon, <1>2, <2>1, <2>2, <2>3 DEF BusInv, TypeOK
<1> QED BY <1>2, <1>3, <1>4 DEF IInv

-----------------------------------------------------------------------------
(* The theorems *)

\* The program starts in the invariant.
LEMMA InitInv == Init => IInv
<1> SUFFICES ASSUME Init PROVE IInv
  OBVIOUS
<1>1. TypeOK
  <2>1. /\ stage \in [Req -> {"new", "call", "names", "walk", "over"}]
        /\ mem \in [Req -> {"none", "live", "freed", "lost"}]
    BY DEF Init
  <2>2. call_req \in [Req -> BOOLEAN] /\ open \in BOOLEAN /\ crashed \in BOOLEAN
    BY Zenon DEF Init
  <2>3. /\ answers \in [Req -> Nat] /\ rpc_q_len \in 0..ReqMax + 1
        /\ targets \in [Req -> 0..MaxTargets] /\ visited \in [Req -> 0..MaxTargets]
    BY DbusAssumption DEF Init
  <2> QED BY <2>1, <2>2, <2>3 DEF Init, TypeOK
<1>2. StageInv /\ AtMostOneAnswer /\ QueueInv
  BY DEF Init, StageInv, AtMostOneAnswer, QueueInv, InProgress
<1>3. BusInv
  BY DEF Init, BusInv, InProgress
<1> QED BY <1>1, <1>2, <1>3 DEF IInv

\* Every step keeps it.
LEMMA NextInv == IInv /\ [Next]_vars => IInv'
<1> SUFFICES ASSUME IInv, [Next]_vars PROVE IInv'
  OBVIOUS
<1>1. CASE UNCHANGED vars
  BY <1>1 DEF vars, ctxVars, busVars, IInv, TypeOK, StageInv, AtMostOneAnswer, QueueInv, InProgress, BusInv
<1>2. CASE Next
  BY <1>2, SendKeeps, RefusedKeeps, ArrivalKeeps, AnswerKeeps, ListKeeps, CloseKeeps DEF Next
<1> QED BY <1>1, <1>2

\* It holds in every state.
LEMMA SpecInv == Spec => []IInv
BY InitInv, NextInv, PTL DEF Spec

\* A reply reaches a ctx that is alive and waits for it (the assertions of the callbacks),
\* with any number of requests and slots.
THEOREM RepliesCorrect == Spec => []RepliesReachLive
<1>1. IInv => RepliesReachLive
  BY DEF IInv, BusInv, RepliesReachLive
<1> QED BY <1>1, SpecInv, PTL

\* Every call without a reply has one slot and one timer, and no slot is lost.
THEOREM TimersCorrect == Spec => []TimerPerCall
<1>1. IInv => TimerPerCall
  <2> SUFFICES ASSUME IInv, ~crashed PROVE TimerPerCall
    BY DEF TimerPerCall
  <2>1. ASSUME NEW r \in pending PROVE Cardinality({i \in armed : dtimer[i] = r}) = 1
    <3>1. r \in Req /\ r # None
      BY DbusAssumption DEF IInv, TypeOK
    <3>2. PICK i \in Slot : dtimer[i] = r
      BY DEF IInv, BusInv
    <3>3. {j \in armed : dtimer[j] = r} = {i}
      BY <3>1, <3>2 DEF IInv, BusInv, TypeOK
    <3> QED BY <3>3, FS_Singleton
  <2> QED BY <2>1 DEF IInv, BusInv, TimerPerCall
<1> QED BY <1>1, SpecInv, PTL

\* No request is answered twice, whatever reply, timeout and close do.
THEOREM AnsweredAtMostOnce == Spec => []AtMostOneAnswer
<1>1. IInv => AtMostOneAnswer
  BY DEF IInv
<1> QED BY <1>1, SpecInv, PTL

\* No request in progress waits for nothing, unless all slots were taken when a list went
\* on: its call is with libdbus, without a reply and with a timer that will make one of it
\* (TimersCorrect), or with one that is to be dispatched.
Awaited ==
    ~crashed => \A r \in Req : InProgress(r) /\ ~Stuck(r) =>
        \/ r \in arrived
        \/ r \in pending /\ \E i \in armed : dtimer[i] = r

\* What a request in progress waits for is there (the safety half of RequestsEnd), with any
\* number of requests and slots.
THEOREM AwaitedCorrect == Spec => []Awaited
<1>1. IInv => Awaited
  <2> SUFFICES ASSUME IInv, ~crashed, NEW r \in Req, InProgress(r), ~Stuck(r)
               PROVE  r \in arrived \/ (r \in pending /\ \E i \in armed : dtimer[i] = r)
    BY Zenon DEF Awaited
  <2>1. r \in pending \cup arrived
    BY Zenon DEF Stuck, IInv, BusInv
  <2>2. ASSUME r \in pending PROVE \E i \in armed : dtimer[i] = r
    <3>1. PICK i \in Slot : dtimer[i] = r
      BY Zenon, <2>2 DEF IInv, BusInv
    <3>2. r # None
      BY DbusAssumption
    <3> QED BY Zenon, <3>1, <3>2 DEF IInv, BusInv
  <2> QED BY Zenon, <2>1, <2>2
<1> QED BY <1>1, SpecInv, PTL

-----------------------------------------------------------------------------
(* DbusRequests implements RpcService *)

\* A request that comes in is taken, and left in progress or over without an answer.
LEMMA TakeRefines ==
    ASSUME IInv, NEW r \in Req,
           \/ handle_call_dbus(r) \/ handle_list_dbus(r)
           \/ CallGoesToUbus(r) \/ ListNotSent(r)
    PROVE  Service!Take("session", r)
<1>1. /\ open = TRUE /\ open' = open /\ answers' = answers /\ stage[r] = "new"
      /\ \E s \in {"call", "names", "over"} : stage' = [stage EXCEPT ![r] = s]
  BY DEF handle_call_dbus, handle_list_dbus, CallGoesToUbus, ListNotSent, Admitted, Running, IInv, TypeOK
<1>2. PICK s \in {"call", "names", "over"} : stage' = [stage EXCEPT ![r] = s]
  BY Zenon, <1>1
<1>3. stage \in [Req -> {"new", "call", "names", "walk", "over"}]
  BY DEF IInv, TypeOK
<1> DEFINE Sent == [q \in Req |-> IF stage[q] = "new" THEN "none" ELSE "session"]
           Going == {q \in Req : InProgress(q)}
<1>4. Sent[r] = "none" /\ Sent' = [Sent EXCEPT ![r] = "session"]
  BY Zenon, <1>1, <1>2, <1>3
<1>5. Going' = Going \cup {r} \/ Going' = Going
  BY <1>1, <1>2, <1>3 DEF InProgress
<1> QED BY <1>1, <1>4, <1>5 DEF Service!Take

\* The step that ends a request that is in progress answers it, on the open session.
LEMMA AnswerRefines ==
    ASSUME IInv, NEW r \in Req, Dispatched(r), InProgress(r),
           stage' = [stage EXCEPT ![r] = "over"],
           answers' = [answers EXCEPT ![r] = @ + 1],
           UNCHANGED open
    PROVE  Service!Answer(r)
<1>1. open = TRUE /\ stage \in [Req -> {"new", "call", "names", "walk", "over"}] /\ answers \in [Req -> Nat]
  BY DEF Dispatched, Running, IInv, TypeOK
<1>2. stage[r] # "new" /\ stage[r] # "over"
  BY DEF InProgress
<1>3. answers[r] = 0
  BY <1>1, <1>2 DEF IInv, AtMostOneAnswer
<1>4. answers' = [answers EXCEPT ![r] = 1]
  BY <1>1, <1>3
<1> DEFINE Sent == [q \in Req |-> IF stage[q] = "new" THEN "none" ELSE "session"]
           Going == {q \in Req : InProgress(q)}
<1>5. Sent[r] = "session" /\ Sent' = Sent
  BY <1>1, <1>2
<1>6. r \in Going /\ Going' = Going \ {r}
  BY <1>1 DEF InProgress
<1> QED BY <1>1, <1>3, <1>4, <1>5, <1>6 DEF Service!Answer

\* A list that gets its names or an object goes on, unseen by the client, or is answered.
LEMMA ListRefines ==
    ASSUME IInv, NEW r \in Req, NEW n \in 0..MaxTargets, wsd_list_cb(r, n) \/ wsd_introspect_cb(r, n)
    PROVE  Service!Answer(r) \/ UNCHANGED Service!vars
<1>1. stage[r] \in {"names", "walk"} /\ Dispatched(r) /\ \E m \in Int : NextOrFinish(r, m)
  <2>1. targets[r] \in Int
    BY DEF IInv, TypeOK
  <2>2. n \in Int /\ targets[r] - 1 + n \in Int
    BY <2>1
  <2> QED BY <2>2 DEF wsd_list_cb, wsd_introspect_cb
<1>2. PICK m \in Int : NextOrFinish(r, m)
  BY <1>1
<1>3. CASE m = 0
  <2>1. /\ stage' = [stage EXCEPT ![r] = "over"]
        /\ answers' = [answers EXCEPT ![r] = @ + 1]
        /\ UNCHANGED open
    BY <1>2, <1>3 DEF NextOrFinish, FinishAndFree
  <2>2. InProgress(r)
    BY <1>1 DEF InProgress
  <2> QED BY Zenon, <1>1, <2>1, <2>2, AnswerRefines
<1>4. CASE m # 0
  <2>1. stage' = [stage EXCEPT ![r] = "walk"] /\ UNCHANGED <<answers, open>>
    BY <1>2, <1>4 DEF NextOrFinish
  <2>2. stage \in [Req -> {"new", "call", "names", "walk", "over"}]
    BY DEF IInv, TypeOK
  <2>3. \A q \in Req : (stage'[q] = "new" <=> stage[q] = "new") /\ (InProgress(q)' <=> InProgress(q))
    BY <1>1, <2>1, <2>2 DEF InProgress
  <2> QED BY <2>1, <2>3 DEF Service!vars
<1> QED BY <1>3, <1>4

\* The end of the session gives up what is in progress, all of which is in the queue.
LEMMA CloseRefines ==
    ASSUME IInv, Close
    PROVE  Service!Disconnect("session")
<1>1. /\ open = TRUE /\ open' = FALSE /\ answers' = answers
      /\ stage' = [r \in Req |-> IF r \in rpc_call_q THEN "over" ELSE stage[r]]
      /\ stage \in [Req -> {"new", "call", "names", "walk", "over"}]
  BY DEF Close, Running, IInv, TypeOK
<1>2. \A r \in rpc_call_q : stage[r] # "new"
  BY DEF IInv, QueueInv, TypeOK
<1> DEFINE Sent == [q \in Req |-> IF stage[q] = "new" THEN "none" ELSE "session"]
           Going == {q \in Req : InProgress(q)}
<1>3. Sent' = Sent
  BY <1>1, <1>2
<1>4. Going' = {}
  BY <1>1 DEF InProgress, IInv, QueueInv
<1>5. \A q \in Going : Sent[q] = "session"
  BY DEF InProgress
<1> HIDE DEF Sent, Going
<1>6. {q \in Going : Sent[q] # "session"} = {}
  BY <1>5
<1> QED BY <1>1, <1>3, <1>4, <1>6 DEF Service!Disconnect, Sent, Going

\* Every step is one of the service, or not seen by the client.
LEMMA StepRefines == IInv /\ [Next]_vars => [Service!Next]_(Service!vars)
<1> SUFFICES ASSUME IInv, [Next]_vars PROVE Service!Next \/ UNCHANGED Service!vars
  OBVIOUS
<1>1. ASSUME NEW r \in Req,
             \/ handle_call_dbus(r) \/ handle_list_dbus(r)
             \/ CallGoesToUbus(r) \/ ListNotSent(r)
      PROVE  Service!Next
  BY <1>1, TakeRefines DEF Service!Next
<1>2. ASSUME NEW r \in Req, wsd_call_cb(r) \/ ListFailed(r)
      PROVE  Service!Next
  <2>1. /\ Dispatched(r) /\ InProgress(r)
        /\ stage' = [stage EXCEPT ![r] = "over"]
        /\ answers' = [answers EXCEPT ![r] = @ + 1]
        /\ UNCHANGED open
    BY <1>2 DEF wsd_call_cb, ListFailed, FinishAndFree, InProgress
  <2> QED BY Zenon, <2>1, AnswerRefines DEF Service!Next
<1>3. ASSUME NEW r \in Req, NEW n \in 0..MaxTargets, wsd_list_cb(r, n) \/ wsd_introspect_cb(r, n)
      PROVE  Service!Next \/ UNCHANGED Service!vars
  BY Zenon, <1>3, ListRefines DEF Service!Next
<1>4. CASE Close
  BY <1>4, CloseRefines DEF Service!Next
<1>5. ASSUME UNCHANGED <<stage, answers, open>>
      PROVE  UNCHANGED Service!vars
  BY <1>5 DEF Service!vars, InProgress
<1>6. ASSUME NEW r \in Req, ReplyArrives(r)
      PROVE  UNCHANGED <<stage, answers, open>>
  BY <1>6 DEF ReplyArrives, ctxVars
<1>7. ASSUME NEW i \in Slot, wsd_trigger_timer(i)
      PROVE  UNCHANGED <<stage, answers, open>>
  BY <1>7 DEF wsd_trigger_timer, ctxVars
<1>8. ASSUME UNCHANGED vars
      PROVE  UNCHANGED <<stage, answers, open>>
  BY <1>8 DEF vars, ctxVars
<1> QED BY Zenon, <1>1, <1>2, <1>3, <1>4, <1>5, <1>6, <1>7, <1>8 DEF Next

\* Calls and lists over DBus implement the same service as those over ubus: a request is
\* taken once, answered at most once, by the step that ends it and on an open session, and
\* given up by the end of the session.
THEOREM DbusRefinement == Spec => ImplementsRpc
<1>1. Init => Service!Init
  BY DEF Init, Service!Init, InProgress
<1> QED BY <1>1, StepRefines, SpecInv, PTL DEF Spec, ImplementsRpc, Service!Spec
=============================================================================

------------------------ MODULE ClientSessionsProofs ------------------------
(***************************************************************************)
(* Proofs, for any number of connections, requests and patterns, that the  *)
(* server side of owsd keeps its request counters exact, loses no check,   *)
(* leaves nothing behind on a close, answers nothing twice, and implements *)
(* RpcService.                                                             *)
(***************************************************************************)
EXTENDS ClientSessions, FiniteSetTheorems, TLAPS

\* A message that has not been received has no object and no reply.
Fresh ==
    \A r \in Req : wsi[r] = None => call[r] = "none" /\ ~LiveSub(r) /\ replies[r] = 0

\* The queue of every connection is finite, counted exactly, and bounded.
QueueInv ==
    /\ rpc_q_len \in [Wsi -> 0..QLenMax]
    /\ \A w \in Wsi : IsFiniteSet(Calls(w))
    /\ QLenExact
    /\ OutstandingBounded

\* The session count and the share, the bound on the share included.
SessionInv ==
    /\ IsFiniteSet(open)
    /\ ShareUpToDate
    /\ req_max <= MaxAsyncReqs

\* What is inductive: the counters depend on NoOrphans (a connection is opened with
\* an empty queue), on SessionInv (the bound) and on Fresh (an arriving request is in
\* no queue yet).
IInv ==
    /\ TypeOK
    /\ Fresh
    /\ QueueInv
    /\ SessionInv
    /\ NoOrphans
    /\ NoLostCheck
    /\ AtMostOneReply

-----------------------------------------------------------------------------
(* Lemmas on the operators *)

\* The two halves of a handler that answers at once cancel out, wrapping included.
LEMMA PlusMinus ==
    ASSUME NEW q \in 0..QLenMax
    PROVE  Plus1(Minus(q, 1)) = q
BY ConstantsAssumption DEF Plus1, Minus

\* No session gets a share above MAX_ASYNC_REQS.
LEMMA ShareBounded ==
    ASSUME NEW n \in Nat
    PROVE  recalc_req_max(n) \in Int /\ recalc_req_max(n) <= MaxAsyncReqs
BY ConstantsAssumption DEF recalc_req_max

\* A step that leaves the queues and their counters alone keeps them exact.
LEMMA QueueSame ==
    ASSUME QueueInv, rpc_q_len' = rpc_q_len, \A v \in Wsi : Calls(v)' = Calls(v)
    PROVE  QueueInv'
BY DEF QueueInv, QLenExact, OutstandingBounded

\* Destroying calls of one connection takes them off its queue and its counter,
\* and the counter does not wrap.
LEMMA QueueShrinks ==
    ASSUME TypeOK, QueueInv, wsi' = wsi,
           NEW w \in Wsi, NEW S \in SUBSET Calls(w), DestroyCalls(w, S)
    PROVE  QueueInv'
<1>1. Calls(w)' = Calls(w) \ S
  BY DEF DestroyCalls, Calls, LiveCall, TypeOK
<1>2. \A v \in Wsi \ {w} : Calls(v)' = Calls(v)
  BY DEF DestroyCalls, Calls, LiveCall, TypeOK
<1>3. IsFiniteSet(Calls(w)) /\ Cardinality(Calls(w)) = rpc_q_len[w]
  BY DEF QueueInv, QLenExact
<1>4. /\ IsFiniteSet(S) /\ Cardinality(S) \in Nat
      /\ Cardinality(S) <= Cardinality(Calls(w))
  BY <1>3, FS_Subset, FS_CardinalityType
<1>5. /\ IsFiniteSet(Calls(w) \ S)
      /\ Cardinality(Calls(w) \ S) = Cardinality(Calls(w)) - Cardinality(S)
  <2>1. Calls(w) \cap S = S
    OBVIOUS
  <2>2. /\ IsFiniteSet(Calls(w) \ S)
        /\ Cardinality(Calls(w) \ S) =
              Cardinality(Calls(w)) - Cardinality(Calls(w) \cap S)
    BY <1>3, FS_Difference, Zenon
  <2>. QED  BY <2>1, <2>2
<1>6. Minus(rpc_q_len[w], Cardinality(S)) = Cardinality(Calls(w) \ S)
  BY <1>3, <1>4, <1>5 DEF Minus
<1>7. Cardinality(Calls(w) \ S) \in 0..rpc_q_len[w]
  BY <1>3, <1>4, <1>5, FS_CardinalityType
<1>8. rpc_q_len' = [rpc_q_len EXCEPT ![w] = Cardinality(Calls(w) \ S)]
  BY <1>6 DEF DestroyCalls
<1>9. rpc_q_len' \in [Wsi -> 0..QLenMax]
  BY <1>7, <1>8, ConstantsAssumption DEF QueueInv
<1>10. \A v \in Wsi : IsFiniteSet(Calls(v))'
  BY <1>1, <1>2, <1>5 DEF QueueInv
<1>11. QLenExact'
  BY <1>1, <1>2, <1>8 DEF QueueInv, QLenExact
<1>12. OutstandingBounded'
  <2>1. Cardinality(Calls(w) \ S) <= MaxAsyncReqs + 1
    BY <1>3, <1>7, ConstantsAssumption DEF QueueInv, OutstandingBounded
  <2>. QED  BY <1>1, <1>2, <2>1 DEF QueueInv, OutstandingBounded
<1>. QED  BY <1>9, <1>10, <1>11, <1>12 DEF QueueInv

\* A request joins the queue of w as its counter goes up; the test for a full queue
\* keeps the counter from exceeding the bound.
LEMMA QueueGrows ==
    ASSUME TypeOK, QueueInv, SessionInv, NEW w \in Wsi, NEW r, r \notin Calls(w),
           Admitted(w), Calls(w)' = Calls(w) \cup {r},
           \A v \in Wsi \ {w} : Calls(v)' = Calls(v),
           rpc_q_len' = [rpc_q_len EXCEPT ![w] = Plus1(@)]
    PROVE  QueueInv'
<1>1. IsFiniteSet(Calls(w)) /\ Cardinality(Calls(w)) = rpc_q_len[w]
  BY DEF QueueInv, QLenExact
<1>2. /\ IsFiniteSet(Calls(w) \cup {r})
      /\ Cardinality(Calls(w) \cup {r}) = rpc_q_len[w] + 1
  BY <1>1, FS_AddElement
<1>3. rpc_q_len[w] \in 0..QLenMax /\ rpc_q_len[w] <= MaxAsyncReqs
  BY ConstantsAssumption DEF QueueInv, SessionInv, Admitted, TypeOK
<1>4. Plus1(rpc_q_len[w]) = rpc_q_len[w] + 1 /\ rpc_q_len[w] + 1 \in 0..QLenMax
  BY <1>3, ConstantsAssumption DEF Plus1
<1>5. rpc_q_len' \in [Wsi -> 0..QLenMax]
  BY <1>4 DEF QueueInv
<1>6. \A v \in Wsi : IsFiniteSet(Calls(v))'
  BY <1>2 DEF QueueInv
<1>7. QLenExact'
  BY Zenon, <1>2, <1>4 DEF QueueInv, QLenExact
<1>8. OutstandingBounded'
  <2>1. Cardinality(Calls(w) \cup {r}) <= MaxAsyncReqs + 1
    BY <1>2, <1>3, ConstantsAssumption
  <2>. QED  BY <2>1 DEF QueueInv, OutstandingBounded
<1>. QED  BY <1>5, <1>6, <1>7, <1>8 DEF QueueInv

\* The handlers that answer at once leave the counter as it was.
LEMMA AnsweredKeeps ==
    ASSUME TypeOK, NEW w \in Wsi, AnsweredAtOnce(w)
    PROVE  rpc_q_len' = rpc_q_len
<1>1. Plus1(Minus(rpc_q_len[w], 1)) = rpc_q_len[w]
  BY PlusMinus DEF TypeOK
<1>. QED  BY <1>1 DEF AnsweredAtOnce, TypeOK

-----------------------------------------------------------------------------
(* The invariant is inductive *)

\* Nothing exists before the first connection.
LEMMA InitInv == Init => IInv
<1>. SUFFICES ASSUME Init PROVE IInv
  OBVIOUS
<1>. USE DEF Init
<1>1. TypeOK
  <2>1. crashed \in BOOLEAN
    BY Zenon
  <2>2. rpc_q_len \in [Wsi -> 0..QLenMax] /\ age \in [Req -> 0..StaleAge]
    BY ConstantsAssumption
  <2>3. events \in 0..MaxEvents
    BY ConstantsAssumption
  <2>. QED  BY <2>1, <2>2, <2>3 DEF TypeOK, CallStages
<1>2. \A w \in Wsi : Calls(w) = {}
  BY DEF Calls, LiveCall
<1>3. QueueInv
  <2>1. \A w \in Wsi : IsFiniteSet(Calls(w)) /\ Cardinality(Calls(w)) = 0
    BY <1>2, FS_EmptySet
  <2>. QED
    BY <1>1, <2>1, ConstantsAssumption DEF TypeOK, QueueInv, QLenExact, OutstandingBounded
<1>4. SessionInv
  BY FS_EmptySet, ConstantsAssumption DEF SessionInv, ShareUpToDate
<1>5. Fresh /\ NoOrphans /\ NoLostCheck /\ AtMostOneReply
  BY DEF Fresh, NoOrphans, NoLostCheck, AtMostOneReply, LiveCall, LiveSub
<1>. QED  BY <1>1, <1>3, <1>4, <1>5 DEF IInv

\* A connection opens: its handle is in no queue, because nothing survived its last
\* close.
LEMMA EstablishInv == ASSUME IInv, NEW w \in Wsi, Establish(w) PROVE IInv'
<1>. USE DEF IInv, Establish, Running, callVars
<1>1. \A v \in Wsi : Calls(v)' = Calls(v)
  BY DEF Calls, LiveCall
<1>2. Calls(w) = {}
  BY DEF Calls, NoOrphans
<1>3. rpc_q_len' = rpc_q_len
  <2>1. rpc_q_len[w] = 0
    BY <1>2, FS_EmptySet DEF QueueInv, QLenExact
  <2>. QED  BY <2>1 DEF TypeOK
<1>4. QueueInv'
  BY <1>1, <1>3, QueueSame
<1>5. /\ IsFiniteSet(open \cup {w}) /\ Cardinality(open) \in Nat
      /\ Cardinality(open \cup {w}) = Cardinality(open) + 1
  BY FS_AddElement, FS_CardinalityType DEF SessionInv
<1>6. SessionInv'
  BY <1>5, ShareBounded DEF SessionInv, ShareUpToDate
<1>7. TypeOK'
  BY <1>3, <1>5, ShareBounded DEF TypeOK, SessionInv, ShareUpToDate
<1>8. Fresh' /\ NoOrphans' /\ NoLostCheck' /\ AtMostOneReply'
  BY DEF Fresh, NoOrphans, NoLostCheck, AtMostOneReply, LiveCall, LiveSub, CallCheck
<1>. QED  BY <1>4, <1>6, <1>7, <1>8

\* A connection closes and takes its checks, calls and subscriptions with it.
LEMMA CloseInv == ASSUME IInv, NEW w \in Wsi, Close(w) PROVE IInv'
<1>. USE DEF IInv, Close, Running
<1>1. QueueInv'
  BY QueueShrinks
<1>2. /\ IsFiniteSet(open \ {w}) /\ Cardinality(open \ {w}) \in Nat
      /\ Cardinality(open \ {w}) = Cardinality(open) - 1
  BY FS_RemoveElement, FS_CardinalityType DEF SessionInv
<1>3. num_active_ses' = Cardinality(open \ {w})
  BY <1>2 DEF SessionInv, ShareUpToDate
<1>4. SessionInv'
  BY <1>2, <1>3, ShareBounded DEF SessionInv, ShareUpToDate
<1>5. TypeOK'
  BY <1>1, <1>2, <1>3, ShareBounded
  DEF TypeOK, DestroyCalls, QueueInv, SessionInv, ShareUpToDate, CallStages
<1>6. NoOrphans'
  BY DEF NoOrphans, TypeOK, DestroyCalls, Calls, LiveCall, LiveSub, Check
<1>7. NoLostCheck'
  BY DEF NoLostCheck, TypeOK, DestroyCalls, Calls, LiveCall, CallCheck
<1>8. Fresh' /\ AtMostOneReply'
  BY ConstantsAssumption
  DEF Fresh, AtMostOneReply, TypeOK, DestroyCalls, Calls, LiveCall, LiveSub
<1>. QED  BY <1>1, <1>4, <1>5, <1>6, <1>7, <1>8

\* A message that is dropped, refused, or answered without an object.
LEMMA NoObjectInv ==
    ASSUME IInv, NEW w \in Wsi, NEW r \in Req,
           RxNotJson(w, r) \/ RxQueueFull(w, r) \/ RxInvalid(w, r) \/ HandleNoState(w, r)
    PROVE  IInv'
<1>. USE DEF IInv, RxNotJson, RxQueueFull, RxInvalid, HandleNoState, Receive, Running,
             sessionVars, callVars
<1>1. rpc_q_len' = rpc_q_len
  BY AnsweredKeeps
<1>2. \A v \in Wsi : Calls(v)' = Calls(v)
  BY ConstantsAssumption DEF Calls, LiveCall, Fresh, TypeOK
<1>3. QueueInv'
  BY <1>1, <1>2, QueueSame
<1>4. TypeOK'
  BY <1>1 DEF TypeOK, Reply
<1>5. SessionInv'
  BY DEF SessionInv, ShareUpToDate
<1>6. Fresh' /\ AtMostOneReply'
  BY ConstantsAssumption DEF Fresh, AtMostOneReply, TypeOK, Reply, LiveCall, LiveSub
<1>7. NoOrphans' /\ NoLostCheck'
  BY DEF NoOrphans, NoLostCheck, TypeOK, LiveCall, LiveSub, CallCheck, Check
<1>. QED  BY <1>3, <1>4, <1>5, <1>6, <1>7

\* A call is queued together with its check and its count.
LEMMA HandleCallInv ==
    ASSUME IInv, NEW w \in Wsi, NEW r \in Req, HandleCall(w, r)
    PROVE  IInv'
<1>. USE DEF IInv, HandleCall, Receive, Running, sessionVars
<1>1. r \notin Calls(w) /\ Calls(w)' = Calls(w) \cup {r}
  BY ConstantsAssumption DEF Calls, LiveCall, Fresh, TypeOK
<1>2. \A v \in Wsi \ {w} : Calls(v)' = Calls(v)
  BY ConstantsAssumption DEF Calls, LiveCall, Fresh, TypeOK
<1>3. QueueInv'
  BY Zenon, <1>1, <1>2, QueueGrows
<1>4. TypeOK'
  <2>1. CallCheck(r) \in Check
    BY ConstantsAssumption DEF CallCheck, Check
  <2>. QED  BY <1>3, <2>1 DEF TypeOK, QueueInv, CallStages
<1>5. SessionInv'
  BY DEF SessionInv, ShareUpToDate
<1>6. Fresh' /\ AtMostOneReply'
  BY ConstantsAssumption DEF Fresh, AtMostOneReply, TypeOK, LiveCall, LiveSub
<1>7. NoOrphans' /\ NoLostCheck'
  BY DEF NoOrphans, NoLostCheck, TypeOK, LiveCall, LiveSub, CallCheck, Check
<1>. QED  BY <1>3, <1>4, <1>5, <1>6, <1>7

\* A call whose check cannot be started leaves nothing behind.
LEMMA HandleCallCheckErrorInv ==
    ASSUME IInv, NEW w \in Wsi, NEW r \in Req, HandleCallCheckError(w, r)
    PROVE  IInv'
<1>. USE DEF IInv, HandleCallCheckError, Receive, Running, sessionVars
<1>1. rpc_q_len' = rpc_q_len
  BY AnsweredKeeps
<1>2. \A v \in Wsi : Calls(v)' = Calls(v)
  BY ConstantsAssumption DEF Calls, LiveCall, Fresh, TypeOK
<1>3. QueueInv'
  BY <1>1, <1>2, QueueSame
<1>4. TypeOK'
  BY <1>1 DEF TypeOK, Reply, CallStages
<1>5. SessionInv'
  BY DEF SessionInv, ShareUpToDate
<1>6. Fresh' /\ AtMostOneReply'
  BY ConstantsAssumption DEF Fresh, AtMostOneReply, TypeOK, Reply, LiveCall, LiveSub
<1>7. NoOrphans' /\ NoLostCheck'
  BY DEF NoOrphans, NoLostCheck, TypeOK, LiveCall, LiveSub, CallCheck, Check
<1>. QED  BY <1>3, <1>4, <1>5, <1>6, <1>7

\* Subscribing and unsubscribing touch no call, and a new subscription belongs to
\* an open connection.
LEMMA SubInv ==
    ASSUME IInv, NEW w \in Wsi, NEW r \in Req, NEW p \in Pattern,
           HandleSub(w, r, p) \/ HandleUnsub(w, r, p)
    PROVE  IInv'
<1>. USE DEF IInv, HandleSub, HandleUnsub, Receive, Running, sessionVars, callVars
<1>1. rpc_q_len' = rpc_q_len
  BY AnsweredKeeps
<1>2. \A v \in Wsi : Calls(v)' = Calls(v)
  BY ConstantsAssumption DEF Calls, LiveCall, Fresh, TypeOK
<1>3. QueueInv'
  BY <1>1, <1>2, QueueSame
<1>4. TypeOK'
  BY <1>1 DEF TypeOK, Reply
<1>5. SessionInv'
  BY DEF SessionInv, ShareUpToDate
<1>6. Fresh' /\ AtMostOneReply'
  BY ConstantsAssumption DEF Fresh, AtMostOneReply, TypeOK, Reply, LiveCall, LiveSub
<1>7. NoOrphans' /\ NoLostCheck'
  BY DEF NoOrphans, NoLostCheck, TypeOK, LiveCall, LiveSub, CallCheck, Check
<1>. QED  BY <1>3, <1>4, <1>5, <1>6, <1>7

\* A granted call moves from its check to the bus.
LEMMA AccessGrantedInv == ASSUME IInv, NEW r \in Req, AccessGranted(r) PROVE IInv'
<1>. USE DEF IInv, AccessGranted, Running, sessionVars
<1>1. \A v \in Wsi : Calls(v)' = Calls(v)
  BY DEF Calls, LiveCall, TypeOK
<1>2. QueueInv'
  BY <1>1, QueueSame
<1>3. TypeOK'
  BY DEF TypeOK, CallStages
<1>4. SessionInv'
  BY DEF SessionInv, ShareUpToDate
<1>5. Fresh' /\ AtMostOneReply'
  BY DEF Fresh, AtMostOneReply, TypeOK, LiveCall, LiveSub
<1>6. NoOrphans'
  BY DEF NoOrphans, TypeOK, LiveCall, LiveSub
<1>7. NoLostCheck'
  BY DEF NoLostCheck, TypeOK, CallCheck
<1>. QED  BY <1>2, <1>3, <1>4, <1>5, <1>6, <1>7

\* A finished call (denied, or completed by the bus) is answered as it leaves the
\* queue of its connection.
LEMMA AnswerInv ==
    ASSUME IInv, NEW r \in Req, AccessDenied(r) \/ CallCompleted(r)
    PROVE  IInv'
<1>. USE DEF IInv, AccessDenied, CallCompleted, Running, sessionVars
<1>1. wsi[r] \in Wsi /\ r \in Calls(wsi[r])
  BY DEF NoOrphans, LiveCall, TypeOK, Calls
<1>2. QueueInv'
  BY <1>1, QueueShrinks
<1>3. TypeOK'
  BY <1>2 DEF TypeOK, DestroyCalls, QueueInv, CallStages, Reply
<1>4. SessionInv'
  BY DEF SessionInv, ShareUpToDate
<1>5. Fresh' /\ AtMostOneReply'
  BY <1>1, ConstantsAssumption
  DEF Fresh, AtMostOneReply, TypeOK, DestroyCalls, Reply, LiveCall, LiveSub
<1>6. NoOrphans'
  BY DEF NoOrphans, TypeOK, DestroyCalls, LiveCall, LiveSub
<1>7. NoLostCheck'
  BY DEF NoLostCheck, TypeOK, DestroyCalls, CallCheck
<1>. QED  BY <1>2, <1>3, <1>4, <1>5, <1>6, <1>7

\* Bus events start and end checks of subscriptions, never those of calls.
LEMMA EventInv ==
    ASSUME IInv,
           \/ \E s \in Req : BusEvent(s)
           \/ \E c \in access_check_q : EventChecked(c)
    PROVE  IInv'
<1>. USE DEF IInv, BusEvent, EventChecked, Running, sessionVars, callVars
<1>1. \A v \in Wsi : Calls(v)' = Calls(v)
  BY DEF Calls, LiveCall
<1>2. QueueInv'
  BY <1>1, QueueSame
<1>3. TypeOK'
  BY ConstantsAssumption DEF TypeOK, Check
<1>4. SessionInv' /\ Fresh' /\ AtMostOneReply'
  BY DEF SessionInv, ShareUpToDate, Fresh, AtMostOneReply, LiveCall, LiveSub
<1>5. NoOrphans'
  BY DEF NoOrphans, TypeOK, LiveCall, LiveSub
<1>6. NoLostCheck'
  BY DEF NoLostCheck, CallCheck, IsCallCheck
<1>. QED  BY <1>2, <1>3, <1>4, <1>5, <1>6

\* Time only ages calls.
LEMMA TickInv == ASSUME IInv, Tick PROVE IInv'
<1>. USE DEF IInv, Tick, Running, sessionVars
<1>1. \A v \in Wsi : Calls(v)' = Calls(v)
  BY DEF Calls, LiveCall
<1>2. QueueInv'
  BY <1>1, QueueSame
<1>3. TypeOK'
  BY ConstantsAssumption DEF TypeOK
<1>4. SessionInv' /\ Fresh' /\ AtMostOneReply' /\ NoOrphans' /\ NoLostCheck'
  BY DEF SessionInv, ShareUpToDate, Fresh, AtMostOneReply, NoOrphans, NoLostCheck,
         LiveCall, LiveSub, CallCheck
<1>. QED  BY <1>2, <1>3, <1>4

\* The cleaner drops calls from one queue, and from its counter.
LEMMA CleanStaleInv == ASSUME IInv, NEW w \in Wsi, CleanStale(w) PROVE IInv'
<1>. USE DEF IInv, CleanStale, Running, sessionVars
<1>1. StaleCalls(w) \in SUBSET Calls(w)
  BY DEF StaleCalls
<1>2. QueueInv'
  BY <1>1, QueueShrinks
<1>3. TypeOK'
  BY <1>2 DEF TypeOK, DestroyCalls, QueueInv, CallStages
<1>4. SessionInv' /\ NoLostCheck'
  BY DEF SessionInv, ShareUpToDate, NoLostCheck, TypeOK, DestroyCalls, CallCheck
<1>5. Fresh' /\ AtMostOneReply' /\ NoOrphans'
  BY <1>1, ConstantsAssumption
  DEF Fresh, AtMostOneReply, NoOrphans, TypeOK, DestroyCalls, LiveCall, LiveSub, Calls
<1>. QED  BY <1>2, <1>3, <1>4, <1>5

\* Nothing but crashed changes.
LEMMA StutterInv == ASSUME IInv, UseFreed \/ UNCHANGED vars PROVE IInv'
<1>. USE DEF IInv, UseFreed, vars, sessionVars, callVars
<1>1. \A v \in Wsi : Calls(v)' = Calls(v)
  BY DEF Calls, LiveCall
<1>2. QueueInv'
  BY <1>1, QueueSame
<1>3. TypeOK'
  <2>1. crashed' \in BOOLEAN
    BY Zenon DEF TypeOK
  <2>. QED  BY <2>1 DEF TypeOK
<1>4. SessionInv' /\ Fresh' /\ AtMostOneReply' /\ NoOrphans' /\ NoLostCheck'
  BY DEF SessionInv, ShareUpToDate, Fresh, AtMostOneReply, NoOrphans, NoLostCheck,
         LiveCall, LiveSub, CallCheck
<1>. QED  BY <1>2, <1>3, <1>4

\* Every step of owsd, by the lemma of its action.
LEMMA StepInv == IInv /\ [Next]_vars => IInv'
BY EstablishInv, CloseInv, CleanStaleInv, NoObjectInv, HandleCallInv,
   HandleCallCheckErrorInv, SubInv, AccessGrantedInv, AnswerInv, EventInv, TickInv,
   StutterInv
DEF Next, ClientStep, BusStep

\* All that follows rests on this.
LEMMA Inductive == Spec => []IInv
BY InitInv, StepInv, PTL DEF Spec

-----------------------------------------------------------------------------
(* The safety properties *)

\* Every variable keeps its type; in particular rpc_q_len stays a uint32_t.
THEOREM TypeCorrect == Spec => []TypeOK
<1>1. IInv => TypeOK
  BY DEF IInv
<1>. QED  BY <1>1, Inductive, PTL

\* rpc_q_len counts the calls in progress exactly.
THEOREM QueueCorrect == Spec => []QLenExact
<1>1. IInv => QLenExact
  BY DEF IInv, QueueInv
<1>. QED  BY <1>1, Inductive, PTL

\* There are at most MAX_ASYNC_REQS + 1 calls in progress on a connection.
THEOREM OutstandingCorrect == Spec => []OutstandingBounded
<1>1. IInv => OutstandingBounded
  BY DEF IInv, QueueInv
<1>. QED  BY <1>1, Inductive, PTL

\* wsu_peer_deinit leaves nothing behind that refers to the closed connection.
THEOREM CloseComplete == Spec => []NoOrphans
<1>1. IInv => NoOrphans
  BY DEF IInv
<1>. QED  BY <1>1, Inductive, PTL

\* A call that waits for an access check has one in progress.
THEOREM ChecksNotLost == Spec => []NoLostCheck
<1>1. IInv => NoLostCheck
  BY DEF IInv
<1>. QED  BY <1>1, Inductive, PTL

\* No request is answered twice, nor while it is still in progress.
THEOREM AnsweredOnce == Spec => []AtMostOneReply
<1>1. IInv => AtMostOneReply
  BY DEF IInv
<1>. QED  BY <1>1, Inductive, PTL

\* prog->num_active_ses and prog->req_max follow the sessions that are open.
THEOREM ShareCorrect == Spec => []ShareUpToDate
<1>1. IInv => ShareUpToDate
  BY DEF IInv, SessionInv
<1>. QED  BY <1>1, Inductive, PTL

\* Only an unsubscribe of its client, or the close, ends a subscription.
THEOREM SubscriptionsKept == Spec => SubscriptionLasts
<1>. DEFINE Lasts(r) == LiveSub(r) /\ ~LiveSub(r)' =>
                          \/ wsi[r] \notin open'
                          \/ \E u \in Req : wsi[u] = None /\ wsi'[u] = wsi[r]
<1>1. IInv /\ [Next]_vars => [\A r \in Req : Lasts(r)]_vars
  <2>. SUFFICES ASSUME IInv, Next, NEW r \in Req, LiveSub(r), ~LiveSub(r)'
                PROVE  \/ wsi[r] \notin open'
                       \/ \E u \in Req : wsi[u] = None /\ wsi'[u] = wsi[r]
    OBVIOUS
  <2>. USE DEF IInv, LiveSub
  <2>1. ASSUME NEW w \in Wsi, Establish(w) \/ Close(w) \/ CleanStale(w)
        PROVE  wsi[r] \notin open'
    BY <2>1 DEF Establish, Close, CleanStale
  <2>2. ASSUME NEW w \in Wsi, NEW u \in Req, ClientStep(w, u)
        PROVE  wsi[u] = None /\ wsi'[u] = wsi[r]
    BY Zenon, <2>2, ConstantsAssumption
    DEF ClientStep, RxNotJson, RxQueueFull, RxInvalid, HandleCall, HandleCallCheckError,
        HandleNoState, HandleSub, HandleUnsub, Receive, TypeOK
  <2>3. ~ \E q \in Req : BusStep(q)
    BY Zenon DEF BusStep, AccessGranted, AccessDenied, CallCompleted, BusEvent
  <2>4. /\ ~ \E c \in access_check_q : EventChecked(c)
        /\ ~Tick /\ ~UseFreed
    BY Zenon DEF EventChecked, Tick, UseFreed
  <2>. QED  BY <2>1, <2>2, <2>3, <2>4 DEF Next
<1>. QED  BY <1>1, Inductive, PTL DEF Spec, SubscriptionLasts

-----------------------------------------------------------------------------
(* ClientSessions implements RpcService *)

\* The requests of the abstract service that are pending: the calls in progress.
Pending == {r \in Req : LiveCall(r)}

\* Every step of owsd is a step of the service, or invisible to it.
LEMMA StepRefines == IInv /\ [Next]_vars => [Service!Next]_(Service!vars)
<1>. SUFFICES ASSUME IInv, [Next]_vars PROVE Service!Next \/ UNCHANGED Service!vars
  OBVIOUS
<1>. USE DEF IInv
<1>1. ASSUME NEW w \in Wsi, Establish(w) PROVE Service!Connect(w)
  BY <1>1 DEF Establish, Service!Connect, callVars, LiveCall
<1>2. ASSUME NEW w \in Wsi, Close(w) PROVE Service!Disconnect(w)
  <2>1. Pending' = {r \in Pending : wsi[r] # w}
    BY <1>2 DEF Close, DestroyCalls, Pending, Calls, LiveCall, TypeOK
  <2>. QED  BY <1>2, <2>1 DEF Close, Service!Disconnect, Pending
<1>3. ASSUME NEW w \in Wsi, CleanStale(w) PROVE Service!GiveUp(w)
  <2>1. StaleCalls(w) \in SUBSET Pending /\ \A r \in StaleCalls(w) : wsi[r] = w
    BY DEF StaleCalls, Calls, Pending
  <2>2. Pending' = Pending \ StaleCalls(w)
    BY <1>3 DEF CleanStale, DestroyCalls, Pending, LiveCall, TypeOK
  <2>. QED  BY <1>3, <2>1, <2>2 DEF CleanStale, Service!GiveUp, Pending, sessionVars
<1>4. ASSUME NEW w \in Wsi, NEW r \in Req, ClientStep(w, r) PROVE Service!Take(w, r)
  <2>. USE <1>4 DEF Receive, sessionVars, callVars, Service!Take
  <2>1. replies[r] = 0 /\ ~LiveCall(r)
    BY Zenon DEF ClientStep, RxNotJson, RxQueueFull, RxInvalid, HandleCall,
           HandleCallCheckError, HandleNoState, HandleSub, HandleUnsub, Fresh, LiveCall
  <2>2. Reply(r) => replies' = [replies EXCEPT ![r] = 1]
    BY <2>1 DEF Reply, TypeOK
  <2>3. CASE RxNotJson(w, r) \/ RxInvalid(w, r) \/ HandleNoState(w, r)
    BY <2>2, <2>3 DEF RxNotJson, RxInvalid, HandleNoState, LiveCall
  <2>4. CASE RxQueueFull(w, r)
    BY <2>4 DEF RxQueueFull, LiveCall
  <2>5. CASE HandleCall(w, r)
    <3>1. Pending' = Pending \cup {r}
      BY <2>5 DEF HandleCall, Pending, LiveCall, TypeOK
    <3>. QED  BY <2>5, <3>1 DEF HandleCall, Pending
  <2>6. CASE HandleCallCheckError(w, r)
    <3>1. Pending' = Pending
      BY <2>1, <2>6 DEF HandleCallCheckError, Pending, LiveCall, TypeOK
    <3>. QED  BY <2>2, <2>6, <3>1 DEF HandleCallCheckError, Pending
  <2>7. CASE \E p \in Pattern : HandleSub(w, r, p) \/ HandleUnsub(w, r, p)
    BY <2>2, <2>7 DEF HandleSub, HandleUnsub, LiveCall
  <2>. QED  BY <2>3, <2>4, <2>5, <2>6, <2>7 DEF ClientStep
<1>5. ASSUME NEW r \in Req, AccessDenied(r) \/ CallCompleted(r) PROVE Service!Answer(r)
  <2>1. r \in Pending /\ wsi[r] \in open /\ replies[r] = 0
    BY <1>5 DEF AccessDenied, CallCompleted, Pending, LiveCall, NoOrphans, AtMostOneReply
  <2>2. Pending' = Pending \ {r}
    BY <1>5 DEF AccessDenied, CallCompleted, DestroyCalls, Pending, LiveCall, TypeOK
  <2>3. replies' = [replies EXCEPT ![r] = 1]
    BY <1>5, <2>1 DEF AccessDenied, CallCompleted, Reply, TypeOK
  <2>. QED
    BY Zenon, <1>5, <2>1, <2>2, <2>3
    DEF AccessDenied, CallCompleted, sessionVars, Service!Answer, Pending
<1>6. ASSUME \/ \E r \in Req : AccessGranted(r) \/ BusEvent(r)
             \/ \E c \in access_check_q : EventChecked(c)
             \/ Tick \/ UseFreed \/ UNCHANGED vars
      PROVE  UNCHANGED Service!vars
  <2>1. Pending' = Pending
    BY Zenon, <1>6
    DEF AccessGranted, BusEvent, EventChecked, Tick, UseFreed, vars, callVars,
        Pending, LiveCall, TypeOK
  <2>. QED
    BY <1>6, <2>1
    DEF AccessGranted, BusEvent, EventChecked, Tick, UseFreed, vars, sessionVars,
        Pending, Service!vars
<1>. QED
  BY <1>1, <1>2, <1>3, <1>4, <1>5, <1>6 DEF Next, BusStep, Service!Next

\* owsd's server side implements the abstract service: a request is taken once,
\* answered at most once and only on an open connection, and then left alone.
THEOREM Refinement == Spec => ImplementsService
<1>1. Init => Service!Init
  BY DEF Init, Service!Init, LiveCall
<1>. QED  BY <1>1, StepRefines, Inductive, PTL DEF Spec, ImplementsService, Service!Spec
=============================================================================

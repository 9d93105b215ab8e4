------------------------ MODULE RemoteSessionProofs -------------------------
(***************************************************************************)
(* The handshake with the remote owsd, the calls through its stubs, merging*)
(* a list into the stubs, and the stubs catching up with the remote bus,   *)
(* for any number of objects, callers, slots, requests and messages under  *)
(* way.                                                                    *)
(***************************************************************************)
EXTENDS RemoteSession, WellFoundedInduction, TLAPS

-----------------------------------------------------------------------------
(* The slots *)

\* A slot in use has an id that was given out, and not for the awaited list.
CallType ==
    /\ call_id \in Nat
    /\ calls \in [Slot -> [id : Nat, caller : Caller] \cup {None}]
    /\ caller \in [Caller -> Fates]
    /\ waiting \in [login : BOOLEAN, listen : BOOLEAN, list_id : Nat]

IdsGiven ==
    /\ waiting.list_id <= call_id
    /\ \A s \in Slot \ Free : calls[s].id > 0 /\ calls[s].id <= call_id

\* The parts of SlotPerCall.
SlotsMatch == \A c \in Caller : caller[c] = "waiting" <=> \E s \in Slot \ Free : calls[s].caller = c
SlotsDiffer ==
    \A s, t \in Slot \ Free : s # t => calls[s].id # calls[t].id /\ calls[s].caller # calls[t].caller
NotTheList == \A s \in Slot \ Free : calls[s].id # waiting.list_id

CallInv == CallType /\ IdsGiven /\ SlotsMatch /\ SlotsDiffer /\ NotTheList

\* A slot that is taken has an entry with the fields of one.
LEMMA SlotType ==
    ASSUME CallType, NEW s \in Slot \ Free
    PROVE  calls[s].id \in Nat /\ calls[s].caller \in Caller
BY DEF CallType, Free

\* wsu_local_stub_handle_call.
LEMMA CallKeeps ==
    ASSUME CallInv, NEW c \in Caller, NEW o \in Obj, wsu_local_stub_handle_call(c, o)
    PROVE  CallInv'
<1> DEFINE e == [id |-> call_id + 1, caller |-> c]
<1>1. /\ call_id \in Nat /\ call_id' = call_id + 1 /\ waiting' = waiting /\ caller[c] # "waiting"
      /\ waiting.list_id \in Nat /\ waiting.list_id <= call_id
  BY DEF CallInv, CallType, IdsGiven, wsu_local_stub_handle_call
<1>2. CASE Free = {} /\ caller' = [caller EXCEPT ![c] = "unanswered"] /\ UNCHANGED calls
  <2>1. CallType'
    BY <1>1, <1>2 DEF CallInv, CallType, Fates
  <2>2. Free' = Free
    BY <1>2 DEF Free
  <2>3. IdsGiven'
    BY <1>1, <1>2, <2>2, SlotType DEF CallInv, IdsGiven
  <2>4. SlotsMatch'
    BY <1>1, <1>2, <2>2 DEF CallInv, CallType, SlotsMatch
  <2>5. SlotsDiffer' /\ NotTheList'
    BY <1>1, <1>2, <2>2 DEF CallInv, SlotsDiffer, NotTheList
  <2> QED BY <2>1, <2>3, <2>4, <2>5 DEF CallInv
<1>3. ASSUME NEW s \in Slot, s \in Free, calls' = [calls EXCEPT ![s] = e],
             caller' = [caller EXCEPT ![c] = "waiting"]
      PROVE  CallInv'
  <2>1. e \in [id : Nat, caller : Caller] /\ e.id = call_id + 1 /\ e.caller = c /\ e # None
    BY <1>1, RemoteAssumption
  <2> HIDE DEF e
  <2>2. CallType'
    BY <1>1, <1>3, <2>1 DEF CallInv, CallType, Fates
  <2>3. Slot \ Free' = (Slot \ Free) \cup {s}
    BY <1>3, <2>1 DEF CallInv, CallType, Free
  <2>4. calls'[s] = e /\ \A t \in Slot \ Free : calls'[t] = calls[t] /\ t # s
    BY <1>3 DEF CallInv, CallType
  <2>5. \A t \in Slot \ Free : calls[t].id \in Nat /\ calls[t].id > 0 /\ calls[t].id <= call_id
    BY SlotType DEF CallInv, IdsGiven
  <2>6. IdsGiven'
    BY <1>1, <2>1, <2>3, <2>4, <2>5 DEF IdsGiven
  <2>7. \A t \in Slot \ Free : calls[t].caller # c /\ calls[t].id # call_id + 1
    BY <1>1, <2>5 DEF CallInv, SlotsMatch
  <2>8. SlotsMatch'
    <3> SUFFICES ASSUME NEW d \in Caller
                 PROVE  caller'[d] = "waiting" <=> \E t \in Slot \ Free' : calls'[t].caller = d
      BY DEF SlotsMatch
    <3>1. CASE d = c
      BY <1>3, <2>1, <2>3, <2>4, <3>1 DEF CallInv, CallType
    <3>2. CASE d # c
      BY <1>3, <2>1, <2>3, <2>4, <3>2 DEF CallInv, CallType, SlotsMatch
    <3> QED BY <3>1, <3>2
  <2>9. SlotsDiffer'
    BY <2>1, <2>3, <2>4, <2>7 DEF CallInv, SlotsDiffer
  <2>10. NotTheList'
    BY <1>1, <2>1, <2>3, <2>4 DEF CallInv, NotTheList
  <2> QED BY <2>2, <2>6, <2>8, <2>9, <2>10 DEF CallInv
<1> QED BY <1>1, <1>2, <1>3 DEF wsu_local_stub_handle_call, wsu_proxied_call_new, First

\* A result that completes a call.
LEMMA ReceiveCallKeeps ==
    ASSUME CallInv, ReceiveCall
    PROVE  CallInv'
<1>1. PICK s \in Slot : /\ s \in Found(Head(in))
                        /\ caller' = [caller EXCEPT ![calls[s].caller] = "answered"]
                        /\ calls' = [calls EXCEPT ![s] = None]
  BY Zenon DEF ReceiveCall, First, wsu_proxied_call_free
<1>2. s \in Slot \ Free /\ UNCHANGED <<waiting, call_id>>
  BY <1>1 DEF Found, ReceiveCall
<1>3. calls[s].caller \in Caller
  BY <1>2, SlotType DEF CallInv
<1>4. CallType'
  BY <1>1, <1>2, <1>3 DEF CallInv, CallType, Fates
<1>5. Slot \ Free' = (Slot \ Free) \ {s}
  BY <1>1, <1>2 DEF CallInv, CallType, Free
<1>6. \A t \in Slot \ Free' : calls'[t] = calls[t] /\ t # s /\ t \in Slot \ Free
  BY <1>1, <1>5 DEF CallInv, CallType
<1>7. IdsGiven'
  BY <1>2, <1>6 DEF CallInv, IdsGiven
<1>8. SlotsMatch'
  <2> SUFFICES ASSUME NEW d \in Caller
               PROVE  caller'[d] = "waiting" <=> \E t \in Slot \ Free' : calls'[t].caller = d
    BY DEF SlotsMatch
  <2>1. CASE d = calls[s].caller
    BY <1>1, <1>2, <1>6, <2>1 DEF CallInv, CallType, SlotsDiffer
  <2>2. CASE d # calls[s].caller
    BY <1>1, <1>2, <1>3, <1>5, <1>6, <2>2 DEF CallInv, CallType, SlotsMatch
  <2> QED BY <2>1, <2>2
<1>9. SlotsDiffer' /\ NotTheList'
  BY <1>2, <1>6 DEF CallInv, SlotsDiffer, NotTheList
<1> QED BY <1>4, <1>7, <1>8, <1>9 DEF CallInv

\* A step that leaves slots and callers alone, and awaits no list or a new one.
LEMMA OtherKeeps ==
    ASSUME CallInv, UNCHANGED <<calls, caller>>,
           call_id' \in {call_id, call_id + 1},
           waiting' \in [login : BOOLEAN, listen : BOOLEAN, list_id : Nat],
           \/ waiting'.list_id = waiting.list_id
           \/ waiting'.list_id = 0
           \/ call_id' = call_id + 1 /\ waiting'.list_id = call_id'
    PROVE  CallInv'
<1>1. CallType' /\ Free' = Free /\ call_id \in Nat /\ waiting.list_id <= call_id /\ waiting.list_id \in Nat
  BY DEF CallInv, CallType, IdsGiven, Free
<1>2. \A s \in Slot \ Free : calls[s].id \in Nat /\ calls[s].id > 0 /\ calls[s].id <= call_id
  BY SlotType DEF CallInv, IdsGiven
<1>3. IdsGiven'
  BY <1>1, <1>2 DEF IdsGiven
<1>4. NotTheList'
  BY <1>1, <1>2 DEF CallInv, NotTheList
<1>5. SlotsMatch' /\ SlotsDiffer'
  BY <1>1 DEF CallInv, SlotsMatch, SlotsDiffer
<1> QED BY <1>1, <1>3, <1>4, <1>5 DEF CallInv

-----------------------------------------------------------------------------
(* The handshake *)

Events == [kind : {"add", "remove"}, obj : Obj]

Message ==
    [kind : {"result"}, id : Nat, ok : BOOLEAN, body : {"session", "objects", "data"}, objs : Objects]
      \cup [kind : {"error"}, id : Nat]
      \cup Events

Requests == [method : {"login", "listen", "list", "call"}, id : Nat]

MessageType ==
    /\ bus \in Objects
    /\ in \in Seq(Message)
    /\ events \in Seq(Events)
    /\ out \in Seq(Requests)
    /\ serving \subseteq Nat
    /\ listening \in BOOLEAN

\* Closing leaves nothing behind for the next session.
ClosedClean ==
    open = FALSE =>
        /\ waiting = NoWait /\ call_id = 0 /\ stubs = Nothing
        /\ Slot \subseteq Free
        /\ out = <<>> /\ in = <<>> /\ events = <<>> /\ listening = FALSE /\ serving = {}

Handshake == waiting.login = TRUE \/ waiting.listen = TRUE

\* The request is under way, and nothing else is.
Asked ==
    /\ out = <<[method |-> IF waiting.login = TRUE THEN "login" ELSE "listen", id |-> call_id]>>
    /\ in = <<>> /\ events = <<>> /\ listening = FALSE

\* Its result is the next message, and no other result follows.
Answered ==
    /\ out = <<>> /\ in # <<>>
    /\ in[1].kind = "result" /\ in[1].id = call_id /\ in[1].ok = TRUE
    /\ \A i \in 2..Len(in) : in[i].kind # "result"
    /\ waiting.login = TRUE => Len(in) = 1 /\ events = <<>> /\ listening = FALSE

\* There will be no result.
Refused ==
    /\ out = <<>> /\ events = <<>> /\ listening = FALSE
    /\ \A i \in DOMAIN in : in[i].kind = "error"

HandInv ==
    Handshake =>
        /\ ~(waiting.login = TRUE /\ waiting.listen = TRUE)
        /\ stubs = Nothing /\ serving = {} /\ Slot \subseteq Free
        /\ Asked \/ Answered \/ Refused

SessionInv == CallInv /\ open \in BOOLEAN /\ MessageType /\ ClosedClean /\ HandInv

\* A received message is the first one, and is taken off.
LEMMA Received ==
    ASSUME SessionInv, NEW kind, Receive(kind)
    PROVE  /\ open = TRUE /\ open' = TRUE /\ UNCHANGED remoteVars
           /\ Len(in) > 0 /\ Head(in) = in[1] /\ in[1] \in Message /\ in[1].kind = kind
           /\ in' = Tail(in) /\ in' \in Seq(Message) /\ Len(in') = Len(in) - 1
           /\ \A i \in 1..Len(in) - 1 : in'[i] = in[i + 1]
BY DEF SessionInv, MessageType, Receive

\* CLIENT_ESTABLISHED.
LEMMA EstablishedKeeps ==
    ASSUME SessionInv, Established
    PROVE  SessionInv'
<1>1. /\ open = FALSE /\ open' = TRUE /\ UNCHANGED <<calls, stubs, caller, in, remoteVars>>
      /\ waiting = NoWait /\ call_id = 0 /\ stubs = Nothing /\ Slot \subseteq Free
      /\ out = <<>> /\ in = <<>> /\ events = <<>> /\ listening = FALSE /\ serving = {}
  BY DEF SessionInv, ClosedClean, Established
<1>2. Free' = Free
  BY <1>1 DEF Free
<1>3. ASSUME NEW w \in [login : BOOLEAN, listen : BOOLEAN, list_id : Nat], w.list_id = 0,
             waiting' = w, call_id' \in {0, 1},
             out' \in Seq(Requests), HandInv'
      PROVE  SessionInv'
  <2>1. CallInv'
    BY <1>1, <1>3, OtherKeeps DEF SessionInv
  <2>2. MessageType'
    BY <1>1, <1>3 DEF SessionInv, MessageType, remoteVars
  <2> QED BY <1>1, <1>3, <2>1, <2>2 DEF SessionInv, ClosedClean
<1>4. ASSUME NEW m \in {"login", "listen"}, out' = <<[method |-> m, id |-> 1]>>, call_id' = 1,
             waiting' = IF m = "login" THEN [login |-> TRUE, listen |-> FALSE, list_id |-> 0]
                        ELSE [login |-> FALSE, listen |-> TRUE, list_id |-> 0]
      PROVE  SessionInv'
  <2>1. Asked'
    BY <1>1, <1>4 DEF Asked, remoteVars
  <2>2. HandInv'
    BY <1>1, <1>2, <1>4, <2>1 DEF HandInv, remoteVars
  <2>3. out' \in Seq(Requests)
    <3>1. [method |-> m, id |-> 1] \in Requests
      BY DEF Requests
    <3> QED BY <1>4, <3>1
  <2>4. /\ waiting' \in [login : BOOLEAN, listen : BOOLEAN, list_id : Nat]
        /\ waiting'.list_id = 0 /\ call_id' \in {0, 1}
    BY <1>4
  <2> QED BY <1>3, <2>2, <2>3, <2>4
<1>5. CASE UNCHANGED <<waiting, call_id, out>>
  <2>1. HandInv'
    BY <1>1, <1>5 DEF HandInv, Handshake, NoWait
  <2>2. NoWait \in [login : BOOLEAN, listen : BOOLEAN, list_id : Nat] /\ NoWait.list_id = 0
    BY DEF NoWait
  <2> QED BY <1>1, <1>3, <1>5, <2>1, <2>2 DEF SessionInv, MessageType
<1> QED BY <1>4, <1>5 DEF Established, Request, NoWait

\* CLIENT_CLOSED.
LEMMA ClosedKeeps ==
    ASSUME SessionInv, Closed
    PROVE  SessionInv'
<1>1. /\ open' = FALSE /\ waiting' = NoWait /\ call_id' = 0 /\ stubs' = Nothing
      /\ calls' = [s \in Slot |-> None] /\ bus' = bus
      /\ caller' = [c \in Caller |-> IF caller[c] = "waiting" THEN "unanswered" ELSE caller[c]]
      /\ out' = <<>> /\ in' = <<>> /\ events' = <<>> /\ listening' = FALSE /\ serving' = {}
  BY DEF Closed
<1>2. Free' = Slot
  BY <1>1 DEF Free
<1>3. NoWait \in [login : BOOLEAN, listen : BOOLEAN, list_id : Nat] /\ NoWait.list_id = 0
      /\ NoWait.login = FALSE /\ NoWait.listen = FALSE
  BY DEF NoWait
<1>4. caller' \in [Caller -> Fates] /\ \A c \in Caller : caller'[c] # "waiting"
  BY <1>1 DEF SessionInv, CallInv, CallType, Fates
<1>5. CallType'
  BY <1>1, <1>3, <1>4 DEF CallType
<1>6. IdsGiven' /\ SlotsMatch' /\ SlotsDiffer' /\ NotTheList'
  BY <1>1, <1>2, <1>3, <1>4 DEF IdsGiven, SlotsMatch, SlotsDiffer, NotTheList
<1>7. MessageType'
  <2>1. /\ in' \in Seq(Message) /\ events' \in Seq(Events)
        /\ out' \in Seq(Requests)
    BY <1>1
  <2>2. bus' \in Objects /\ serving' \subseteq Nat /\ listening' \in BOOLEAN
    BY Zenon, <1>1 DEF SessionInv, MessageType
  <2> QED BY <2>1, <2>2 DEF MessageType
<1>8. ClosedClean' /\ HandInv'
  BY <1>1, <1>2, <1>3 DEF ClosedClean, HandInv, Handshake
<1> QED BY Zenon, <1>1, <1>5, <1>6, <1>7, <1>8 DEF SessionInv, CallInv

\* wsu_local_stub_handle_call: there is a stub, so that the handshake is over.
LEMMA LocalCallKeeps ==
    ASSUME SessionInv, NEW c \in Caller, NEW o \in Obj, wsu_local_stub_handle_call(c, o)
    PROVE  SessionInv'
<1>1. /\ open = TRUE /\ stubs[o] # None /\ UNCHANGED <<open, waiting, stubs, in, remoteVars>>
      /\ call_id' = call_id + 1
      /\ out' \in {out, Append(out, [method |-> "call", id |-> call_id'])}
  BY DEF wsu_local_stub_handle_call, Request, SessionInv
<1>2. CallInv' /\ call_id' \in Nat
  BY CallKeeps DEF SessionInv, CallInv, CallType
<1>3. MessageType'
  <2>1. out' \in Seq(Requests)
    <3>1. [method |-> "call", id |-> call_id'] \in Requests
      BY <1>2 DEF Requests
    <3>2. out \in Seq(Requests)
      BY DEF SessionInv, MessageType
    <3>3. Append(out, [method |-> "call", id |-> call_id'])
            \in Seq(Requests)
      BY <3>1, <3>2
    <3> QED BY <1>1, <3>2, <3>3
  <2> QED BY <1>1, <2>1 DEF SessionInv, MessageType, remoteVars
<1>4. ~Handshake
  BY <1>1 DEF SessionInv, HandInv, Nothing
<1>5. HandInv'
  BY <1>1, <1>4 DEF HandInv, Handshake
<1> QED BY <1>1, <1>2, <1>3, <1>5 DEF SessionInv, ClosedClean

\* Another request is sent.
LEMMA AskKeeps ==
    ASSUME SessionInv, NEW m \in {"listen", "list"}, Ask(m)
    PROVE  /\ call_id' = call_id + 1 /\ call_id' \in Nat
           /\ out' = Append(out, [method |-> m, id |-> call_id'])
           /\ out' \in Seq(Requests)
<1>1. call_id \in Nat
  BY DEF SessionInv, CallInv, CallType
<1>2. call_id + 1 \in Nat /\ [method |-> m, id |-> call_id + 1] \in Requests
  BY <1>1 DEF Requests
<1>3. out \in Seq(Requests)
  BY DEF SessionInv, MessageType
<1>4. call_id' = call_id + 1 /\ out' = Append(out, [method |-> m, id |-> call_id + 1])
  BY DEF Ask, Request
<1> QED BY <1>2, <1>3, <1>4

\* What remains to be shown of a received message.
LEMMA ReceiveKeeps ==
    ASSUME SessionInv, NEW kind, Receive(kind), CallInv', HandInv',
           out' \in Seq(Requests)
    PROVE  SessionInv'
<1>1. MessageType'
  BY Zenon, Received DEF SessionInv, MessageType, remoteVars
<1> QED BY Zenon, <1>1, Received DEF SessionInv, ClosedClean

\* The flags and the list that is awaited.
LEMMA WaitingType ==
    ASSUME SessionInv
    PROVE  waiting \in [login : BOOLEAN, listen : BOOLEAN, list_id : Nat]
BY DEF SessionInv, CallInv, CallType

\* A result that is received during the handshake answers it.
LEMMA ResultInHandshake ==
    ASSUME SessionInv, Receive("result"), Handshake
    PROVE  Answered
<1>1. Len(in) > 0 /\ in[1].kind = "result"
  BY Zenon, Received
<1>2. in \in Seq(Message)
  BY DEF SessionInv, MessageType
<1>3. ~Asked /\ ~Refused
  BY <1>1, <1>2 DEF Asked, Refused
<1> QED BY <1>3 DEF SessionInv, HandInv

\* No event is received during the handshake.
LEMMA NoEventInHandshake ==
    ASSUME SessionInv, NEW kind \in {"add", "remove"}, Receive(kind)
    PROVE  ~Handshake
<1>1. Len(in) > 0 /\ in[1].kind = kind
  BY Zenon, Received
<1>2. in \in Seq(Message)
  BY DEF SessionInv, MessageType
<1>3. ~Asked /\ ~Refused /\ ~Answered
  BY <1>1, <1>2 DEF Asked, Refused, Answered
<1> QED BY <1>3 DEF SessionInv, HandInv

\* The reply to the login.
LEMMA ReceiveLoginKeeps ==
    ASSUME SessionInv, ReceiveLogin
    PROVE  SessionInv'
<1>1. /\ Receive("result") /\ waiting.login = TRUE
      /\ waiting' = [waiting EXCEPT !.login = FALSE, !.listen = TRUE]
      /\ UNCHANGED <<calls, stubs, caller>> /\ Ask("listen")
  BY WaitingType DEF ReceiveLogin
<1>2. /\ waiting' \in [login : BOOLEAN, listen : BOOLEAN, list_id : Nat]
      /\ waiting'.login = FALSE /\ waiting'.listen = TRUE /\ waiting'.list_id = waiting.list_id
  BY Zenon, <1>1, WaitingType
<1>3. Handshake /\ Answered
  BY Zenon, <1>1, ResultInHandshake DEF Handshake
<1>4. /\ call_id' = call_id + 1 /\ out' = Append(out, [method |-> "listen", id |-> call_id'])
      /\ out' \in Seq(Requests)
  BY <1>1, AskKeeps
<1>5. CallInv'
  BY <1>1, <1>2, <1>4, OtherKeeps DEF SessionInv
<1>6. in' = <<>>
  <2>1. Len(in) = 1 /\ in' \in Seq(Message) /\ Len(in') = Len(in) - 1
    BY Zenon, <1>1, <1>3, Received DEF Answered
  <2> QED BY <2>1
<1>7. out' = <<[method |-> "listen", id |-> call_id']>>
  BY <1>3, <1>4 DEF Answered
<1>8. events' = <<>> /\ listening' = FALSE /\ serving' = {} /\ Slot \subseteq Free'
  BY Zenon, <1>1, <1>3, Received DEF Answered, SessionInv, HandInv, remoteVars, Free
<1>9. HandInv'
  BY <1>1, <1>2, <1>3, <1>6, <1>7, <1>8 DEF SessionInv, HandInv, Asked
<1> QED BY <1>1, <1>4, <1>5, <1>9, ReceiveKeeps

\* The reply to the listen request, and an event that an object was added: a list follows.
LEMMA ReceiveListenKeeps ==
    ASSUME SessionInv, ReceiveListen \/ ReceiveAdd
    PROVE  SessionInv'
<1>1. /\ Ask("list") /\ UNCHANGED <<calls, stubs, caller>>
      /\ \E kind \in {"result", "add"} : Receive(kind)
  BY DEF ReceiveListen, ReceiveAdd
<1>2. /\ waiting' \in [login : BOOLEAN, listen : BOOLEAN, list_id : Nat]
      /\ waiting'.list_id = call_id' /\ ~Handshake'
  <2>1. call_id' \in Nat
    BY <1>1, AskKeeps
  <2>2. CASE ReceiveListen
    BY Zenon, <2>1, <2>2, WaitingType DEF ReceiveListen, Handshake
  <2>3. CASE ReceiveAdd
    <3>1. ~Handshake /\ waiting' = [waiting EXCEPT !.list_id = call_id']
      BY <2>3, NoEventInHandshake DEF ReceiveAdd
    <3> QED BY <2>1, <3>1, WaitingType DEF Handshake
  <2> QED BY <2>2, <2>3
<1>3. /\ call_id' = call_id + 1
      /\ out' \in Seq(Requests)
  BY <1>1, AskKeeps
<1>4. CallInv'
  BY <1>1, <1>2, <1>3, OtherKeeps DEF SessionInv
<1>5. HandInv'
  BY <1>2 DEF HandInv
<1> QED BY <1>1, <1>3, <1>4, <1>5, ReceiveKeeps

\* The list and the results of calls come after the handshake.
LEMMA ReceiveLaterKeeps ==
    ASSUME SessionInv, ReceiveList \/ ReceiveCall
    PROVE  SessionInv'
<1>1. Receive("result") /\ ~Handshake /\ UNCHANGED <<call_id, out>>
  BY DEF ReceiveList, ReceiveCall, IsOther, Handshake
<1>2. CallInv' /\ ~Handshake'
  <2>1. CASE ReceiveList
    <3>1. waiting' = [waiting EXCEPT !.list_id = 0] /\ UNCHANGED <<calls, caller>>
      BY <2>1 DEF ReceiveList
    <3>2. /\ waiting' \in [login : BOOLEAN, listen : BOOLEAN, list_id : Nat]
          /\ waiting'.list_id = 0 /\ ~Handshake'
      BY <1>1, <3>1, WaitingType DEF Handshake
    <3> QED BY <1>1, <3>1, <3>2, OtherKeeps DEF SessionInv
  <2>2. CASE ReceiveCall
    <3>1. CallInv' /\ waiting' = waiting
      BY Zenon, <2>2, ReceiveCallKeeps DEF SessionInv, ReceiveCall
    <3> QED BY <1>1, <3>1 DEF Handshake
  <2> QED BY <2>1, <2>2
<1>3. HandInv'
  BY <1>2 DEF HandInv
<1>4. out' \in Seq(Requests)
  BY <1>1 DEF SessionInv, MessageType
<1> QED BY <1>1, <1>2, <1>3, <1>4, ReceiveKeeps

\* Messages that change nothing but, at most, a stub.
LEMMA ReceiveRestKeeps ==
    ASSUME SessionInv, ReceiveIgnored \/ ReceiveError \/ ReceiveRemove
    PROVE  SessionInv'
<1>1. /\ UNCHANGED <<waiting, call_id, calls, caller, out>>
      /\ \E kind \in {"result", "error", "remove"} : Receive(kind)
  BY DEF ReceiveIgnored, ReceiveError, ReceiveRemove
<1>2. CallInv'
  BY <1>1, WaitingType, OtherKeeps DEF SessionInv
<1>3. HandInv'
  <2>1. Handshake' = Handshake /\ Free' = Free
    BY <1>1 DEF Handshake, Free
  <2>2. CASE ~Handshake
    BY <2>1, <2>2 DEF HandInv
  <2>3. ASSUME Handshake, Receive("error"), UNCHANGED stubs PROVE HandInv'
    <3>1. Len(in) > 0 /\ in[1].kind = "error" /\ in \in Seq(Message)
      BY Zenon, <2>3, Received DEF SessionInv, MessageType
    <3>2. Refused
      BY <2>3, <3>1 DEF SessionInv, HandInv, Asked, Answered
    <3>3. Refused'
      <4>1. /\ UNCHANGED remoteVars /\ in' \in Seq(Message) /\ Len(in') = Len(in) - 1
            /\ \A i \in 1..Len(in) - 1 : in'[i] = in[i + 1]
        BY Zenon, <2>3, Received
      <4>2. \A i \in 1..Len(in) : in[i].kind = "error"
        BY <3>1, <3>2 DEF Refused
      <4>3. \A i \in 1..Len(in') : in'[i].kind = "error"
        BY <3>1, <4>1, <4>2
      <4> QED BY <1>1, <3>2, <4>1, <4>3 DEF Refused, remoteVars
    <3> QED BY Zenon, <1>1, <2>1, <2>3, <3>3, Received DEF SessionInv, HandInv, remoteVars
  <2>4. ASSUME Handshake, ReceiveIgnored PROVE HandInv'
    <3>1. Receive("result") /\ UNCHANGED stubs
      BY <2>4 DEF ReceiveIgnored
    <3>2. Answered
      BY <2>4, <3>1, ResultInHandshake
    <3>3. Head(in).ok = TRUE
      BY <3>1, <3>2, Received DEF Answered
    <3>4. waiting.login = TRUE
      BY <2>4, <3>3, WaitingType DEF ReceiveIgnored, Handshake, IsOther
    <3>5. UNCHANGED remoteVars /\ in' \in Seq(Message) /\ Len(in') = Len(in) - 1
      BY Zenon, <3>1, Received
    <3>6. Len(in) = 1 /\ out = <<>> /\ events = <<>> /\ listening = FALSE
      BY <3>2, <3>4 DEF Answered
    <3>7. DOMAIN in' = {}
      BY <3>5, <3>6
    <3>8. Refused'
      BY <1>1, <3>5, <3>6, <3>7 DEF Refused, remoteVars
    <3> QED BY <1>1, <2>1, <2>4, <3>1, <3>5, <3>8 DEF SessionInv, HandInv, remoteVars
  <2>5. ASSUME Handshake, ReceiveRemove PROVE FALSE
    BY <2>5, NoEventInHandshake DEF ReceiveRemove
  <2> QED BY <2>2, <2>3, <2>4, <2>5 DEF ReceiveError
<1>4. out' \in Seq(Requests)
  BY <1>1 DEF SessionInv, MessageType
<1> QED BY <1>1, <1>2, <1>3, <1>4, ReceiveKeeps

-----------------------------------------------------------------------------
(* Steps of the remote owsd *)

\* They leave the session as it is, so that only the messages are to be looked at.
LEMMA RemoteKeeps ==
    ASSUME SessionInv, UNCHANGED <<open, waiting, call_id, calls, caller, stubs>>,
           open = TRUE \/ UNCHANGED <<out, in, events, listening, serving>>,
           MessageType', Handshake => serving' = {} /\ (Asked' \/ Answered' \/ Refused')
    PROVE  SessionInv'
<1>1. CallInv'
  BY WaitingType, OtherKeeps DEF SessionInv
<1>2. Free' = Free /\ Handshake' = Handshake
  BY DEF Free, Handshake
<1>3. HandInv'
  BY <1>2 DEF SessionInv, HandInv
<1>4. ClosedClean'
  BY <1>2 DEF SessionInv, ClosedClean
<1> QED BY <1>1, <1>3, <1>4 DEF SessionInv

\* A request is taken.
LEMMA RemoteTakesKeeps ==
    ASSUME SessionInv, RemoteTakes
    PROVE  SessionInv'
<1> DEFINE r == Head(out)
<1>1. /\ open = TRUE /\ UNCHANGED <<peerVars, bus, events>> /\ out # <<>> /\ out' = Tail(out)
      /\ \/ /\ r.method = "login" /\ in' = Append(in, Result(r.id, TRUE, "session", Nothing))
            /\ UNCHANGED <<listening, serving>>
         \/ /\ r.method = "listen" /\ in' = Append(in, Result(r.id, TRUE, "data", Nothing))
            /\ listening' = TRUE /\ UNCHANGED serving
         \/ /\ r.method = "list" /\ in' = Append(in, Result(r.id, TRUE, "objects", bus))
            /\ UNCHANGED <<listening, serving>>
         \/ /\ r.method # "call" /\ in' = Append(in, Error(r.id))
            /\ UNCHANGED <<listening, serving>>
         \/ r.method = "call" /\ serving' = serving \cup {r.id} /\ UNCHANGED <<in, listening>>
  BY Zenon DEF RemoteTakes, Remote, SessionInv
<1>2. /\ out \in Seq(Requests)
      /\ in \in Seq(Message) /\ bus \in Objects
  BY DEF SessionInv, MessageType
<1>3. r.id \in Nat /\ out' \in Seq(Requests)
  <2>1. r \in Requests /\ out' \in Seq(Requests)
    BY <1>1, <1>2
  <2> QED BY <2>1 DEF Requests
<1>4. Nothing \in Objects
  BY DEF Nothing, Objects
<1>5. \A ok \in BOOLEAN, b \in {"session", "objects", "data"}, l \in Objects :
         Result(r.id, ok, b, l) \in Message
  BY <1>3 DEF Result, Message
<1>6. Error(r.id) \in Message
  BY <1>3 DEF Error, Message
<1>7. in' \in Seq(Message)
  <2>1. \A m \in Message : Append(in, m) \in Seq(Message)
    BY <1>2
  <2> HIDE DEF r
  <2> QED BY Zenon, <1>1, <1>2, <1>4, <1>5, <1>6, <2>1
<1>8. MessageType'
  BY Zenon, <1>1, <1>3, <1>7 DEF SessionInv, MessageType
<1>9. ASSUME Handshake PROVE serving' = {} /\ (Answered' \/ Refused')
  <2>1. Asked
    BY <1>1, <1>9 DEF SessionInv, HandInv, Answered, Refused
  <2>2. /\ r.id = call_id /\ out' = <<>> /\ in = <<>> /\ events = <<>> /\ listening = FALSE
        /\ r.method = IF waiting.login = TRUE THEN "login" ELSE "listen"
    BY <1>1, <2>1 DEF Asked
  <2>3. serving = {} /\ UNCHANGED <<waiting, call_id>>
    BY <1>1, <1>9 DEF SessionInv, HandInv, peerVars
  <2>4. CASE in' = Append(in, Error(r.id)) /\ UNCHANGED <<listening, serving>>
    <3>1. in' = <<Error(r.id)>> /\ Error(r.id).kind = "error"
      BY <2>2, <2>4 DEF Error
    <3> QED BY <1>1, <2>2, <2>3, <2>4, <3>1 DEF Refused
  <2>5. ASSUME NEW b \in {"session", "data"}, in' = Append(in, Result(r.id, TRUE, b, Nothing)),
               UNCHANGED serving, waiting.login = TRUE => UNCHANGED listening
        PROVE  serving' = {} /\ Answered'
    <3> DEFINE m == Result(r.id, TRUE, b, Nothing)
    <3>1. in' = <<m>> /\ m.kind = "result" /\ m.id = call_id /\ m.ok = TRUE
      BY <2>2, <2>5 DEF Result
    <3> HIDE DEF m
    <3>2. in'[1] = m /\ Len(in') = 1 /\ in' # <<>>
      BY <3>1
    <3>3. \A i \in 2..Len(in') : in'[i].kind # "result"
      BY <3>2
    <3>4. waiting'.login = TRUE => Len(in') = 1 /\ events' = <<>> /\ listening' = FALSE
      BY <1>1, <2>2, <2>3, <2>5, <3>2
    <3> QED BY Zenon, <2>2, <2>3, <2>5, <3>1, <3>2, <3>3, <3>4 DEF Answered
  <2> QED BY Zenon, <1>1, <2>2, <2>4, <2>5
<1> QED BY <1>1, <1>8, <1>9, RemoteKeeps DEF peerVars

\* An event is sent.
LEMMA RemoteEventKeeps ==
    ASSUME SessionInv, RemoteEvent
    PROVE  SessionInv'
<1>1. /\ open = TRUE /\ UNCHANGED <<peerVars, out, bus, listening, serving>>
      /\ events # <<>> /\ in' = Append(in, Head(events)) /\ events' = Tail(events)
  BY DEF RemoteEvent, SessionInv
<1>2. in \in Seq(Message) /\ events \in Seq(Events)
  BY DEF SessionInv, MessageType
<1>3. Head(events) \in Events /\ events' \in Seq(Events)
  BY <1>1, <1>2
<1>4. Head(events) \in Message /\ Head(events).kind # "result"
  BY Zenon, <1>3 DEF Message, Events
<1>5. /\ in' \in Seq(Message) /\ Len(in') = Len(in) + 1
      /\ \A i \in 1..Len(in) : in'[i] = in[i]
      /\ in'[Len(in) + 1] = Head(events)
  BY <1>1, <1>2, <1>4
<1>6. MessageType'
  BY <1>1, <1>3, <1>5 DEF SessionInv, MessageType
<1>7. ASSUME Handshake PROVE serving' = {} /\ Answered'
  <2>1. Answered /\ serving = {}
    BY <1>1, <1>7 DEF SessionInv, HandInv, Asked, Refused
  <2>2. Len(in) \in Nat /\ Len(in) >= 1
    BY <1>2, <2>1 DEF Answered
  <2>3. \A i \in 2..Len(in') : in'[i].kind # "result"
    <3> SUFFICES ASSUME NEW i \in 2..Len(in') PROVE in'[i].kind # "result"
      OBVIOUS
    <3>1. CASE i = Len(in) + 1
      BY <1>4, <1>5, <3>1
    <3>2. CASE i # Len(in) + 1
      BY <1>5, <2>1, <2>2, <3>2 DEF Answered
    <3> QED BY <3>1, <3>2
  <2>4. in' # <<>> /\ in'[1] = in[1]
    BY <1>5, <2>2
  <2>5. UNCHANGED <<waiting, call_id, out, listening, serving>> /\ waiting.login # TRUE
    BY Zenon, <1>1, <2>1 DEF Answered, peerVars
  <2> QED BY Zenon, <2>1, <2>3, <2>4, <2>5 DEF Answered
<1> QED BY <1>1, <1>6, <1>7, RemoteKeeps DEF peerVars

\* A call ends.
LEMMA RemoteRepliesKeeps ==
    ASSUME SessionInv, NEW id \in serving, RemoteReplies(id)
    PROVE  SessionInv'
<1>1. /\ open = TRUE /\ UNCHANGED <<peerVars, out, bus, listening, events>>
      /\ serving' = serving \ {id} /\ id \in Nat
      /\ in' \in {Append(in, Result(id, TRUE, "data", Nothing)), Append(in, Error(id)), in}
  BY Zenon DEF RemoteReplies, Remote, SessionInv, MessageType
<1>2. in \in Seq(Message)
  BY DEF SessionInv, MessageType
<1>3. Nothing \in Objects
  BY DEF Nothing, Objects
<1>4. Result(id, TRUE, "data", Nothing) \in Message /\ Error(id) \in Message
  BY <1>1, <1>3 DEF Result, Error, Message
<1>5. in' \in Seq(Message)
  <2>1. \A m \in Message : Append(in, m) \in Seq(Message)
    BY <1>2
  <2> QED BY Zenon, <1>1, <1>2, <1>4, <2>1
<1>6. MessageType'
  BY <1>1, <1>5 DEF SessionInv, MessageType
<1>7. ~Handshake
  BY DEF SessionInv, HandInv
<1> QED BY <1>1, <1>6, <1>7, RemoteKeeps DEF peerVars

\* The remote bus changes.
LEMMA RemoteChangesKeeps ==
    ASSUME SessionInv, NEW o \in Obj, NEW sig \in Sig \cup {None}, RemoteChanges(o, sig)
    PROVE  SessionInv'
<1> DEFINE e == Event(IF sig = None THEN "remove" ELSE "add", o)
<1>1. /\ UNCHANGED <<peerVars, out, in, listening, serving>>
      /\ bus' = [bus EXCEPT ![o] = sig]
      /\ events' = IF listening THEN Append(events, e) ELSE events
  BY DEF RemoteChanges
<1>2. bus \in Objects /\ events \in Seq(Events) /\ listening \in BOOLEAN
  BY DEF SessionInv, MessageType
<1>3. bus' \in Objects
  BY <1>1, <1>2 DEF Objects
<1>4. e \in Events
  BY DEF Event, Events
<1> HIDE DEF e
<1>5. events' \in Seq(Events) /\ (listening = FALSE => events' = events)
  BY <1>1, <1>2, <1>4
<1>6. MessageType'
  BY <1>1, <1>3, <1>5 DEF SessionInv, MessageType
<1>7. open = TRUE \/ UNCHANGED <<out, in, events, listening, serving>>
  BY <1>1, <1>5 DEF SessionInv, ClosedClean
<1>8. ASSUME Handshake PROVE serving' = {} /\ (Asked' \/ Answered' \/ Refused')
  <2>1. serving = {} /\ (Asked \/ Answered \/ Refused)
    BY <1>8 DEF SessionInv, HandInv
  <2>2. UNCHANGED <<waiting, call_id>>
    BY <1>1 DEF peerVars
  <2> QED BY <1>1, <1>5, <2>1, <2>2 DEF Asked, Answered, Refused
<1> QED BY Zenon, <1>1, <1>6, <1>7, <1>8, RemoteKeeps DEF peerVars

-----------------------------------------------------------------------------
(* All steps *)

\* The program starts in the invariant.
LEMMA SessionInit == Init => SessionInv
<1> SUFFICES ASSUME Init PROVE SessionInv
  OBVIOUS
<1> USE DEF Init
<1>1. NoWait \in [login : BOOLEAN, listen : BOOLEAN, list_id : Nat] /\ NoWait.list_id = 0
      /\ NoWait.login = FALSE /\ NoWait.listen = FALSE
  BY DEF NoWait
<1>2. Free = Slot
  BY DEF Free
<1>3. CallType
  BY <1>1 DEF CallType, Fates
<1>4. IdsGiven /\ SlotsMatch /\ SlotsDiffer /\ NotTheList
  BY <1>1, <1>2 DEF IdsGiven, SlotsMatch, SlotsDiffer, NotTheList
<1>5. in \in Seq(Message) /\ events \in Seq(Events) /\ out \in Seq(Requests)
  OBVIOUS
<1>6. MessageType
  BY Zenon, <1>5 DEF MessageType
<1>7. ClosedClean /\ HandInv
  BY <1>1, <1>2 DEF ClosedClean, HandInv, Handshake
<1> QED BY Zenon, <1>3, <1>4, <1>6, <1>7 DEF SessionInv, CallInv

\* Every step keeps it.
LEMMA SessionNext == SessionInv /\ [Next]_vars => SessionInv'
<1> SUFFICES ASSUME SessionInv, [Next]_vars PROVE SessionInv'
  OBVIOUS
<1>1. CASE UNCHANGED vars
  <2>1. /\ UNCHANGED <<open, waiting, call_id, calls, caller, stubs>>
        /\ UNCHANGED <<out, in, bus, events, listening, serving>>
    BY <1>1 DEF vars, peerVars, remoteVars
  <2>2. MessageType'
    BY <2>1 DEF SessionInv, MessageType
  <2>3. ASSUME Handshake PROVE serving' = {} /\ (Asked' \/ Answered' \/ Refused')
    BY <2>1, <2>3 DEF SessionInv, HandInv, Asked, Answered, Refused
  <2> QED BY <2>1, <2>2, <2>3, RemoteKeeps
<1> QED BY <1>1, EstablishedKeeps, ClosedKeeps, LocalCallKeeps, ReceiveLoginKeeps, ReceiveListenKeeps,
           ReceiveLaterKeeps, ReceiveRestKeeps, RemoteTakesKeeps, RemoteEventKeeps,
           RemoteRepliesKeeps, RemoteChangesKeeps DEF Next

\* The invariant holds in every state.
LEMMA SessionAlways == Spec => []SessionInv
BY SessionInit, SessionNext, PTL DEF Spec

\* No result of another request is under way while one is taken for that of the login or
\* the listen request: stubs, and with them calls, come only with a list.
THEOREM HandshakeCorrect == Spec => []HandshakeFirst
<1>1. SessionInv => HandshakeFirst
  <2> SUFFICES ASSUME SessionInv, waiting.login \/ waiting.listen, NEW i \in DOMAIN in,
                      in[i].kind = "result"
               PROVE  in[i].id = call_id
    BY DEF HandshakeFirst
  <2>1. Handshake /\ in \in Seq(Message)
    BY WaitingType DEF Handshake, SessionInv, MessageType
  <2>2. Answered
    BY <2>1 DEF SessionInv, HandInv, Asked, Refused
  <2>3. i = 1
    BY <2>1, <2>2 DEF Answered
  <2> QED BY <2>2, <2>3 DEF Answered
<1> QED BY <1>1, SessionAlways, PTL

\* Slots, waiting callers and ids correspond to each other, for any number of slots.
THEOREM SlotsCorrect == Spec => []SlotPerCall
<1>1. SessionInv => SlotPerCall
  BY Zenon DEF SessionInv, CallInv, SlotPerCall, SlotsMatch, SlotsDiffer, NotTheList
<1> QED BY <1>1, SessionAlways, PTL

\* Taking a message off is not the same as leaving all or adding one.
LEMMA TailShorter ==
    ASSUME NEW S, NEW q \in Seq(S), q # <<>>
    PROVE  Tail(q) # q /\ \A m : Tail(q) # Append(q, m)
<1> DEFINE n == Len(q)
           t == Len(Tail(q))
<1>1. n \in Nat /\ t = n - 1
  OBVIOUS
<1>2. ASSUME NEW m PROVE Len(Append(q, m)) = n + 1
  <2>1. q \in Seq(S \cup {m})
    OBVIOUS
  <2> QED BY <2>1
<1>3. t # n /\ t # n + 1
  <2> HIDE DEF n, t
  <2> QED BY <1>1
<1> QED BY <1>2, <1>3, Zenon

\* A result with the id of a call in progress completes this call.
THEOREM ResultsCorrect == Spec => ResultsReachCallers
<1> DEFINE Reaches == \A s \in Slot \ Free :
          /\ open' /\ in # <<>> /\ in' = Tail(in)
          /\ Head(in).kind = "result" /\ Head(in).id = calls[s].id
          => caller'[calls[s].caller] = "answered"
<1>1. SessionInv /\ [Next]_vars => [Reaches]_vars
  <2> SUFFICES ASSUME SessionInv, Next, NEW s \in Slot \ Free, open', in # <<>>, in' = Tail(in),
                      Head(in).kind = "result", Head(in).id = calls[s].id
               PROVE  caller'[calls[s].caller] = "answered"
    OBVIOUS
  <2>1. in \in Seq(Message) /\ Len(in') = Len(in) - 1 /\ Len(in) \in Nat
    BY DEF SessionInv, MessageType
  <2>2. ~Handshake /\ ~waiting.login /\ ~waiting.listen
    BY WaitingType DEF SessionInv, HandInv, Handshake
  <2>3. calls[s].id # waiting.list_id /\ s \in Found(Head(in))
    BY DEF SessionInv, CallInv, NotTheList, Found
  <2>4. CASE ReceiveCall
    <3>1. PICK t \in Slot : /\ t \in Found(Head(in))
                            /\ caller' = [caller EXCEPT ![calls[t].caller] = "answered"]
      BY Zenon, <2>4 DEF ReceiveCall, First
    <3>2. t = s
      BY <3>1 DEF Found, SessionInv, CallInv, SlotsDiffer
    <3>3. calls[s].caller \in Caller /\ caller \in [Caller -> Fates]
      BY SlotType DEF SessionInv, CallInv, CallType
    <3> QED BY <3>1, <3>2, <3>3
  <2>5. ~(ReceiveLogin \/ ReceiveListen \/ ReceiveList \/ ReceiveIgnored)
    BY <2>2, <2>3 DEF ReceiveLogin, ReceiveListen, ReceiveList, ReceiveIgnored, IsList, IsOther
  <2>6. ~(ReceiveError \/ ReceiveAdd \/ ReceiveRemove)
    BY Zenon DEF ReceiveError, ReceiveAdd, ReceiveRemove, Receive
  <2>7. in' # in
    BY Zenon, <2>1, TailShorter
  <2>8. \A m : in' # Append(in, m)
    BY Zenon, <2>1, TailShorter
  <2>9. ~(Established \/ Closed)
    BY <2>7 DEF Established, Closed
  <2>10. \A c \in Caller, o \in Obj : ~wsu_local_stub_handle_call(c, o)
    BY Zenon, <2>7 DEF wsu_local_stub_handle_call
  <2>11. ~(RemoteTakes \/ RemoteEvent)
    BY Zenon, <2>7, <2>8 DEF RemoteTakes, RemoteEvent
  <2>12. \A id \in serving : ~RemoteReplies(id)
    BY Zenon, <2>7, <2>8 DEF RemoteReplies
  <2>13. \A o \in Obj, sig \in Sig \cup {None} : ~RemoteChanges(o, sig)
    BY <2>7 DEF RemoteChanges
  <2> QED BY <2>4, <2>5, <2>6, <2>9, <2>10, <2>11, <2>12, <2>13 DEF Next
<1> QED BY <1>1, SessionAlways, PTL DEF Spec, ResultsReachCallers

-----------------------------------------------------------------------------
(* Merging a list *)

\* A set of numbers has a least one.
LEMMA LeastNumber ==
    ASSUME NEW T, T \subseteq Nat, T # {}
    PROVE  \E n \in T : \A m \in T : n <= m
<1> DEFINE R == OpToRel(<, Nat)
<1>1. IsWellFoundedOn(R, Nat)
  BY Zenon, NatLessThanWellFounded
<1>2. \A x, y \in Nat : y < x => <<y, x>> \in R
  BY DEF OpToRel
<1> HIDE DEF R
<1>3. PICK x \in T : \A y \in T : <<y, x>> \notin R
  BY Zenon, <1>1, WFMin
<1>4. \A y \in T : x \in Nat /\ y \in Nat /\ ~(y < x)
  BY Zenon, <1>2, <1>3
<1>5. \A y \in T : x <= y
  BY <1>4
<1> QED BY <1>3, <1>5, Zenon

\* Induction over the names: the set holds 0 and with a number the next one.
LEMMA AllNames ==
    ASSUME NEW G, 0 \in G, \A n \in 0..NumObj-1 : n \in G => n + 1 \in G
    PROVE  NumObj \in G
<1>0. NumObj \in Nat
  BY RemoteAssumption
<1> DEFINE Bad == (0..NumObj) \ G
<1> SUFFICES ASSUME NumObj \notin G PROVE FALSE
  OBVIOUS
<1>1. Bad \subseteq Nat /\ Bad # {}
  BY <1>0
<1>2. PICK n \in Bad : \A m \in Bad : n <= m
  <2> HIDE DEF Bad
  <2> QED BY Zenon, <1>1, LeastNumber
<1>3. n - 1 \in 0..NumObj-1 /\ n - 1 \in G
  BY <1>0, <1>2
<1> QED BY <1>0, <1>2, <1>3

\* The recursive function of the walk exists.
LEMMA WalkIs ==
    ASSUME NEW tree, NEW list
    PROVE  \E w : /\ w[0] = MergeStart(tree, list)
                  /\ \A o \in Obj : w[o] = IF list[o] = None THEN w[o - 1]
                                           ELSE MergeOne(w[o - 1], o, list[o])
                  /\ Merge(tree, list) = w[NumObj]
<1>0. NumObj \in Nat
  BY RemoteAssumption
<1> DEFINE Step(m, o) == IF list[o] = None THEN m ELSE MergeOne(m, o, list[o])
           start == MergeStart(tree, list)
           Good(n) == \E f : f = [i \in 0..n |-> IF i = 0 THEN start ELSE Step(f[i - 1], i)]
           G == {n \in Nat : Good(n)}
           F == CHOOSE f : f = [i \in 0..NumObj |-> IF i = 0 THEN start ELSE Step(f[i - 1], i)]
<1>1. Merge(tree, list) = F[NumObj]
  BY Zenon DEF Merge
<1> HIDE DEF Step, start
<1>2. 0 \in G
  <2> DEFINE h == [i \in 0..0 |-> start]
  <2>1. h = [i \in 0..0 |-> IF i = 0 THEN start ELSE Step(h[i - 1], i)]
    <3>1. \A i \in 0..0 : i = 0
      OBVIOUS
    <3> QED BY <3>1, Zenon
  <2>2. Good(0)
    BY <2>1, Zenon
  <2> HIDE DEF Good
  <2> QED BY <2>2
<1>3. ASSUME NEW n \in Nat, n \in G PROVE n + 1 \in G
  <2>1. PICK f : f = [i \in 0..n |-> IF i = 0 THEN start ELSE Step(f[i - 1], i)]
    BY Zenon, <1>3
  <2> DEFINE h == [i \in 0..n+1 |-> IF i = n + 1 THEN Step(f[i - 1], i) ELSE f[i]]
  <2>2. ASSUME NEW i \in 0..n+1 PROVE h[i] = IF i = 0 THEN start ELSE Step(h[i - 1], i)
    <3>1. i # 0 => i - 1 \in 0..n
      OBVIOUS
    <3>2. \A j \in 0..n : h[j] = f[j]
      OBVIOUS
    <3>3. CASE i = n + 1
      <4>1. h[i] = Step(f[i - 1], i) /\ i # 0
        BY <3>3
      <4> HIDE DEF h
      <4> QED BY <3>1, <3>2, <4>1, Zenon
    <3>4. CASE i # n + 1
      <4>1. i \in 0..n
        BY <3>4
      <4>2. f[i] = IF i = 0 THEN start ELSE Step(f[i - 1], i)
        BY <2>1, <4>1, Zenon
      <4> HIDE DEF h
      <4> QED BY <3>1, <3>2, <4>1, <4>2, Zenon
    <3> QED BY <3>3, <3>4
  <2>3. h = [i \in 0..n+1 |-> IF i = 0 THEN start ELSE Step(h[i - 1], i)]
    BY <2>2, Zenon
  <2>4. Good(n + 1)
    BY <2>3, Zenon
  <2> HIDE DEF Good
  <2> QED BY <2>4
<1>4. Good(NumObj)
  <2>1. NumObj \in G
    <3> HIDE DEF G
    <3> QED BY <1>0, <1>2, <1>3, AllNames
  <2> QED BY <2>1, Zenon
<1>5. F = [i \in 0..NumObj |-> IF i = 0 THEN start ELSE Step(F[i - 1], i)]
  BY <1>4, Zenon
<1> HIDE DEF F
<1>6. \A i \in 0..NumObj : F[i] = IF i = 0 THEN start ELSE Step(F[i - 1], i)
  BY <1>5, Zenon
<1>7. F[0] = start
  BY <1>0, <1>6
<1>8. \A o \in Obj : F[o] = Step(F[o - 1], o)
  BY <1>0, <1>6 DEF Obj
<1> QED BY <1>1, <1>7, <1>8, Zenon DEF Step, start

\* The stub where a search ends is the first one that it is for, or behind the last.
LEMMA NextStub ==
    ASSUME NEW T, T \subseteq Obj
    PROVE  LET m == Min(T \cup {End})
           IN  /\ m \in 1..End /\ (m # End => m \in T)
               /\ \A p \in T : m <= p
<1>1. NumObj \in Nat /\ T \cup {End} \subseteq Nat /\ T \cup {End} # {}
  BY RemoteAssumption DEF Obj, End
<1>2. \E n \in T \cup {End} : \A p \in T \cup {End} : n <= p
  BY <1>1, LeastNumber
<1> DEFINE m == Min(T \cup {End})
<1>3. m \in T \cup {End} /\ \A p \in T \cup {End} : m <= p
  BY Zenon, <1>2 DEF Min
<1> HIDE DEF m
<1>4. m \in 1..End
  BY <1>1, <1>3 DEF Obj, End
<1> QED BY Zenon, <1>3, <1>4 DEF m

\* The stubs when the objects up to o have been merged.
MergedTo(o, tree, list) ==
    [p \in Obj |-> IF p <= o /\ list[p] # None /\ p \in Matching THEN list[p] ELSE tree[p]]

\* Where the walk is when the objects up to o have been merged: it has not passed a stub
\* that is listed, and it is behind the last one only with a name that differs.
Walking(m, o, tree, list) ==
    /\ m \in [stubs : Objects, cmp : Int, cur : 0..End, wild : BOOLEAN, same : BOOLEAN]
    /\ m.wild = FALSE =>
         /\ m.stubs = MergedTo(o, tree, list)
         /\ m.cur = 0 => m.cmp # 0 /\ \A p \in Obj : list[p] # None => tree[p] = None
         /\ m.cur = End /\ m.same = TRUE => m.cmp # 0
         /\ m.cur # 0 => \A p \in Obj : p > o /\ tree[p] # None /\ list[p] # None => p >= m.cur

\* The first loop.
LEMMA StartWalks ==
    ASSUME NEW tree \in Objects, NEW list \in Objects
    PROVE  Walking(MergeStart(tree, list), 0, tree, list)
<1> DEFINE name == Min(Stubs(list) \cup {End})
           found == {p \in Stubs(tree) : p >= name}
           first == Min(found \cup {End})
<1>1. name \in 1..End /\ \A p \in Stubs(list) : name <= p
  <2>1. Stubs(list) \subseteq Obj
    BY DEF Stubs
  <2> QED BY Zenon, <2>1, NextStub
<1>2. first \in 1..End /\ (first # End => first \in found) /\ \A p \in found : first <= p
  <2>1. found \subseteq Obj
    BY DEF Stubs
  <2> HIDE DEF found
  <2> QED BY Zenon, <2>1, NextStub
<1>3. MergeStart(tree, list) =
        [stubs |-> tree, cmp |-> IF first = End THEN 1 ELSE Sign(first - name),
         cur |-> IF first = End THEN 0 ELSE first, wild |-> FALSE, same |-> TRUE]
  BY Zenon DEF MergeStart, avl_find_ge
<1> HIDE DEF first, name
<1>4. NumObj \in Nat /\ End \in Nat /\ name \in Nat /\ first \in Nat /\ Sign(first - name) \in Int
      /\ End > NumObj
  BY <1>1, <1>2, RemoteAssumption DEF End, Sign
<1> DEFINE m == MergeStart(tree, list)
<1>5. /\ m.stubs = tree /\ m.cur = (IF first = End THEN 0 ELSE first) /\ m.wild = FALSE
      /\ m.cmp = (IF first = End THEN 1 ELSE Sign(first - name)) /\ m.same = TRUE
      /\ m \in [stubs : Objects, cmp : Int, cur : 0..End, wild : BOOLEAN, same : BOOLEAN]
  BY <1>2, <1>3, <1>4
<1> HIDE DEF m
<1>6. tree = MergedTo(0, tree, list)
  BY <1>4 DEF MergedTo, Objects, Obj
<1>7. \A p \in Obj : list[p] # None => p >= name
  BY <1>1 DEF Stubs
<1>8. \A p \in Obj : tree[p] # None /\ p >= name => p >= first /\ p # End
  BY <1>2, <1>4 DEF Stubs, Obj
<1>9. ASSUME first = End, NEW p \in Obj, list[p] # None PROVE tree[p] = None
  BY <1>4, <1>7, <1>8, <1>9 DEF Obj
<1>10. ASSUME first # End, NEW p \in Obj, tree[p] # None, list[p] # None PROVE p >= first
  BY <1>7, <1>8, <1>10
<1>11. first # 0
  BY <1>2
<1> QED BY <1>5, <1>6, <1>9, <1>10, <1>11 DEF Walking, m

\* There are stubs only of objects that match.
OnlyMatching(tree) == \A o \in Obj : tree[o] # None => o \in Matching

\* What one more object changes.
OneMore(o, tree, list) ==
    LET here == MergedTo(o - 1, tree, list)
    IN  /\ here \in Objects /\ here[o] = tree[o]
        /\ \A p \in Obj : p > o => here[p] = tree[p]
        /\ list[o] = None \/ o \notin Matching => MergedTo(o, tree, list) = here
        /\ list[o] # None /\ o \in Matching =>
             MergedTo(o, tree, list) = [here EXCEPT ![o] = list[o]]

\* It is the stub of this object.
LEMMA MergedNext ==
    ASSUME NEW tree \in Objects, NEW list \in Objects, NEW o \in Obj
    PROVE  OneMore(o, tree, list)
<1>1. NumObj \in Nat /\ o \in Nat
  BY RemoteAssumption DEF Obj
<1>2. \A p \in Obj : p \in Nat /\ (p <= o - 1 <=> p <= o /\ p # o)
  BY <1>1 DEF Obj
<1>3. \A p \in Obj : p > o => ~(p <= o - 1) /\ p # o
  BY <1>1 DEF Obj
<1>4. MergedTo(o - 1, tree, list) \in Objects
  BY DEF MergedTo, Objects
<1> QED BY <1>1, <1>2, <1>3, <1>4 DEF MergedTo, OneMore

\* Where the walk is at an object: at its stub if the names compare equal, and if they do
\* not, then the object has none.
Advanced(a, o, tree, list) ==
    /\ Walking(a, o - 1, tree, list)
    /\ a.wild = FALSE /\ a.cmp = 0 => a.cur = o /\ a.stubs[o] # None
    /\ a.wild = FALSE /\ a.cmp # 0 => a.stubs[o] = None

\* The walk goes on to the stub of the name or behind it, and not past it.
LEMMA AdvanceWalks ==
    ASSUME NEW tree \in Objects, NEW list \in Objects, NEW o \in Obj, list[o] # None,
           NEW m, Walking(m, o - 1, tree, list)
    PROVE  Advanced(Advance(m, o), o, tree, list)
<1> DEFINE a == Advance(m, o)
           here == MergedTo(o - 1, tree, list)
<1>0. /\ NumObj \in Nat /\ End \in Nat /\ End > NumObj /\ o \in Nat /\ o # 0 /\ o <= NumObj
      /\ \A p \in Obj : p \in Nat /\ p < End
  BY RemoteAssumption DEF Obj, End
<1>1. /\ m \in [stubs : Objects, cmp : Int, cur : 0..End, wild : BOOLEAN, same : BOOLEAN]
      /\ m.wild = FALSE =>
           /\ m.stubs = here
           /\ m.cur = 0 => m.cmp # 0 /\ \A p \in Obj : list[p] # None => tree[p] = None
           /\ m.cur = End /\ m.same = TRUE => m.cmp # 0
           /\ m.cur # 0 => \A p \in Obj : p > o - 1 /\ tree[p] # None /\ list[p] # None => p >= m.cur
  BY DEF Walking
<1>2. here[o] = tree[o] /\ \A p \in Obj : p > o => here[p] = tree[p]
  <2>1. OneMore(o, tree, list)
    BY MergedNext, Zenon
  <2> QED BY <2>1, Zenon DEF OneMore
<1> HIDE DEF here
<1>3. CASE m.cur = 0
  <2>1. a = m
    BY <1>3 DEF Advance
  <2> QED BY <1>1, <1>2, <1>3, <2>1 DEF Advanced
<1>4. CASE m.cur = End /\ m.cur # 0
  <2>1. a = [m EXCEPT !.wild = @ \/ ~m.same]
    BY <1>4 DEF Advance
  <2>2. /\ a \in [stubs : Objects, cmp : Int, cur : 0..End, wild : BOOLEAN, same : BOOLEAN]
        /\ a.stubs = m.stubs /\ a.cmp = m.cmp /\ a.cur = m.cur /\ a.same = m.same
        /\ a.wild = FALSE => m.wild = FALSE /\ m.same = TRUE
    BY Zenon, <1>1, <2>1
  <2> HIDE DEF a
  <2>3. Walking(a, o - 1, tree, list)
    BY <1>1, <2>2 DEF Walking, here
  <2>4. m.wild = FALSE => tree[o] = None
    BY <1>0, <1>1, <1>4
  <2> QED BY <1>1, <1>2, <1>4, <2>2, <2>3, <2>4 DEF a, Advanced
<1>5. CASE m.cur # 0 /\ m.cur # End
  <2> DEFINE found == {p \in Stubs(m.stubs) : p >= m.cur /\ p >= o}
             next == Min(found \cup {End})
  <2>1. a = [m EXCEPT !.cur = next, !.cmp = IF next = End THEN -1 ELSE Sign(next - o)]
    BY <1>5, Zenon DEF Advance
  <2>2. next \in 1..End /\ (next # End => next \in found) /\ \A p \in found : next <= p
    <3>1. found \subseteq Obj
      BY DEF Stubs
    <3> HIDE DEF found
    <3> QED BY Zenon, <3>1, NextStub
  <2> HIDE DEF next
  <2>3. next \in Nat /\ next # 0 /\ next \in 0..End
    BY <1>0, <2>2
  <2> DEFINE c == IF next = End THEN -1 ELSE Sign(next - o)
  <2>4. c \in Int /\ (c = 0 <=> next = o)
    BY <1>0, <2>3 DEF Sign
  <2> HIDE DEF c
  <2>5. /\ a \in [stubs : Objects, cmp : Int, cur : 0..End, wild : BOOLEAN, same : BOOLEAN]
        /\ a.stubs = m.stubs /\ a.cmp = c /\ a.cur = next /\ a.same = m.same /\ a.wild = m.wild
    BY Zenon, <1>1, <2>1, <2>3, <2>4 DEF c
  <2> HIDE DEF a
  <2>6. ASSUME m.wild = FALSE, NEW p \in Obj, p > o - 1, tree[p] # None, list[p] # None
        PROVE  p >= next
    <3>1. p >= m.cur /\ p >= o /\ here[p] # None
      BY <1>0, <1>1, <1>2, <1>5, <2>6
    <3>2. p \in found
      BY <1>1, <2>6, <3>1 DEF Stubs
    <3> QED BY <1>0, <2>2, <2>3, <3>2
  <2>7. c # 0 \/ next # End
    BY <1>0, <2>4
  <2>8. Walking(a, o - 1, tree, list)
    <3>1. ASSUME a.wild = FALSE
          PROVE  /\ a.stubs = here /\ a.cur # 0 /\ (a.cur = End => a.cmp # 0)
                 /\ \A p \in Obj : p > o - 1 /\ tree[p] # None /\ list[p] # None => p >= a.cur
      BY Zenon, <1>1, <2>3, <2>5, <2>6, <2>7, <3>1
    <3> QED BY Zenon, <2>5, <3>1 DEF Walking, here
  <2>9. ASSUME m.wild = FALSE, c = 0 PROVE m.stubs[o] # None
    <3>1. next = o /\ next # End
      BY <1>0, <2>4, <2>9
    <3> QED BY <2>2, <3>1 DEF Stubs
  <2>10. ASSUME m.wild = FALSE, c # 0 PROVE m.stubs[o] = None
    <3> SUFFICES ASSUME m.stubs[o] # None PROVE FALSE
      OBVIOUS
    <3>1. tree[o] # None
      BY <1>1, <1>2, <2>10
    <3>2. o >= next
      <4>1. o > o - 1
        BY <1>0
      <4> QED BY Zenon, <2>6, <2>10, <3>1, <4>1
    <3>3. next # End /\ next >= o
      BY <1>0, <2>2, <3>2
    <3> QED BY <1>0, <2>3, <2>4, <2>10, <3>2, <3>3
  <2> QED BY Zenon, <2>4, <2>5, <2>8, <2>9, <2>10 DEF a, Advanced
<1> QED BY <1>3, <1>4, <1>5

\* Creating a stub.
LEMMA CreateIs ==
    ASSUME NEW m \in [stubs : Objects, cmp : Int, cur : 0..End, wild : BOOLEAN, same : BOOLEAN],
           NEW o \in Obj, NEW sig \in Sig \cup {None}
    PROVE  LET c == Create(m, o, sig)
           IN  /\ c \in [stubs : Objects, cmp : Int, cur : 0..End, wild : BOOLEAN, same : BOOLEAN]
               /\ c.cmp = m.cmp /\ c.cur = m.cur /\ c.wild = m.wild
               /\ c.same = TRUE => m.same = TRUE
               /\ c.stubs = IF o \in Matching THEN [m.stubs EXCEPT ![o] = sig] ELSE m.stubs
<1>1. CASE o \notin Matching
  BY <1>1 DEF Create
<1>2. CASE o \in Matching
  <2> DEFINE b == m.same /\ m.cur # End
             t == [m.stubs EXCEPT ![o] = sig]
  <2>1. Create(m, o, sig) = [m EXCEPT !.stubs = t, !.same = b]
    BY <1>2 DEF Create
  <2>2. b \in BOOLEAN /\ (b = TRUE => m.same = TRUE) /\ t \in Objects
    BY DEF Objects
  <2> HIDE DEF b, t
  <2>3. LET c == [m EXCEPT !.stubs = t, !.same = b]
        IN  /\ c \in [stubs : Objects, cmp : Int, cur : 0..End, wild : BOOLEAN, same : BOOLEAN]
            /\ c.cmp = m.cmp /\ c.cur = m.cur /\ c.wild = m.wild /\ c.same = b /\ c.stubs = t
    BY Zenon, <2>2
  <2> QED BY <1>2, <2>1, <2>2, <2>3 DEF t
<1> QED BY Zenon, <1>1, <1>2

\* One object of the list.
LEMMA MergeOneWalks ==
    ASSUME NEW tree \in Objects, NEW list \in Objects, NEW o \in Obj, list[o] # None,
           OnlyMatching(tree),
           NEW m, Walking(m, o - 1, tree, list)
    PROVE  Walking(MergeOne(m, o, list[o]), o, tree, list)
<1> DEFINE a == Advance(m, o)
           sig == list[o]
           here == MergedTo(o - 1, tree, list)
           W == [stubs : Objects, cmp : Int, cur : 0..End, wild : BOOLEAN, same : BOOLEAN]
<1>0. /\ NumObj \in Nat /\ End \in Nat /\ End > NumObj /\ o \in Nat /\ o # 0 /\ o <= NumObj
      /\ \A p \in Obj : p \in Nat /\ p < End /\ (p > o => p > o - 1)
      /\ sig \in Sig \cup {None}
  BY RemoteAssumption DEF Obj, End, Objects
<1>1. /\ Walking(a, o - 1, tree, list)
      /\ a.wild = FALSE /\ a.cmp = 0 => a.cur = o /\ a.stubs[o] # None
  <2>1. Advanced(Advance(m, o), o, tree, list)
    BY AdvanceWalks, Zenon
  <2> QED BY <2>1, Zenon DEF Advanced
<1>2. /\ here \in Objects /\ here[o] = tree[o] /\ \A p \in Obj : p > o => here[p] = tree[p]
      /\ o \notin Matching => MergedTo(o, tree, list) = here
      /\ o \in Matching => MergedTo(o, tree, list) = [here EXCEPT ![o] = sig]
  <2>1. OneMore(o, tree, list)
    BY MergedNext, Zenon
  <2> QED BY <2>1, Zenon DEF OneMore
<1>3. MergeOne(m, o, sig) =
        IF a.wild THEN a
        ELSE IF a.cmp # 0 THEN Create(a, o, sig)
        ELSE IF a.stubs[a.cur] # sig THEN Replace(a, o, sig)
        ELSE a
  BY Zenon DEF MergeOne, wsu_local_stub_is_same_signature
<1> HIDE DEF a, sig, here
<1>4. /\ a \in W
      /\ a.wild = FALSE =>
           /\ a.stubs = here
           /\ a.cur = 0 => a.cmp # 0 /\ \A p \in Obj : list[p] # None => tree[p] = None
           /\ a.cur = End /\ a.same = TRUE => a.cmp # 0
           /\ a.cur # 0 => \A p \in Obj : p > o - 1 /\ tree[p] # None /\ list[p] # None => p >= a.cur
  BY <1>1 DEF Walking, here
<1>5. CASE a.wild = TRUE
  BY <1>3, <1>4, <1>5 DEF Walking, sig
<1>6. CASE a.wild = FALSE /\ a.cmp # 0
  <2> DEFINE c == Create(a, o, sig)
  <2>1. MergeOne(m, o, sig) = c
    BY <1>3, <1>6
  <2>2. /\ c \in W /\ c.cmp = a.cmp /\ c.cur = a.cur /\ c.wild = a.wild
        /\ c.same = TRUE => a.same = TRUE
        /\ c.stubs = IF o \in Matching THEN [a.stubs EXCEPT ![o] = sig] ELSE a.stubs
    BY Zenon, <1>0, <1>4, CreateIs
  <2> HIDE DEF c
  <2>3. c.stubs = MergedTo(o, tree, list)
    BY <1>2, <1>4, <1>6, <2>2
  <2>4. c.cur # 0 => \A p \in Obj : p > o /\ tree[p] # None /\ list[p] # None => p >= c.cur
    BY <1>0, <1>4, <1>6, <2>2
  <2>5. Walking(c, o, tree, list)
    BY <1>4, <1>6, <2>2, <2>3, <2>4 DEF Walking
  <2> QED BY <2>1, <2>5 DEF sig
<1>7. CASE a.wild = FALSE /\ a.cmp = 0
  <2>1. a.cur = o /\ here[o] # None /\ o \in Matching /\ a.stubs = here
    BY <1>1, <1>2, <1>4, <1>7 DEF OnlyMatching
  <2>2. CASE here[o] = sig
    <3>1. MergeOne(m, o, sig) = a
      BY <1>3, <1>7, <2>1, <2>2
    <3>2. here = MergedTo(o, tree, list)
      BY <1>2, <2>1, <2>2 DEF Objects
    <3>3. \A p \in Obj : p > o /\ tree[p] # None /\ list[p] # None => p >= a.cur
      BY <1>0, <2>1
    <3>4. a.cur # 0 /\ a.cur # End
      BY <1>0, <2>1
    <3>5. Walking(a, o, tree, list)
      BY <1>4, <2>1, <3>2, <3>3, <3>4 DEF Walking
    <3> QED BY <3>1, <3>5 DEF sig
  <2>3. CASE here[o] # sig
    <3> DEFINE found == {p \in Stubs(here) : p >= o + 1}
               next == Min(found \cup {End})
               t == [here EXCEPT ![o] = None]
               b == a.same /\ next # End
               d == [a EXCEPT !.stubs = t, !.cur = next, !.same = b]
               c == Create(d, o, sig)
    <3>1. MergeOne(m, o, sig) = c
      BY <1>3, <1>7, <2>1, <2>3 DEF Replace, avl_find_ge, wsu_local_stub_destroy
    <3>2. next \in 1..End /\ (next # End => next \in found) /\ \A p \in found : next <= p
      <4>1. found \subseteq Obj
        BY DEF Stubs
      <4> HIDE DEF found
      <4> QED BY Zenon, <4>1, NextStub
    <3> HIDE DEF next
    <3>3. next \in 0..End /\ next # 0 /\ next \in Nat
      BY <1>0, <3>2
    <3>4. t \in Objects /\ b \in BOOLEAN /\ (b = TRUE => next # End)
      BY <1>2 DEF Objects
    <3>5. [t EXCEPT ![o] = sig] = [here EXCEPT ![o] = sig]
      BY Zenon, <1>2 DEF Objects
    <3> HIDE DEF t, b
    <3>6. /\ d \in W /\ d.stubs = t /\ d.cur = next /\ d.same = b /\ d.cmp = a.cmp /\ d.wild = a.wild
      BY Zenon, <1>4, <3>3, <3>4
    <3> HIDE DEF d
    <3>7. /\ c \in W /\ c.cmp = a.cmp /\ c.cur = next /\ c.wild = FALSE
          /\ c.same = TRUE => b = TRUE
          /\ c.stubs = IF o \in Matching THEN [t EXCEPT ![o] = sig] ELSE t
      <4>1. /\ c \in W /\ c.cmp = d.cmp /\ c.cur = d.cur /\ c.wild = d.wild
            /\ c.same = TRUE => d.same = TRUE
            /\ c.stubs = IF o \in Matching THEN [d.stubs EXCEPT ![o] = sig] ELSE d.stubs
        BY Zenon, <1>0, <3>6, CreateIs
      <4> HIDE DEF c
      <4> QED BY <1>7, <3>6, <4>1
    <3> HIDE DEF c
    <3>8. c.stubs = MergedTo(o, tree, list)
      BY Zenon, <1>2, <2>1, <3>5, <3>7
    <3>9. ASSUME NEW p \in Obj, p > o, tree[p] # None, list[p] # None PROVE p >= next
      <4>1. p \in found
        BY <1>0, <1>2, <3>9 DEF Stubs
      <4> QED BY <1>0, <3>2, <3>3, <4>1
    <3>10. Walking(c, o, tree, list)
      BY <3>3, <3>4, <3>7, <3>8, <3>9 DEF Walking
    <3> QED BY <3>1, <3>10 DEF sig
  <2> QED BY <2>2, <2>3
<1> QED BY Zenon, <1>4, <1>5, <1>6, <1>7

\* The merge does what it is for, unless it reads past the end of the tree.
LEMMA MergeIs ==
    ASSUME NEW tree \in Objects, NEW list \in Objects,
           OnlyMatching(tree)
    PROVE  /\ Merge(tree, list).wild \in BOOLEAN
           /\ Merge(tree, list).wild = FALSE => Merge(tree, list).stubs = Merged(tree, list)
<1>0. NumObj \in Nat
  BY RemoteAssumption
<1>1. PICK w : /\ w[0] = MergeStart(tree, list)
               /\ \A o \in Obj : w[o] = IF list[o] = None THEN w[o - 1]
                                        ELSE MergeOne(w[o - 1], o, list[o])
               /\ Merge(tree, list) = w[NumObj]
  BY WalkIs
<1> DEFINE G == {o \in 0..NumObj : Walking(w[o], o, tree, list)}
<1>2. 0 \in G
  BY <1>0, <1>1, StartWalks
<1>3. ASSUME NEW n \in 0..NumObj-1, n \in G PROVE n + 1 \in G
  <2>1. n + 1 \in Obj /\ (n + 1) - 1 = n /\ n + 1 \in 0..NumObj
    BY <1>0 DEF Obj
  <2>2. Walking(w[n], n, tree, list)
    BY <1>3
  <2>3. CASE list[n + 1] = None
    <3>1. w[n + 1] = w[n]
      BY <1>1, <2>1, <2>3
    <3>2. MergedTo(n + 1, tree, list) = MergedTo(n, tree, list)
      <4>1. MergedTo(n + 1, tree, list) = MergedTo((n + 1) - 1, tree, list)
        <5> DEFINE o == n + 1
        <5>1. o \in Obj /\ list[o] = None
          BY <2>1, <2>3
        <5> HIDE DEF o
        <5>2. MergedTo(o, tree, list) = MergedTo(o - 1, tree, list)
          <6>1. OneMore(o, tree, list)
            BY <5>1, MergedNext, Zenon
          <6> QED BY <5>1, <6>1, Zenon DEF OneMore
        <5> QED BY <5>2 DEF o
      <4> QED BY <2>1, <4>1
    <3>3. \A p \in Obj : p > n + 1 => p > n
      BY <1>0 DEF Obj
    <3>4. Walking(w[n + 1], n + 1, tree, list)
      BY <2>2, <3>1, <3>2, <3>3 DEF Walking
    <3> QED BY <2>1, <3>4
  <2>4. CASE list[n + 1] # None
    <3>1. w[n + 1] = MergeOne(w[n], n + 1, list[n + 1])
      BY <1>1, <2>1, <2>4
    <3>2. Walking(w[n + 1], n + 1, tree, list)
      BY <2>1, <2>2, <2>4, <3>1, MergeOneWalks
    <3> QED BY <2>1, <3>2
  <2> QED BY <2>3, <2>4
<1>4. NumObj \in G
  <2> HIDE DEF G
  <2> QED BY <1>0, <1>2, <1>3, AllNames
<1>5. MergedTo(NumObj, tree, list) = Merged(tree, list)
  BY <1>0 DEF MergedTo, Merged, Obj
<1> QED BY <1>1, <1>4, <1>5 DEF Walking

-----------------------------------------------------------------------------
(* The messages under way and the stubs *)

\* The event is still to be received, after the i-th message.
Coming(e, i) ==
    \/ \E j \in DOMAIN in : j > i /\ in[j] = e
    \/ \E j \in DOMAIN events : events[j] = e

Snapshot(m) == m.kind = "result" /\ m.ok = TRUE /\ m.body = "objects"
Awaited(m) == Snapshot(m) /\ m.id = waiting.list_id

\* The stubs are of objects that match.
StubsMatch == stubs \in Objects /\ OnlyMatching(stubs)

\* Before the subscription there is no event, no list and no stub.
NotListening ==
    listening = FALSE =>
        /\ stubs = Nothing /\ events = <<>> /\ serving = {}
        /\ \A i \in DOMAIN out : out[i].method \in {"login", "listen"}
        /\ \A i \in DOMAIN in : /\ in[i].kind \in {"result", "error"}
                                /\ in[i].kind = "result" => waiting.login = TRUE /\ in[i].body # "objects"

\* Requests of the handshake are under way only during it.
HandshakeAsked ==
    \A i \in DOMAIN out :
        /\ out[i].method = "login" => waiting.login = TRUE
        /\ out[i].method = "listen" => waiting.listen = TRUE

\* All requests were given ids that were counted.
IdsCounted ==
    /\ \A i \in DOMAIN out : out[i].id <= call_id
    /\ \A i \in DOMAIN in : in[i].kind = "result" => in[i].id <= call_id
    /\ \A id \in serving : id <= call_id

\* An object that is there was added after any removal that is still to be heard of.
AddedAfter ==
    \A o \in Obj : bus[o] # None =>
        /\ \A i \in DOMAIN in : in[i] = Event("remove", o) => Coming(Event("add", o), i)
        /\ \A i \in DOMAIN events : events[i] = Event("remove", o) =>
              \E j \in DOMAIN events : j > i /\ events[j] = Event("add", o)

\* The removal of an object that is gone is heard of after each list that has it.
RemovedAfter ==
    \A o \in Obj : bus[o] = None =>
        /\ stubs[o] # None => Coming(Event("remove", o), 0)
        /\ \A i \in DOMAIN in : Snapshot(in[i]) /\ in[i].objs[o] # None => Coming(Event("remove", o), i)

\* Another list is to come: it was not asked for yet, or not taken yet.
ListToCome ==
    \/ Handshake
    \/ \E o \in Obj : Coming(Event("add", o), 0)
    \/ waiting.list_id # 0 /\ \A i \in DOMAIN in : ~Awaited(in[i])

\* Otherwise the awaited list, or the stubs if none is awaited, have what is on the bus.
UpToDate ==
    listening = TRUE /\ ~ListToCome =>
        \A o \in Matching : bus[o] # None =>
            /\ waiting.list_id = 0 => stubs[o] = bus[o]
            /\ waiting.list_id # 0 => \A i \in DOMAIN in : Awaited(in[i]) => in[i].objs[o] = bus[o]

StreamInv == NotListening /\ HandshakeAsked /\ IdsCounted /\ AddedAfter
StubsInv == wild \in BOOLEAN /\ (wild = FALSE => StubsMatch /\ RemovedAfter /\ UpToDate)

\* An event is what it was made of, and events of two kinds differ.
LEMMA EventIs ==
    /\ \A k, o : Event(k, o).kind = k /\ Event(k, o).obj = o
    /\ \A o, p : Event("add", o) # Event("remove", p)
    /\ \A m \in Message : m.kind \in {"add", "remove"} => m.obj \in Obj /\ m = Event(m.kind, m.obj)
<1>1. \A k, o : Event(k, o).kind = k /\ Event(k, o).obj = o
  BY DEF Event
<1>2. ASSUME NEW m \in Message, m.kind \in {"add", "remove"}
      PROVE  m.obj \in Obj /\ m = Event(m.kind, m.obj)
  <2>1. m \in Events
    BY <1>2 DEF Message, Events
  <2> QED BY <2>1 DEF Events, Event
<1>3. \A o, p : Event("add", o) # Event("remove", p)
  BY DEF Event
<1> QED BY <1>1, <1>2, <1>3

\* The messages are sequences.
LEMMA StreamTypes ==
    ASSUME SessionInv
    PROVE  /\ in \in Seq(Message) /\ Len(in) \in Nat /\ DOMAIN in = 1..Len(in)
           /\ events \in Seq(Events) /\ Len(events) \in Nat /\ DOMAIN events = 1..Len(events)
           /\ out \in Seq(Requests) /\ Len(out) \in Nat /\ DOMAIN out = 1..Len(out)
           /\ call_id \in Nat /\ waiting.list_id \in Nat /\ waiting.list_id <= call_id
           /\ serving \subseteq Nat /\ listening \in BOOLEAN /\ bus \in Objects
BY DEF SessionInv, MessageType, CallInv, CallType, IdsGiven

\* What is still to come when the first message is taken off: the same but this message,
\* one place nearer.
Popped ==
    /\ in # <<>> /\ 1 \in DOMAIN in /\ UNCHANGED events
    /\ \A i \in DOMAIN in' : i \in Nat /\ i > 0 /\ i + 1 \in DOMAIN in /\ in'[i] = in[i + 1]
    /\ \A i \in DOMAIN in : i = 1 \/ \E j \in DOMAIN in' : j = i - 1 /\ in'[j] = in[i]
    /\ \A e : \A i \in Nat : Coming(e, i + 1) => Coming(e, i)'
    /\ \A e : Coming(e, 0) /\ in[1] # e => Coming(e, 0)'

\* CLIENT_RECEIVE takes the first message off.
LEMMA ReceivePops ==
    ASSUME SessionInv, NEW kind, Receive(kind)
    PROVE  Popped /\ in[1] \in Message /\ in[1].kind = kind /\ Head(in) = in[1] /\ UNCHANGED remoteVars
           /\ open = TRUE
<1>1. /\ Len(in) > 0 /\ Head(in) = in[1] /\ in[1] \in Message /\ in[1].kind = kind
      /\ in' \in Seq(Message) /\ Len(in') = Len(in) - 1
      /\ \A i \in 1..Len(in) - 1 : in'[i] = in[i + 1]
      /\ UNCHANGED remoteVars /\ open = TRUE
  BY Zenon, Received
<1>2. in \in Seq(Message) /\ Len(in) \in Nat /\ DOMAIN in = 1..Len(in)
  BY Zenon, StreamTypes
<1>3. DOMAIN in' = 1..(Len(in) - 1) /\ in # <<>> /\ 1 \in DOMAIN in
  BY <1>1, <1>2
<1>4. \A i \in DOMAIN in' : i \in Nat /\ i > 0 /\ i + 1 \in DOMAIN in /\ in'[i] = in[i + 1]
  BY <1>1, <1>2, <1>3
<1>5. ASSUME NEW i \in DOMAIN in, i # 1 PROVE i - 1 \in DOMAIN in' /\ in'[i - 1] = in[i]
  <2>1. i - 1 \in 1..(Len(in) - 1) /\ (i - 1) + 1 = i
    BY <1>2, <1>5
  <2> QED BY <1>1, <1>3, <2>1
<1>6. events' = events
  BY <1>1 DEF remoteVars
<1>7. ASSUME NEW e, NEW i \in Nat, NEW j \in DOMAIN in, j > i + 1, in[j] = e PROVE Coming(e, i)'
  <2>1. j # 1 /\ j - 1 > i
    BY <1>2, <1>7
  <2>2. j - 1 \in DOMAIN in' /\ in'[j - 1] = e
    BY <1>5, <1>7, <2>1
  <2> QED BY <2>1, <2>2 DEF Coming
<1>8. ASSUME NEW e, in[1] # e, NEW j \in DOMAIN in, in[j] = e PROVE Coming(e, 0)'
  <2>1. j # 1 /\ j - 1 > 0
    BY <1>2, <1>8
  <2>2. j - 1 \in DOMAIN in' /\ in'[j - 1] = e
    BY <1>5, <1>8, <2>1
  <2> QED BY <2>1, <2>2 DEF Coming
<1>9. \A e : \A i \in Nat : Coming(e, i + 1) => Coming(e, i)'
  <2> SUFFICES ASSUME NEW e, NEW i \in Nat, Coming(e, i + 1) PROVE Coming(e, i)'
    OBVIOUS
  <2>1. CASE \E j \in DOMAIN in : j > i + 1 /\ in[j] = e
    BY Zenon, <1>7, <2>1
  <2>2. CASE \E j \in DOMAIN events : events[j] = e
    BY Zenon, <1>6, <2>2 DEF Coming
  <2> QED BY <2>1, <2>2, Zenon DEF Coming
<1>10. \A e : Coming(e, 0) /\ in[1] # e => Coming(e, 0)'
  <2> SUFFICES ASSUME NEW e, Coming(e, 0), in[1] # e PROVE Coming(e, 0)'
    OBVIOUS
  <2>1. CASE \E j \in DOMAIN in : in[j] = e
    BY Zenon, <1>8, <2>1
  <2>2. CASE \E j \in DOMAIN events : events[j] = e
    BY Zenon, <1>6, <2>2 DEF Coming
  <2> QED BY <2>1, <2>2, Zenon DEF Coming
<1>11. \A i \in DOMAIN in : i = 1 \/ \E j \in DOMAIN in' : j = i - 1 /\ in'[j] = in[i]
  BY Zenon, <1>5
<1> QED BY Zenon, <1>1, <1>3, <1>4, <1>6, <1>9, <1>10, <1>11 DEF Popped

\* What is still to come when, at most, a message comes behind the others.
Grown ==
    /\ \A i \in DOMAIN in : i \in DOMAIN in' /\ in'[i] = in[i]
    /\ \A i \in DOMAIN in' : i \in DOMAIN in \/ i = Len(in) + 1
    /\ \A e : \A i \in 0..Len(in) : Coming(e, i) => Coming(e, i)'

\* One more message.
LEMMA AppendGrows ==
    ASSUME SessionInv, NEW m \in Message, in' = Append(in, m), UNCHANGED events
    PROVE  Grown /\ in'[Len(in) + 1] = m
<1>1. in \in Seq(Message) /\ Len(in) \in Nat /\ DOMAIN in = 1..Len(in)
  BY Zenon, StreamTypes
<1>2. /\ DOMAIN in' = 1..(Len(in) + 1) /\ in'[Len(in) + 1] = m
      /\ \A i \in 1..Len(in) : in'[i] = in[i]
  BY <1>1
<1>3. /\ \A i \in DOMAIN in : i \in DOMAIN in' /\ in'[i] = in[i]
      /\ \A i \in DOMAIN in' : i \in DOMAIN in \/ i = Len(in) + 1
  BY <1>1, <1>2
<1>4. \A e : \A i \in 0..Len(in) : Coming(e, i) => Coming(e, i)'
  BY Zenon, <1>3 DEF Coming
<1> QED BY Zenon, <1>2, <1>3, <1>4 DEF Grown

\* No more message, and perhaps one more event.
LEMMA ChangeGrows ==
    ASSUME SessionInv, UNCHANGED in, NEW e \in Events, events' \in {events, Append(events, e)}
    PROVE  Grown /\ (events' # events => \A i : Coming(e, i)')
<1>1. events \in Seq(Events) /\ Len(events) \in Nat /\ DOMAIN events = 1..Len(events)
  BY Zenon, StreamTypes
<1>2. \A j \in DOMAIN events : j \in DOMAIN events' /\ events'[j] = events[j]
  BY <1>1
<1>3. \A f : \A i \in 0..Len(in) : Coming(f, i) => Coming(f, i)'
  BY Zenon, <1>2 DEF Coming
<1>4. events' # events => \E j \in DOMAIN events' : events'[j] = e
  <2> SUFFICES ASSUME events' = Append(events, e) PROVE \E j \in DOMAIN events' : events'[j] = e
    BY Zenon
  <2>1. Len(events) + 1 \in DOMAIN events' /\ events'[Len(events) + 1] = e
    BY <1>1
  <2> QED BY Zenon, <2>1
<1>5. events' # events => \A i : Coming(e, i)'
  BY Zenon, <1>4 DEF Coming
<1> QED BY Zenon, <1>3, <1>5 DEF Grown

\* The first event becomes the last message.
LEMMA EventGrows ==
    ASSUME SessionInv, RemoteEvent
    PROVE  /\ Grown /\ Len(events) > 0 /\ 1 \in DOMAIN events
           /\ in'[Len(in) + 1] = events[1] /\ events[1] \in Events
           /\ \A j \in DOMAIN events' : j \in Nat /\ j + 1 \in DOMAIN events /\ events'[j] = events[j + 1]
           /\ \A j \in DOMAIN events : j > 1 => j - 1 \in DOMAIN events' /\ events'[j - 1] = events[j]
<1>1. /\ in \in Seq(Message) /\ Len(in) \in Nat /\ DOMAIN in = 1..Len(in)
      /\ events \in Seq(Events) /\ Len(events) \in Nat /\ DOMAIN events = 1..Len(events)
  BY Zenon, StreamTypes
<1>2. events # <<>> /\ in' = Append(in, Head(events)) /\ events' = Tail(events)
  BY Zenon DEF RemoteEvent
<1>3. /\ Len(events) > 0 /\ 1 \in DOMAIN events /\ Head(events) = events[1] /\ events[1] \in Events
      /\ events' \in Seq(Events) /\ Len(events') = Len(events) - 1
      /\ \A j \in 1..(Len(events) - 1) : events'[j] = events[j + 1]
  BY <1>1, <1>2
<1>4. DOMAIN events' = 1..(Len(events) - 1)
  BY <1>1, <1>3
<1>5. \A j \in DOMAIN events' : j \in Nat /\ j + 1 \in DOMAIN events /\ events'[j] = events[j + 1]
  BY <1>1, <1>3, <1>4
<1>6. ASSUME NEW j \in DOMAIN events, j > 1 PROVE j - 1 \in DOMAIN events' /\ events'[j - 1] = events[j]
  <2>1. j - 1 \in 1..(Len(events) - 1) /\ (j - 1) + 1 = j
    BY <1>1, <1>6
  <2> QED BY <1>3, <1>4, <2>1
<1>7. events[1] \in Message
  BY Zenon, <1>3 DEF Message
<1>8. /\ DOMAIN in' = 1..(Len(in) + 1) /\ in'[Len(in) + 1] = events[1]
      /\ \A i \in 1..Len(in) : in'[i] = in[i]
  BY <1>1, <1>2, <1>3, <1>7
<1>9. /\ \A i \in DOMAIN in : i \in DOMAIN in' /\ in'[i] = in[i]
      /\ \A i \in DOMAIN in' : i \in DOMAIN in \/ i = Len(in) + 1
  BY <1>1, <1>8
<1>10. ASSUME NEW e, NEW i \in 0..Len(in), Coming(e, i) PROVE Coming(e, i)'
  <2>1. CASE \E j \in DOMAIN in : j > i /\ in[j] = e
    BY Zenon, <1>9, <2>1 DEF Coming
  <2>2. ASSUME NEW j \in DOMAIN events, events[j] = e PROVE Coming(e, i)'
    <3>1. CASE j = 1
      <4>1. Len(in) + 1 \in DOMAIN in' /\ Len(in) + 1 > i /\ in'[Len(in) + 1] = e
        BY <1>1, <1>8, <2>2, <3>1
      <4> QED BY Zenon, <4>1 DEF Coming
    <3>2. CASE j # 1
      <4>1. j > 1
        BY <1>1, <3>2
      <4>2. j - 1 \in DOMAIN events' /\ events'[j - 1] = e
        BY <1>6, <2>2, <4>1
      <4> QED BY Zenon, <4>2 DEF Coming
    <3> QED BY <3>1, <3>2
  <2> QED BY Zenon, <1>10, <2>1, <2>2 DEF Coming
<1> QED BY Zenon, <1>3, <1>5, <1>6, <1>8, <1>9, <1>10 DEF Grown

-----------------------------------------------------------------------------
(* What is kept on both ways *)

\* Taking a message off leaves what comes after each removal.
LEMMA PopAdded ==
    ASSUME AddedAfter, Popped, UNCHANGED bus
    PROVE  AddedAfter'
<1>1. ASSUME NEW o \in Obj, bus[o] # None, NEW i \in DOMAIN in', in'[i] = Event("remove", o)
      PROVE  Coming(Event("add", o), i)'
  <2>1. i \in Nat /\ i + 1 \in DOMAIN in /\ in[i + 1] = Event("remove", o)
    BY Zenon, <1>1 DEF Popped
  <2>2. Coming(Event("add", o), i + 1)
    BY Zenon, <1>1, <2>1 DEF AddedAfter
  <2> QED BY Zenon, <2>1, <2>2 DEF Popped
<1>2. events' = events
  BY DEF Popped
<1> QED BY Zenon, <1>1, <1>2 DEF AddedAfter, Event

\* So does a message that is not a removal.
LEMMA AppendAdded ==
    ASSUME SessionInv, AddedAfter, Grown, UNCHANGED <<bus, events>>,
           Len(in) + 1 \in DOMAIN in' => in'[Len(in) + 1].kind # "remove"
    PROVE  AddedAfter'
<1>0. Len(in) \in Nat /\ DOMAIN in = 1..Len(in)
  BY Zenon, StreamTypes
<1>1. ASSUME NEW o \in Obj, bus[o] # None, NEW i \in DOMAIN in', in'[i] = Event("remove", o)
      PROVE  Coming(Event("add", o), i)'
  <2>1. i \in DOMAIN in /\ in[i] = Event("remove", o)
    <3>1. in'[i].kind = "remove"
      BY <1>1, EventIs
    <3>2. i # Len(in) + 1
      BY <1>1, <3>1
    <3> QED BY Zenon, <1>1, <3>2 DEF Grown
  <2>2. Coming(Event("add", o), i)
    BY Zenon, <1>1, <2>1 DEF AddedAfter
  <2>3. i \in 0..Len(in)
    BY <1>0, <2>1
  <2> QED BY Zenon, <2>2, <2>3 DEF Grown
<1> QED BY Zenon, <1>1 DEF AddedAfter, Event

\* An event that is sent stays in its place among the others.
LEMMA EventAdded ==
    ASSUME SessionInv, AddedAfter, RemoteEvent
    PROVE  AddedAfter'
<1>0. Len(in) \in Nat /\ DOMAIN in = 1..Len(in) /\ Len(events) \in Nat /\ DOMAIN events = 1..Len(events)
  BY Zenon, StreamTypes
<1>1. /\ Grown /\ 1 \in DOMAIN events /\ in'[Len(in) + 1] = events[1]
      /\ \A j \in DOMAIN events' : j \in Nat /\ j + 1 \in DOMAIN events /\ events'[j] = events[j + 1]
      /\ \A j \in DOMAIN events : j > 1 => j - 1 \in DOMAIN events' /\ events'[j - 1] = events[j]
  BY Zenon, EventGrows
<1>2. bus' = bus
  BY Zenon DEF RemoteEvent
<1>3. ASSUME NEW o \in Obj, bus[o] # None, NEW i \in DOMAIN in', in'[i] = Event("remove", o)
      PROVE  Coming(Event("add", o), i)'
  <2>1. CASE i \in DOMAIN in
    <3>1. Coming(Event("add", o), i)
      BY Zenon, <1>1, <1>3, <2>1 DEF AddedAfter, Grown
    <3>2. i \in 0..Len(in)
      BY <1>0, <2>1
    <3> QED BY Zenon, <1>1, <3>1, <3>2 DEF Grown
  <2>2. CASE i = Len(in) + 1
    <3>1. events[1] = Event("remove", o)
      BY Zenon, <1>1, <1>3, <2>2
    <3>2. PICK j \in DOMAIN events : j > 1 /\ events[j] = Event("add", o)
      BY Zenon, <1>1, <1>3, <3>1 DEF AddedAfter
    <3>3. j - 1 \in DOMAIN events' /\ events'[j - 1] = Event("add", o)
      BY Zenon, <1>1, <3>2
    <3> QED BY Zenon, <3>3 DEF Coming, Event
  <2> QED BY Zenon, <1>1, <1>3, <2>1, <2>2 DEF Grown
<1>4. ASSUME NEW o \in Obj, bus[o] # None, NEW i \in DOMAIN events', events'[i] = Event("remove", o)
      PROVE  \E j \in DOMAIN events' : j > i /\ events'[j] = Event("add", o)
  <2>1. i \in Nat /\ i + 1 \in DOMAIN events /\ events[i + 1] = Event("remove", o)
    BY Zenon, <1>1, <1>4
  <2>2. PICK j \in DOMAIN events : j > i + 1 /\ events[j] = Event("add", o)
    BY Zenon, <1>4, <2>1 DEF AddedAfter
  <2>3. j > 1 /\ j - 1 > i
    BY <1>0, <2>1, <2>2
  <2>4. j - 1 \in DOMAIN events' /\ events'[j - 1] = Event("add", o)
    BY Zenon, <1>1, <2>2, <2>3
  <2> QED BY Zenon, <2>3, <2>4
<1> QED BY Zenon, <1>2, <1>3, <1>4 DEF AddedAfter, Event

\* An object that is added is reported behind all else.
LEMMA ChangeAdded ==
    ASSUME SessionInv, NotListening, AddedAfter, NEW o \in Obj, NEW sig \in Sig \cup {None},
           RemoteChanges(o, sig)
    PROVE  AddedAfter'
<1> DEFINE kind == IF sig = None THEN "remove" ELSE "add"
           e == Event(kind, o)
<1>0. /\ Len(in) \in Nat /\ DOMAIN in = 1..Len(in) /\ events \in Seq(Events)
      /\ Len(events) \in Nat /\ DOMAIN events = 1..Len(events)
      /\ bus \in [Obj -> Sig \cup {None}] /\ listening \in BOOLEAN
  BY Zenon, StreamTypes DEF Objects
<1>1. /\ in' = in /\ bus' = [bus EXCEPT ![o] = sig]
      /\ events' = IF listening THEN Append(events, e) ELSE events
  BY Zenon DEF RemoteChanges
<1>2. e \in Events /\ e.kind = kind /\ e.obj = o
  BY DEF Event, Events
<1>3. Grown
  <2> HIDE DEF e
  <2>1. events' \in {events, Append(events, e)}
    BY Zenon, <1>1
  <2> QED BY Zenon, <1>1, <1>2, <2>1, ChangeGrows
<1>4. ASSUME listening = TRUE
      PROVE  /\ DOMAIN events' = 1..(Len(events) + 1) /\ events'[Len(events) + 1] = e
             /\ \A j \in DOMAIN events : j \in DOMAIN events' /\ events'[j] = events[j]
  <2> HIDE DEF e
  <2> QED BY <1>0, <1>1, <1>2, <1>4
<1>5. ASSUME listening = FALSE
      PROVE  \A p : /\ \A i \in DOMAIN in' : in'[i] # Event("remove", p)
                    /\ \A i \in DOMAIN events' : events'[i] # Event("remove", p)
  <2>1. events = <<>> /\ \A i \in DOMAIN in : in[i].kind \in {"result", "error"}
    BY Zenon, <1>5 DEF NotListening
  <2>2. events' = events /\ DOMAIN events = {}
    BY <1>1, <1>5, <2>1
  <2>3. \A i \in DOMAIN in : in[i].kind # "remove"
    BY <2>1
  <2> QED BY Zenon, <1>1, <2>2, <2>3, EventIs
<1> HIDE DEF e
<1>6. ASSUME NEW p \in Obj, bus'[p] # None, listening = TRUE
      PROVE  /\ \A i \in DOMAIN in' : in'[i] = Event("remove", p) => Coming(Event("add", p), i)'
             /\ \A i \in DOMAIN events' : events'[i] = Event("remove", p) =>
                   \E j \in DOMAIN events' : j > i /\ events'[j] = Event("add", p)
  <2>1. CASE p = o
    <3>1. sig # None /\ e = Event("add", p)
      BY <1>0, <1>1, <1>6, <2>1 DEF e
    <3>2. /\ Len(events) + 1 \in DOMAIN events' /\ events'[Len(events) + 1] = Event("add", p)
      BY <1>0, <1>4, <1>6, <3>1
    <3>3. \A i : Coming(Event("add", p), i)'
      BY Zenon, <3>2 DEF Coming, Event
    <3>4. ASSUME NEW i \in DOMAIN events', events'[i] = Event("remove", p) PROVE Len(events) + 1 > i
      <4>1. i # Len(events) + 1
        <5> SUFFICES ASSUME i = Len(events) + 1 PROVE FALSE
          OBVIOUS
        <5>1. Event("remove", p) = Event("add", p)
          BY Zenon, <3>2, <3>4
        <5>2. Event("add", p) # Event("remove", p)
          BY EventIs
        <5> QED BY <5>1, <5>2
      <4> QED BY <1>0, <1>4, <1>6, <4>1
    <3> QED BY Zenon, <3>2, <3>3, <3>4
  <2>2. CASE p # o
    <3>1. bus[p] # None
      BY <1>0, <1>1, <1>6, <2>2
    <3>2. e # Event("remove", p)
      <4>1. Event("remove", p).obj = p
        BY EventIs
      <4> QED BY <1>2, <2>2, <4>1
    <3>3. ASSUME NEW i \in DOMAIN in', in'[i] = Event("remove", p) PROVE Coming(Event("add", p), i)'
      <4>1. i \in 0..Len(in) /\ Coming(Event("add", p), i)
        <5>1. i \in DOMAIN in /\ i \in 0..Len(in)
          BY <1>0, <1>1, <3>3
        <5> QED BY Zenon, <1>1, <3>1, <3>3, <5>1 DEF AddedAfter
      <4> QED BY Zenon, <1>3, <4>1 DEF Grown
    <3>4. ASSUME NEW i \in DOMAIN events', events'[i] = Event("remove", p)
          PROVE  \E j \in DOMAIN events' : j > i /\ events'[j] = Event("add", p)
      <4>1. i \in DOMAIN events
        <5>1. i # Len(events) + 1
          BY Zenon, <1>4, <1>6, <3>2, <3>4
        <5> QED BY <1>0, <1>4, <1>6, <5>1
      <4>2. events[i] = Event("remove", p)
        BY Zenon, <1>4, <1>6, <3>4, <4>1
      <4>3. PICK j \in DOMAIN events : j > i /\ events[j] = Event("add", p)
        BY Zenon, <3>1, <4>1, <4>2 DEF AddedAfter
      <4> QED BY Zenon, <1>4, <1>6, <4>3
    <3> QED BY Zenon, <3>3, <3>4
  <2> QED BY <2>1, <2>2
<1> QED BY Zenon, <1>0, <1>5, <1>6 DEF AddedAfter, Event

\* The ids are numbers that were counted.
LEMMA IdsBelow ==
    ASSUME SessionInv, IdsCounted
    PROVE  /\ \A i \in DOMAIN out : out[i].id \in Nat /\ out[i].id <= call_id
           /\ \A i \in DOMAIN in : in[i].kind = "result" => in[i].id \in Nat /\ in[i].id <= call_id
           /\ \A id \in serving : id \in Nat /\ id <= call_id
<1>1. out \in Seq(Requests) /\ in \in Seq(Message) /\ serving \subseteq Nat
  BY Zenon, StreamTypes
<1>2. (\A i \in DOMAIN out : out[i] \in Requests) /\ \A i \in DOMAIN in : in[i] \in Message
  BY <1>1
<1>3. \A r \in Requests : r.id \in Nat
  BY DEF Requests
<1>4. \A m \in Message : m.kind = "result" => m.id \in Nat
  BY DEF Message, Events
<1> QED BY Zenon, <1>1, <1>2, <1>3, <1>4 DEF IdsCounted

\* Nothing is under way before a session, and after it.
LEMMA EstablishedStream ==
    ASSUME SessionInv, Established
    PROVE  StreamInv'
<1>1. /\ open = FALSE /\ UNCHANGED <<stubs, in, bus, listening, events, serving>>
      /\ out = <<>> /\ stubs = Nothing
      /\ in = <<>> /\ events = <<>> /\ listening = FALSE /\ serving = {} /\ call_id = 0
  BY Zenon DEF SessionInv, ClosedClean, Established, remoteVars
<1>2. DOMAIN in' = {} /\ DOMAIN events' = {} /\ serving' = {} /\ stubs' = Nothing /\ events' = <<>>
  BY <1>1
<1>3. AddedAfter'
  BY Zenon, <1>2 DEF AddedAfter
<1>4. \/ /\ out' = <<[method |-> "login", id |-> 1]>> /\ call_id' = 1
         /\ waiting' = [NoWait EXCEPT !.login = TRUE]
      \/ /\ out' = <<[method |-> "listen", id |-> 1]>> /\ call_id' = 1
         /\ waiting' = [NoWait EXCEPT !.listen = TRUE]
      \/ out' = <<>>
  BY <1>1 DEF Established, Request
<1>5. \A i \in DOMAIN out' :
        /\ out'[i].method \in {"login", "listen"} /\ out'[i].id <= call_id'
        /\ out'[i].method = "login" => waiting'.login = TRUE
        /\ out'[i].method = "listen" => waiting'.listen = TRUE
  BY <1>4 DEF NoWait
<1>6. NotListening' /\ HandshakeAsked' /\ IdsCounted'
  BY Zenon, <1>2, <1>5 DEF NotListening, HandshakeAsked, IdsCounted
<1> QED BY Zenon, <1>3, <1>6 DEF StreamInv

\* CLIENT_CLOSED.
LEMMA ClosedStream ==
    ASSUME Closed
    PROVE  StreamInv'
<1>1. /\ stubs' = Nothing /\ out' = <<>> /\ in' = <<>>
      /\ listening' = FALSE /\ events' = <<>> /\ serving' = {}
  BY Zenon DEF Closed
<1>2. DOMAIN in' = {} /\ DOMAIN events' = {} /\ DOMAIN out' = {}
  BY <1>1
<1> QED BY Zenon, <1>1, <1>2 DEF StreamInv, NotListening, HandshakeAsked, IdsCounted, AddedAfter

\* A call is made through a stub, so that there is a subscription.
LEMMA LocalCallStream ==
    ASSUME SessionInv, StreamInv, NEW c \in Caller, NEW o \in Obj, wsu_local_stub_handle_call(c, o)
    PROVE  StreamInv'
<1>1. /\ stubs[o] # None /\ UNCHANGED <<waiting, stubs, in, bus, listening, events, serving>>
      /\ call_id' = call_id + 1
      /\ out' \in {out, Append(out, [method |-> "call", id |-> call_id'])}
  BY Zenon DEF wsu_local_stub_handle_call, Request, remoteVars
<1>2. listening' = TRUE
  BY <1>1, StreamTypes DEF StreamInv, NotListening, Nothing
<1>3. /\ out \in Seq(Requests) /\ Len(out) \in Nat /\ DOMAIN out = 1..Len(out)
      /\ in \in Seq(Message) /\ call_id \in Nat /\ serving \subseteq Nat
  BY Zenon, StreamTypes
<1>4. \A i \in DOMAIN out : out[i].id \in Nat /\ out[i].id <= call_id
  BY Zenon, IdsBelow DEF StreamInv
<1>5. \A i \in DOMAIN out' : /\ out'[i].id <= call_id'
                             /\ (i \in DOMAIN out /\ out'[i] = out[i]) \/ out'[i].method = "call"
  <2>1. call_id' = call_id + 1 /\ call_id' \in Nat
    BY <1>1, <1>3
  <2>2. \A i \in DOMAIN out : out[i].id <= call_id'
    BY <1>3, <1>4, <2>1
  <2>3. CASE out' = out
    BY <2>2, <2>3
  <2>4. CASE out' = Append(out, [method |-> "call", id |-> call_id'])
    <3> DEFINE q == [method |-> "call", id |-> call_id']
    <3>1. q.method = "call" /\ q.id <= call_id'
      BY <2>1
    <3> HIDE DEF q
    <3>2. out' = Append(out, q)
      BY Zenon, <2>4 DEF q
    <3>3. \A i \in DOMAIN out' : (i \in DOMAIN out /\ out'[i] = out[i]) \/ out'[i] = q
      BY <1>3, <3>2
    <3> QED BY <2>2, <3>1, <3>3, Zenon
  <2> QED BY <1>1, <2>3, <2>4
<1>6. HandshakeAsked'
  BY <1>1, <1>5 DEF StreamInv, HandshakeAsked
<1>7. \A i \in DOMAIN in : in[i].kind = "result" => in[i].id \in Nat /\ in[i].id <= call_id
  BY Zenon, IdsBelow DEF StreamInv
<1>8. \A id \in serving : id \in Nat /\ id <= call_id
  BY Zenon, IdsBelow DEF StreamInv
<1>9. IdsCounted'
  BY <1>1, <1>3, <1>5, <1>7, <1>8 DEF IdsCounted
<1>10. AddedAfter'
  BY Zenon, <1>1 DEF StreamInv, AddedAfter, Coming, Event
<1> QED BY <1>2, <1>6, <1>9, <1>10 DEF StreamInv, NotListening

\* A request comes behind the others.
LEMMA AskAppends ==
    ASSUME SessionInv, NEW m \in {"listen", "list"}, Ask(m)
    PROVE  \A i \in DOMAIN out' :
              (i \in DOMAIN out /\ out'[i] = out[i]) \/ out'[i] = [method |-> m, id |-> call_id']
<1> DEFINE q == [method |-> m, id |-> call_id']
<1>1. out' = Append(out, q)
  BY Zenon, AskKeeps
<1>2. out \in Seq(Requests) /\ Len(out) \in Nat /\ DOMAIN out = 1..Len(out)
  BY Zenon, StreamTypes
<1> HIDE DEF q
<1>3. \A i \in DOMAIN out' : (i \in DOMAIN out /\ out'[i] = out[i]) \/ out'[i] = q
  BY <1>1, <1>2
<1> QED BY Zenon, <1>3 DEF q

\* What remains to be shown of a received message.
LEMMA ReceiveStream ==
    ASSUME SessionInv, StreamInv, NEW kind, Receive(kind), NotListening', HandshakeAsked',
           \/ UNCHANGED <<call_id, out>>
           \/ \E m \in {"listen", "list"} : Ask(m)
    PROVE  StreamInv'
<1>1. Popped /\ UNCHANGED <<bus, serving>>
  BY Zenon, ReceivePops DEF remoteVars
<1>2. /\ out \in Seq(Requests) /\ Len(out) \in Nat /\ DOMAIN out = 1..Len(out)
      /\ in \in Seq(Message) /\ call_id \in Nat /\ serving \subseteq Nat
  BY Zenon, StreamTypes
<1>3. \A i \in DOMAIN out : out[i].id \in Nat /\ out[i].id <= call_id
  BY Zenon, IdsBelow DEF StreamInv
<1>4. \A i \in DOMAIN in : in[i].kind = "result" => in[i].id \in Nat /\ in[i].id <= call_id
  BY Zenon, IdsBelow DEF StreamInv
<1>5. \A id \in serving : id \in Nat /\ id <= call_id
  BY Zenon, IdsBelow DEF StreamInv
<1>6. /\ call_id' \in Nat /\ call_id <= call_id'
      /\ \A i \in DOMAIN out' : out'[i].id <= call_id'
  <2>1. CASE UNCHANGED <<call_id, out>>
    BY <1>2, <1>3, <2>1
  <2>2. ASSUME NEW m \in {"listen", "list"}, Ask(m)
        PROVE  /\ call_id' \in Nat /\ call_id <= call_id'
               /\ \A i \in DOMAIN out' : out'[i].id <= call_id'
    <3> DEFINE q == [method |-> m, id |-> call_id']
    <3>1. call_id' = call_id + 1
      BY Zenon, <2>2, AskKeeps
    <3>2. q.id = call_id'
      OBVIOUS
    <3>4. \A i \in DOMAIN out' : (i \in DOMAIN out /\ out'[i] = out[i]) \/ out'[i] = q
      BY Zenon, <2>2, AskAppends
    <3> HIDE DEF q
    <3>5. call_id' \in Nat /\ call_id <= call_id' /\ \A i \in Nat : i <= call_id => i <= call_id'
      BY <1>2, <3>1
    <3>6. call_id' <= call_id'
      BY <3>5
    <3> QED BY Zenon, <1>3, <3>2, <3>4, <3>5, <3>6
  <2> QED BY Zenon, <2>1, <2>2
<1>7. IdsCounted'
  <2>1. ASSUME NEW i \in DOMAIN in', in'[i].kind = "result" PROVE in'[i].id <= call_id'
    <3>1. in'[i].id \in Nat /\ in'[i].id <= call_id
      BY Zenon, <1>1, <1>4, <2>1 DEF Popped
    <3> QED BY <1>2, <1>6, <3>1
  <2>2. ASSUME NEW id \in serving' PROVE id <= call_id'
    <3>1. id \in Nat /\ id <= call_id
      BY Zenon, <1>1, <1>5, <2>2
    <3> QED BY <1>2, <1>6, <3>1
  <2> QED BY Zenon, <1>6, <2>1, <2>2 DEF IdsCounted
<1>8. AddedAfter'
  BY Zenon, <1>1, PopAdded DEF StreamInv
<1> QED BY Zenon, <1>7, <1>8 DEF StreamInv

\* A result that is not that of the login, and an event, come with a subscription.
LEMMA ReceiveListens ==
    ASSUME SessionInv, StreamInv, NEW kind, Receive(kind), kind = "result" => waiting.login # TRUE,
           kind \in {"result", "add", "remove"}
    PROVE  listening = TRUE /\ listening' = TRUE
<1>1. in[1].kind = kind /\ 1 \in DOMAIN in /\ listening' = listening
  BY Zenon, ReceivePops DEF remoteVars, Popped
<1>2. ASSUME listening = FALSE PROVE FALSE
  BY Zenon, <1>1, <1>2 DEF StreamInv, NotListening
<1> QED BY Zenon, <1>1, <1>2, StreamTypes

\* Each message.
LEMMA ReceivesStream ==
    ASSUME SessionInv, StreamInv,
           \/ ReceiveLogin \/ ReceiveListen \/ ReceiveList \/ ReceiveCall \/ ReceiveIgnored
           \/ ReceiveError \/ ReceiveAdd \/ ReceiveRemove
    PROVE  StreamInv'
<1>0. waiting \in [login : BOOLEAN, listen : BOOLEAN, list_id : Nat]
  BY WaitingType
<1>1. CASE ReceiveLogin
  <2>1. /\ Receive("result") /\ waiting.login = TRUE /\ Ask("listen") /\ UNCHANGED stubs
        /\ waiting' = [waiting EXCEPT !.login = FALSE, !.listen = TRUE]
    BY <1>0, <1>1 DEF ReceiveLogin
  <2>2. waiting'.listen = TRUE
    BY <1>0, <2>1
  <2>3. Answered
    BY Zenon, <2>1, ResultInHandshake DEF Handshake
  <2>4. /\ UNCHANGED <<listening, events, serving>> /\ out = <<>> /\ Len(in) = 1
        /\ in' \in Seq(Message) /\ Len(in') = Len(in) - 1
    BY Zenon, <2>1, <2>3, Received DEF Answered, remoteVars
  <2>5. out' = <<[method |-> "listen", id |-> call_id']>>
    BY <2>1, <2>4, AskKeeps
  <2>6. DOMAIN in' = {}
    BY <2>4
  <2>7. \A i \in DOMAIN out' : out'[i].method = "listen"
    BY <2>5
  <2>8. HandshakeAsked'
    BY <2>2, <2>7 DEF HandshakeAsked
  <2>9. NotListening'
    BY Zenon, <2>1, <2>4, <2>6, <2>7 DEF StreamInv, NotListening
  <2> QED BY Zenon, <2>1, <2>8, <2>9, ReceiveStream
<1>2. CASE ReceiveListen
  <2>1. Receive("result") /\ waiting.login # TRUE /\ waiting.listen = TRUE /\ Ask("list")
    BY Zenon, <1>0, <1>2 DEF ReceiveListen
  <2>2. out = <<>>
    BY Zenon, <2>1, ResultInHandshake DEF Handshake, Answered
  <2>3. out' = <<[method |-> "list", id |-> call_id']>>
    BY <2>1, <2>2, AskKeeps
  <2>4. HandshakeAsked'
    BY <2>3 DEF HandshakeAsked
  <2>5. NotListening'
    BY Zenon, <2>1, ReceiveListens DEF NotListening
  <2> QED BY Zenon, <2>1, <2>4, <2>5, ReceiveStream
<1>3. CASE ReceiveAdd
  <2>1. Receive("add") /\ Ask("list") /\ waiting' = [waiting EXCEPT !.list_id = call_id']
    BY <1>3 DEF ReceiveAdd
  <2>2. waiting'.login = waiting.login /\ waiting'.listen = waiting.listen
    BY <1>0, <2>1
  <2>3. \A i \in DOMAIN out' :
           (i \in DOMAIN out /\ out'[i] = out[i]) \/ out'[i] = [method |-> "list", id |-> call_id']
    BY <2>1, AskAppends
  <2>4. \A i \in DOMAIN out' : (i \in DOMAIN out /\ out'[i] = out[i]) \/ out'[i].method = "list"
    BY <2>3
  <2>5. HandshakeAsked'
    BY <2>2, <2>4 DEF StreamInv, HandshakeAsked
  <2>6. NotListening'
    BY Zenon, <2>1, ReceiveListens DEF NotListening
  <2> QED BY Zenon, <2>1, <2>5, <2>6, ReceiveStream
<1>4. CASE ReceiveList \/ ReceiveCall \/ ReceiveRemove
  <2>1. PICK kind \in {"result", "remove"} : Receive(kind) /\ (kind = "result" => waiting.login # TRUE)
    BY Zenon, <1>4 DEF ReceiveList, ReceiveCall, ReceiveRemove, IsOther
  <2>2. UNCHANGED <<call_id, out>> /\ waiting' \in {waiting, [waiting EXCEPT !.list_id = 0]}
    BY <1>4 DEF ReceiveList, ReceiveCall, ReceiveRemove
  <2>3. waiting'.login = waiting.login /\ waiting'.listen = waiting.listen
    BY <1>0, <2>2
  <2>4. HandshakeAsked'
    BY <2>2, <2>3 DEF StreamInv, HandshakeAsked
  <2>5. NotListening'
    BY Zenon, <2>1, ReceiveListens DEF NotListening
  <2> QED BY Zenon, <2>1, <2>2, <2>4, <2>5, ReceiveStream
<1>5. CASE ReceiveIgnored \/ ReceiveError
  <2>1. PICK kind \in {"result", "error"} : Receive(kind)
    BY <1>5 DEF ReceiveIgnored, ReceiveError
  <2>2. UNCHANGED <<waiting, call_id, stubs, out>>
    BY <1>5 DEF ReceiveIgnored, ReceiveError
  <2>3. Popped /\ UNCHANGED <<listening, events, serving>>
    BY Zenon, <2>1, ReceivePops DEF remoteVars
  <2>4. HandshakeAsked'
    BY <2>2 DEF StreamInv, HandshakeAsked
  <2>5. NotListening'
    BY Zenon, <2>2, <2>3 DEF StreamInv, NotListening, Popped
  <2> QED BY Zenon, <2>1, <2>2, <2>4, <2>5, ReceiveStream
<1> QED BY <1>1, <1>2, <1>3, <1>4, <1>5

\* What an answer of the remote owsd to a request, if there is one, says.
Said ==
    /\ Grown /\ UNCHANGED <<waiting, call_id, stubs, wild, bus, events>>
    /\ \A i \in DOMAIN out' : \E j \in DOMAIN out : out'[i] = out[j]
    /\ \A id \in serving' : id <= call_id /\ (id \in serving \/ listening = TRUE)
    /\ Len(in) + 1 \in DOMAIN in' =>
          LET m == in'[Len(in) + 1]
          IN  /\ m.kind \in {"result", "error"}
              /\ m.kind = "result" => m.id <= call_id
              /\ Snapshot(m) => m.objs = bus
              /\ m.kind = "result" /\ listening' = FALSE => waiting.login = TRUE /\ m.body # "objects"
    /\ listening' = listening \/ (listening' = TRUE /\ waiting.listen = TRUE)

\* The fields of a result and of an error.
LEMMA MessageIs ==
    /\ \A id, ok, b, l : LET m == Result(id, ok, b, l)
                         IN  m.kind = "result" /\ m.id = id /\ m.ok = ok /\ m.body = b /\ m.objs = l
    /\ \A id : Error(id).kind = "error"
    /\ \A id \in Nat, b \in {"session", "objects", "data"}, l \in Objects : Result(id, TRUE, b, l) \in Message
    /\ \A id \in Nat : Error(id) \in Message
    /\ Nothing \in Objects
BY DEF Result, Error, Message, Nothing, Objects

\* A request is taken.
LEMMA TakesSays ==
    ASSUME SessionInv, StreamInv, RemoteTakes
    PROVE  Said
<1> DEFINE r == Head(out)
<1>1. /\ UNCHANGED <<waiting, call_id, stubs, wild, bus, events>> /\ out # <<>> /\ out' = Tail(out)
      /\ \/ /\ r.method = "login" /\ in' = Append(in, Result(r.id, TRUE, "session", Nothing))
            /\ UNCHANGED <<listening, serving>>
         \/ /\ r.method = "listen" /\ in' = Append(in, Result(r.id, TRUE, "data", Nothing))
            /\ listening' = TRUE /\ UNCHANGED serving
         \/ /\ r.method = "list" /\ in' = Append(in, Result(r.id, TRUE, "objects", bus))
            /\ UNCHANGED <<listening, serving>>
         \/ /\ r.method # "call" /\ in' = Append(in, Error(r.id))
            /\ UNCHANGED <<listening, serving>>
         \/ r.method = "call" /\ serving' = serving \cup {r.id} /\ UNCHANGED <<in, listening>>
  BY Zenon DEF RemoteTakes, Remote, peerVars
<1>2. /\ out \in Seq(Requests) /\ Len(out) \in Nat /\ DOMAIN out = 1..Len(out)
      /\ in \in Seq(Message) /\ Len(in) \in Nat /\ DOMAIN in = 1..Len(in)
      /\ bus \in Objects /\ listening \in BOOLEAN
  BY Zenon, StreamTypes
<1>3. r = out[1] /\ 1 \in DOMAIN out /\ \A i \in DOMAIN out' : \E j \in DOMAIN out : out'[i] = out[j]
  <2>1. r = out[1] /\ 1 \in DOMAIN out /\ out' \in Seq(Requests) /\ Len(out') = Len(out) - 1
        /\ \A i \in 1..(Len(out) - 1) : out'[i] = out[i + 1]
    BY <1>1, <1>2
  <2>2. \A i \in DOMAIN out' : i + 1 \in DOMAIN out /\ out'[i] = out[i + 1]
    BY <1>2, <2>1
  <2> QED BY Zenon, <2>1, <2>2
<1>4. /\ r.id \in Nat /\ r.id <= call_id
      /\ r.method = "login" => waiting.login = TRUE
      /\ r.method = "listen" => waiting.listen = TRUE
      /\ listening = FALSE => r.method \in {"login", "listen"}
  BY Zenon, <1>3, IdsBelow DEF StreamInv, HandshakeAsked, NotListening
<1> HIDE DEF r
<1>5. \A id \in serving : id <= call_id
  BY Zenon DEF StreamInv, IdsCounted
<1>6. ASSUME NEW m \in Message, in' = Append(in, m), UNCHANGED serving,
             /\ m.kind \in {"result", "error"}
             /\ m.kind = "result" => m.id <= call_id
             /\ Snapshot(m) => m.objs = bus
             /\ m.kind = "result" /\ listening' = FALSE => waiting.login = TRUE /\ m.body # "objects",
             listening' = listening \/ (listening' = TRUE /\ waiting.listen = TRUE)
      PROVE  Said
  <2>1. Grown /\ in'[Len(in) + 1] = m
    BY Zenon, <1>1, <1>6, AppendGrows
  <2>2. \A id \in serving' : id <= call_id /\ (id \in serving \/ listening = TRUE)
    BY Zenon, <1>5, <1>6
  <2>3. Len(in) + 1 \in DOMAIN in' =>
          /\ in'[Len(in) + 1].kind \in {"result", "error"}
          /\ in'[Len(in) + 1].kind = "result" => in'[Len(in) + 1].id <= call_id
          /\ Snapshot(in'[Len(in) + 1]) => in'[Len(in) + 1].objs = bus
          /\ in'[Len(in) + 1].kind = "result" /\ listening' = FALSE =>
               waiting.login = TRUE /\ in'[Len(in) + 1].body # "objects"
    BY Zenon, <1>6, <2>1
  <2> QED BY Zenon, <1>1, <1>3, <1>6, <2>1, <2>2, <2>3 DEF Said
<1>7. CASE r.method = "call" /\ serving' = serving \cup {r.id} /\ UNCHANGED <<in, listening>>
  <2>1. listening = TRUE
    BY <1>2, <1>4, <1>7
  <2>2. Len(in) + 1 \notin DOMAIN in'
    BY <1>2, <1>7
  <2>3. Grown
    BY Zenon, <1>1, <1>7 DEF Grown, Coming
  <2>4. \A id \in serving' : id <= call_id /\ (id \in serving \/ listening = TRUE)
    BY Zenon, <1>4, <1>5, <1>7, <2>1
  <2> QED BY Zenon, <1>1, <1>3, <1>7, <2>2, <2>3, <2>4 DEF Said
<1>8. CASE /\ r.method # "call" /\ in' = Append(in, Error(r.id))
           /\ UNCHANGED <<listening, serving>>
  <2> DEFINE m == Error(r.id)
  <2>1. m \in Message /\ m.kind = "error"
    BY Zenon, <1>4, MessageIs
  <2> HIDE DEF m
  <2>2. in' = Append(in, m)
    BY <1>8 DEF m
  <2>3. m.kind # "result" /\ m.kind \in {"result", "error"}
    BY <2>1
  <2> QED BY Zenon, <1>6, <1>8, <2>1, <2>2, <2>3 DEF Snapshot
<1>9. ASSUME NEW b \in {"session", "objects", "data"}, NEW l \in Objects,
             in' = Append(in, Result(r.id, TRUE, b, l)), UNCHANGED serving,
             b = "objects" => l = bus,
             listening' = FALSE => waiting.login = TRUE /\ b # "objects",
             listening' = listening \/ (listening' = TRUE /\ waiting.listen = TRUE)
      PROVE  Said
  <2> DEFINE m == Result(r.id, TRUE, b, l)
  <2>1. m \in Message /\ m.kind = "result" /\ m.id = r.id /\ m.body = b /\ m.objs = l
    <3>1. m \in Message
      BY Zenon, <1>4, MessageIs
    <3> QED BY <3>1 DEF Result
  <2>2. in' = Append(in, m)
    BY Zenon, <1>9
  <2> HIDE DEF m
  <2>3. /\ m.kind \in {"result", "error"} /\ m.id <= call_id /\ (Snapshot(m) => m.objs = bus)
        /\ listening' = FALSE => waiting.login = TRUE /\ m.body # "objects"
    BY Zenon, <1>4, <1>9, <2>1 DEF Snapshot
  <2> QED BY Zenon, <1>6, <1>9, <2>1, <2>2, <2>3
<1>10. CASE /\ r.method = "login" /\ in' = Append(in, Result(r.id, TRUE, "session", Nothing))
            /\ UNCHANGED <<listening, serving>>
  BY Zenon, <1>4, <1>9, <1>10, MessageIs
<1>11. CASE /\ r.method = "listen" /\ in' = Append(in, Result(r.id, TRUE, "data", Nothing))
            /\ listening' = TRUE /\ UNCHANGED serving
  BY Zenon, <1>4, <1>9, <1>11, MessageIs
<1>12. CASE /\ r.method = "list" /\ in' = Append(in, Result(r.id, TRUE, "objects", bus))
            /\ UNCHANGED <<listening, serving>>
  <2>1. listening' # FALSE
    BY Zenon, <1>4, <1>12
  <2> QED BY Zenon, <1>2, <1>9, <1>12, <2>1
<1> QED BY Zenon, <1>1, <1>7, <1>8, <1>10, <1>11, <1>12

\* A call ends.
LEMMA RepliesSays ==
    ASSUME SessionInv, StreamInv, NEW id \in serving, RemoteReplies(id)
    PROVE  Said
<1>1. /\ UNCHANGED <<waiting, call_id, stubs, wild, out, bus, events, listening>>
      /\ serving' = serving \ {id}
      /\ in' \in {Append(in, Result(id, TRUE, "data", Nothing)), Append(in, Error(id)), in}
  BY Zenon DEF RemoteReplies, Remote, peerVars
<1>2. Len(in) \in Nat /\ DOMAIN in = 1..Len(in) /\ listening \in BOOLEAN
  BY Zenon, StreamTypes
<1>3. id \in Nat /\ id <= call_id /\ \A x \in serving' : x <= call_id /\ x \in serving
  BY Zenon, <1>1, IdsBelow DEF StreamInv
<1>4. listening' # FALSE
  BY Zenon, <1>1 DEF StreamInv, NotListening
<1>5. ASSUME NEW m \in Message, in' = Append(in, m), m.kind \in {"result", "error"},
             m.kind = "result" => m.id = id /\ m.body = "data"
      PROVE  Said
  <2>1. Grown /\ in'[Len(in) + 1] = m
    BY Zenon, <1>1, <1>5, AppendGrows
  <2>2. ~Snapshot(m)
    BY <1>5 DEF Snapshot
  <2> QED BY Zenon, <1>1, <1>3, <1>4, <1>5, <2>1, <2>2 DEF Said
<1>6. CASE in' = in
  <2>1. Len(in) + 1 \notin DOMAIN in'
    BY <1>2, <1>6
  <2>2. Grown
    BY Zenon, <1>1, <1>6 DEF Grown, Coming
  <2> QED BY Zenon, <1>1, <1>3, <2>1, <2>2 DEF Said
<1>7. CASE in' = Append(in, Result(id, TRUE, "data", Nothing))
  <2> DEFINE m == Result(id, TRUE, "data", Nothing)
  <2>1. m \in Message /\ m.kind = "result" /\ m.id = id /\ m.body = "data"
    <3>1. m \in Message
      BY Zenon, <1>3, MessageIs
    <3> QED BY <3>1 DEF Result
  <2> HIDE DEF m
  <2>2. in' = Append(in, m)
    BY <1>7 DEF m
  <2> QED BY <1>5, <2>1, <2>2
<1>8. CASE in' = Append(in, Error(id))
  <2> DEFINE m == Error(id)
  <2>1. m \in Message /\ m.kind = "error"
    BY <1>3, MessageIs
  <2> HIDE DEF m
  <2> QED BY <1>5, <1>8, <2>1 DEF m
<1> QED BY Zenon, <1>1, <1>6, <1>7, <1>8

\* An answer keeps what is said of both ways.
LEMMA SaidStream ==
    ASSUME SessionInv, StreamInv, Said
    PROVE  StreamInv'
<1>1. /\ Grown /\ UNCHANGED <<waiting, call_id, stubs, bus, events>>
      /\ \A i \in DOMAIN out' : \E j \in DOMAIN out : out'[i] = out[j]
      /\ \A id \in serving' : id <= call_id /\ (id \in serving \/ listening = TRUE)
      /\ Len(in) + 1 \in DOMAIN in' =>
            /\ in'[Len(in) + 1].kind \in {"result", "error"}
            /\ in'[Len(in) + 1].kind = "result" => in'[Len(in) + 1].id <= call_id
            /\ in'[Len(in) + 1].kind = "result" /\ listening' = FALSE =>
                 waiting.login = TRUE /\ in'[Len(in) + 1].body # "objects"
      /\ listening' = listening \/ listening' = TRUE
  BY Zenon DEF Said
<1>2. AddedAfter'
  <2>1. Len(in) + 1 \in DOMAIN in' => in'[Len(in) + 1].kind # "remove"
    BY <1>1
  <2> QED BY Zenon, <1>1, <2>1, AppendAdded DEF StreamInv
<1>3. HandshakeAsked'
  BY Zenon, <1>1 DEF StreamInv, HandshakeAsked
<1>4. IdsCounted'
  BY Zenon, <1>1 DEF StreamInv, IdsCounted, Grown
<1>5. NotListening'
  <2> SUFFICES ASSUME listening' = FALSE PROVE NotListening'
    BY Zenon DEF NotListening
  <2>1. listening = FALSE
    BY <1>1
  <2>2. /\ stubs = Nothing /\ events = <<>> /\ serving = {}
        /\ \A i \in DOMAIN out : out[i].method \in {"login", "listen"}
        /\ \A i \in DOMAIN in : /\ in[i].kind \in {"result", "error"}
                                /\ in[i].kind = "result" => waiting.login = TRUE /\ in[i].body # "objects"
    BY Zenon, <2>1 DEF StreamInv, NotListening
  <2>3. serving' = {}
    BY <1>1, <2>1, <2>2
  <2>4. \A i \in DOMAIN out' : out'[i].method \in {"login", "listen"}
    BY Zenon, <1>1, <2>2
  <2>5. \A i \in DOMAIN in' : /\ in'[i].kind \in {"result", "error"}
                              /\ in'[i].kind = "result" => waiting.login = TRUE /\ in'[i].body # "objects"
    BY Zenon, <1>1, <2>2 DEF Grown
  <2> QED BY Zenon, <1>1, <2>2, <2>3, <2>4, <2>5 DEF NotListening
<1> QED BY Zenon, <1>2, <1>3, <1>4, <1>5 DEF StreamInv

\* So does an event that is sent.
LEMMA EventStream ==
    ASSUME SessionInv, StreamInv, RemoteEvent
    PROVE  StreamInv'
<1>1. /\ Grown /\ Len(events) > 0 /\ in'[Len(in) + 1] = events[1] /\ events[1] \in Events
      /\ UNCHANGED <<waiting, call_id, stubs, bus, out, listening, serving>>
  BY Zenon, EventGrows DEF RemoteEvent, peerVars
<1>2. in'[Len(in) + 1].kind # "result"
  BY <1>1 DEF Events
<1>3. AddedAfter'
  BY Zenon, EventAdded DEF StreamInv
<1>4. listening' # FALSE
  <2>1. events # <<>>
    BY <1>1
  <2> QED BY Zenon, <1>1, <2>1 DEF StreamInv, NotListening
<1>5. IdsCounted'
  BY Zenon, <1>1, <1>2 DEF StreamInv, IdsCounted, Grown
<1> QED BY Zenon, <1>1, <1>3, <1>4, <1>5 DEF StreamInv, NotListening, HandshakeAsked

\* And a change of the bus.
LEMMA ChangeStream ==
    ASSUME SessionInv, StreamInv, NEW o \in Obj, NEW sig \in Sig \cup {None}, RemoteChanges(o, sig)
    PROVE  StreamInv'
<1>1. /\ UNCHANGED <<waiting, call_id, stubs, out, in, listening, serving>>
      /\ listening = FALSE => events' = events
  BY Zenon DEF RemoteChanges, peerVars
<1>2. AddedAfter'
  BY Zenon, ChangeAdded DEF StreamInv
<1>3. NotListening' /\ HandshakeAsked' /\ IdsCounted'
  BY Zenon, <1>1 DEF StreamInv, NotListening, HandshakeAsked, IdsCounted
<1> QED BY Zenon, <1>2, <1>3 DEF StreamInv

\* Every step keeps it.
LEMMA StreamNext == SessionInv /\ StreamInv /\ [Next]_vars => StreamInv'
<1> SUFFICES ASSUME SessionInv, StreamInv, [Next]_vars PROVE StreamInv'
  OBVIOUS
<1>1. CASE UNCHANGED vars
  <2>1. /\ UNCHANGED <<waiting, call_id, stubs>>
        /\ UNCHANGED <<out, in, bus, events, listening, serving>>
    BY <1>1 DEF vars, peerVars, remoteVars
  <2>2. NotListening' /\ HandshakeAsked' /\ IdsCounted'
    BY Zenon, <2>1 DEF StreamInv, NotListening, HandshakeAsked, IdsCounted
  <2>3. AddedAfter'
    BY Zenon, <2>1 DEF StreamInv, AddedAfter, Coming, Event
  <2> QED BY Zenon, <2>2, <2>3 DEF StreamInv
<1>2. CASE Next
  BY <1>2, Zenon, EstablishedStream, ClosedStream, LocalCallStream, ReceivesStream, TakesSays, RepliesSays,
     SaidStream, EventStream, ChangeStream DEF Next
<1> QED BY <1>1, <1>2

-----------------------------------------------------------------------------
(* The stubs *)

\* A list that comes has what is on the bus, and any other message changes nothing.
LEMMA GrownStubs ==
    ASSUME SessionInv, StubsInv, Grown, UNCHANGED <<waiting, stubs, wild, bus>>,
           listening' = listening \/ Handshake,
           Len(in) + 1 \in DOMAIN in' /\ Snapshot(in'[Len(in) + 1]) => in'[Len(in) + 1].objs = bus
    PROVE  StubsInv'
<1>0. Len(in) \in Nat /\ DOMAIN in = 1..Len(in)
  BY Zenon, StreamTypes
<1>1. 0 \in 0..Len(in) /\ \A i \in DOMAIN in : i \in 0..Len(in)
  BY <1>0
<1> SUFFICES ASSUME wild = FALSE PROVE StubsMatch' /\ RemovedAfter' /\ UpToDate'
  BY Zenon DEF StubsInv
<1>2. StubsMatch /\ RemovedAfter /\ UpToDate
  BY Zenon DEF StubsInv
<1>3. StubsMatch'
  BY Zenon, <1>2 DEF StubsMatch, OnlyMatching
<1>4. ASSUME NEW o \in Obj, bus[o] = None, stubs[o] # None PROVE Coming(Event("remove", o), 0)'
  <2>1. Coming(Event("remove", o), 0)
    BY Zenon, <1>2, <1>4 DEF RemovedAfter
  <2> QED BY Zenon, <1>1, <2>1 DEF Grown
<1>5. ASSUME NEW o \in Obj, bus[o] = None, NEW i \in DOMAIN in', Snapshot(in'[i]), in'[i].objs[o] # None
      PROVE  Coming(Event("remove", o), i)'
  <2>1. i # Len(in) + 1
    BY Zenon, <1>5
  <2>2. i \in DOMAIN in /\ in'[i] = in[i]
    BY Zenon, <1>5, <2>1 DEF Grown
  <2>3. Coming(Event("remove", o), i)
    BY Zenon, <1>2, <1>5, <2>2 DEF RemovedAfter
  <2> QED BY Zenon, <1>1, <2>2, <2>3 DEF Grown
<1>6. RemovedAfter'
  BY Zenon, <1>4, <1>5 DEF RemovedAfter, Event, Snapshot
<1>7. ASSUME listening' = TRUE, ~ListToCome', NEW o \in Matching, bus[o] # None
      PROVE  /\ waiting.list_id = 0 => stubs[o] = bus[o]
             /\ waiting.list_id # 0 =>
                  \A i \in DOMAIN in' : Awaited(in'[i]) => in'[i].objs[o] = bus[o]
  <2>1. ~Handshake /\ listening = TRUE
    BY Zenon, <1>7 DEF ListToCome, Handshake
  <2>2. \A p \in Obj : ~Coming(Event("add", p), 0)
    <3> SUFFICES ASSUME NEW p \in Obj, Coming(Event("add", p), 0) PROVE FALSE
      OBVIOUS
    <3>1. Coming(Event("add", p), 0)'
      BY Zenon, <1>1 DEF Grown
    <3> QED BY Zenon, <1>7, <3>1 DEF ListToCome, Event
  <2>3. CASE waiting.list_id = 0
    BY Zenon, <1>2, <1>7, <2>1, <2>2, <2>3 DEF UpToDate, ListToCome
  <2>4. ASSUME waiting.list_id # 0, NEW i \in DOMAIN in', Awaited(in'[i]) PROVE in'[i].objs[o] = bus[o]
    <3>1. CASE i = Len(in) + 1
      BY Zenon, <2>4, <3>1 DEF Awaited
    <3>2. CASE i # Len(in) + 1
      <4>1. i \in DOMAIN in /\ in'[i] = in[i]
        BY Zenon, <3>2 DEF Grown
      <4>2. Awaited(in[i])
        BY Zenon, <2>4, <4>1
      <4>3. ~ListToCome
        BY Zenon, <2>1, <2>2, <4>1, <4>2 DEF ListToCome
      <4> QED BY Zenon, <1>2, <1>7, <2>1, <2>4, <4>1, <4>2, <4>3 DEF UpToDate
    <3> QED BY <3>1, <3>2
  <2> QED BY Zenon, <2>3, <2>4
<1>8. UpToDate'
  BY Zenon, <1>7 DEF UpToDate, Awaited, Snapshot
<1> QED BY Zenon, <1>3, <1>6, <1>8

\* A session begins and ends without stubs.
LEMMA EmptyStubs ==
    ASSUME StubsInv, UNCHANGED wild, stubs' = Nothing, in' = <<>>, listening' = FALSE
    PROVE  StubsInv'
<1>1. DOMAIN in' = {} /\ \A o \in Obj : Nothing[o] = None
  BY DEF Nothing
<1>2. StubsMatch'
  BY Zenon, <1>1, MessageIs DEF StubsMatch, OnlyMatching
<1>3. RemovedAfter' /\ UpToDate'
  BY <1>1 DEF RemovedAfter, UpToDate
<1> QED BY Zenon, <1>2, <1>3 DEF StubsInv

\* The bus changes: an object that is gone is reported behind all lists that have it, and
\* one that is there is reported, so that a list is still to come.
LEMMA ChangeStubs ==
    ASSUME SessionInv, StreamInv, StubsInv, NEW o \in Obj, NEW sig \in Sig \cup {None},
           RemoteChanges(o, sig)
    PROVE  StubsInv'
<1> DEFINE e == Event(IF sig = None THEN "remove" ELSE "add", o)
<1>0. /\ Len(in) \in Nat /\ DOMAIN in = 1..Len(in) /\ listening \in BOOLEAN
      /\ bus \in [Obj -> Sig \cup {None}] /\ events \in Seq(Events)
  BY Zenon, StreamTypes DEF Objects
<1>1. /\ UNCHANGED <<waiting, stubs, wild, in, listening>>
      /\ bus' = [bus EXCEPT ![o] = sig]
      /\ events' = IF listening THEN Append(events, e) ELSE events
  BY Zenon DEF RemoteChanges, peerVars
<1>2. 0 \in 0..Len(in) /\ \A i \in DOMAIN in : i \in 0..Len(in)
  BY <1>0
<1> SUFFICES ASSUME wild = FALSE PROVE StubsMatch' /\ RemovedAfter' /\ UpToDate'
  BY Zenon, <1>1 DEF StubsInv
<1>3. StubsMatch /\ RemovedAfter /\ UpToDate
  BY Zenon DEF StubsInv
<1>4. StubsMatch'
  BY Zenon, <1>1, <1>3 DEF StubsMatch, OnlyMatching
<1>5. e \in Events
  BY DEF Event, Events
<1> HIDE DEF e
<1>6. Grown /\ (listening = TRUE => \A i : Coming(e, i)')
  <2>1. events' \in {events, Append(events, e)}
    BY Zenon, <1>1
  <2>2. listening = TRUE => events' # events
    <3> SUFFICES ASSUME listening = TRUE PROVE events' # events
      OBVIOUS
    <3>1. Len(events') = Len(events) + 1 /\ Len(events) \in Nat
      BY <1>0, <1>1, <1>5
    <3> QED BY <3>1
  <2> QED BY Zenon, <1>1, <1>5, <2>1, <2>2, ChangeGrows
<1>7. \A p \in Obj : p # o => bus'[p] = bus[p]
  BY <1>0, <1>1
<1>8. bus'[o] = sig
  BY <1>0, <1>1
<1>9. CASE listening = FALSE
  <2>1. /\ stubs = Nothing
        /\ \A i \in DOMAIN in : in[i].kind = "result" => in[i].body # "objects"
    BY Zenon, <1>9 DEF StreamInv, NotListening
  <2>2. \A p \in Obj : stubs'[p] = None
    BY <1>1, <2>1 DEF Nothing
  <2>3. \A i \in DOMAIN in' : ~Snapshot(in'[i])
    BY Zenon, <1>1, <2>1 DEF Snapshot
  <2>4. RemovedAfter'
    BY Zenon, <2>2, <2>3 DEF RemovedAfter, Snapshot
  <2>5. UpToDate'
    BY <1>1, <1>9 DEF UpToDate
  <2> QED BY <1>4, <2>4, <2>5
<1>10. CASE listening = TRUE
  <2>1. ASSUME NEW p \in Obj, bus'[p] = None
        PROVE  /\ stubs[p] # None => Coming(Event("remove", p), 0)'
               /\ \A i \in DOMAIN in : Snapshot(in[i]) /\ in[i].objs[p] # None =>
                     Coming(Event("remove", p), i)'
    <3>1. CASE p = o
      <4>1. e = Event("remove", p)
        BY <1>8, <2>1, <3>1 DEF e
      <4> QED BY Zenon, <1>6, <1>10, <4>1
    <3>2. CASE p # o
      <4>1. bus[p] = None
        BY Zenon, <1>7, <2>1, <3>2
      <4>2. /\ stubs[p] # None => Coming(Event("remove", p), 0)
            /\ \A i \in DOMAIN in : Snapshot(in[i]) /\ in[i].objs[p] # None =>
                  Coming(Event("remove", p), i)
        BY Zenon, <1>3, <4>1 DEF RemovedAfter
      <4>3. \A i \in 0..Len(in) : Coming(Event("remove", p), i) => Coming(Event("remove", p), i)'
        BY Zenon, <1>6 DEF Grown
      <4> QED BY Zenon, <1>2, <4>2, <4>3
    <3> QED BY Zenon, <3>1, <3>2
  <2>2. RemovedAfter'
    BY Zenon, <1>1, <2>1 DEF RemovedAfter, Event, Snapshot
  <2>3. UpToDate'
    <3> SUFFICES ASSUME ~ListToCome' PROVE UpToDate'
      BY Zenon DEF UpToDate
    <3>1. sig = None
      <4> SUFFICES ASSUME sig # None PROVE FALSE
        OBVIOUS
      <4>1. e = Event("add", o)
        BY Zenon DEF e
      <4>2. Coming(Event("add", o), 0)'
        BY Zenon, <1>6, <1>10, <4>1
      <4> QED BY Zenon, <4>2 DEF ListToCome, Event
    <3>2. ~ListToCome
      <4>1. ~Handshake
        BY Zenon, <1>1 DEF ListToCome, Handshake
      <4>2. ASSUME NEW p \in Obj, Coming(Event("add", p), 0) PROVE FALSE
        <5>1. Coming(Event("add", p), 0)'
          BY Zenon, <1>2, <1>6, <4>2 DEF Grown
        <5> QED BY Zenon, <5>1 DEF ListToCome, Event
      <4>3. ~(waiting.list_id # 0 /\ \A i \in DOMAIN in : ~Awaited(in[i]))
        BY Zenon, <1>1 DEF ListToCome, Awaited, Snapshot
      <4> QED BY Zenon, <4>1, <4>2, <4>3 DEF ListToCome
    <3>3. ASSUME NEW p \in Matching, bus'[p] # None
          PROVE  /\ waiting.list_id = 0 => stubs[p] = bus'[p]
                 /\ waiting.list_id # 0 => \A i \in DOMAIN in : Awaited(in[i]) => in[i].objs[p] = bus'[p]
      <4>1. p # o /\ p \in Obj
        BY <1>8, <3>1, <3>3, RemoteAssumption
      <4>2. bus'[p] = bus[p]
        BY Zenon, <1>7, <4>1
      <4> QED BY Zenon, <1>3, <1>10, <3>2, <3>3, <4>2 DEF UpToDate
    <3> QED BY Zenon, <1>1, <3>3 DEF UpToDate, Awaited, Snapshot
  <2> QED BY <1>4, <2>2, <2>3
<1> QED BY Zenon, <1>0, <1>9, <1>10

\* A list that is still to come is so after any message but an addition is taken off.
LEMMA PopToCome ==
    ASSUME Popped, UNCHANGED waiting, in[1].kind # "add", ListToCome
    PROVE  ListToCome'
<1>1. CASE Handshake
  BY Zenon, <1>1 DEF ListToCome, Handshake
<1>2. ASSUME NEW o \in Obj, Coming(Event("add", o), 0) PROVE ListToCome'
  <2>1. in[1] # Event("add", o)
    BY EventIs
  <2>2. Coming(Event("add", o), 0)'
    BY Zenon, <1>2, <2>1 DEF Popped
  <2> QED BY Zenon, <2>2 DEF ListToCome, Event
<1>3. CASE waiting.list_id # 0 /\ \A i \in DOMAIN in : ~Awaited(in[i])
  <2>1. \A i \in DOMAIN in' : ~Awaited(in'[i])
    BY Zenon, <1>3 DEF Popped
  <2> QED BY Zenon, <1>3, <2>1 DEF ListToCome, Awaited, Snapshot
<1> QED BY Zenon, <1>1, <1>2, <1>3 DEF ListToCome

\* A message that is not about all objects.
LEMMA PopStubs ==
    ASSUME SessionInv, StubsInv, Popped, UNCHANGED <<bus, listening, waiting, wild>>,
           in[1].kind # "add",
           wild = FALSE =>
             /\ StubsMatch'
             /\ \A o \in Obj : bus[o] = None /\ stubs'[o] # None =>
                   stubs[o] # None /\ in[1] # Event("remove", o)
             /\ ~ListToCome => \A o \in Obj : bus[o] # None => stubs'[o] = stubs[o]
    PROVE  StubsInv'
<1> SUFFICES ASSUME wild = FALSE PROVE StubsMatch' /\ RemovedAfter' /\ UpToDate'
  BY Zenon DEF StubsInv
<1>1. StubsMatch' /\ RemovedAfter /\ UpToDate
  BY Zenon DEF StubsInv
<1>2. ASSUME NEW o \in Obj, bus[o] = None, stubs'[o] # None PROVE Coming(Event("remove", o), 0)'
  <2>1. stubs[o] # None /\ in[1] # Event("remove", o)
    BY Zenon, <1>2
  <2>2. Coming(Event("remove", o), 0)
    BY Zenon, <1>1, <1>2, <2>1 DEF RemovedAfter
  <2> QED BY Zenon, <2>1, <2>2 DEF Popped
<1>3. ASSUME NEW o \in Obj, bus[o] = None, NEW i \in DOMAIN in', Snapshot(in'[i]), in'[i].objs[o] # None
      PROVE  Coming(Event("remove", o), i)'
  <2>1. i \in Nat /\ i + 1 \in DOMAIN in /\ in'[i] = in[i + 1]
    BY Zenon, <1>3 DEF Popped
  <2>2. Coming(Event("remove", o), i + 1)
    BY Zenon, <1>1, <1>3, <2>1 DEF RemovedAfter
  <2> QED BY Zenon, <2>1, <2>2 DEF Popped
<1>4. RemovedAfter'
  BY Zenon, <1>2, <1>3 DEF RemovedAfter, Event, Snapshot
<1>5. ASSUME listening' = TRUE, ~ListToCome', NEW o \in Matching, bus[o] # None
      PROVE  /\ waiting.list_id = 0 => stubs'[o] = bus[o]
             /\ waiting.list_id # 0 => \A i \in DOMAIN in' : Awaited(in'[i]) => in'[i].objs[o] = bus[o]
  <2>1. ~ListToCome /\ listening = TRUE
    BY Zenon, <1>5, PopToCome
  <2>2. o \in Obj
    BY RemoteAssumption
  <2>3. /\ waiting.list_id = 0 => stubs[o] = bus[o]
        /\ waiting.list_id # 0 => \A i \in DOMAIN in : Awaited(in[i]) => in[i].objs[o] = bus[o]
    BY Zenon, <1>1, <1>5, <2>1 DEF UpToDate
  <2>4. stubs'[o] = stubs[o]
    BY Zenon, <1>5, <2>1, <2>2
  <2>5. \A i \in DOMAIN in' : i + 1 \in DOMAIN in /\ in'[i] = in[i + 1]
    BY Zenon DEF Popped
  <2>6. waiting.list_id # 0 => \A i \in DOMAIN in' : Awaited(in'[i]) => in'[i].objs[o] = bus[o]
    BY Zenon, <2>3, <2>5
  <2> QED BY Zenon, <2>3, <2>4, <2>6
<1>6. UpToDate'
  BY Zenon, <1>5 DEF UpToDate, Awaited, Snapshot
<1> QED BY Zenon, <1>1, <1>4, <1>6

\* A message after which another list is to come.
LEMMA AskStubs ==
    ASSUME SessionInv, StubsInv, Popped, UNCHANGED <<bus, stubs, wild>>, in[1].kind # "remove", ListToCome'
    PROVE  StubsInv'
<1> SUFFICES ASSUME wild = FALSE PROVE StubsMatch' /\ RemovedAfter' /\ UpToDate'
  BY Zenon DEF StubsInv
<1>1. StubsMatch' /\ RemovedAfter
  BY Zenon DEF StubsInv, StubsMatch, OnlyMatching
<1>2. ASSUME NEW o \in Obj, bus[o] = None, stubs'[o] # None PROVE Coming(Event("remove", o), 0)'
  <2>1. in[1] # Event("remove", o)
    BY EventIs
  <2>2. Coming(Event("remove", o), 0)
    BY Zenon, <1>1, <1>2 DEF RemovedAfter
  <2> QED BY Zenon, <2>1, <2>2 DEF Popped
<1>3. ASSUME NEW o \in Obj, bus[o] = None, NEW i \in DOMAIN in', Snapshot(in'[i]), in'[i].objs[o] # None
      PROVE  Coming(Event("remove", o), i)'
  <2>1. i \in Nat /\ i + 1 \in DOMAIN in /\ in'[i] = in[i + 1]
    BY Zenon, <1>3 DEF Popped
  <2>2. Coming(Event("remove", o), i + 1)
    BY Zenon, <1>1, <1>3, <2>1 DEF RemovedAfter
  <2> QED BY Zenon, <2>1, <2>2 DEF Popped
<1>4. RemovedAfter'
  BY Zenon, <1>2, <1>3 DEF RemovedAfter, Event, Snapshot
<1> QED BY Zenon, <1>1, <1>4 DEF UpToDate

\* The replies to login and listen, and an addition.
LEMMA AskedStubs ==
    ASSUME SessionInv, StreamInv, StubsInv, ReceiveLogin \/ ReceiveListen \/ ReceiveAdd
    PROVE  StubsInv'
<1>0. waiting \in [login : BOOLEAN, listen : BOOLEAN, list_id : Nat]
  BY WaitingType
<1>1. PICK kind \in {"result", "add"} : Receive(kind)
  BY DEF ReceiveLogin, ReceiveListen, ReceiveAdd
<1>2. Popped /\ in[1].kind = kind /\ bus' = bus
  BY Zenon, <1>1, ReceivePops DEF remoteVars
<1>3. in[1].kind # "remove" /\ UNCHANGED <<stubs, wild>>
  BY <1>2 DEF ReceiveLogin, ReceiveListen, ReceiveAdd
<1>4. CASE ReceiveLogin
  <2>1. waiting' = [waiting EXCEPT !.login = FALSE, !.listen = TRUE]
    BY Zenon, <1>4 DEF ReceiveLogin
  <2>2. waiting'.listen = TRUE
    BY <1>0, <2>1
  <2>3. ListToCome'
    BY Zenon, <2>2 DEF ListToCome, Handshake
  <2> QED BY Zenon, <1>2, <1>3, <2>3, AskStubs
<1>5. CASE ReceiveListen \/ ReceiveAdd
  <2>1. /\ Ask("list")
        /\ \/ waiting' = [waiting EXCEPT !.listen = FALSE, !.list_id = call_id']
           \/ waiting' = [waiting EXCEPT !.list_id = call_id']
    BY Zenon, <1>5 DEF ReceiveListen, ReceiveAdd
  <2>2. call_id' = call_id + 1 /\ call_id \in Nat
    BY <2>1, AskKeeps, StreamTypes
  <2>3. waiting'.list_id = call_id'
    BY Zenon, <1>0, <2>1
  <2>4. ASSUME NEW i \in DOMAIN in', Snapshot(in'[i]) PROVE in'[i].id # waiting'.list_id
    <3>1. i + 1 \in DOMAIN in /\ in'[i] = in[i + 1]
      BY Zenon, <1>2 DEF Popped
    <3>2. in'[i].id \in Nat /\ in'[i].id <= call_id
      BY Zenon, <2>4, <3>1, IdsBelow DEF Snapshot, StreamInv
    <3> QED BY <2>2, <2>3, <3>2
  <2>5. waiting'.list_id # 0
    BY <2>2, <2>3
  <2>6. ListToCome'
    BY Zenon, <2>4, <2>5 DEF ListToCome, Awaited, Snapshot
  <2> QED BY Zenon, <1>2, <1>3, <2>6, AskStubs
<1> QED BY <1>4, <1>5

\* Messages that leave the stubs alone.
LEMMA IgnoredStubs ==
    ASSUME SessionInv, StubsInv, ReceiveCall \/ ReceiveIgnored \/ ReceiveError
    PROVE  StubsInv'
<1>1. PICK kind \in {"result", "error"} : Receive(kind)
  BY DEF ReceiveCall, ReceiveIgnored, ReceiveError
<1>2. Popped /\ in[1].kind = kind /\ UNCHANGED <<bus, listening>>
  BY Zenon, <1>1, ReceivePops DEF remoteVars
<1>3. UNCHANGED <<waiting, stubs, wild>>
  BY Zenon DEF ReceiveCall, ReceiveIgnored, ReceiveError
<1>4. in[1].kind # "add" /\ in[1].kind # "remove"
  BY <1>2
<1>5. \A o : in[1] # Event("remove", o)
  BY <1>4, EventIs
<1>6. wild = FALSE => StubsMatch'
  BY Zenon, <1>3 DEF StubsInv, StubsMatch, OnlyMatching
<1> QED BY Zenon, <1>2, <1>3, <1>4, <1>5, <1>6, PopStubs

\* A removal is of an object that is gone, or a list is still to come.
LEMMA RemoveStubs ==
    ASSUME SessionInv, StreamInv, StubsInv, ReceiveRemove
    PROVE  StubsInv'
<1> DEFINE p == in[1].obj
<1>1. Receive("remove") /\ UNCHANGED <<waiting, wild>> /\ stubs' = [stubs EXCEPT ![Head(in).obj] = None]
  BY Zenon DEF ReceiveRemove, wsu_local_stub_destroy
<1>2. /\ Popped /\ in[1] \in Message /\ in[1].kind = "remove" /\ Head(in) = in[1]
      /\ UNCHANGED <<bus, listening>>
  BY Zenon, <1>1, ReceivePops DEF remoteVars
<1>3. p \in Obj /\ in[1] = Event("remove", p) /\ in[1].kind # "add"
  BY <1>2, EventIs
<1>4. stubs' = [stubs EXCEPT ![p] = None]
  BY Zenon, <1>1, <1>2
<1> HIDE DEF p
<1>5. ASSUME wild = FALSE
      PROVE  /\ stubs'[p] = None /\ \A o \in Obj : o # p => stubs'[o] = stubs[o]
             /\ StubsMatch'
  <2>1. stubs \in Objects /\ OnlyMatching(stubs)
    BY Zenon, <1>5 DEF StubsInv, StubsMatch
  <2>2. stubs'[p] = None /\ stubs' \in Objects /\ \A o \in Obj : o # p => stubs'[o] = stubs[o]
    BY <1>3, <1>4, <2>1 DEF Objects
  <2> QED BY Zenon, <2>1, <2>2 DEF StubsMatch, OnlyMatching
<1>6. \A o : o # p => in[1] # Event("remove", o)
  <2> SUFFICES ASSUME NEW o, o # p, in[1] = Event("remove", o) PROVE FALSE
    OBVIOUS
  <2>1. Event("remove", o).obj = o /\ Event("remove", p).obj = p
    BY EventIs
  <2> QED BY <1>3, <2>1
<1>7. ASSUME bus[p] # None PROVE ListToCome
  <2>1. 1 \in DOMAIN in
    BY Zenon, <1>2 DEF Popped
  <2>2. Coming(Event("add", p), 1)
    BY Zenon, <1>3, <1>7, <2>1 DEF StreamInv, AddedAfter
  <2>3. Coming(Event("add", p), 0)
    <3>1. \A j \in DOMAIN in : j > 1 => j > 0
      BY StreamTypes
    <3> QED BY Zenon, <2>2, <3>1 DEF Coming
  <2> QED BY Zenon, <1>3, <2>3 DEF ListToCome
<1>8. ASSUME wild = FALSE, NEW o \in Obj, bus[o] = None, stubs'[o] # None
      PROVE  stubs[o] # None /\ in[1] # Event("remove", o)
  BY Zenon, <1>5, <1>6, <1>8
<1>9. ASSUME wild = FALSE, ~ListToCome, NEW o \in Obj, bus[o] # None PROVE stubs'[o] = stubs[o]
  BY Zenon, <1>5, <1>7, <1>9
<1> QED BY Zenon, <1>1, <1>2, <1>3, <1>5, <1>8, <1>9, PopStubs

\* The awaited list, merged within the tree.
LEMMA ListIs ==
    ASSUME SessionInv, StubsInv, ReceiveList
    PROVE  /\ wild' \in BOOLEAN
           /\ wild' = FALSE => wild = FALSE /\ stubs' = Merged(stubs, Head(in).objs)
<1>1. /\ Receive("result")
      /\ LET m == Merge(stubs, Head(in).objs)
         IN  \/ ~m.wild /\ stubs' = m.stubs /\ UNCHANGED <<wild, crashed>>
             \/ m.wild /\ wild' = TRUE
  BY Zenon DEF ReceiveList
<1>2. wild \in BOOLEAN /\ wild' \in BOOLEAN
  BY Zenon, <1>1 DEF StubsInv
<1> SUFFICES ASSUME wild' = FALSE PROVE wild = FALSE /\ stubs' = Merged(stubs, Head(in).objs)
  BY Zenon, <1>2
<1>3. wild = FALSE
  BY <1>1
<1>4. stubs \in Objects /\ OnlyMatching(stubs)
  BY Zenon, <1>3 DEF StubsInv, StubsMatch
<1>5. Head(in).objs \in Objects
  <2>1. Head(in) \in Message /\ Head(in).kind = "result"
    BY Zenon, <1>1, ReceivePops
  <2> QED BY <2>1 DEF Message, Events
<1> DEFINE m == Merge(stubs, Head(in).objs)
<1>6. m.wild \in BOOLEAN /\ (m.wild = FALSE => m.stubs = Merged(stubs, Head(in).objs))
  BY Zenon, <1>4, <1>5, MergeIs
<1>7. ~m.wild /\ stubs' = m.stubs
  BY Zenon, <1>1
<1> HIDE DEF m
<1>8. m.wild = FALSE
  BY <1>6, <1>7
<1> QED BY Zenon, <1>3, <1>6, <1>7, <1>8

\* It brings the stubs up to date.
LEMMA ListStubs ==
    ASSUME SessionInv, StubsInv, ReceiveList
    PROVE  StubsInv'
<1> DEFINE list == in[1].objs
<1>0. waiting \in [login : BOOLEAN, listen : BOOLEAN, list_id : Nat]
  BY WaitingType
<1>1. /\ Receive("result") /\ ~waiting.login /\ ~waiting.listen
      /\ waiting.list_id # 0 /\ Head(in).id = waiting.list_id
      /\ Head(in).ok /\ Head(in).body = "objects"
      /\ waiting' = [waiting EXCEPT !.list_id = 0]
  BY Zenon DEF ReceiveList, IsList
<1>2. /\ Popped /\ in[1] \in Message /\ in[1].kind = "result" /\ Head(in) = in[1]
      /\ UNCHANGED <<bus, listening>> /\ 1 \in DOMAIN in
  BY Zenon, <1>1, ReceivePops DEF remoteVars, Popped
<1>3. in[1].ok \in BOOLEAN /\ list \in Objects
  BY <1>2 DEF Message, Events
<1>4. Awaited(in[1]) /\ Snapshot(in[1])
  BY <1>1, <1>2, <1>3 DEF Awaited, Snapshot
<1>5. waiting'.list_id = 0 /\ waiting'.login = waiting.login /\ waiting'.listen = waiting.listen
  BY <1>0, <1>1
<1>6. wild' \in BOOLEAN /\ (wild' = FALSE => wild = FALSE /\ stubs' = Merged(stubs, list))
  BY Zenon, <1>2, ListIs
<1> HIDE DEF list
<1> SUFFICES ASSUME wild' = FALSE PROVE StubsMatch' /\ RemovedAfter' /\ UpToDate'
  BY Zenon, <1>6 DEF StubsInv
<1>7. StubsMatch /\ RemovedAfter /\ UpToDate /\ stubs' = Merged(stubs, list)
  BY Zenon, <1>6 DEF StubsInv
<1>8. \A o \in Obj : stubs'[o] = IF list[o] # None /\ o \in Matching THEN list[o] ELSE stubs[o]
  BY Zenon, <1>7 DEF Merged
<1>9. StubsMatch'
  <2>1. stubs' \in Objects
    BY <1>3, <1>7 DEF StubsMatch, Objects, Merged
  <2> QED BY Zenon, <1>7, <1>8, <2>1 DEF StubsMatch, OnlyMatching
<1>10. ASSUME NEW o \in Obj, bus[o] = None, stubs'[o] # None PROVE Coming(Event("remove", o), 0)'
  <2>1. CASE list[o] # None
    <3>1. Coming(Event("remove", o), 1)
      BY Zenon, <1>2, <1>4, <1>7, <1>10, <2>1 DEF RemovedAfter, list
    <3>2. Coming(Event("remove", o), 0 + 1)
      BY <3>1
    <3> QED BY Zenon, <1>2, <3>2 DEF Popped
  <2>2. CASE list[o] = None
    <3>1. stubs[o] # None
      BY Zenon, <1>8, <1>10, <2>2
    <3>2. Coming(Event("remove", o), 0)
      BY Zenon, <1>7, <1>10, <3>1 DEF RemovedAfter
    <3>3. in[1] # Event("remove", o)
      BY <1>2, EventIs
    <3> QED BY Zenon, <1>2, <3>2, <3>3 DEF Popped
  <2> QED BY <2>1, <2>2
<1>11. ASSUME NEW o \in Obj, bus[o] = None, NEW i \in DOMAIN in', Snapshot(in'[i]), in'[i].objs[o] # None
       PROVE  Coming(Event("remove", o), i)'
  <2>1. i \in Nat /\ i + 1 \in DOMAIN in /\ in'[i] = in[i + 1]
    BY Zenon, <1>2, <1>11 DEF Popped
  <2>2. Coming(Event("remove", o), i + 1)
    BY Zenon, <1>7, <1>11, <2>1 DEF RemovedAfter
  <2> QED BY Zenon, <1>2, <2>1, <2>2 DEF Popped
<1>12. RemovedAfter'
  BY Zenon, <1>2, <1>10, <1>11 DEF RemovedAfter, Event, Snapshot
<1>13. ASSUME listening' = TRUE, ~ListToCome', NEW o \in Matching, bus[o] # None PROVE stubs'[o] = bus[o]
  <2>1. ~Handshake /\ listening = TRUE
    BY Zenon, <1>2, <1>5, <1>13 DEF ListToCome, Handshake
  <2>2. ASSUME NEW p \in Obj, Coming(Event("add", p), 0) PROVE FALSE
    <3>1. in[1] # Event("add", p)
      BY <1>2, EventIs
    <3>2. Coming(Event("add", p), 0)'
      BY Zenon, <1>2, <2>2, <3>1 DEF Popped
    <3> QED BY Zenon, <1>13, <3>2 DEF ListToCome, Event
  <2>3. ~ListToCome
    BY Zenon, <1>2, <1>4, <2>1, <2>2 DEF ListToCome
  <2>4. list[o] = bus[o]
    BY Zenon, <1>1, <1>2, <1>4, <1>7, <1>13, <2>1, <2>3 DEF UpToDate, list
  <2>5. o \in Obj
    BY RemoteAssumption
  <2> QED BY Zenon, <1>8, <1>13, <2>4, <2>5
<1>14. UpToDate'
  BY Zenon, <1>2, <1>5, <1>13 DEF UpToDate
<1> QED BY Zenon, <1>9, <1>12, <1>14

\* Every step keeps it.
LEMMA StubsNext == SessionInv /\ StreamInv /\ StubsInv /\ [Next]_vars => StubsInv'
<1> SUFFICES ASSUME SessionInv, StreamInv, StubsInv, [Next]_vars PROVE StubsInv'
  OBVIOUS
<1>0. Len(in) \in Nat /\ DOMAIN in = 1..Len(in)
  BY Zenon, StreamTypes
<1>1. ASSUME UNCHANGED <<waiting, stubs, wild, in, bus, listening, events>> PROVE StubsInv'
  <2>1. Grown
    BY Zenon, <1>1 DEF Grown, Coming
  <2>2. Len(in) + 1 \notin DOMAIN in'
    BY <1>0, <1>1
  <2> QED BY Zenon, <1>1, <2>1, <2>2, GrownStubs
<1>2. CASE UNCHANGED vars
  BY <1>1, <1>2 DEF vars, peerVars, remoteVars
<1>3. ASSUME NEW c \in Caller, NEW o \in Obj, wsu_local_stub_handle_call(c, o) PROVE StubsInv'
  BY <1>1, <1>3, Zenon DEF wsu_local_stub_handle_call, remoteVars
<1>4. CASE Established
  <2>1. UNCHANGED wild /\ stubs' = Nothing /\ in' = <<>> /\ listening' = FALSE
    BY Zenon, <1>4 DEF SessionInv, ClosedClean, Established, remoteVars
  <2> QED BY Zenon, <2>1, EmptyStubs
<1>5. CASE Closed
  <2>1. UNCHANGED wild /\ stubs' = Nothing /\ in' = <<>> /\ listening' = FALSE
    BY Zenon, <1>5 DEF Closed
  <2> QED BY Zenon, <2>1, EmptyStubs
<1>6. ASSUME Said PROVE StubsInv'
  <2>1. /\ Grown /\ UNCHANGED <<waiting, stubs, wild, bus>>
        /\ listening' = listening \/ Handshake
        /\ Len(in) + 1 \in DOMAIN in' /\ Snapshot(in'[Len(in) + 1]) => in'[Len(in) + 1].objs = bus
    BY Zenon, <1>6 DEF Said, Handshake
  <2> QED BY Zenon, <2>1, GrownStubs
<1>7. CASE RemoteEvent
  <2>1. /\ Grown /\ in'[Len(in) + 1] = events[1] /\ events[1] \in Events
        /\ UNCHANGED <<waiting, stubs, wild, bus, listening>>
    BY Zenon, <1>7, EventGrows DEF RemoteEvent, peerVars
  <2>2. ~Snapshot(in'[Len(in) + 1])
    BY <2>1 DEF Events, Snapshot
  <2> QED BY Zenon, <2>1, <2>2, GrownStubs
<1> QED BY Zenon, <1>2, <1>3, <1>4, <1>5, <1>6, <1>7, TakesSays, RepliesSays, ChangeStubs,
           AskedStubs, IgnoredStubs, RemoveStubs, ListStubs DEF Next

\* The program starts in the invariants.
LEMMA StubsInit == Init => StreamInv /\ StubsInv
<1> SUFFICES ASSUME Init PROVE StreamInv /\ StubsInv
  OBVIOUS
<1>1. /\ stubs = Nothing /\ out = <<>> /\ in = <<>> /\ listening = FALSE
      /\ events = <<>> /\ serving = {} /\ wild = FALSE
  BY Zenon DEF Init
<1>2. DOMAIN in = {} /\ DOMAIN out = {} /\ DOMAIN events = {} /\ \A o \in Obj : stubs[o] = None
  BY <1>1 DEF Nothing
<1>3. StreamInv
  BY Zenon, <1>1, <1>2 DEF StreamInv, NotListening, HandshakeAsked, IdsCounted, AddedAfter
<1>4. StubsMatch /\ RemovedAfter /\ UpToDate
  <2>1. StubsMatch /\ RemovedAfter
    BY Zenon, <1>1, <1>2, MessageIs DEF StubsMatch, OnlyMatching, RemovedAfter
  <2> QED BY <1>1, <2>1 DEF UpToDate
<1> QED BY Zenon, <1>1, <1>3, <1>4 DEF StubsInv

\* The invariants hold in every state.
LEMMA StubsAlways == Spec => [](SessionInv /\ StreamInv /\ StubsInv)
BY SessionInit, SessionNext, StubsInit, StreamNext, StubsNext, PTL DEF Spec

\* Merging a list gives the listed objects that match their stubs and leaves the others,
\* whatever the tree and the list, as long as the walk stays within the tree.
THEOREM MergeCorrect == Spec => ListMerged
<1>1. SessionInv /\ StreamInv /\ StubsInv /\ [Next]_vars =>
        [ReceiveList /\ wild' = FALSE => stubs' = Merged(stubs, Head(in).objs)]_vars
  BY Zenon, ListIs
<1> QED BY <1>1, StubsAlways, PTL DEF Spec, ListMerged

\* When nothing is under way or awaited, the stubs are the objects of the remote bus that
\* match, however lists and events have overtaken each other.
THEOREM CatchUpCorrect == Spec => []StubsCatchUp
<1>1. SessionInv /\ StreamInv /\ StubsInv => StubsCatchUp
  <2> SUFFICES ASSUME SessionInv, StubsInv, listening, ~waiting.login, ~waiting.listen, waiting.list_id = 0,
                      in = <<>>, events = <<>>, ~wild
               PROVE  stubs = [o \in Obj |-> IF o \in Matching THEN bus[o] ELSE None]
    BY DEF StubsCatchUp
  <2>0. wild = FALSE /\ listening = TRUE
    BY StreamTypes DEF StubsInv
  <2>1. StubsMatch /\ RemovedAfter /\ UpToDate
    BY Zenon, <2>0 DEF StubsInv
  <2>2. DOMAIN in = {} /\ DOMAIN events = {}
    OBVIOUS
  <2>3. \A e, i : ~Coming(e, i)
    BY Zenon, <2>2 DEF Coming
  <2>4. ~ListToCome
    BY <2>3 DEF ListToCome, Handshake
  <2>5. ASSUME NEW o \in Obj PROVE stubs[o] = IF o \in Matching THEN bus[o] ELSE None
    <3>1. CASE o \notin Matching
      BY Zenon, <2>1, <3>1 DEF StubsMatch, OnlyMatching
    <3>2. CASE o \in Matching /\ bus[o] # None
      BY Zenon, <2>0, <2>1, <2>4, <3>2 DEF UpToDate
    <3>3. CASE o \in Matching /\ bus[o] = None
      BY Zenon, <2>1, <2>3, <3>3 DEF RemovedAfter
    <3> QED BY Zenon, <3>1, <3>2, <3>3
  <2>6. stubs \in Objects
    BY Zenon, <2>1 DEF StubsMatch
  <2> QED BY <2>5, <2>6 DEF Objects
<1> QED BY <1>1, StubsAlways, PTL
=============================================================================

--------------------------- MODULE RemoteSession ----------------------------
(***************************************************************************)
(* The session of owsd with one remote owsd: login, listen and list, the   *)
(* stubs that stand for the remote objects on the local bus, the calls     *)
(* through them, and the events that keep the stubs up to date.            *)
(*                                                                         *)
(* The remote owsd is external.  It answers requests in order, calls in any*)
(* order or never, and reports changes of its bus once it was subscribed   *)
(* to.  Names of objects are numbers, ordered as strcmp orders them.       *)
(***************************************************************************)
EXTENDS Integers, Sequences, FiniteSets, FiniteSetsExt

CONSTANTS
    NumObj,      \* objects of the remote bus are 1..NumObj
    Sig,         \* signatures of objects
    Matching,    \* objects that the configured path patterns let through
    Caller,      \* local processes, each of which makes one call
    MaxCalls,    \* MAX_PROXIED_CALLS, 20
    MaxId,       \* bound: requests of a session
    MaxQueue,    \* bound: messages on their way from the remote owsd
    None

Obj == 1..NumObj
Slot == 0..MaxCalls-1

ASSUME RemoteAssumption ==
    /\ NumObj \in Nat /\ Matching \subseteq Obj
    /\ None \notin Sig /\ None \notin Caller /\ None \notin [id : Nat, caller : Caller]
    /\ {MaxCalls, MaxId, MaxQueue} \subseteq Nat

VARIABLES
    open,      \* the peer is initialised
    waiting,   \* waiting_for: login, listen, list_id
    call_id,
    calls,     \* the slots: None or [id, caller]; the bits of waiting_for.call
    stubs,     \* the tree of stubs: the signature of each, None if there is no stub
    caller,    \* what became of each local call
    out, in,   \* messages to and from the remote owsd
    bus,       \* the objects of the remote bus
    listening, \* the remote owsd has the subscription
    events,    \* events whose access check is in progress at the remote owsd
    serving,   \* calls in progress at the remote owsd
    wild,      \* a list was merged by reading past the end of the tree
    crashed

remoteVars == <<bus, listening, events, serving>>
peerVars == <<open, waiting, call_id, calls, stubs, caller, wild, crashed>>
vars == <<peerVars, out, in, remoteVars>>

Objects == [Obj -> Sig \cup {None}]
\* A caller waits, or has got a result, or has not: it has not called yet, was refused,
\* or was left to its own timeout.
Fates == {"waiting", "answered", "unanswered"}
NoWait == [login |-> FALSE, listen |-> FALSE, list_id |-> 0]

\* Messages.  A result says whether its status is 0, and carries a session id, a list
\* of objects or other data.
Nothing == [o \in Obj |-> None]
Result(id, ok, body, objs) ==
    [kind |-> "result", id |-> id, ok |-> ok, body |-> body, objs |-> objs]
Error(id) == [kind |-> "error", id |-> id]
Event(kind, o) == [kind |-> kind, obj |-> o]
Request(method) == [method |-> method, id |-> call_id']

-----------------------------------------------------------------------------
(* Merging a list into the tree.  "cur" is the stub the walk is at, 0 for NULL, and End
   for the head of the list that the tree's elements are linked in. *)

End == NumObj + 1
Stubs(tree) == {o \in Obj : tree[o] # None}
avl_find_ge(tree, o) == Min({p \in Stubs(tree) : p >= o} \cup {End})
Sign(n) == IF n < 0 THEN -1 ELSE IF n = 0 THEN 0 ELSE 1

\* The first loop, before the walk: cur is on or after the first name of the list.
MergeStart(tree, list) ==
    LET name == Min(Stubs(list) \cup {End})
        first == avl_find_ge(tree, name)
    IN  [stubs |-> tree, cmp |-> IF first = End THEN 1 ELSE Sign(first - name),
         cur |-> IF first = End THEN 0 ELSE first, wild |-> FALSE,
         \* The last element is still the one that was last when the walk began.
         same |-> TRUE]

\* avl_for_element_range_safe: on to the first stub on or after this name, or behind
\* the last one.  There, the loop ends at once as long as no element was added behind
\* "last"; otherwise it takes the head for an element.
Advance(m, o) ==
    IF m.cur = 0 THEN m
    ELSE IF m.cur = End THEN [m EXCEPT !.wild = @ \/ ~m.same]
    ELSE LET next == Min({p \in Stubs(m.stubs) : p >= m.cur /\ p >= o} \cup {End})
         IN  [m EXCEPT !.cur = next, !.cmp = IF next = End THEN -1 ELSE Sign(next - o)]

wsu_local_stub_destroy(tree, o) == [tree EXCEPT ![o] = None]
wsu_local_stub_is_same_signature(tree, o, sig) == tree[o] = sig

\* wsu_local_stub_create, unless the patterns leave the object out.
Create(m, o, sig) ==
    IF o \notin Matching THEN m
    ELSE [m EXCEPT !.stubs[o] = sig, !.same = @ /\ m.cur # End]

\* Destroy the stub and create it anew; the walk goes on behind it.
Replace(m, o, sig) ==
    LET next == avl_find_ge(m.stubs, m.cur + 1)
    IN  Create([m EXCEPT !.stubs = wsu_local_stub_destroy(@, m.cur), !.cur = next,
                         !.same = @ /\ next # End], o, sig)

\* Mutant: objects behind the last stub are not created.
MergeOneBefore(m, o, sig) ==
    LET a == Advance(m, o)
    IN  IF a.wild THEN a
        ELSE IF a.cmp > 0 THEN Create(a, o, sig)
        ELSE IF a.cmp = 0 /\ ~wsu_local_stub_is_same_signature(a.stubs, a.cur, sig) THEN Replace(a, o, sig)
        ELSE a

MergeOne(m, o, sig) ==
    LET a == Advance(m, o)
    IN  IF a.wild THEN a
        ELSE IF a.cmp # 0 THEN Create(a, o, sig)
        ELSE IF ~wsu_local_stub_is_same_signature(a.stubs, a.cur, sig) THEN Replace(a, o, sig)
        ELSE a

\* The listed objects, in the order of their names.
Merge(tree, list) ==
    LET Walk[o \in 0..NumObj] ==
            IF o = 0 THEN MergeStart(tree, list)
            ELSE IF list[o] = None THEN Walk[o - 1]
            ELSE MergeOne(Walk[o - 1], o, list[o])
    IN  Walk[NumObj]

\* What the merge is for: the listed objects that match have a stub of their
\* signature, the others are as before.
Merged(tree, list) ==
    [o \in Obj |-> IF list[o] # None /\ o \in Matching THEN list[o] ELSE tree[o]]

-----------------------------------------------------------------------------
(* The connection *)

Running == ~crashed

Init ==
    /\ open = FALSE /\ waiting = NoWait /\ call_id = 0
    /\ calls = [s \in Slot |-> None]
    /\ stubs = Nothing
    /\ caller = [c \in Caller |-> "unanswered"]
    /\ out = <<>> /\ in = <<>>
    /\ bus \in Objects
    /\ listening = FALSE /\ events = <<>> /\ serving = {}
    /\ wild = FALSE /\ crashed = FALSE

\* CLIENT_ESTABLISHED: with rpcd integration a login is sent, or nothing if there is no
\* certificate to log in with; without it, a listen.
Established ==
    /\ Running /\ ~open
    /\ open' = TRUE
    /\ \/ waiting' = [NoWait EXCEPT !.login = TRUE] /\ call_id' = 1
          /\ out' = <<Request("login")>>
       \/ waiting' = [NoWait EXCEPT !.listen = TRUE] /\ call_id' = 1
          /\ out' = <<Request("listen")>>
       \/ UNCHANGED <<waiting, call_id, out>>
    /\ UNCHANGED <<calls, stubs, caller, wild, crashed, in, remoteVars>>

\* CLIENT_CLOSED: wsu_peer_deinit destroys the stubs.  The memory of the peer goes, and
\* with it the slots: their requests are never completed.
Closed ==
    /\ Running /\ open
    /\ open' = FALSE /\ waiting' = NoWait /\ call_id' = 0
    /\ calls' = [s \in Slot |-> None]
    /\ stubs' = Nothing
    /\ caller' = [c \in Caller |-> IF caller[c] = "waiting" THEN "unanswered" ELSE caller[c]]
    /\ out' = <<>> /\ in' = <<>>
    /\ listening' = FALSE /\ events' = <<>> /\ serving' = {}
    /\ UNCHANGED <<bus, wild, crashed>>

-----------------------------------------------------------------------------
(* Calls of local processes through a stub *)

Free == {s \in Slot : calls[s] = None}

\* Slots are searched from the lowest.
First(s, S) == s \in S /\ \A t \in S : s <= t

\* Mutant: the bits of waiting_for.call are not looked at.
AnySlot(s) == s = 0

\* The lowest slot that is free.
wsu_proxied_call_new(s) == First(s, Free)

\* The id is used up even if there is no slot.
wsu_local_stub_handle_call(c, o) ==
    /\ Running /\ open
    /\ stubs[o] # None /\ caller[c] # "waiting"
    /\ call_id < MaxId
    /\ call_id' = call_id + 1
    /\ \/ /\ Free = {}
          /\ caller' = [caller EXCEPT ![c] = "unanswered"]
          /\ UNCHANGED <<calls, out>>
       \/ \E s \in Slot :
            /\ wsu_proxied_call_new(s)
            /\ calls' = [calls EXCEPT ![s] = [id |-> call_id', caller |-> c]]
            /\ caller' = [caller EXCEPT ![c] = "waiting"]
            /\ out' = Append(out, Request("call"))
    /\ UNCHANGED <<open, waiting, stubs, wild, crashed, in, remoteVars>>

-----------------------------------------------------------------------------
(* CLIENT_RECEIVE.  What a result is taken for depends on what is waited for. *)

Receive(kind) ==
    /\ Running /\ open
    /\ in # <<>> /\ Head(in).kind = kind
    /\ in' = Tail(in)
    /\ UNCHANGED <<open, remoteVars>>

Ask(method) ==
    /\ call_id < MaxId
    /\ call_id' = call_id + 1
    /\ out' = Append(out, Request(method))

\* The reply to the login has a session id; the listen request follows.
ReceiveLogin ==
    /\ Receive("result")
    /\ waiting.login
    /\ Head(in).ok /\ Head(in).body = "session"
    /\ waiting' = [waiting EXCEPT !.login = FALSE, !.listen = TRUE]
    /\ Ask("listen")
    /\ UNCHANGED <<calls, stubs, caller, wild, crashed>>

\* Mutant: the flag stays set.
ListenNotCleared ==
    /\ Receive("result")
    /\ ~waiting.login /\ waiting.listen
    /\ Head(in).ok
    /\ Ask("list")
    /\ waiting' = [waiting EXCEPT !.list_id = call_id']
    /\ UNCHANGED <<calls, stubs, caller, wild, crashed>>

\* The reply to the listen request; the list request follows.
ReceiveListen ==
    /\ Receive("result")
    /\ ~waiting.login /\ waiting.listen
    /\ Head(in).ok
    /\ Ask("list")
    /\ waiting' = [waiting EXCEPT !.listen = FALSE, !.list_id = call_id']
    /\ UNCHANGED <<calls, stubs, caller, wild, crashed>>

\* Mutant: the id is not compared.
AnyWhileListing(m) == waiting.list_id # 0

IsList(m) == waiting.list_id # 0 /\ m.id = waiting.list_id

\* The reply to the last list request.  Reading past the end of the tree is undefined:
\* it may end the program, give up on objects, or have no consequence.
ReceiveList ==
    /\ Receive("result")
    /\ ~waiting.login /\ ~waiting.listen
    /\ IsList(Head(in))
    /\ Head(in).ok /\ Head(in).body = "objects"
    /\ waiting' = [waiting EXCEPT !.list_id = 0]
    /\ LET m == Merge(stubs, Head(in).objs)
       IN  \/ ~m.wild /\ stubs' = m.stubs /\ UNCHANGED <<wild, crashed>>
           \/ /\ m.wild /\ wild' = TRUE
              /\ crashed' \in BOOLEAN
              /\ stubs' \in {m.stubs, Merged(stubs, Head(in).objs)}
    /\ UNCHANGED <<call_id, calls, caller, out>>

wsu_proxied_call_free(s) == [calls EXCEPT ![s] = None]

\* Any other result answers the call with its id.
Found(m) == {s \in Slot \ Free : calls[s].id = m.id}
IsOther(m) == ~waiting.login /\ ~waiting.listen /\ ~IsList(m)

ReceiveCall ==
    /\ Receive("result")
    /\ IsOther(Head(in)) /\ Found(Head(in)) # {}
    /\ \E s \in Slot :
          /\ First(s, Found(Head(in)))
          /\ caller' = [caller EXCEPT ![calls[s].caller] = "answered"]
          /\ calls' = wsu_proxied_call_free(s)
    /\ UNCHANGED <<waiting, call_id, stubs, out, wild, crashed>>

\* Results that are not valid, or that nothing waits for.
ReceiveIgnored ==
    /\ Receive("result")
    /\ LET m == Head(in)
       IN  \/ waiting.login /\ ~(m.ok /\ m.body = "session")
           \/ ~waiting.login /\ waiting.listen /\ ~m.ok
           \/ ~waiting.login /\ ~waiting.listen /\ IsList(m) /\ ~(m.ok /\ m.body = "objects")
           \/ IsOther(m) /\ Found(m) = {}
    /\ UNCHANGED <<waiting, call_id, calls, stubs, caller, out, wild, crashed>>

\* A JSON-RPC error: neither "result" nor "method", so nothing happens.
ReceiveError ==
    /\ Receive("error")
    /\ UNCHANGED <<waiting, call_id, calls, stubs, caller, out, wild, crashed>>

\* ubus.object.add: everything is listed again, and only that list is awaited.
ReceiveAdd ==
    /\ Receive("add")
    /\ Ask("list")
    /\ waiting' = [waiting EXCEPT !.list_id = call_id']
    /\ UNCHANGED <<calls, stubs, caller, wild, crashed>>

\* Mutant: while a list is awaited, removing is left to the list.
RemoveWhileListing ==
    /\ Receive("remove")
    /\ stubs' = IF waiting.list_id # 0 THEN stubs
                ELSE wsu_local_stub_destroy(stubs, Head(in).obj)
    /\ UNCHANGED <<waiting, call_id, calls, caller, out, wild, crashed>>

\* ubus.object.remove: the stub, if there is one, is destroyed.
ReceiveRemove ==
    /\ Receive("remove")
    /\ stubs' = wsu_local_stub_destroy(stubs, Head(in).obj)
    /\ UNCHANGED <<waiting, call_id, calls, caller, out, wild, crashed>>

-----------------------------------------------------------------------------
(* The remote owsd *)

Room == Len(in) + Len(events) < MaxQueue

Remote ==
    /\ Running /\ open /\ Room
    /\ UNCHANGED peerVars

\* It takes the next request.  Login, listen and list are answered at once or with an
\* error, a call is started.
RemoteTakes ==
    /\ Remote /\ out # <<>>
    /\ out' = Tail(out)
    /\ LET r == Head(out)
           Answer(body, objs) == in' = Append(in, Result(r.id, TRUE, body, objs))
       IN  \/ r.method = "login" /\ Answer("session", Nothing) /\ UNCHANGED <<listening, serving>>
           \/ /\ r.method = "listen" /\ Answer("data", Nothing)
              /\ listening' = TRUE /\ UNCHANGED serving
           \/ r.method = "list" /\ Answer("objects", bus) /\ UNCHANGED <<listening, serving>>
           \/ /\ r.method # "call" /\ in' = Append(in, Error(r.id))
              /\ UNCHANGED <<listening, serving>>
           \/ r.method = "call" /\ serving' = serving \cup {r.id} /\ UNCHANGED <<in, listening>>
    /\ UNCHANGED <<bus, events>>

\* A call ends with a result, a JSON-RPC error, or no answer (it took too long).
RemoteReplies(id) ==
    /\ Remote /\ id \in serving
    /\ serving' = serving \ {id}
    /\ in' \in {Append(in, Result(id, TRUE, "data", Nothing)), Append(in, Error(id)), in}
    /\ UNCHANGED <<out, bus, listening, events>>

\* An object comes or goes.
RemoteChanges(o, sig) ==
    /\ Running /\ Room
    /\ (bus[o] = None) # (sig = None)
    /\ bus' = [bus EXCEPT ![o] = sig]
    /\ events' = IF listening THEN Append(events, Event(IF sig = None THEN "remove" ELSE "add", o))
                 ELSE events
    /\ UNCHANGED <<peerVars, out, in, listening, serving>>

\* An event has passed its access check.
RemoteEvent ==
    /\ Running /\ open /\ events # <<>>
    /\ in' = Append(in, Head(events))
    /\ events' = Tail(events)
    /\ UNCHANGED <<peerVars, out, bus, listening, serving>>

-----------------------------------------------------------------------------
Next ==
    \/ Established \/ Closed
    \/ \E c \in Caller, o \in Obj : wsu_local_stub_handle_call(c, o)
    \/ ReceiveLogin \/ ReceiveListen \/ ReceiveList \/ ReceiveCall \/ ReceiveIgnored
    \/ ReceiveError \/ ReceiveAdd \/ ReceiveRemove
    \/ RemoteTakes \/ RemoteEvent
    \/ \E id \in serving : RemoteReplies(id)
    \/ \E o \in Obj, sig \in Sig \cup {None} : RemoteChanges(o, sig)

Spec == Init /\ [][Next]_vars

-----------------------------------------------------------------------------
(* Properties *)

\* The flags for login and listen take any result for theirs; none of another request
\* can be on its way while one is set.  (ws_ubusproxy.c:225, 252)
HandshakeFirst ==
    waiting.login \/ waiting.listen =>
        \A i \in DOMAIN in : in[i].kind = "result" => in[i].id = call_id

\* The slots are the calls in progress: each has one waiting caller and each waiting
\* caller one slot, and no id is used twice, nor as that of the awaited list.
SlotPerCall ==
    LET busy == Slot \ Free
    IN  /\ \A c \in Caller : (caller[c] = "waiting") = (\E s \in busy : calls[s].caller = c)
        /\ \A s, t \in busy :
              s # t => calls[s].id # calls[t].id /\ calls[s].caller # calls[t].caller
        /\ \A s \in busy : calls[s].id # waiting.list_id

\* A result that comes for a call completes that call, whatever else is awaited, and
\* although the stub may be gone or replaced by now.
ResultsReachCallers ==
    [][\A s \in Slot \ Free :
          /\ open' /\ in # <<>> /\ in' = Tail(in)
          /\ Head(in).kind = "result" /\ Head(in).id = calls[s].id
          => caller'[calls[s].caller] = "answered"]_vars

\* Merging a list adds what is missing and replaces what has changed, and nothing else,
\* as long as the walk stays within the tree.  (ws_ubusproxy.c:286)
ListMerged ==
    [][ReceiveList /\ wild' = FALSE => stubs' = Merged(stubs, Head(in).objs)]_vars

\* When all is quiet, the stubs are the objects of the remote bus: overwriting list_id,
\* dropping replies to earlier lists, and lists that overtake events lose no object and
\* revive none.
StubsCatchUp ==
    /\ open /\ listening /\ ~waiting.login /\ ~waiting.listen /\ waiting.list_id = 0
    /\ in = <<>> /\ events = <<>> /\ ~wild
    => stubs = [o \in Obj |-> IF o \in Matching THEN bus[o] ELSE None]

(* What documents say of this code, and the code does not do. *)

\* docs/README.md:41: when the list has come, there is a stub for each remote object.
StubForEachListed ==
    [][ReceiveList => ~crashed' /\ \A o \in Matching : Head(in).objs[o] # None => stubs'[o] # None]_vars
=============================================================================

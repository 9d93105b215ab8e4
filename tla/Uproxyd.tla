------------------------------ MODULE Uproxyd -------------------------------
(***************************************************************************)
(* uproxyd, the daemon that tells owsd which devices to connect to, with   *)
(* the registry of owsd it works on.  It passes on the events of devices   *)
(* that come and go (add, and remove by address), and polls the list to    *)
(* remove the clients that failed to connect too often (remove by index).  *)
(* The two are processes: owsd may take any step between the calls.        *)
(***************************************************************************)
EXTENDS ProxyClients

CONSTANTS
    MaxReconnect,  \* client_max_reconnect_time, 10
    MaxAdds        \* bound: devices that are reported as connected

ASSUME UproxydAssumption ==
    MaxReconnect \in Nat /\ MaxReconnect < MaxCount /\ MaxAdds \in Nat

VARIABLES
    adds,     \* number of devices reported so far
    polling,  \* clean_stale_clients_cb is in its loop
    listed,   \* the array "clients" of the list reply
    index,    \* the loop variable
    asked     \* the entries of the reply whose removal was asked for

loopVars == <<polling, listed, index, asked>>
allVars == <<vars, adds, loopVars>>

Idle == polling = FALSE /\ listed = <<>> /\ index = 0 /\ asked = {}

UInit == Init /\ adds = 0 /\ Idle

-----------------------------------------------------------------------------
(* Devices come and go.  Any other caller of the public methods may do the same, and does
   not wait for uproxyd's poll. *)

owsd_add_client(a) ==
    /\ adds < MaxAdds
    /\ Add(a)
    /\ adds' = adds + 1
    /\ UNCHANGED loopVars

owsd_remove_ip(a) == RemoveIp(a) /\ UNCHANGED <<adds, loopVars>>

\* The event of a device that connects or disconnects; other events are ignored.
receive_event_cb(action, a) ==
    \/ action = "connect" /\ owsd_add_client(a)
    \/ action = "disconnect" /\ owsd_remove_ip(a)

\* A connected host of the list that router.network returns from time to time: each is
\* one call, and owsd may do anything before the next one.
add_all_clients(a) == owsd_add_client(a)

-----------------------------------------------------------------------------
(* Polling *)

\* What dump_client reports of an entry.
dump_client(c) == [index |-> c.index, addr |-> c.addr, count |-> c.count]

\* clean_stale_clients: the timer fires and owsd answers the list call.
Poll ==
    /\ Running
    /\ ~polling
    /\ polling' = TRUE
    /\ listed' = [i \in DOMAIN clients |-> dump_client(clients[i])]
    /\ index' = 0
    /\ asked' = {}
    /\ UNCHANGED <<clients, lwsVars, adds>>

\* The loop passes over clients that have not failed too often, up to this place (from
\* 0); Len(listed) if no stale client is left.
Stale(e) == e.count > MaxReconnect
NextStale ==
    LET rest == {i \in index..Len(listed)-1 : Stale(listed[i + 1])}
    IN  IF rest = {} THEN Len(listed) ELSE Min(rest)
InLoop == polling /\ NextStale < Len(listed)
Current == listed[NextStale + 1]

\* A stale client: its index overwrites the loop variable, owsd handles the remove (or
\* is gone), and the loop goes on behind that index.
RemoveStale ==
    /\ InLoop
    /\ \/ RemoveIndex(Current.index)
       \/ RemoveIndexUnknown(Current.index)
       \/ ~(up /\ ~crashed) /\ UNCHANGED vars
    /\ index' = Current.index + 1
    /\ asked' = asked \cup {Current}
    /\ UNCHANGED <<adds, polling, listed>>

\* The loop is over, the timer is set again.
PollDone ==
    /\ polling
    /\ ~InLoop
    /\ polling' = FALSE /\ listed' = <<>> /\ index' = 0 /\ asked' = {}
    /\ UNCHANGED <<vars, adds>>

-----------------------------------------------------------------------------
UNext ==
    \/ LwsStep /\ UNCHANGED <<adds, loopVars>>
    \/ \E a \in Addr : add_all_clients(a) \/ \E action \in {"connect", "disconnect"} : receive_event_cb(action, a)
    \/ Poll \/ RemoveStale \/ PollDone

USpec == UInit /\ [][UNext]_allVars

\* lws ends what it began, and uproxyd keeps running; devices need not come or go.
UFairness ==
    /\ \A w \in Wsi : WF_allVars(LwsEnds(w) /\ UNCHANGED <<adds, loopVars>>)
    /\ WF_allVars(Poll \/ RemoveStale \/ PollDone)

UFairSpec == USpec /\ UFairness

-----------------------------------------------------------------------------
(* Properties *)

\* The loop over the reply ends although its variable is overwritten, because owsd
\* keeps the list sorted: the index of an entry is never below its place.
PollEnds == polling ~> ~polling

\* A client that has failed too often and is not on its way out.
StaleClient ==
    \E i \in DOMAIN clients : Stale(clients[i]) /\ clients[i].state # "Teardown"

\* Once no more devices are reported, a time comes when no client is stale: the ones
\* that a poll jumps over are reached by a later one.
StaleEnds == StaleClient ~> (~StaleClient \/ crashed)

(* What a document says of this code, and the code does not do. *)

\* docs/testspec.md:555: after a remove the client is not in the list, or in teardown;
\* owsd is still there to tell.
RemoveSurvives == ~crashed
=============================================================================

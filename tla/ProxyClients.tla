---------------------------- MODULE ProxyClients ----------------------------
(***************************************************************************)
(* The registry behind the ubus object owsd.ubusproxy: the remote devices  *)
(* owsd connects to, in a list sorted by index, each with a reconnect timer*)
(* and the handle of its connection.  The ubus methods add and remove, the *)
(* timers, and the callbacks of libwebsockets change it; a callback finds  *)
(* its entry by searching the list for its handle.                         *)
(*                                                                         *)
(* libwebsockets is external: "conn" is what it holds for each handle, and *)
(* its outcomes (a connection starts, fails at once, is established, ends) *)
(* are choices.                                                            *)
(***************************************************************************)
EXTENDS Integers, Sequences, FiniteSets, FiniteSetsExt

CONSTANTS
    Addr,        \* addresses of remote devices
    Wsi,         \* connection handles (struct lws *)
    None,        \* a NULL handle
    Configured,  \* sequence of the addresses given on the command line
    MaxClients,  \* bound: entries in the list
    MaxCount     \* bound: reconnect counts from here on are not told apart

ASSUME ClientsAssumption ==
    /\ None \notin Wsi
    /\ Configured \in Seq(Addr) /\ IsInjective(Configured)
    /\ MaxClients \in Nat /\ Len(Configured) <= MaxClients
    /\ MaxCount \in Nat

VARIABLES
    clients,   \* connect_infos.clients
    conn,      \* per handle, in lws: "free", "connecting", "open" or "closing"
    writable,  \* handles with a WRITEABLE callback requested
    up,        \* uloop runs
    crashed    \* a NULL entry was used

lwsVars == <<conn, writable>>
vars == <<clients, lwsVars, up, crashed>>

States == {"Disconnected", "Connecting", "Connected", "Teardown"}

client_connection_info ==
    [index : 0..MaxClients-1, addr : Addr, wsi : Wsi \cup {None}, state : States,
     armed : BOOLEAN, count : 0..MaxCount]

-----------------------------------------------------------------------------
(* The list *)

\* Where a walk along the list stops, 0 if at none of these places.
First(places) == IF places = {} THEN 0 ELSE Min(places)

\* The place of the first entry with this handle, 0 if there is none.
get_client_by_wsi(list, w) == First({i \in DOMAIN list : list[i].wsi = w})

get_client_by_index(k) == First({i \in DOMAIN clients : clients[i].index = k})

\* The walk stops at the first entry whose index is above its place, or behind the last one.
FreePlace(p) ==
    /\ \A i \in DOMAIN clients : i < p => clients[i].index <= i - 1
    /\ p \in DOMAIN clients => clients[p].index > p - 1

\* Mutant: the entry gets the right index and goes to the end of the list.
InsertAtEnd(c) ==
    \E p \in 1..Len(clients) + 1 :
        FreePlace(p) /\ clients' = Append(clients, [c EXCEPT !.index = p - 1])

insert_at_lowest_free_index(c) ==
    \E p \in 1..Len(clients) + 1 :
        /\ FreePlace(p)
        /\ clients' = SubSeq(clients, 1, p - 1) \o <<[c EXCEPT !.index = p - 1]>>
                          \o SubSeq(clients, p, Len(clients))

\* Mutant: an address is taken only while it is connected or connecting.
UniqueAmongConnected(a) ==
    \A i \in DOMAIN clients :
        clients[i].addr = a => clients[i].state \in {"Teardown", "Disconnected"}

unique_ip(a) ==
    \A i \in DOMAIN clients : clients[i].addr = a => clients[i].state = "Teardown"

\* malloc, wsi NULL, reconnect_count 0, Disconnected.
NewClient(a, timer) ==
    [index |-> 0, addr |-> a, wsi |-> None, state |-> "Disconnected",
     armed |-> timer, count |-> 0]

wsubus_client_set_state(list, w, s) ==
    LET i == get_client_by_wsi(list, w)
    IN  IF i = 0 THEN list
        ELSE [list EXCEPT ![i].state = s,
                          ![i].count = IF s = "Connected" THEN 0 ELSE @]

\* An unknown handle is to be closed, too.
wsubus_client_should_destroy(list, w) ==
    LET i == get_client_by_wsi(list, w)
    IN  IF i = 0 THEN TRUE ELSE list[i].state = "Teardown"

wsubus_client_destroy(list, w) ==
    LET i == get_client_by_wsi(list, w)
    IN  IF i = 0 THEN list ELSE SubSeq(list, 1, i - 1) \o SubSeq(list, i + 1, Len(list))

OneMore(n) == IF n < MaxCount THEN n + 1 ELSE n

\* After an error: the handle is forgotten, the delay grows with the count.
wsubus_client_connect_retry(list, w) ==
    LET i == get_client_by_wsi(list, w)
    IN  IF i = 0 THEN list
        ELSE [list EXCEPT ![i].wsi = None, ![i].count = OneMore(@), ![i].armed = TRUE]

\* After a close: the entry keeps the handle until its timer has fired.
wsubus_client_reconnect(list, w) ==
    LET i == get_client_by_wsi(list, w)
    IN  IF i = 0 THEN list
        ELSE [list EXCEPT ![i].count = 0, ![i].armed = TRUE]

-----------------------------------------------------------------------------
Running == up /\ ~crashed /\ UNCHANGED <<up, crashed>>

\* The entries of the command line, with the timers that PROTOCOL_INIT of the client
\* vhost sets (wsubus_client_connect_all), before any callback.
Init ==
    /\ clients = [i \in DOMAIN Configured |->
                    [NewClient(Configured[i], TRUE) EXCEPT !.index = i - 1]]
    /\ conn = [w \in Wsi |-> "free"]
    /\ writable = {}
    /\ up = TRUE
    /\ crashed = FALSE

(* Methods of owsd.ubusproxy *)

\* add_client.  A bad argument or an address in use is refused: no step.
Add(a) ==
    /\ Running
    /\ Len(clients) < MaxClients
    /\ unique_ip(a)
    /\ insert_at_lowest_free_index(NewClient(a, TRUE))
    /\ UNCHANGED lwsVars

\* k lists the places of a set in their order.
InOrder(k, places) ==
    /\ \A m, n \in DOMAIN k : m < n => k[m] < k[n]
    /\ \A i \in places : \E n \in DOMAIN k : k[n] = i

\* What remove does to the entries at these places, by their state: those in "marked"
\* are to be torn down, those in "deleted" go at once, and for those in "woken" lws is
\* asked for a WRITEABLE callback.
RemoveBy(places, marked, deleted, woken) ==
    LET In(states) == {i \in places : clients[i].state \in states}
        Mark(i) == IF i \in In(marked) THEN [clients[i] EXCEPT !.state = "Teardown"]
                   ELSE clients[i]
        kept == DOMAIN clients \ In(deleted)
    IN  /\ \E k \in [1..Cardinality(kept) -> kept] :
             /\ InOrder(k, kept)
             /\ clients' = [n \in DOMAIN k |-> Mark(k[n])]
        /\ writable' = writable \cup {clients[i].wsi : i \in In(woken)}

\* Mutant: a client that is connecting is deleted as well.
RemoveConnecting(places) ==
    RemoveBy(places, {"Connected"}, {"Disconnected", "Connecting"}, {"Connected"})

\* Mutant: nothing makes lws call back for the connection.
RemoveNoWakeup(places) ==
    RemoveBy(places, {"Connecting", "Connected"}, {"Disconnected"}, {})

\* Mutant: a client that is connecting is left alone.
RemoveNotConnecting(places) ==
    RemoveBy(places, {"Connected"}, {"Disconnected"}, {"Connected"})

\* A disconnected client is deleted at once; any other is marked, and deleted by the
\* callback that ends its connection.
manage_remove_client(places) ==
    RemoveBy(places, {"Connecting", "Connected"}, {"Disconnected"}, {"Connected"})

\* remove_client with an address: every entry of the address.
RemoveIp(a) ==
    /\ Running
    /\ manage_remove_client({i \in DOMAIN clients : clients[i].addr = a})
    /\ UNCHANGED conn

\* remove_client with an index: the entry that has it.
RemoveIndex(i) ==
    /\ Running
    /\ get_client_by_index(i) # 0
    /\ manage_remove_client({get_client_by_index(i)})
    /\ UNCHANGED conn

\* remove_client with an index that no entry has: client->state of a NULL client.
RemoveIndexUnknown(i) ==
    /\ up /\ ~crashed
    /\ get_client_by_index(i) = 0
    /\ crashed' = TRUE
    /\ UNCHANGED <<clients, lwsVars, up>>
-----------------------------------------------------------------------------
(* Timers: utimer_reconnect_cb of entry i *)

\* A handle lws may allocate for the connection of entry i.  An entry keeps the handle of
\* its closed connection until its timer fires, and the model assumes that the allocator
\* does not give that address to the connection of another entry before.
Allocated(i, w) ==
    /\ conn[w] = "free"
    /\ \A j \in DOMAIN clients \ {i} : clients[j].wsi # w

Fired(i, w) == [clients EXCEPT ![i].armed = FALSE, ![i].wsi = w]

\* lws_client_connect_via_info returns a handle.
ConnectStarts(i, w) ==
    /\ Running
    /\ clients[i].armed
    /\ Allocated(i, w)
    /\ clients' = wsubus_client_set_state(Fired(i, w), w, "Connecting")
    /\ conn' = [conn EXCEPT ![w] = "connecting"]
    /\ UNCHANGED writable

\* CLIENT_CONNECTION_ERROR of ws_ubusproxy_cb.
OnConnectionError(list, w) ==
    IF wsubus_client_should_destroy(list, w) THEN wsubus_client_destroy(list, w)
    ELSE wsubus_client_connect_retry(
            wsubus_client_set_state(list, w, "Disconnected"), w)

\* It calls back with an error, the handle being in *pwsi already, and returns NULL.
ConnectFailsAtOnce(i, w) ==
    /\ Running
    /\ clients[i].armed
    /\ Allocated(i, w)
    /\ clients' = OnConnectionError(Fired(i, w), w)
    /\ UNCHANGED lwsVars

\* It returns NULL and that is all: the client keeps its place and its address, and
\* is not tried again.
ConnectNoMemory(i) ==
    /\ Running
    /\ clients[i].armed
    /\ clients' = [clients EXCEPT ![i].armed = FALSE]
    /\ UNCHANGED lwsVars

-----------------------------------------------------------------------------
(* Callbacks of a connection: ws_ubusproxy_cb *)

\* CLIENT_CONNECTION_ERROR after the start.
ConnectionError(w) ==
    /\ ~crashed
    /\ conn[w] = "connecting"
    /\ clients' = OnConnectionError(clients, w)
    /\ conn' = [conn EXCEPT ![w] = "free"]
    /\ UNCHANGED <<writable, up, crashed>>

\* CLIENT_ESTABLISHED of a client that is to go: returning -1 closes the connection.
EstablishedDoomed(w) ==
    /\ Running
    /\ conn[w] = "connecting"
    /\ wsubus_client_should_destroy(clients, w)
    /\ conn' = [conn EXCEPT ![w] = "closing"]
    /\ UNCHANGED <<clients, writable>>

\* CLIENT_ESTABLISHED: the login or listen request is queued, or (no certificate to
\* log in with) nothing is.
Established(w) ==
    /\ Running
    /\ conn[w] = "connecting"
    /\ ~wsubus_client_should_destroy(clients, w)
    /\ clients' = wsubus_client_set_state(clients, w, "Connected")
    /\ conn' = [conn EXCEPT ![w] = "open"]
    /\ writable' \in {writable, writable \cup {w}}

\* The session on this connection queues a message (wsu_queue_write_str).
Send(w) ==
    /\ Running
    /\ conn[w] = "open"
    /\ w \notin writable
    /\ writable' = writable \cup {w}
    /\ UNCHANGED <<clients, conn>>

\* CLIENT_WRITEABLE: closes the connection of a client that is to go, or writes.
Writeable(w) ==
    /\ Running
    /\ conn[w] = "open"
    /\ w \in writable
    /\ writable' = writable \ {w}
    /\ conn' = IF wsubus_client_should_destroy(clients, w)
               THEN [conn EXCEPT ![w] = "closing"] ELSE conn
    /\ UNCHANGED clients

\* Mutant: the close does not tell a client that is to go from one to reconnect.
ClosedReconnects(w) ==
    /\ ~crashed
    /\ conn[w] \in {"open", "closing"}
    /\ clients' = wsubus_client_reconnect(
                      wsubus_client_set_state(clients, w, "Disconnected"), w)
    /\ conn' = [conn EXCEPT ![w] = "free"]
    /\ writable' = writable \ {w}
    /\ UNCHANGED <<up, crashed>>

\* Mutant: the close does not set the state.
ClosedKeepsState(w) ==
    /\ ~crashed
    /\ conn[w] \in {"open", "closing"}
    /\ clients' = IF wsubus_client_should_destroy(clients, w)
                  THEN wsubus_client_destroy(clients, w)
                  ELSE wsubus_client_reconnect(clients, w)
    /\ conn' = [conn EXCEPT ![w] = "free"]
    /\ writable' = writable \ {w}
    /\ UNCHANGED <<up, crashed>>

\* CLIENT_CLOSED, on either side's initiative.
Closed(w) ==
    /\ ~crashed
    /\ conn[w] \in {"open", "closing"}
    /\ clients' =
          IF wsubus_client_should_destroy(clients, w)
          THEN wsubus_client_destroy(clients, w)
          ELSE wsubus_client_reconnect(
                  wsubus_client_set_state(clients, w, "Disconnected"), w)
    /\ conn' = [conn EXCEPT ![w] = "free"]
    /\ writable' = writable \ {w}
    /\ UNCHANGED <<up, crashed>>

\* The end of main: uloop has stopped, wsubus_client_clean frees every entry, and
\* lws_context_destroy then ends the connections.
Clean ==
    /\ up /\ ~crashed
    /\ up' = FALSE
    /\ clients' = <<>>
    /\ UNCHANGED <<lwsVars, crashed>>

-----------------------------------------------------------------------------
\* The steps of owsd and lws other than the ubus methods.
LwsStep ==
    \/ \E i \in DOMAIN clients, w \in Wsi : ConnectStarts(i, w) \/ ConnectFailsAtOnce(i, w)
    \/ \E i \in DOMAIN clients : ConnectNoMemory(i)
    \/ \E w \in Wsi : \/ ConnectionError(w) \/ EstablishedDoomed(w) \/ Established(w)
                      \/ Send(w) \/ Writeable(w) \/ Closed(w)
    \/ Clean

MethodStep ==
    \/ \E a \in Addr : Add(a) \/ RemoveIp(a)
    \/ \E i \in 0..MaxClients : RemoveIndex(i) \/ RemoveIndexUnknown(i)

Next == LwsStep \/ MethodStep

Spec == Init /\ [][Next]_vars

\* What lws guarantees: an attempt to connect ends, a requested WRITEABLE callback
\* comes (or the connection ends), a connection that a callback refused is closed.  A
\* handle is in one of these phases at a time, so that one condition covers the three.
LwsEnds(w) ==
    \/ ConnectionError(w) \/ EstablishedDoomed(w) \/ Established(w)
    \/ Writeable(w) \/ (w \in writable /\ Closed(w))
    \/ conn[w] = "closing" /\ Closed(w)

-----------------------------------------------------------------------------
(* Properties *)

\* The list is sorted by index without duplicates, whatever is added and removed: an
\* index names one client, and uproxyd's loop over the list relies on the order.
IndexOrder ==
    \A i, j \in DOMAIN clients : i < j => clients[i].index < clients[j].index

\* No address is connected to twice: at most one entry of an address is not on its
\* way out, though removed entries of it may linger.  (unique_ip)
OneClientPerAddress ==
    \A i, j \in DOMAIN clients :
        /\ clients[i].addr = clients[j].addr
        /\ "Teardown" \notin {clients[i].state, clients[j].state}
        => i = j

\* What lws may hold for the handle of an entry.
Phase(c) ==
    CASE c.state = "Disconnected" -> {"free"}
      [] c.state = "Connecting" -> {"connecting"}
      [] c.state = "Connected" -> {"open"}
      [] OTHER -> {"connecting", "open", "closing"}

\* Every connection of lws belongs to exactly one entry, one that expects it, and
\* every entry that is not disconnected has its connection: the search by handle
\* never misses and never finds someone else's entry.
ConnectionsOwned ==
    up => /\ \A i \in DOMAIN clients :
                clients[i].wsi # None => conn[clients[i].wsi] \in Phase(clients[i])
          /\ \A w \in Wsi : conn[w] # "free" =>
                Cardinality({i \in DOMAIN clients : clients[i].wsi = w}) = 1

\* Only a disconnected client waits for its timer: no client is connected to while an
\* earlier attempt or connection of it is still there.
OneAttemptAtATime ==
    \A i \in DOMAIN clients : clients[i].armed => clients[i].state = "Disconnected"

\* A removed client never comes back: it stays marked until it is deleted.
TeardownFinal ==
    [][\A i \in DOMAIN clients : clients[i].state = "Teardown" =>
          \A j \in DOMAIN clients' : clients'[j].index = clients[i].index =>
              clients'[j] = clients[i]]_vars

\* A removed client is deleted in the end, whether it was connecting, connected, or
\* in the middle of the handshake when the call came.
TeardownEnds ==
    \A k \in 0..MaxClients-1 :
        LET Going == \E i \in DOMAIN clients :
                        clients[i].index = k /\ clients[i].state = "Teardown"
        IN  Going ~> (~Going \/ crashed)
=============================================================================

------------------------------ MODULE Process -------------------------------
(***************************************************************************)
(* The process around the protocol code: main() reads the options, creates *)
(* the vhosts, runs the loop and takes everything apart again; in between  *)
(* uloop and lws are joined by the table of polled descriptors.            *)
(* All lws callbacks run inside lws_service_fd or lws_context_destroy.     *)
(***************************************************************************)
EXTENDS Integers, Sequences, SequencesExt, FiniteSets

CONSTANTS
    Fd,           \* descriptors lws may use
    Origin,       \* values of -o
    MaxOpts,      \* bound: options that change vhosts
    MaxPolled,    \* bound: descriptors are polled in runs with no more options than this
    MaxServices,  \* the 30 of ufd_service_cb
    Pages, PageSize, LongMax,  \* sysconf(_SC_PHYS_PAGES), _SC_PAGE_SIZE, LONG_MAX
    QUERY_SIZE, MIN_TOTAL_ASYNC_REQS, MAX_TOTAL_ASYNC_REQS

ASSUME ProcessAssumption ==
    /\ MaxOpts \in Nat /\ MaxPolled \in Nat /\ MaxServices \in Nat
    /\ Pages \subseteq Nat /\ {PageSize, LongMax, QUERY_SIZE} \subseteq Nat \ {0}
    /\ MIN_TOTAL_ASYNC_REQS \in Nat /\ MAX_TOTAL_ASYNC_REQS \in Nat
    /\ MIN_TOTAL_ASYNC_REQS <= MAX_TOTAL_ASYNC_REQS
    \* without overflow, so much memory allows the largest budget
    /\ MAX_TOTAL_ASYNC_REQS * QUERY_SIZE * 10 <= 3 * LongMax

VARIABLES
    at,        \* options, connected, running, the next place in Shutdown; at last ended,
               \* failed (main gives up before the loop runs) or crashed
    opts,      \* options read so far
    nodes,     \* every vhinfo_list that was allocated, in that order
    currvh,    \* the list: places in nodes, first element first
    vhosts,    \* the vhosts that lws was asked for: name, context, whether it agreed
    budget,    \* total_req_max, and while starting the pages it was computed from
    alive,     \* what main() has allocated and not freed
    lws,       \* descriptors in use by lws
    ufds,      \* the table: flags of the uloop_fd, or None
    uloop,     \* the events that the loop polls for
    hup,       \* descriptors whose peer is gone
    services,  \* services left in ufd_service_cb; Idle outside of it
    wrong      \* a callback has used something that was freed

confVars == <<opts, nodes, currvh, vhosts, budget>>
pollVars == <<lws, ufds, uloop, hup>>
vars == <<at, confVars, alive, pollVars, services, wrong>>

None == {"none"}
NotUsed == [role |-> "none", want |-> {}, doomed |-> FALSE]
Idle == -1

Init ==
    /\ at = "options" /\ opts = 0
    /\ nodes = <<>> /\ currvh = <<>> /\ vhosts = {}
    /\ budget = [reqs |-> 0, pages |-> 0]
    /\ alive = {}
    /\ lws = [d \in Fd |-> NotUsed] /\ ufds = [d \in Fd |-> None] /\ uloop = [d \in Fd |-> {}]
    /\ hup = {} /\ services = Idle /\ wrong = FALSE

-----------------------------------------------------------------------------
(* Options *)

\* A new vhost: no interface, no origins, every user, origins restricted.
NewNode(port) ==
    [port |-> port, iface |-> FALSE, origins |-> <<>>, users |-> FALSE, restrict |-> TRUE]

\* new_vhinfo_list, filled in by the caller.
new_vhinfo_list(n) ==
    /\ nodes' = Append(nodes, n)
    /\ currvh' = <<Len(nodes) + 1>> \o currvh

OptionRead ==
    /\ at = "options" /\ opts < MaxOpts
    /\ opts' = opts + 1
    /\ UNCHANGED <<vhosts, budget, alive, pollVars, services, wrong>>

\* -p; the number of the option stands for the port.
OptionPort == OptionRead /\ new_vhinfo_list(NewNode(opts')) /\ UNCHANGED at

\* Changes of the newest vhost.  Without one, currvh is NULL.
Newest == nodes[Head(currvh)]
ChangeNewest(n) == nodes' = [nodes EXCEPT ![Head(currvh)] = n] /\ UNCHANGED currvh

\* -i: a second interface of a port needs a vhost of its own.
OptionInterface ==
    IF Newest.iface THEN new_vhinfo_list([NewNode(Newest.port) EXCEPT !.iface = TRUE])
    ELSE ChangeNewest([Newest EXCEPT !.iface = TRUE])

OptionOrigin(o) == ChangeNewest([Newest EXCEPT !.origins = Append(@, o)])
OptionUser == ChangeNewest([Newest EXCEPT !.users = TRUE])
OptionAnyOrigin == ChangeNewest([Newest EXCEPT !.restrict = FALSE])

PerVhost ==
    /\ OptionRead
    /\ IF currvh = <<>> THEN at' = "crashed" /\ UNCHANGED <<nodes, currvh>>
       ELSE /\ UNCHANGED at
            /\ \/ OptionInterface \/ OptionUser \/ OptionAnyOrigin
               \/ \E o \in Origin : OptionOrigin(o)

\* -f: an entry of "owsd-listen"; one without port or interface is skipped.  A strict one
\* restricts users and origins, the others neither.
create_vhost_by_json(complete, origins, strict) ==
    /\ OptionRead /\ UNCHANGED at
    /\ IF complete
       THEN new_vhinfo_list([port |-> opts', iface |-> TRUE, origins |-> origins,
                             users |-> strict, restrict |-> strict])
       ELSE UNCHANGED <<nodes, currvh>>

\* -t, -r, -m or -p with an invalid value.
OptionInvalid == OptionRead /\ at' = "failed" /\ UNCHANGED <<nodes, currvh>>

-----------------------------------------------------------------------------
(* Starting *)

\* pages * page_size overflows a long; what is then left to convert to int is undefined
\* if the product came out negative.
Wrapped(x) == ((x + LongMax + 1) % (2 * (LongMax + 1))) - (LongMax + 1)

Clamp(x) ==
    CASE x > MAX_TOTAL_ASYNC_REQS -> MAX_TOTAL_ASYNC_REQS
      [] x < MIN_TOTAL_ASYNC_REQS -> MIN_TOTAL_ASYNC_REQS
      [] OTHER -> x

\* Mutant: of all the memory.
CalculateOfAll(pages) ==
    LET tot_available == Wrapped(pages * PageSize)
    IN  IF tot_available < 0 THEN MIN_TOTAL_ASYNC_REQS..MAX_TOTAL_ASYNC_REQS
        ELSE {Clamp(tot_available \div QUERY_SIZE)}

calculate_total_req_max(pages) ==
    LET tot_available == Wrapped(pages * PageSize)
    IN  IF tot_available < 0 THEN MIN_TOTAL_ASYNC_REQS..MAX_TOTAL_ASYNC_REQS
        ELSE {Clamp((tot_available * 3) \div (10 * QUERY_SIZE))}

\* The bus is connected, the table allocated, the budget computed.
Connect ==
    /\ at = "options"
    /\ at' = "connected"
    /\ alive' = {"clients", "vhosts", "ufds", "ubus"}
    /\ \E p \in Pages : \E n \in calculate_total_req_max(p) : budget' = [reqs |-> n, pages |-> p]
    /\ UNCHANGED <<opts, nodes, currvh, vhosts, pollVars, services, wrong>>

\* ubus_connect fails: nothing is taken apart.
ConnectFails ==
    /\ at = "options" /\ at' = "failed"
    /\ UNCHANGED <<confVars, alive, pollVars, services, wrong>>

\* Mutant: the list of users is not copied.
CopyNoUsers(n) == [n EXCEPT !.users = FALSE]

\* The name, the port, the restriction and both lists of strings are copied.
copy_vhinfo_list(n) == n

\* One vhost named default for each element of the list, and one for each of its origins
\* with a copy of the element.
Copies(c) ==
    [i \in DOMAIN nodes[c].origins |->
        [name |-> nodes[c].origins[i], node |-> copy_vhinfo_list(nodes[c])]]
AllCopies == FlattenSeq([i \in DOMAIN currvh |-> Copies(currvh[i])])

\* What lws is asked to create; it may refuse, and main() goes on.
Requested ==
    {[name |-> "default", ctx |-> c] : c \in ToSet(currvh)}
      \cup {[name |-> AllCopies[i].name, ctx |-> Len(nodes) + i] : i \in DOMAIN AllCopies}

\* The copies are put in front of each other, and their list behind the last element.
CreateVhosts ==
    /\ nodes' = nodes \o [i \in DOMAIN AllCopies |-> AllCopies[i].node]
    /\ currvh' = IF currvh = <<>> THEN <<>>
                 ELSE currvh \o Reverse([i \in DOMAIN AllCopies |-> Len(nodes) + i])
    /\ \E refused \in {{}} \cup {{v} : v \in Requested} :
          vhosts' = {[name |-> v.name, ctx |-> v.ctx, ok |-> v \notin refused] : v \in Requested}

Start ==
    /\ at = "connected"
    /\ at' = "running"
    /\ alive' = alive \cup {"lws"}
    /\ CreateVhosts
    /\ budget' = [budget EXCEPT !.pages = 0]
    /\ UNCHANGED <<opts, pollVars, services, wrong>>

\* lws_create_context fails: error_ubus_ufds.
StartFails ==
    /\ at = "connected"
    /\ at' = "failed"
    /\ alive' = alive \ {"ufds", "ubus"}
    /\ UNCHANGED <<confVars, pollVars, services, wrong>>

-----------------------------------------------------------------------------
(* Polling.  lws reads from every descriptor, and asks for a write callback on some. *)

Masks == {{"R"}, {"R", "W"}}

\* ADD_POLL_FD: without memory, or refused by uloop, the place stays empty; lws closes then.
AddPollFd(d, role, mask) ==
    /\ lws[d] = NotUsed /\ opts <= MaxPolled
    /\ role # "remote" => \E v \in vhosts : v.ok
    /\ \/ /\ lws' = [lws EXCEPT ![d] = [role |-> role, want |-> mask, doomed |-> FALSE]]
          /\ ufds' = [ufds EXCEPT ![d] = mask]
          /\ uloop' = [uloop EXCEPT ![d] = mask]
       \/ /\ lws' = [lws EXCEPT ![d] = [role |-> role, want |-> mask, doomed |-> TRUE]]
          /\ UNCHANGED <<ufds, uloop>>
    /\ UNCHANGED hup

\* DEL_POLL_FD, also for a descriptor that was not added.
DelPollFd(d) ==
    /\ lws[d] # NotUsed
    /\ lws' = [lws EXCEPT ![d] = NotUsed]
    /\ ufds' = [ufds EXCEPT ![d] = None]
    /\ uloop' = [uloop EXCEPT ![d] = IF ufds[d] = None THEN @ ELSE {}]
    /\ hup' = hup \ {d}

\* Mutant: uloop is told only of more events.
ChangeModeAdds(d, mask) ==
    /\ lws[d] # NotUsed /\ ~lws[d].doomed /\ lws[d].want # mask
    /\ ufds' = [ufds EXCEPT ![d] = mask]
    /\ lws' = [lws EXCEPT ![d].want = mask]
    /\ uloop' = IF ufds[d] \subseteq mask THEN [uloop EXCEPT ![d] = mask] ELSE uloop
    /\ UNCHANGED hup

\* CHANGE_MODE_POLL_FD: uloop is told if the mask differs from the flags it has; it may
\* refuse, and lws closes then.
ChangeModePollFd(d, mask) ==
    /\ lws[d] # NotUsed /\ ~lws[d].doomed /\ lws[d].want # mask
    /\ ufds' = [ufds EXCEPT ![d] = mask]
    /\ \/ /\ lws' = [lws EXCEPT ![d].want = mask]
          /\ uloop' = IF mask # ufds[d] THEN [uloop EXCEPT ![d] = mask] ELSE uloop
       \/ /\ mask # ufds[d]
          /\ lws' = [lws EXCEPT ![d].want = mask, ![d].doomed = TRUE]
          /\ UNCHANGED uloop
    /\ UNCHANGED hup

\* What lws may do in one service: close what it must, or else one thing.
LwsWork ==
    IF \E d \in Fd : lws[d].doomed
    THEN \E d \in Fd : lws[d].doomed /\ DelPollFd(d)
    ELSE \E d \in Fd :
           \/ \E role \in {"listen", "session", "remote"}, mask \in Masks : AddPollFd(d, role, mask)
           \/ DelPollFd(d)
           \/ \E mask \in Masks : ChangeModePollFd(d, mask)
           \/ UNCHANGED pollVars

\* Mutant: only the event mask is converted.
HangupNotTold(d) == d \in {}

\* The pollfd that lws gets tells it of a hang-up.
HangupTold(d) == d \in hup

\* ufd_service_cb begins; lws closes a connection whose peer is gone.
Service(d) ==
    /\ at = "running" /\ services = Idle
    /\ uloop[d] # {}
    /\ IF HangupTold(d) THEN DelPollFd(d) ELSE LwsWork
    /\ services' = MaxServices
    /\ UNCHANGED <<at, confVars, alive, wrong>>

\* lws has more to do at once.
ReService ==
    /\ services > 0
    /\ LwsWork
    /\ services' = services - 1
    /\ UNCHANGED <<at, confVars, alive, wrong>>

\* lws has no more to do, or has done enough.
ServiceDone ==
    /\ services # Idle
    /\ services' = Idle
    /\ UNCHANGED <<at, confVars, alive, pollVars, wrong>>

\* utimer_service: lws looks for time-outs.
utimer_service ==
    /\ at = "running" /\ services = Idle
    /\ LwsWork
    /\ UNCHANGED <<at, confVars, alive, services, wrong>>

PeerGone(d) ==
    /\ at = "running" /\ lws[d].role \in {"session", "remote"} /\ ~lws[d].doomed
    /\ hup' = hup \cup {d}
    /\ UNCHANGED <<at, confVars, alive, lws, ufds, uloop, services, wrong>>

-----------------------------------------------------------------------------
(* Stopping *)

\* uloop_run returns, uloop_done closes the poll descriptor.
Stop ==
    /\ at = "running" /\ services = Idle
    /\ at' = "clients"
    /\ uloop' = [d \in Fd |-> {}]
    /\ UNCHANGED <<confVars, alive, lws, ufds, hup, services, wrong>>

\* Mutant: the table goes before lws.
ShutdownTableFirst == <<"clients", "vhosts", "ufds", "lws", "ubus">>

\* The order of the rest of main().
Shutdown == <<"clients", "vhosts", "lws", "ufds", "ubus">>
After(s) ==
    LET i == CHOOSE i \in DOMAIN Shutdown : Shutdown[i] = s
    IN  IF i = Len(Shutdown) THEN "ended" ELSE Shutdown[i + 1]

Uses(S) == wrong' = (wrong \/ ~(S \subseteq alive))

\* wsubus_client_clean: lws asks for write callbacks on the connections of the clients,
\* which uloop refuses now.
CleanClients ==
    /\ at = "clients"
    /\ LET asked == {d \in Fd : lws[d].role = "remote" /\ ~lws[d].doomed}
       IN  /\ lws' = [d \in Fd |-> IF d \in asked THEN [lws[d] EXCEPT !.want = {"R", "W"}] ELSE lws[d]]
           /\ ufds' = [d \in Fd |-> IF d \in asked THEN {"R", "W"} ELSE ufds[d]]
           /\ Uses(IF asked = {} THEN {} ELSE {"lws", "ufds"})
    /\ at' = After(at)
    /\ alive' = alive \ {"clients"}
    /\ UNCHANGED <<confVars, uloop, hup, services>>

FreedNode == NewNode(0)

\* Mutant: the loop ends in front of the last element.
FreeAllButLast ==
    /\ at = "vhosts"
    /\ at' = After(at)
    /\ alive' = alive \ {"vhosts"}
    /\ currvh' = <<>>
    /\ nodes' = [i \in DOMAIN nodes |-> IF i \in ToSet(Front(currvh)) THEN FreedNode ELSE nodes[i]]
    /\ UNCHANGED <<opts, vhosts, budget, pollVars, services, wrong>>

\* The elements of the list and what they own; what is not on the list stays.
FreeVhosts ==
    /\ at = "vhosts"
    /\ at' = After(at)
    /\ alive' = alive \ {"vhosts"}
    /\ currvh' = <<>>
    /\ nodes' = [i \in DOMAIN nodes |-> IF i \in ToSet(currvh) THEN FreedNode ELSE nodes[i]]
    /\ UNCHANGED <<opts, vhosts, budget, pollVars, services, wrong>>

\* lws_context_destroy closes what is open; the callbacks of sessions and of connections
\* to remote owsd give up their requests and objects on the bus.
DestroyCloses(d) ==
    /\ at = "lws"
    /\ DelPollFd(d)
    /\ Uses({"ufds"} \cup IF lws[d].role = "listen" THEN {} ELSE {"ubus"})
    /\ UNCHANGED <<at, confVars, alive, services>>

Freed(r) ==
    /\ at = r
    /\ r = "lws" => \A d \in Fd : lws[d] = NotUsed
    /\ at' = After(at)
    /\ alive' = alive \ {r}
    /\ vhosts' = IF r = "lws" THEN {} ELSE vhosts
    /\ UNCHANGED <<opts, nodes, currvh, budget, pollVars, services, wrong>>

MainStep ==
    \/ CleanClients \/ FreeVhosts
    \/ \E d \in Fd : DestroyCloses(d)
    \/ \E r \in {"lws", "ufds", "ubus"} : Freed(r)

-----------------------------------------------------------------------------
Next ==
    \/ OptionPort \/ PerVhost \/ OptionInvalid
    \/ \E complete, strict \in BOOLEAN, origins \in BoundedSeq(Origin, 1) :
          create_vhost_by_json(complete, origins, strict)
    \/ Connect \/ ConnectFails \/ Start \/ StartFails
    \/ \E d \in Fd : Service(d) \/ PeerGone(d)
    \/ ReService \/ ServiceDone \/ utimer_service
    \/ Stop \/ MainStep

Spec == Init /\ [][Next]_vars

\* A callback of uloop ends, and uloop does not pass over a descriptor for
\* ever, since it handles all events of a poll before it polls again.
FairSpec ==
    /\ Spec
    /\ WF_vars(ReService \/ ServiceDone)
    /\ \A d \in Fd : SF_vars(Service(d) /\ d \in hup)

-----------------------------------------------------------------------------
(* Properties *)

\* While the loop runs, uloop polls a descriptor for exactly what lws wants of it, through
\* the table, unless lws is about to close it because that failed; nothing else is polled.
TableAgrees ==
    at = "running" => \A d \in Fd :
        IF lws[d] = NotUsed THEN ufds[d] = None /\ uloop[d] = {}
        ELSE ~lws[d].doomed => ufds[d] = lws[d].want /\ uloop[d] = lws[d].want

\* Whatever lws calls back for while it is taken apart, what the callback uses is there.
NoUseOfFreed == ~wrong

\* A vhost refers to a context with the users, the origins and the restriction that were
\* configured for its port, and every configured vhost and origin was asked for.
VhostsExact ==
    at = "running" =>
        /\ \A v \in vhosts : v.ctx \in ToSet(currvh)
        /\ \A v, w \in vhosts : v.ctx = w.ctx => v = w
        /\ \A v \in vhosts : v.name = "default" \/ v.name \in ToSet(nodes[v.ctx].origins)
        /\ \A c \in ToSet(currvh) : \E v \in vhosts : v.name = "default" /\ nodes[v.ctx] = nodes[c]
        /\ \A c \in ToSet(currvh) : \A o \in ToSet(nodes[c].origins) :
              \E v \in vhosts : v.name = o /\ nodes[v.ctx] = nodes[c]

\* After the loop has ended in the normal way, nothing that was allocated is left.
AllFreed ==
    at = "ended" =>
        /\ alive = {}
        /\ \A i \in DOMAIN nodes : nodes[i] = FreedNode
        /\ \A d \in Fd : ufds[d] = None

\* The budget of requests takes no more than 30% of the memory, or is the least one; also
\* where the size of the memory does not fit into a long.
BudgetFits ==
    at = "connected" =>
        \/ budget.reqs = MIN_TOTAL_ASYNC_REQS
        \/ /\ budget.reqs * QUERY_SIZE * 10 <= 3 * budget.pages * PageSize
           /\ budget.reqs \in MIN_TOTAL_ASYNC_REQS..MAX_TOTAL_ASYNC_REQS

\* A connection whose peer is gone is closed, although lws is told of it by uloop, if
\* the loop runs long enough.
HangupCloses == \A d \in Fd : d \in hup ~> (d \notin hup \/ at # "running")
=============================================================================

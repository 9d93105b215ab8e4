# TLA+ models of owsd

owsd lets WebSocket clients use the ubus of a device over JSON-RPC, and extends
the ubus of remote devices to the local one ("ubus-x"). This directory holds
specifications of its state machines, the TLC runs that check them on small
instances, and TLAPS proofs for instances of any size. The modelled build is the
one with ubus and the ubus proxy; `DbusRequests` is about the build with DBus.

## The system

owsd is one process with one thread. `uloop` dispatches libwebsockets callbacks,
replies and events of ubus, and timers. A callback runs to its end before the next
one starts, so **one action is one callback**, everything it calls included. Within a
callback owsd makes synchronous ubus lookups; a reply to another request that libubus
delivers during such a lookup is modelled as a step before or after the callback.

| Part | Source | Model |
| --- | --- | --- |
| Client sessions: open, close, admission, dispatch, share of the request budget, cleaner | `wsubus.c`, `wsubus.impl.h`, `rpc.c` | `ClientSessions` |
| ubus calls | `rpc_call.c`, `rpc_call_ubus.h` | `ClientSessions` |
| Event subscriptions | `rpc_sub.c` | `ClientSessions` |
| Listing over ubus | `rpc_list.c`, `rpc_list_ubus.h` | `ClientSessions` (answered at once) |
| Access checks | `access_check.c` | `AccessCheck` (one check), `ClientSessions` (the checks of all sessions) |
| Origin filter, receive framing, write queue | `wsubus.c`, `wsubus.impl.h` | `Transport` |
| Registry of proxy clients, object `owsd.ubusproxy` | `wsubus_client.c` | `ProxyClients`, `PatternTrees` (path patterns) |
| Connections to remote owsd | `ws_ubusproxy.c` | `ProxyClients` (connection callbacks), `RemoteSession` (messages) |
| Stubs of remote objects, calls through them | `local_stub.c`, `wsubus.impl.h` | `RemoteSession` |
| uproxyd, a separate process | `uproxyd.c` | `Uproxyd` |
| Object ACL of ubus-x | `ubusx_acl.c` | `PatternTrees`, `AccessCheck` |
| DBus calls and listing, timers of libdbus | `rpc_call_dbus.h`, `rpc_list_dbus.c`, `util_dbus.c`, `dbus-io.c` | `DbusRequests` |
| Options, vhosts, request budget, poll integration, shutdown | `main.c`, `config.c`, `ws_http.c` | `Process` |
| HTTP files, schema validation, conversions | `ws_http_serve.c`, `schema.c`, `util_json*.c`, `dubus_conversions_*.c` | see "Not modelled" |

A client's request comes in through the session, becomes a call with an access check,
is invoked on the bus and answered; the bus may equally well be one that a remote owsd
offers through a stub. The registry decides which remote devices owsd connects to;
uproxyd feeds the registry. `Transport` is below the requests of a session, `Process`
around everything.

Libraries are external and modelled from how the code uses them: libwebsockets (when it
calls back, how much it reads and writes), libubus and rpcd (whether and in which order
they answer), libdbus (pending calls), libubox (the AVL tree), and the remote owsd.

## ClientSessions

`Wsi` are connection handles, reused after a close. An element of `Req` is a message,
and then the heap object a handler makes of it: a `wsubus_percall_ctx` (its stage is
`call[r]`) or a `ws_sub_info_ubus` (its pattern is `sub[r]`). `access_check_q` holds the
checks in progress of all sessions: the one embedded in a call ctx (`ev = 0`), or one for
each event on its way to a subscriber. `rpc_q_len` wraps like the `uint32_t` it is;
handlers that answer at once take one off *before* their caller adds one.

Actions: `Establish`, `Close` (`wsu_peer_init/_deinit`); one `Rx...`/`Handle...` action per
way a message can go (not JSON, queue full, invalid, call, call whose check cannot be
started, request without state, subscribe, unsubscribe); `AccessGranted`,
`AccessDenied`, `CallCompleted`, `BusEvent`, `EventChecked` for the answers of the bus;
`Tick` and `CleanStale` for time. A callback that works on freed memory is undefined:
the model lets it go on as if nothing happened, or stop for good (`UseFreed`, `crashed`).

`RpcService` is what a client is promised, without queues, checks and the bus: a request
is taken once, answered at most once and only while its connection is open, or given up.
`ClientSessions` implements it with `pending` mapped to the requests whose ctx is alive, and
`DbusRequests` with `pending` mapped to the requests in progress of its one session.

## ProxyClients and Uproxyd

`clients` is the linked list of `client_connection_info`, with its order. `conn` and
`writable` are what libwebsockets (external) holds: the phase of every handle, and the
requested WRITEABLE callbacks. The functions of `wsubus_client.c` are operators on the list
that keep their names; they find "their" entry as the code does, by searching for the
handle. Actions: the methods `Add`, `RemoveIp`, `RemoveIndex` (`RemoveIndexUnknown` uses a
NULL entry: `crashed`), the three outcomes of the timer (`ConnectStarts`,
`ConnectFailsAtOnce`, `ConnectNoMemory`), the callbacks `Established`, `EstablishedDoomed`,
`ConnectionError`, `Writeable`, `Closed`, and `Clean` at the end of `main`.

An entry keeps the handle of its closed connection until its timer fires. `Allocated`
assumes that the allocator does not give that address to a connection of another entry
meanwhile; the source cannot rule it out. `ConnectNoMemory` (connecting returns NULL and
does not call back) is always possible; the client is then without a timer until it is
removed. A search in the list is the relation that it satisfies (`FreePlace`, `InOrder`),
not the loop that computes it.

`Uproxyd` composes the registry with the second process. A poll is a list call, followed
by a loop in which each remove is a call of its own; owsd may do anything in between,
other callers of the methods included.

## RemoteSession

One connection to a remote owsd, from CLIENT_ESTABLISHED to CLIENT_CLOSED. `waiting`,
`call_id`, `calls` (the slots, with the bits of `waiting_for.call`) and `stubs` (the tree) are
the fields of `wsu_remote_bus`; object names are numbers, so that the tree has its order.
CLIENT_RECEIVE is one action per branch: `ReceiveLogin`, `ReceiveListen`, `ReceiveList`,
`ReceiveCall`, `ReceiveIgnored`, `ReceiveError`, `ReceiveAdd`, `ReceiveRemove`. Replayed events
change nothing here and are left out. `Merge` is the walk of the list along the tree, step by
step; `Merged` says what it is for. Behind the last stub the loop macro of libubox may take
the head of its list for an element. That is undefined, and the model lets it end the
program, give up on the rest, or have no effect (`wild`, `crashed`).

The other side is a remote owsd (external): it answers login, listen and list in order, or
with an error; calls in any order, with an error, or never; its events pass an access check,
so that a list may overtake them, but keep their order. A local caller is `waiting`,
`answered`, or `unanswered` (refused because no slot is free, or left alone by a close).

## PatternTrees and AccessCheck

`paths` and `uxacl` are the trees of the options `-P` and `-X`. Their comparator calls two
patterns equal when one covers the other, so it is no order, and what an insertion or a
search meets depends on the shape of the tree. A tree is the sequence of its keys, and
`Hits` and `Misses` are where a search may end over *all* shapes a binary tree of these keys
can have.
`wsubus_client_path_pattern_add` and `ubusx_acl__add_object` insert as the code does (the
former replaces narrower patterns, the latter leaves it to `avl_insert`).

`AccessCheck` adds one check on top: `wsubus_access_check_` goes along the chain of checkers
(extended session, TLS certificate and ACL, login restriction, rpcd), and its decision is
deferred to a timer (`deferral_cb`) or left to rpcd (`wsubus_access_check__on_ret`,
`wsubus_access_check__cb`); `wsubus_access_check__cancel` may come at any time. For a call of
an object whose name contains "ubus.object." the code reads an event message that is not
there: any name, or a crash (`Misread`).

## Transport

One connection, in bytes. Reading: frames of several pieces, messages of several frames,
text and binary (`wsubus_rx`, `wsubus_rx_blob`); `Verdict` is what the tokener makes of a
piece, `fed` and `bad` are what it remembers. A message that is too long shuts the socket
down for reading, but pieces that are already there are still handled. Writing:
`wsu_queue_write_str` queues and asks for a callback; `wsubus_tx_text` writes until lws takes
only a part (`TxPartial`), reports an error (`TxError`), or has taken all (`TxAll`). A byte is
`<<message, offset>>`, so that a lost, repeated or misplaced one shows.

## DbusRequests

The requests of one client in the build with DBus. A request is a call (`handle_call_dbus`,
`wsd_call_cb`) or a list, which asks for the names (`handle_list_dbus`, `wsd_list_cb`) and then
visits objects one Introspect call after the other (`wsd_introspect_cb`). A pending call has
a timeout in one of the `MaxTimers` slots of `dbus-io.c`; `wsd_trigger_timer` turns it into an
error reply, and replies are dispatched by a later timer, so that they meet the timeout and
the close of the session in any order. A failed list stays linked after it is freed; what the
next use of the queue does is undefined (`TouchQueue`). The session is one connection of
`RpcService`, open from the start; a request that goes on to ubus is dropped as far as this
module is concerned.

## Process

`main()` from the options to the end. Options build the list of vhost contexts (`nodes`,
`currvh`); `calculate_total_req_max` computes in a `long` that wraps (`Wrapped`);
`CreateVhosts` makes one vhost for each context and each of its origins, and any may fail.
While the loop runs, `AddPollFd`, `DelPollFd` and `ChangeModePollFd` keep the table `ufds` between
lws and uloop; `Service`, `ReService` and `ServiceDone` are the rounds of `ufd_service_cb`. Then
`Shutdown` gives the order in which things are freed, with lws calling back for every
descriptor when its context is destroyed (`DestroyCloses`).

## Runs

| Run | Checks |
| --- | --- |
| `sessions` | `QLenExact`, `OutstandingBounded`, `NoOrphans`, `NoLostCheck`, `AtMostOneReply`, `ShareUpToDate`, `SubscriptionLasts`, `ImplementsService` (refinement of `RpcService`), `CallsEnd` |
| `registry` | `IndexOrder`, `OneClientPerAddress`, `ConnectionsOwned`, `OneAttemptAtATime`, `TeardownFinal` |
| `uproxyd` | `PollEnds`, `StaleEnds`, `TeardownEnds` |
| `remote` | `HandshakeFirst`, `SlotPerCall`, `StubsCatchUp`, `ResultsReachCallers`, `ListMerged` |
| `access` | `PathsExact`, `AclSearchExact`, `GrantedForAReason`, `CallbackExact` |
| `transport` | `StreamExact`, `WriteRequested`, `HandledWhole`, `QueueDrains` |
| `dbus` | `RepliesReachLive`, `TimerPerCall`, `ImplementsRpc` (refinement of `RpcService`), `RequestsEnd` |
| `process` | `TableAgrees`, `NoUseOfFreed`, `VhostsExact`, `AllFreed`, `BudgetFits`, `HangupCloses` |

Each property is stated in words above its definition. All of these hold. Every property
has a mutant in PROJECT.json, a plausible mistake in the code under which it fails.

Runs that show a disagreement between the code and what the repository says of it
(PROJECT.json, "findings", quotes both sides):

| Run | Counterexample |
| --- | --- |
| `check_outlives_owner` | a call waits for its access check, 10 s pass, the cleaner frees the call, the check stays |
| `poll_crashes_owsd` | between uproxyd's list and its remove the client is gone, and owsd uses a NULL entry |
| `list_leaves_tree` | a stub exists, two objects behind it are added: the second one meets the end of the tree |
| `acl_order` | an ACL entry is followed by a broader one, which is refused |

### Bounds

* `sessions`: 2 connections, 3 requests, 1 pattern, 1 event. `TotalReqMax` = 1 makes the share
  of two sessions (0) smaller than that of one (1, the cap `MaxAsyncReqs`), so that the share
  changes under calls in progress; admission tests for "more than", so two requests fill a
  queue and the third is for the other connection, a subscription, or is refused. Two
  ticks (`StaleAge`) let calls of different ages meet. `rpc_q_len` wraps at 8.
* `registry`: 2 addresses, 3 entries, 2 handles: an address may have one entry in use and
  two in teardown, and both connections may be at any phase.
* `uproxyd`: 2 configured clients and 1 later `add`; 1 handle, so one connection at a time.
  Failure counts are cut off above the limit (`MaxCount`): larger ones are not told apart.
* `remote`: 2 objects with 2 signatures, 2 callers for 1 slot, 4 requests in a session (any
  number of sessions), 3 messages or events on their way: enough for an object to go, come
  back changed, and be listed before either event arrives, and for a caller to be refused.
  More slots are covered by the proofs. `list_leaves_tree` needs 3 objects.
* `access`: names of up to 2 letters of an alphabet of 2, up to 3 patterns over both trees:
  every way in which two patterns can overlap, and a third to shape the tree. Checks are
  explored under configurations of one pattern (`MaxChecked`): a check sees the ACL only
  through one search, and what searches answer is checked under all configurations.
* `transport`: messages of up to 4 bytes for a limit of 3, in pieces of 1 or 2; 3 outgoing
  messages of 1 or 2 bytes, cut anywhere.
* `dbus`: 3 requests, 2 timer slots, lists of up to 2 objects, `ReqMax` 1: a request may find
  the slots taken, or the queue full.
* `process`: 3 options, 1 origin, 2 descriptors, which are polled in runs with at most one
  option (`MaxPolled`; the two do not interact), 2 services in a row. `LongMax` is 31, and the
  page counts are on both sides of the overflow.

CHECK_DEADLOCK is off where the program may end (after `Clean`, `Close` or the end of
`main`) or crash, and for `access`, which ends with the answer.

### Fairness

* `CallsEnd`: the clock runs, and the cleaner's timer, which sets itself again, fires
  (`WF` of `Tick` and `CleanStale`). Nothing is assumed of rpcd, the called object or the
  client.
* `TeardownEnds`, `StaleEnds`: lws ends every attempt to connect, delivers a requested
  WRITEABLE callback or closes, and closes what a callback refused. `PollEnds`,
  `StaleEnds`: uproxyd runs. Devices need not come or go, and timers of clients need not
  fire. `StaleEnds` is about a finite number of later `add`s (`MaxAdds`).
* `QueueDrains`: lws delivers a requested WRITEABLE callback (`WF` of `wsubus_tx_text`), and
  closes a connection whose callback returned -1. Each callback writes a byte or fails, as a
  socket that is reported writable does.
* `RequestsEnd`: uloop fires a timer that is set (`WF` of `wsd_trigger_timer` and of the
  dispatch of an arrived reply). Nothing is assumed of the services on the bus.
* `HangupCloses`: a round of services goes on (`WF` of `ReService` or `ServiceDone`), and uloop,
  which goes through all events of a poll, does not pass over a hung-up descriptor for
  ever (`SF` of its `Service`, because it is not enabled within another round).

## Proofs

Each proof module extends the component's module and proves its properties for any sets of
connections, requests, clients, descriptors and so on, and any constants that satisfy the
component's named assumption. An assumption says that numbers are numbers, that a null value
is none of the real ones, and that a bound has the least sensible size; `ClientsAssumption`
also says that the addresses on the command line differ, and `ProcessAssumption` that a machine
whose memory overflows a `long` has enough of it for the largest budget.

| Module | Properties proved |
| --- | --- |
| `ClientSessionsProofs` | `QLenExact`, `OutstandingBounded`, `NoOrphans`, `NoLostCheck`, `AtMostOneReply`, `ShareUpToDate`, `SubscriptionLasts`, the refinement `ImplementsService` |
| `ProxyClientsProofs` | `IndexOrder`, `OneClientPerAddress`, `ConnectionsOwned`, `OneAttemptAtATime`, `TeardownFinal`; with uproxyd: `Composition`, `PollForward` |
| `RemoteSessionProofs` | `HandshakeFirst`, `SlotPerCall`, `ResultsReachCallers`, `ListMerged`, `StubsCatchUp` |
| `AccessCheckProofs` | `PathsExact`, `AclSearchExact`, `GrantedForAReason`, `CallbackExact` |
| `DbusRequestsProofs` | `RepliesReachLive`, `TimerPerCall`, `AtMostOneAnswer`, `Awaited`, the refinement `ImplementsRpc` |
| `TransportProofs` | `HandledWhole`, `WriteRequested`, `StreamExact` |
| `ProcessProofs` | `TableAgrees`, `NoUseOfFreed`, `BudgetFits`, `VhostsExact`, `AllFreed` |
| `Inductions` | (lemmas the others share) |

None of the properties is inductive as it stands. The arguments:

* **Sessions** (`IInv`). `QLenExact` needs `NoOrphans` (a new session starts with an empty queue
  and a zero counter) and `Fresh` (a request that has not arrived is in no queue);
  `OutstandingBounded` needs `QLenExact` (admission looks at the counter) and `SessionInv` (the
  share never exceeds MAX_ASYNC_REQS); the exact counter in turn is why decrements never wrap
  (`QueueShrinks`) and why a decrement followed by an increment is neutral (`PlusMinus`). Queues
  are sets of an unbounded universe, so the invariant carries their finiteness. One lemma
  per action (or group with the same footprint) shows that it keeps `IInv`; `StepRefines` shows
  that each step is a step of `RpcService` or leaves it unchanged.
* **Registry** (`RInv`). A callback finds its entry by its handle, so each property of a step
  rests on the search finding the right one. `RInv` says of the list that it is sorted and has
  one entry per address in use (`Pairs`), that handles are not shared (`Distinct`), that each
  entry is in a state that fits what lws holds for its handle (`Sound`), and that no connection
  is without an entry (`Owned`); `HasOwner` and `OwnerFound` get the search from it. It is stated of
  a list and a phase function rather than of the variables, so that it can be followed through
  the operators a callback applies in a row; `UpdateKeeps`, `DeleteKeeps`, `InsertKeeps` and
  `RemoveKeeps` cover the ways a list changes. `InsertKeeps` is where sortedness pays: in a sorted
  list the walk of `insert_at_lowest_free_index` stops at an index that nobody has. `Final`, the
  step part, gives `TeardownFinal`.
* **Registry with uproxyd** (`LoopInv`). The reply that a poll goes through stays sorted by index,
  as the registry was when it answered, whatever happens to the registry since. In a sorted
  list of different indexes none is below its place (`IndexAbovePlace`), so that overwriting
  the loop variable with the index of the current entry never sets it back (`PollForward`):
  the loop ends, and no entry is asked for twice. Every step of the two processes is a step
  of the registry or leaves it alone (`Composition`: `USpec => Spec`), so that the five
  properties of the registry hold while a poll works on an old list.
* **Remote session** (`CallInv`, `SessionInv`). Ids in slots have been given out by the counter, so
  that the next one is new, and none is that of the awaited list. For the handshake the
  invariant follows the one request through the channel: it is on its way (`Asked`), its result
  is the next message (`Answered`), or there will be none (`Refused`); nothing is left of the last
  session (`ClosedClean`).
* **Merging a list** (`Walking`). By induction on the names the walk has dealt with: the tree is
  merged up to there and untouched behind, and the walk has not passed a stub whose name is
  still to come. That is the case because both are in order, until the walk leaves the tree
  (`wild`, which `ListMerged` excludes).
* **Stubs catching up** (`StreamInv`, `StubsInv`). When all is quiet, each stub has an object and
  each matching object has its stub. The first needs `RemovedAfter`: the removal of an object that
  is gone is still to be received, and after every list on its way that has the object, so
  that no list revives it. The second needs `UpToDate`: another list is to come
  (`ListToCome`), or the awaited list has what is on the bus, or none is awaited and the stubs
  have it. A removal that is received late must not take a stub from an object that came
  back: `AddedAfter` says that an add follows it, which asks for a new list. An overwritten
  `list_id` makes an earlier answer worthless only because ids are never given out twice
  (`IdsCounted`).
* **Patterns** (`TreesInv`). The comparator calls patterns equal that overlap, which is not
  transitive. But two patterns either have one within the other (`Within`) or are strictly
  ordered (`Less`), and `Less` is transitive (`CompIs`, `LessTransitive`). `TreesInv` says that the keys of
  both trees are strictly ordered, so that a search ends at an equal key if there is one, whatever
  the shape (`SearchExact`); that every configured path is within a key, so that muting lost
  nothing; and that every key was configured. A name compares equal to a pattern exactly if
  the pattern covers it (`CoversIs`).
* **Access check** (`CheckInv`). The state of the check fixes its timer, its request and what
  the pending decision rests on; `DecisionsHaveReasons` follows the chain of checkers.
* **DBus** (`IInv`). A call in libdbus, its slot, its timer and its ctx refer to each other one to
  one (`BusInv`), as long as the undefined use of a freed list has not ended the program; a list
  walks only while it has targets (`StageInv`). Every request in progress is in the queue of the
  session (`QueueInv`), which is why a close, which goes through the queue, gives up all of them:
  with that and `AtMostOneAnswer` each step is one of `RpcService` (`StepRefines`). `Awaited` says
  that a request in progress has a call in libdbus with a timer or an arrived reply, unless it
  found all slots taken.
* **Transport**. `ReadState` ties the three counts of a message (received, counted, fed to the
  tokener) together while the socket is not shut down; `TxInv` says that nothing is queued before
  the connection is open. `StreamInv` is `StreamExact` with the types of the sequences; its work is in
  how concatenating the rests of messages goes with a message that is added at the end
  (`QueueKeeps`), and with bytes taken from the first one (`TakenMoves`).
* **Process**. `BudgetBound` follows the product through the wrap: a result that is not negative is
  no larger than the true one, and a negative one means that the memory was large. `TableInv` and
  `AliveInv` add what holds before and between: the table is empty until lws runs, and what a
  callback needs is alive up to the destruction of the context. For the vhosts,
  `ListInv` says that the list holds exactly the contexts that were allocated, so that the copies
  made for origins are told apart from them and from each other (`CopiesAre`, `NodesAfter`).
  `FreeInv` says what is left at each stage of the end of `main`.

Loops over data (`Merge`, `Muted`, `FlattenSeq`, the list of vhosts) are recursive functions or folds.
The induction theorems of the library take an operator that the provers cannot instantiate;
`Inductions` derives from the well-foundedness of the numbers a form without one: a set that
holds 0 and the successor of each of its numbers holds them all. The set is then that of the
numbers (or sequences) for which the claim is true. `RemoteSessionProofs`, which needs no
sequences of the library, has its own one over the object names (`AllNames`).

Only model-checked: the liveness properties, under fairness and so out of the prover's
reach. These are `CallsEnd`, `QueueDrains`, `RequestsEnd`, `HangupCloses`, and the three of `Uproxyd`. For
some the safety half is proved: what `RequestsEnd` waits for is there (`Awaited`,
`TimerPerCall`), the loop of `PollEnds` only goes forward (`PollForward`), and the callback that
`QueueDrains` needs is asked for (`WriteRequested`). `Composition` and `PollForward`, and `Awaited`, are
stated in the proof modules and are no properties of a run. All
invariants and the other action properties that the passing runs check are proved.

## Not modelled

* HTTP file serving (`ws_http_serve.c`): reads files and picks headers inside one callback,
  without shared state.
* Schema validation (`schema.c`, `util_json_validation.c`): content of messages; its outcome,
  valid or not, is a choice in the models.
* Conversions between JSON, blobmsg and DBus types (`util_ubus_blob.h`, `dubus_conversions_*.c`):
  functions of their arguments over formats of libraries.
* Watches of libdbus (`dbus-io.c`): added once per connection and toggled after that.
* Options without effect on the modelled state: paths, TLS files, redirects, CGI; exit codes.
* A failed allocation of the JSON parser in `wsu_peer_init` (the connection is refused, with the
  session already counted) and a failing `lws_callback_on_writable`: whether the latter can fail
  for an open connection is up to lws.
* The reuse of a connection handle while an entry of the registry still holds it (see
  `ProxyClients`).
* Properties for hazards that are modelled, but of which no document says what should happen: a
  slot of a remote call that an error reply does not free, callers left alone by the close of
  a remote session, a client whose attempt to connect fails without a callback, and the
  `rpc_q_len` that DBus calls do not lower.

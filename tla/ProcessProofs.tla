--------------------------- MODULE ProcessProofs ----------------------------
(***************************************************************************)
(* The budget of requests for any size of memory and width of a long; the  *)
(* table of polled descriptors and the order of the shutdown for any       *)
(* number of descriptors; the vhosts and what is freed at the end for any  *)
(* options.                                                                *)
(***************************************************************************)
EXTENDS Process, Inductions

-----------------------------------------------------------------------------
(* The budget *)

\* The result of a division, times the divisor, does not exceed what was divided.
LEMMA DivBound ==
    ASSUME NEW a \in Nat, NEW b \in Nat \ {0}
    PROVE  a \div b \in Nat /\ (a \div b) * b <= a
OBVIOUS

\* A remainder is the number itself if that is below the modulus, and never larger.
LEMMA ModBound ==
    ASSUME NEW a \in Nat, NEW b \in Nat \ {0}
    PROVE  a % b \in Nat /\ a % b <= a /\ (a < b => a % b = a)
OBVIOUS

\* Multiplication keeps the order.
LEMMA TimesKeepsOrder ==
    ASSUME NEW a \in Nat, NEW b \in Nat, NEW c \in Nat, a <= b
    PROVE  a * c <= b * c
OBVIOUS

\* A product that wraps to something that is not negative only gets smaller, and one that
\* wraps to a negative number was larger than LONG_MAX.
LEMMA WrapBound ==
    ASSUME NEW x \in Nat
    PROVE  /\ Wrapped(x) \in Int
           /\ Wrapped(x) >= 0 => Wrapped(x) <= x
           /\ Wrapped(x) < 0 => x > LongMax
<1> DEFINE M == LongMax + 1
           r == (x + M) % (2 * M)
<1>1. LongMax \in Nat
  BY ProcessAssumption
<1>2. M \in Nat \ {0} /\ 2 * M \in Nat \ {0} /\ x + M \in Nat
  BY <1>1
<1>3. r \in Nat /\ r <= x + M /\ (x + M < 2 * M => r = x + M)
  BY <1>2, ModBound
<1>4. Wrapped(x) = r - M
  BY <1>1 DEF Wrapped
<1> HIDE DEF r
<1> QED BY <1>1, <1>3, <1>4

\* calculate_total_req_max: within the limits, and the least budget or within the memory.
LEMMA BudgetBound ==
    ASSUME NEW p \in Pages, NEW n \in calculate_total_req_max(p)
    PROVE  /\ n \in MIN_TOTAL_ASYNC_REQS..MAX_TOTAL_ASYNC_REQS
           /\ n = MIN_TOTAL_ASYNC_REQS \/ n * QUERY_SIZE * 10 <= 3 * p * PageSize
<1> DEFINE x == p * PageSize
           t == Wrapped(x)
           b == 10 * QUERY_SIZE
           q == (t * 3) \div b
<1>1. /\ p \in Nat /\ PageSize \in Nat /\ QUERY_SIZE \in Nat \ {0} /\ LongMax \in Nat
      /\ MIN_TOTAL_ASYNC_REQS \in Nat /\ MAX_TOTAL_ASYNC_REQS \in Nat
      /\ MIN_TOTAL_ASYNC_REQS <= MAX_TOTAL_ASYNC_REQS
      /\ MAX_TOTAL_ASYNC_REQS * QUERY_SIZE * 10 <= 3 * LongMax
  BY ProcessAssumption
<1>2. x \in Nat /\ b \in Nat \ {0} /\ 3 * p * PageSize = 3 * x
  BY <1>1
<1>3. t \in Int /\ (t >= 0 => t <= x) /\ (t < 0 => x > LongMax)
  BY <1>2, WrapBound
<1>4. ASSUME NEW m \in Nat PROVE m * QUERY_SIZE * 10 = m * b
  BY <1>1
<1> HIDE DEF x, t
<1>5. CASE t < 0
  <2>1. n \in MIN_TOTAL_ASYNC_REQS..MAX_TOTAL_ASYNC_REQS
    BY <1>5 DEF calculate_total_req_max, t, x
  <2>2. n \in Nat /\ n <= MAX_TOTAL_ASYNC_REQS
    BY <1>1, <2>1
  <2>3. n * b <= MAX_TOTAL_ASYNC_REQS * b
    BY <1>1, <1>2, <2>2, TimesKeepsOrder
  <2>4. MAX_TOTAL_ASYNC_REQS * b <= 3 * LongMax
    BY <1>1, <1>4
  <2>5. n * b \in Nat /\ MAX_TOTAL_ASYNC_REQS * b \in Nat
    BY <1>1, <1>2, <2>2
  <2>6. n * b <= 3 * x
    <3> HIDE DEF b
    <3> QED BY <1>1, <1>2, <1>3, <1>5, <2>3, <2>4, <2>5
  <2> QED BY <1>2, <1>4, <2>1, <2>2, <2>6
<1>6. CASE t >= 0
  <2>1. n = Clamp(q)
    BY <1>1, <1>3, <1>6 DEF calculate_total_req_max, t, x
  <2>2. t * 3 \in Nat
    BY <1>3, <1>6
  <2>3. q \in Nat /\ q * b <= t * 3
    BY <1>2, <2>2, DivBound
  <2> HIDE DEF q
  <2>4. /\ n \in MIN_TOTAL_ASYNC_REQS..MAX_TOTAL_ASYNC_REQS
        /\ n = MIN_TOTAL_ASYNC_REQS \/ n <= q
    BY <1>1, <2>1, <2>3 DEF Clamp
  <2>5. n \in Nat
    BY <1>1, <2>4
  <2>6. ASSUME n <= q PROVE n * b <= 3 * x
    <3>1. n * b <= q * b
      BY <1>2, <2>3, <2>5, <2>6, TimesKeepsOrder
    <3>2. n * b \in Nat /\ q * b \in Nat
      BY <1>2, <2>3, <2>5
    <3> HIDE DEF b
    <3> QED BY <1>2, <1>3, <1>6, <2>3, <3>1, <3>2
  <2> QED BY <1>2, <1>4, <2>4, <2>5, <2>6
<1> QED BY <1>3, <1>5, <1>6

-----------------------------------------------------------------------------
(* The steps of main() *)

\* The order in which main() ends.
LEMMA AfterIs ==
    /\ After("clients") = "vhosts" /\ After("vhosts") = "lws" /\ After("lws") = "ufds"
    /\ After("ufds") = "ubus" /\ After("ubus") = "ended"
BY DEF After, Shutdown

\* A step of the options.
Configures == OptionPort \/ PerVhost \/ OptionInvalid \/
    \E complete, strict \in BOOLEAN, origins \in BoundedSeq(Origin, 1) :
          create_vhost_by_json(complete, origins, strict)

\* What it may touch.
LEMMA ConfigureTouches ==
    ASSUME Configures
    PROVE  /\ at = "options" /\ at' \in {"options", "crashed", "failed"}
           /\ UNCHANGED <<vhosts, budget, alive, pollVars, services, wrong>>
BY Zenon DEF Configures, OptionPort, PerVhost, OptionInvalid, create_vhost_by_json, OptionRead

\* The budget fits into the memory or is the least one, whatever overflows.
THEOREM BudgetCorrect == Spec => []BudgetFits
<1>1. Init => BudgetFits
  BY DEF Init, BudgetFits
<1>2. BudgetFits /\ [Next]_vars => BudgetFits'
  <2> SUFFICES ASSUME BudgetFits, [Next]_vars PROVE BudgetFits'
    OBVIOUS
  <2>1. ASSUME at' # "connected" \/ UNCHANGED <<at, budget>> PROVE BudgetFits'
    BY <2>1 DEF BudgetFits
  <2>2. CASE Configures
    BY <2>1, <2>2, ConfigureTouches
  <2>3. CASE Connect
    <3>1. PICK p \in Pages : \E n \in calculate_total_req_max(p) : budget' = [reqs |-> n, pages |-> p]
      BY <2>3 DEF Connect
    <3>2. PICK n \in calculate_total_req_max(p) : budget' = [reqs |-> n, pages |-> p]
      BY <3>1
    <3>3. budget'.reqs = n /\ budget'.pages = p
      BY <3>2
    <3>4. /\ n \in MIN_TOTAL_ASYNC_REQS..MAX_TOTAL_ASYNC_REQS
          /\ n = MIN_TOTAL_ASYNC_REQS \/ n * QUERY_SIZE * 10 <= 3 * p * PageSize
      BY BudgetBound
    <3> QED BY <3>3, <3>4 DEF BudgetFits
  <2>4. CASE ConnectFails \/ Start \/ StartFails \/ Stop
    BY <2>1, <2>4 DEF ConnectFails, Start, StartFails, Stop
  <2>5. CASE UNCHANGED vars
    BY <2>1, <2>5 DEF vars, confVars
  <2>6. CASE (\E d \in Fd : Service(d) \/ PeerGone(d)) \/ ReService \/ ServiceDone \/ utimer_service
    BY <2>1, <2>6 DEF Service, PeerGone, ReService, ServiceDone, utimer_service, confVars
  <2>7. CASE MainStep
    BY Zenon, <2>1, <2>7, AfterIs DEF MainStep, CleanClients, FreeVhosts, DestroyCloses, Freed, confVars
  <2> QED BY <2>2, <2>3, <2>4, <2>5, <2>6, <2>7 DEF Next, Configures
<1> QED BY <1>1, <1>2, PTL DEF Spec

-----------------------------------------------------------------------------
(* The table *)

Used == [role : {"listen", "session", "remote"}, want : Masks, doomed : BOOLEAN]

TableType ==
    /\ lws \in [Fd -> {NotUsed} \cup Used]
    /\ ufds \in [Fd -> {None} \cup Masks]
    /\ uloop \in [Fd -> SUBSET {"R", "W"}]

Empty(d) == lws[d] = NotUsed /\ ufds[d] = None /\ uloop[d] = {}

\* Also of a descriptor that lws is about to close, uloop polls nothing if the table has
\* no entry for it: DEL_POLL_FD relies on that.
Agrees(d) ==
    /\ lws[d] = NotUsed => ufds[d] = None
    /\ lws[d] # NotUsed /\ ~lws[d].doomed => ufds[d] = lws[d].want /\ uloop[d] = lws[d].want
    /\ ufds[d] = None => uloop[d] = {}

TableInv ==
    /\ TableType
    /\ services # Idle => at = "running"
    /\ at \in {"options", "connected"} => \A d \in Fd : Empty(d)
    /\ at = "running" => \A d \in Fd : Agrees(d)

\* ADD_POLL_FD, DEL_POLL_FD and CHANGE_MODE_POLL_FD.
LEMMA PollFdKeeps ==
    ASSUME TableType, \A d \in Fd : Agrees(d), NEW c \in Fd,
           \/ \E role \in {"listen", "session", "remote"}, mask \in Masks : AddPollFd(c, role, mask)
           \/ DelPollFd(c)
           \/ \E mask \in Masks : ChangeModePollFd(c, mask)
    PROVE  TableType' /\ \A d \in Fd : Agrees(d)'
<1>1. None \notin Masks /\ \A m \in Masks : m \subseteq {"R", "W"}
  BY DEF None, Masks
<1>2. NotUsed \notin Used
  BY DEF NotUsed, Used
<1>3. ASSUME NEW role \in {"listen", "session", "remote"}, NEW mask \in Masks, AddPollFd(c, role, mask)
      PROVE  TableType' /\ \A d \in Fd : Agrees(d)'
  <2> DEFINE e == [role |-> role, want |-> mask, doomed |-> FALSE]
             f == [role |-> role, want |-> mask, doomed |-> TRUE]
  <2>1. e \in Used /\ f \in Used /\ e.want = mask /\ f.doomed = TRUE
    BY DEF Used
  <2>2. \/ /\ lws' = [lws EXCEPT ![c] = e]
           /\ ufds' = [ufds EXCEPT ![c] = mask] /\ uloop' = [uloop EXCEPT ![c] = mask]
        \/ lws' = [lws EXCEPT ![c] = f] /\ UNCHANGED <<ufds, uloop>>
    BY <1>3 DEF AddPollFd
  <2>3. ufds[c] = None
    BY <1>3 DEF AddPollFd, Agrees
  <2> HIDE DEF e, f
  <2>4. TableType'
    BY <1>1, <2>1, <2>2 DEF TableType
  <2> QED BY <1>1, <1>2, <2>1, <2>2, <2>3, <2>4 DEF TableType, Agrees
<1>4. CASE DelPollFd(c)
  BY <1>1, <1>2, <1>4 DEF DelPollFd, TableType, Agrees
<1>5. ASSUME NEW mask \in Masks, ChangeModePollFd(c, mask)
      PROVE  TableType' /\ \A d \in Fd : Agrees(d)'
  <2>1. lws[c] \in Used
    BY <1>5 DEF ChangeModePollFd, TableType
  <2> DEFINE e == [lws[c] EXCEPT !.want = mask]
             f == [lws[c] EXCEPT !.want = mask, !.doomed = TRUE]
  <2>2. e \in Used /\ f \in Used /\ e.want = mask /\ f.doomed = TRUE
    BY Zenon, <2>1 DEF Used
  <2>3. /\ ufds' = [ufds EXCEPT ![c] = mask]
        /\ \/ /\ lws' = [lws EXCEPT ![c] = e]
              /\ uloop' = IF mask # ufds[c] THEN [uloop EXCEPT ![c] = mask] ELSE uloop
           \/ lws' = [lws EXCEPT ![c] = f] /\ UNCHANGED uloop
    BY Zenon, <1>5 DEF ChangeModePollFd, TableType
  <2>4. ufds[c] = lws[c].want /\ uloop[c] = lws[c].want
    BY <1>5 DEF ChangeModePollFd, Agrees
  <2> HIDE DEF e, f
  <2>5. TableType'
    BY <1>1, <2>2, <2>3 DEF TableType
  <2> QED BY <1>1, <1>2, <2>2, <2>3, <2>4, <2>5 DEF TableType, Agrees
<1> QED BY <1>3, <1>4, <1>5

\* Whatever lws does in one service.
LEMMA WorkKeeps ==
    ASSUME TableType, \A d \in Fd : Agrees(d), LwsWork \/ \E c \in Fd : DelPollFd(c)
    PROVE  TableType' /\ \A d \in Fd : Agrees(d)'
<1>1. CASE UNCHANGED pollVars
  BY <1>1 DEF pollVars, TableType, Agrees
<1> QED BY <1>1, PollFdKeeps DEF LwsWork

\* Every step keeps the table in agreement.
LEMMA TableNextInv == TableInv /\ [Next]_vars => TableInv'
<1> SUFFICES ASSUME TableInv, [Next]_vars PROVE TableInv'
  OBVIOUS
<1> USE DEF TableInv
<1>1. ASSUME UNCHANGED <<at, lws, ufds, uloop, services>> PROVE TableInv'
  BY <1>1 DEF TableType, Empty, Agrees
<1>2. CASE Configures
  BY <1>2, ConfigureTouches DEF TableType, Empty, pollVars
<1>3. CASE Connect \/ ConnectFails \/ StartFails
  BY <1>3 DEF Connect, ConnectFails, StartFails, TableType, Empty, pollVars
<1>4. CASE Start
  <2>1. \A d \in Fd : Agrees(d)'
    BY <1>4 DEF Start, Empty, Agrees, pollVars
  <2> QED BY <1>4, <2>1 DEF Start, TableType, pollVars
<1>5. CASE (\E d \in Fd : Service(d)) \/ ReService \/ utimer_service
  <2>1. at = "running" /\ at' = "running"
    BY <1>5 DEF Service, ReService, utimer_service, Idle
  <2>2. LwsWork \/ \E c \in Fd : DelPollFd(c)
    BY <1>5 DEF Service, ReService, utimer_service
  <2> QED BY <2>1, <2>2, WorkKeeps
<1>6. CASE \E d \in Fd : PeerGone(d)
  BY <1>1, <1>6 DEF PeerGone
<1>7. CASE ServiceDone
  BY <1>7 DEF ServiceDone, TableType, Agrees, pollVars
<1>8. CASE Stop
  BY <1>8 DEF Stop, TableType
<1>9. CASE CleanClients
  <2> DEFINE asked == {d \in Fd : lws[d].role = "remote" /\ ~lws[d].doomed}
  <2>1. /\ lws' = [d \in Fd |-> IF d \in asked THEN [lws[d] EXCEPT !.want = {"R", "W"}] ELSE lws[d]]
        /\ ufds' = [d \in Fd |-> IF d \in asked THEN {"R", "W"} ELSE ufds[d]]
        /\ uloop' = uloop
    BY <1>9 DEF CleanClients
  <2>2. \A d \in asked : lws[d] \in Used
    <3>1. NotUsed.role = "none"
      BY DEF NotUsed
    <3> QED BY <3>1 DEF TableType
  <2>3. \A u \in Used : [u EXCEPT !.want = {"R", "W"}] \in Used
    BY DEF Used, Masks
  <2>4. lws' \in [Fd -> {NotUsed} \cup Used]
    <3> HIDE DEF asked
    <3> QED BY <2>1, <2>2, <2>3 DEF TableType
  <2>5. ufds' \in [Fd -> {None} \cup Masks]
    BY <2>1 DEF TableType, Masks
  <2>6. at = "clients" /\ at' = "vhosts" /\ services' = services
    BY <1>9, AfterIs DEF CleanClients
  <2> QED BY <2>1, <2>4, <2>5, <2>6 DEF TableType
<1>10. CASE FreeVhosts \/ \E r \in {"lws", "ufds", "ubus"} : Freed(r)
  BY <1>10, AfterIs DEF FreeVhosts, Freed, TableType, pollVars
<1>11. CASE \E d \in Fd : DestroyCloses(d)
  <2>1. PICK d \in Fd : DestroyCloses(d)
    BY <1>11
  <2>2. at = "lws" /\ at' = "lws" /\ services' = services
    BY <2>1 DEF DestroyCloses
  <2>3. TableType'
    BY <2>1 DEF DestroyCloses, DelPollFd, TableType
  <2> QED BY <2>2, <2>3
<1>12. CASE UNCHANGED vars
  BY <1>1, <1>12 DEF vars, pollVars
<1> QED BY <1>2, <1>3, <1>4, <1>5, <1>6, <1>7, <1>8, <1>9, <1>10, <1>11, <1>12
        DEF Next, Configures, MainStep

\* uloop, the table and lws agree on every descriptor as long as the loop runs, whatever
\* was added, changed, refused or closed.
THEOREM TableCorrect == Spec => []TableAgrees
<1>1. Init => TableInv
  BY DEF Init, TableInv, TableType, Empty
<1>2. TableInv => TableAgrees
  BY DEF TableInv, Agrees, TableAgrees
<1> QED BY <1>1, <1>2, TableNextInv, PTL DEF Spec

-----------------------------------------------------------------------------
(* The shutdown *)

\* lws, the table and the bus are there until lws has been destroyed.
AliveInv ==
    /\ at = "connected" => {"ufds", "ubus"} \subseteq alive
    /\ at \in {"running", "clients", "vhosts", "lws"} => {"lws", "ufds", "ubus"} \subseteq alive
    /\ wrong = FALSE

\* Every step keeps that.
LEMMA AliveNextInv == AliveInv /\ [Next]_vars => AliveInv'
<1> SUFFICES ASSUME AliveInv, [Next]_vars PROVE AliveInv'
  OBVIOUS
<1> USE DEF AliveInv
<1>1. CASE Configures
  BY <1>1, ConfigureTouches
<1>2. CASE Connect \/ ConnectFails \/ StartFails \/ Start
  BY <1>2 DEF Connect, ConnectFails, StartFails, Start
<1>3. CASE (\E d \in Fd : Service(d) \/ PeerGone(d)) \/ ReService \/ ServiceDone \/ utimer_service
  BY <1>3 DEF Service, PeerGone, ReService, ServiceDone, utimer_service
<1>4. CASE Stop
  BY <1>4 DEF Stop
<1>5. CASE CleanClients
  BY Zenon, <1>5, AfterIs DEF CleanClients, Uses
<1>6. CASE FreeVhosts
  BY <1>6, AfterIs DEF FreeVhosts
<1>7. CASE \E d \in Fd : DestroyCloses(d)
  BY Zenon, <1>7 DEF DestroyCloses, Uses
<1>8. CASE \E r \in {"lws", "ufds", "ubus"} : Freed(r)
  BY <1>8, AfterIs DEF Freed
<1>9. CASE UNCHANGED vars
  BY <1>9 DEF vars
<1> QED BY Zenon, <1>1, <1>2, <1>3, <1>4, <1>5, <1>6, <1>7, <1>8, <1>9 DEF Next, Configures, MainStep

\* No callback that lws makes while main() takes the program apart uses what is gone.
THEOREM ShutdownCorrect == Spec => []NoUseOfFreed
<1>1. Init => AliveInv
  BY DEF Init, AliveInv
<1>2. AliveInv => NoUseOfFreed
  BY DEF AliveInv, NoUseOfFreed
<1> QED BY <1>1, <1>2, AliveNextInv, PTL DEF Spec

-----------------------------------------------------------------------------
(* The vhosts *)

Node == [port : Nat, iface : BOOLEAN, origins : Seq(Origin), users : BOOLEAN, restrict : BOOLEAN]

\* The list holds every element that was allocated.
ListType ==
    /\ opts \in Nat /\ nodes \in Seq(Node) /\ currvh \in Seq(Nat)
    /\ ToSet(currvh) = 1..Len(nodes)

\* The elements of a list with one more in front.
LEMMA InFront ==
    ASSUME NEW s \in Seq(Nat), NEW n \in Nat
    PROVE  <<n>> \o s \in Seq(Nat) /\ ToSet(<<n>> \o s) = {n} \cup ToSet(s)
<1>1. <<n>> \o s \in Seq(Nat)
  OBVIOUS
<1>2. \A x : x \in ToSet(<<n>> \o s) <=> x = n \/ x \in ToSet(s)
  <2> TAKE x
  <2>1. <<n>> \in Seq(Nat) /\ (Holds(<<n>>, x) <=> x = n)
    BY DEF Holds
  <2>2. Holds(<<n>> \o s, x) <=> Holds(<<n>>, x) \/ Holds(s, x)
    BY Zenon, <2>1, ConcatHolds
  <2> QED BY Zenon, <1>1, <2>1, <2>2, HoldsToSet
<1> QED BY <1>1, <1>2

\* new_vhinfo_list.
LEMMA NewElement ==
    ASSUME ListType, NEW n \in Node, new_vhinfo_list(n), opts' \in Nat
    PROVE  ListType'
<1>1. nodes' \in Seq(Node) /\ Len(nodes') = Len(nodes) + 1 /\ Len(nodes) \in Nat
  BY DEF ListType, new_vhinfo_list
<1>2. currvh' \in Seq(Nat) /\ ToSet(currvh') = {Len(nodes) + 1} \cup 1..Len(nodes)
  BY <1>1, InFront DEF ListType, new_vhinfo_list
<1>3. {Len(nodes) + 1} \cup 1..Len(nodes) = 1..Len(nodes) + 1
  BY <1>1
<1> QED BY <1>1, <1>2, <1>3 DEF ListType

\* A change of the newest vhost.
LEMMA NewestChanged ==
    ASSUME ListType, currvh # <<>>, NEW n \in Node, ChangeNewest(n), opts' \in Nat
    PROVE  ListType'
<1>1. Head(currvh) \in 1..Len(nodes)
  <2>1. 1 \in DOMAIN currvh /\ Head(currvh) = currvh[1]
    BY DEF ListType
  <2> QED BY <2>1 DEF ListType, ToSet
<1>2. nodes' \in Seq(Node) /\ Len(nodes') = Len(nodes)
  BY <1>1 DEF ListType, ChangeNewest
<1> QED BY <1>2 DEF ListType, ChangeNewest

\* Every option keeps the list complete.
LEMMA ConfigureKeepsList ==
    ASSUME ListType, Configures
    PROVE  ListType'
<1>0. opts \in Nat /\ opts' \in Nat
  <2>1. opts' = opts + 1
    BY Zenon DEF Configures, OptionPort, PerVhost, OptionInvalid, create_vhost_by_json, OptionRead
  <2> QED BY <2>1 DEF ListType
<1>1. \A p \in Nat : NewNode(p) \in Node
  BY DEF NewNode, Node
<1>2. CASE OptionPort
  BY <1>0, <1>1, <1>2, NewElement DEF OptionPort
<1>3. CASE OptionInvalid
  BY <1>0, <1>3 DEF OptionInvalid, ListType
<1>4. ASSUME NEW complete \in BOOLEAN, NEW strict \in BOOLEAN, NEW origins \in BoundedSeq(Origin, 1),
             create_vhost_by_json(complete, origins, strict)
      PROVE  ListType'
  <2>1. origins \in Seq(Origin)
    <3>1. PICK m \in 0..1 : origins \in [1..m -> Origin]
      BY Zenon DEF BoundedSeq, SeqOf
    <3> QED BY <3>1
  <2> DEFINE n == [port |-> opts', iface |-> TRUE, origins |-> origins,
                   users |-> strict, restrict |-> strict]
  <2>2. n \in Node
    BY <1>0, <2>1 DEF Node
  <2>3. new_vhinfo_list(n) \/ UNCHANGED <<nodes, currvh>>
    BY <1>4 DEF create_vhost_by_json
  <2> HIDE DEF n
  <2>4. CASE UNCHANGED <<nodes, currvh>>
    BY <1>0, <2>4 DEF ListType
  <2> QED BY <1>0, <2>2, <2>3, <2>4, NewElement
<1>5. CASE PerVhost
  <2>1. CASE currvh = <<>>
    BY <1>0, <1>5, <2>1 DEF PerVhost, ListType
  <2>2. CASE currvh # <<>>
    <3>1. Head(currvh) \in 1..Len(nodes)
      <4>1. 1 \in DOMAIN currvh /\ Head(currvh) = currvh[1]
        BY <2>2 DEF ListType
      <4> QED BY <4>1 DEF ListType, ToSet
    <3>2. Newest \in Node
      BY <3>1 DEF ListType, Newest
    <3>3. /\ [Newest EXCEPT !.iface = TRUE] \in Node
          /\ [Newest EXCEPT !.users = TRUE] \in Node
          /\ [Newest EXCEPT !.restrict = FALSE] \in Node
          /\ [NewNode(Newest.port) EXCEPT !.iface = TRUE] \in Node
          /\ \A o \in Origin : [Newest EXCEPT !.origins = Append(@, o)] \in Node
      <4>1. \A n \in Node :
               /\ [n EXCEPT !.iface = TRUE] \in Node /\ [n EXCEPT !.users = TRUE] \in Node
               /\ [n EXCEPT !.restrict = FALSE] \in Node /\ n.port \in Nat /\ n.origins \in Seq(Origin)
        BY Zenon DEF Node
      <4>2. \A n \in Node, l \in Seq(Origin) : [n EXCEPT !.origins = l] \in Node
        BY Zenon DEF Node
      <4>3. \A o \in Origin : Append(Newest.origins, o) \in Seq(Origin)
        <5>1. Newest.origins \in Seq(Origin)
          BY <3>2, <4>1, Zenon
        <5> QED BY <5>1, AppendProperties
      <4> QED BY <1>1, <3>2, <4>1, <4>2, <4>3, Zenon
    <3>4. CASE OptionInterface
      BY <1>0, <2>2, <3>3, <3>4, NewElement, NewestChanged DEF OptionInterface
    <3>5. CASE OptionUser
      BY <1>0, <2>2, <3>3, <3>5, NewestChanged DEF OptionUser
    <3>6. CASE OptionAnyOrigin
      BY <1>0, <2>2, <3>3, <3>6, NewestChanged DEF OptionAnyOrigin
    <3>7. ASSUME NEW o \in Origin, OptionOrigin(o) PROVE ListType'
      BY <1>0, <2>2, <3>3, <3>7, NewestChanged DEF OptionOrigin
    <3> QED BY <1>5, <2>2, <3>4, <3>5, <3>6, <3>7, Zenon DEF PerVhost
  <2> QED BY <2>1, <2>2
<1> QED BY <1>2, <1>3, <1>4, <1>5, Zenon DEF Configures

Copy == [name : Origin, node : Node]

\* The copies, one for each origin of each element.
LEMMA CopiesAre ==
    ASSUME ListType
    PROVE  /\ AllCopies \in Seq(Copy)
           /\ \A x : Holds(AllCopies, x) <=>
                \E c \in 1..Len(nodes) : \E k \in 1..Len(nodes[c].origins) :
                    x = [name |-> nodes[c].origins[k], node |-> nodes[c]]
<1> DEFINE S == [i \in DOMAIN currvh |-> Copies(currvh[i])]
<1>1. \A c \in 1..Len(nodes) :
         /\ nodes[c] \in Node /\ nodes[c].origins \in Seq(Origin)
         /\ Copies(c) \in Seq(Copy) /\ Len(Copies(c)) = Len(nodes[c].origins)
         /\ \A k \in 1..Len(nodes[c].origins) :
               Copies(c)[k] = [name |-> nodes[c].origins[k], node |-> nodes[c]]
  <2> TAKE c \in 1..Len(nodes)
  <2>1. nodes[c] \in Node
    BY DEF ListType
  <2>2. nodes[c].origins \in Seq(Origin)
    BY <2>1 DEF Node
  <2> DEFINE n == nodes[c]
             l == nodes[c].origins
  <2>3. Copies(c) = [i \in 1..Len(l) |-> [name |-> l[i], node |-> n]]
    BY <2>2 DEF Copies, copy_vhinfo_list
  <2>4. n \in Node /\ l \in Seq(Origin)
    BY <2>1, <2>2
  <2> HIDE DEF n, l
  <2>5. Len(l) \in Nat /\ \A i \in 1..Len(l) : [name |-> l[i], node |-> n] \in Copy
    BY <2>4 DEF Copy
  <2>6. Copies(c) \in Seq(Copy) /\ Len(Copies(c)) = Len(l)
    BY <2>3, <2>5
  <2>7. \A k \in 1..Len(l) : Copies(c)[k] = [name |-> l[k], node |-> n]
    BY <2>3
  <2> QED BY <2>4, <2>6, <2>7 DEF n, l
<1>2. /\ \A i \in 1..Len(currvh) : currvh[i] \in 1..Len(nodes)
      /\ \A c \in 1..Len(nodes) : \E i \in 1..Len(currvh) : currvh[i] = c
      /\ DOMAIN currvh = 1..Len(currvh) /\ Len(currvh) \in Nat
  BY DEF ListType, ToSet
<1>3. S \in Seq(Seq(Copy)) /\ Len(S) = Len(currvh) /\ \A i \in 1..Len(currvh) : S[i] = Copies(currvh[i])
  BY <1>1, <1>2
<1>4. AllCopies = FlattenSeq(S)
  BY Zenon DEF AllCopies
<1> HIDE DEF S
<1>5. AllCopies \in Seq(Copy)
  BY <1>3, <1>4, FlattenType
<1>6. ASSUME NEW x
      PROVE  Holds(AllCopies, x) <=>
                \E c \in 1..Len(nodes) : \E k \in 1..Len(nodes[c].origins) :
                    x = [name |-> nodes[c].origins[k], node |-> nodes[c]]
  <2>1. Holds(AllCopies, x) <=> \E i \in 1..Len(S) : Holds(S[i], x)
    BY <1>3, <1>4, FlattenHolds
  <2>2. (\E i \in 1..Len(S) : Holds(S[i], x)) <=> \E i \in 1..Len(currvh) : Holds(Copies(currvh[i]), x)
    BY <1>3, Zenon
  <2>3. (\E i \in 1..Len(currvh) : Holds(Copies(currvh[i]), x)) <=> \E c \in 1..Len(nodes) : Holds(Copies(c), x)
    BY <1>2, Zenon
  <2>4. ASSUME NEW c \in 1..Len(nodes)
        PROVE  Holds(Copies(c), x) <=>
                 \E k \in 1..Len(nodes[c].origins) : x = [name |-> nodes[c].origins[k], node |-> nodes[c]]
    BY <1>1, Zenon DEF Holds
  <2> QED BY <2>1, <2>2, <2>3, <2>4, Zenon
<1> QED BY <1>5, <1>6

\* The elements and the list after the copies are appended.
LEMMA NodesAfter ==
    ASSUME ListType, CreateVhosts
    PROVE  /\ nodes' \in Seq(Node) /\ Len(nodes') = Len(nodes) + Len(AllCopies)
           /\ \A i \in 1..Len(nodes) : nodes'[i] = nodes[i]
           /\ \A i \in 1..Len(AllCopies) : nodes'[Len(nodes) + i] = AllCopies[i].node
           /\ currvh' \in Seq(Nat) /\ ToSet(currvh') = 1..Len(nodes')
<1> DEFINE A == AllCopies
           N == [i \in DOMAIN A |-> A[i].node]
           P == [i \in DOMAIN A |-> Len(nodes) + i]
<1>0. /\ A \in Seq(Copy) /\ DOMAIN A = 1..Len(A) /\ Len(A) \in Nat /\ Len(nodes) \in Nat
      /\ nodes \in Seq(Node) /\ currvh \in Seq(Nat) /\ ToSet(currvh) = 1..Len(nodes)
  BY CopiesAre DEF ListType
<1>1. \A i \in 1..Len(A) : A[i].node \in Node
  <2>1. \A i \in 1..Len(A) : A[i] \in Copy
    BY <1>0, ElementOfSeq
  <2> QED BY <2>1, Zenon DEF Copy
<1>2. nodes' = nodes \o N
  BY Zenon DEF CreateVhosts
<1>3. currvh' = IF currvh = <<>> THEN <<>> ELSE currvh \o Reverse(P)
  BY Zenon DEF CreateVhosts
<1> HIDE DEF A
<1>4. N \in Seq(Node) /\ Len(N) = Len(A) /\ \A i \in 1..Len(A) : N[i] = A[i].node
  BY <1>0, <1>1
<1>5. P \in Seq(Nat) /\ Len(P) = Len(A) /\ \A i \in 1..Len(A) : P[i] = Len(nodes) + i
  BY <1>0
<1> HIDE DEF N, P
<1>6. /\ nodes' \in Seq(Node) /\ Len(nodes') = Len(nodes) + Len(A)
      /\ \A i \in 1..Len(nodes) : nodes'[i] = nodes[i]
  <2>1. /\ nodes \o N \in Seq(Node) /\ Len(nodes \o N) = Len(nodes) + Len(N)
        /\ \A i \in 1..Len(nodes) : (nodes \o N)[i] = nodes[i]
    <3>1. /\ nodes \o N \in Seq(Node) /\ Len(nodes \o N) = Len(nodes) + Len(N)
          /\ \A i \in 1..Len(nodes) + Len(N) :
                (nodes \o N)[i] = IF i <= Len(nodes) THEN nodes[i] ELSE N[i - Len(nodes)]
      BY <1>0, <1>4, ConcatProperties, Zenon
    <3>2. \A i \in 1..Len(nodes) : i \in 1..Len(nodes) + Len(N) /\ i <= Len(nodes)
      BY <1>0, <1>4
    <3> QED BY <3>1, <3>2, Zenon
  <2> QED BY <1>2, <1>4, <2>1, Zenon
<1>7. ASSUME NEW i \in 1..Len(A) PROVE nodes'[Len(nodes) + i] = A[i].node
  <2>1. (nodes \o N)[Len(nodes) + i] = N[i]
    BY <1>0, <1>4
  <2> QED BY <1>2, <1>4, <2>1
<1>8. /\ Reverse(P) \in Seq(Nat)
      /\ ToSet(Reverse(P)) = {Len(nodes) + i : i \in 1..Len(A)}
  <2>1. Reverse(P) = [i \in 1..Len(A) |-> Len(nodes) + ((Len(A) - i) + 1)]
    <3>1. Reverse(P) = [i \in 1..Len(A) |-> P[(Len(A) - i) + 1]]
      BY <1>5, Zenon DEF Reverse
    <3>2. \A i \in 1..Len(A) : (Len(A) - i) + 1 \in 1..Len(A)
      BY <1>0
    <3> QED BY Zenon, <1>5, <3>1, <3>2
  <2>2. Reverse(P) \in Seq(Nat) /\ DOMAIN Reverse(P) = 1..Len(A)
    BY <1>0, <2>1
  <2>3. ToSet(Reverse(P)) = {Len(nodes) + ((Len(A) - i) + 1) : i \in 1..Len(A)}
    BY <2>1, <2>2 DEF ToSet
  <2>4. ASSUME NEW i \in 1..Len(A)
        PROVE  /\ Len(nodes) + ((Len(A) - i) + 1) \in {Len(nodes) + j : j \in 1..Len(A)}
               /\ Len(nodes) + i \in {Len(nodes) + ((Len(A) - j) + 1) : j \in 1..Len(A)}
    <3>1. (Len(A) - i) + 1 \in 1..Len(A) /\ i = (Len(A) - ((Len(A) - i) + 1)) + 1
      BY <1>0
    <3> QED BY <3>1, Zenon
  <2> QED BY <2>2, <2>3, <2>4, Zenon
<1>9. currvh' \in Seq(Nat) /\ ToSet(currvh') = 1..Len(nodes')
  <2>1. CASE currvh = <<>>
    <3>1. ToSet(currvh) = {}
      BY <2>1 DEF ToSet
    <3>2. Len(nodes) = 0
      <4>1. 1 \notin 1..Len(nodes)
        BY Zenon, <1>0, <3>1
      <4> QED BY <1>0, <4>1
    <3>3. ASSUME NEW x PROVE ~Holds(A, x)
      <4>1. 1..Len(nodes) = {}
        BY <3>2
      <4> QED BY <4>1, CopiesAre, Zenon DEF A
    <3>4. Len(A) = 0
      <4>1. \A i \in 1..Len(A) : FALSE
        BY <3>3, Zenon DEF Holds
      <4> QED BY <1>0, <4>1
    <3>5. currvh' = currvh
      BY <1>3, <2>1
    <3> QED BY <1>0, <1>6, <3>2, <3>4, <3>5
  <2>2. CASE currvh # <<>>
    <3>1. currvh' = currvh \o Reverse(P)
      BY <1>3, <2>2
    <3>2. currvh' \in Seq(Nat)
      BY <1>0, <1>8, <3>1, ConcatProperties
    <3>3. ASSUME NEW x PROVE x \in ToSet(currvh') <=> x \in 1..Len(nodes) \/ x \in {Len(nodes) + i : i \in 1..Len(A)}
      <4>1. Holds(currvh \o Reverse(P), x) <=> Holds(currvh, x) \/ Holds(Reverse(P), x)
        BY <1>0, <1>8, ConcatHolds
      <4>2. /\ Holds(currvh \o Reverse(P), x) <=> x \in ToSet(currvh')
            /\ Holds(currvh, x) <=> x \in ToSet(currvh)
            /\ Holds(Reverse(P), x) <=> x \in ToSet(Reverse(P))
        BY Zenon, <1>0, <1>8, <3>1, <3>2, HoldsToSet
      <4> QED BY <1>0, <1>8, <4>1, <4>2
    <3>4. \A x : x \in 1..Len(nodes) + Len(A) <=> x \in 1..Len(nodes) \/ x \in {Len(nodes) + i : i \in 1..Len(A)}
      <4> TAKE x
      <4>1. x \in 1..Len(nodes) + Len(A) /\ ~(x \in 1..Len(nodes)) =>
               x - Len(nodes) \in 1..Len(A) /\ Len(nodes) + (x - Len(nodes)) = x
        BY <1>0
      <4>2. \A i \in 1..Len(A) : Len(nodes) + i \in 1..Len(nodes) + Len(A)
        BY <1>0
      <4>3. x \in 1..Len(nodes) => x \in 1..Len(nodes) + Len(A)
        BY <1>0
      <4> QED BY <4>1, <4>2, <4>3
    <3> QED BY Zenon, <1>6, <3>2, <3>3, <3>4
  <2> QED BY <2>1, <2>2
<1> QED BY <1>6, <1>7, <1>9 DEF A

\* Each vhost gets the context with its own configuration.
LEMMA VhostsCreated ==
    ASSUME ListType, CreateVhosts
    PROVE  VhostsExact'
<1> DEFINE A == AllCopies
           L == Len(nodes)
           Q == Requested
<1>0. A \in Seq(Copy) /\ Len(A) \in Nat /\ L \in Nat /\ DOMAIN A = 1..Len(A)
  BY CopiesAre DEF ListType
<1>1. /\ Len(nodes') = L + Len(A) /\ ToSet(currvh') = 1..L + Len(A)
      /\ \A i \in 1..L : nodes'[i] = nodes[i]
      /\ \A i \in 1..Len(A) : nodes'[L + i] = A[i].node
  BY NodesAfter
<1>2. Q = {[name |-> "default", ctx |-> c] : c \in 1..L}
            \cup {[name |-> A[i].name, ctx |-> L + i] : i \in 1..Len(A)}
  BY <1>0, Zenon DEF Requested, ListType
<1>3. PICK refused : vhosts' = {[name |-> v.name, ctx |-> v.ctx, ok |-> v \notin refused] : v \in Q}
  BY Zenon DEF CreateVhosts
<1>4. /\ \A i \in 1..Len(A) : \E c \in 1..L : \E k \in 1..Len(nodes[c].origins) :
            A[i] = [name |-> nodes[c].origins[k], node |-> nodes[c]]
      /\ \A c \in 1..L : \A k \in 1..Len(nodes[c].origins) : \E i \in 1..Len(A) :
            A[i] = [name |-> nodes[c].origins[k], node |-> nodes[c]]
  BY CopiesAre, Zenon DEF Holds
<1>5. \A c \in 1..L : nodes[c].origins \in Seq(Origin) /\ DOMAIN nodes[c].origins = 1..Len(nodes[c].origins)
  <2> TAKE c \in 1..L
  <2>1. nodes[c] \in Node
    BY DEF ListType
  <2>2. nodes[c].origins \in Seq(Origin)
    BY <2>1 DEF Node
  <2> QED BY <2>2
<1> HIDE DEF A, L, Q
<1>6. \A c \in 1..L + Len(A) : c \in 1..L \/ \E i \in 1..Len(A) : c = L + i
  <2> TAKE c \in 1..L + Len(A)
  <2>1. c \notin 1..L => c - L \in 1..Len(A) /\ c = L + (c - L)
    BY <1>0
  <2> QED BY <2>1
<1>7. /\ \A c \in 1..L : c \in 1..L + Len(A)
      /\ \A i \in 1..Len(A) : L + i \in 1..L + Len(A) /\ L + i \notin 1..L
      /\ \A i, j \in 1..Len(A) : L + i = L + j => i = j
  BY <1>0
\* Every element has the configuration of one that was given.
<1>8. \A c \in 1..L + Len(A) : \E d \in 1..L : nodes'[c] = nodes[d]
  <2> TAKE c \in 1..L + Len(A)
  <2>1. CASE c \in 1..L
    BY <1>1, <2>1
  <2>2. ASSUME NEW i \in 1..Len(A), c = L + i PROVE \E d \in 1..L : nodes'[c] = nodes[d]
    <3>1. PICK d \in 1..L : \E k \in 1..Len(nodes[d].origins) :
               A[i] = [name |-> nodes[d].origins[k], node |-> nodes[d]]
      BY <1>4
    <3>2. A[i].node = nodes[d]
      BY <3>1
    <3> QED BY <1>1, <2>2, <3>2
  <2> QED BY <1>6, <2>1, <2>2
<1>9. \A v \in vhosts' :
        \/ \E c \in 1..L : v.name = "default" /\ v.ctx = c
        \/ \E i \in 1..Len(A) : v.name = A[i].name /\ v.ctx = L + i
  BY <1>2, <1>3
<1>10. /\ \A c \in 1..L : \E v \in vhosts' : v.name = "default" /\ v.ctx = c
       /\ \A i \in 1..Len(A) : \E v \in vhosts' : v.name = A[i].name /\ v.ctx = L + i
  <2>1. \A q \in Q : \E v \in vhosts' : v.name = q.name /\ v.ctx = q.ctx
    <3> TAKE q \in Q
    <3>1. [name |-> q.name, ctx |-> q.ctx, ok |-> q \notin refused] \in vhosts'
      BY <1>3, Zenon
    <3> QED BY <3>1
  <2>2. \A c \in 1..L : [name |-> "default", ctx |-> c] \in Q
    BY <1>2
  <2>3. \A i \in 1..Len(A) : [name |-> A[i].name, ctx |-> L + i] \in Q
    BY <1>2
  <2> QED BY Zenon, <2>1, <2>2, <2>3
<1>11. \A v \in vhosts' : v.ctx \in ToSet(currvh')
  BY <1>1, <1>7, <1>9
<1>12. \A v, w \in vhosts' : v.ctx = w.ctx => v = w
  <2>1. \A p, q \in Q : p.ctx = q.ctx => p = q
    <3> SUFFICES ASSUME NEW p \in Q, NEW q \in Q, p.ctx = q.ctx PROVE p = q
      OBVIOUS
    <3>1. \/ \E c \in 1..L : p = [name |-> "default", ctx |-> c]
          \/ \E i \in 1..Len(A) : p = [name |-> A[i].name, ctx |-> L + i]
      BY <1>2
    <3>2. \/ \E c \in 1..L : q = [name |-> "default", ctx |-> c]
          \/ \E i \in 1..Len(A) : q = [name |-> A[i].name, ctx |-> L + i]
      BY <1>2
    <3> QED BY <1>7, <3>1, <3>2
  <2>2. \A v \in vhosts' : \E q \in Q : v = [name |-> q.name, ctx |-> q.ctx, ok |-> q \notin refused]
    BY <1>3
  <2> SUFFICES ASSUME NEW v \in vhosts', NEW w \in vhosts', v.ctx = w.ctx PROVE v = w
    OBVIOUS
  <2>3. PICK p \in Q : v = [name |-> p.name, ctx |-> p.ctx, ok |-> p \notin refused]
    BY <2>2
  <2>4. PICK q \in Q : w = [name |-> q.name, ctx |-> q.ctx, ok |-> q \notin refused]
    BY <2>2
  <2>5. p = q
    BY <2>1, <2>3, <2>4
  <2> QED BY <2>3, <2>4, <2>5
<1>13. \A v \in vhosts' : v.name = "default" \/ v.name \in ToSet(nodes'[v.ctx].origins)
  <2> SUFFICES ASSUME NEW v \in vhosts', NEW i \in 1..Len(A), v.name = A[i].name, v.ctx = L + i
               PROVE  v.name \in ToSet(nodes'[v.ctx].origins)
    BY <1>9
  <2>1. PICK c \in 1..L : \E k \in 1..Len(nodes[c].origins) :
               A[i] = [name |-> nodes[c].origins[k], node |-> nodes[c]]
    BY <1>4
  <2>2. PICK k \in 1..Len(nodes[c].origins) : A[i] = [name |-> nodes[c].origins[k], node |-> nodes[c]]
    BY <2>1
  <2>3. v.name = nodes[c].origins[k] /\ nodes'[v.ctx] = nodes[c]
    BY <1>1, <2>2
  <2> QED BY <1>5, <2>3 DEF ToSet
<1>14. \A c \in ToSet(currvh') : \E v \in vhosts' : v.name = "default" /\ nodes'[v.ctx] = nodes'[c]
  <2> TAKE c \in ToSet(currvh')
  <2>1. PICK d \in 1..L : nodes'[c] = nodes[d]
    BY <1>1, <1>8
  <2>2. PICK v \in vhosts' : v.name = "default" /\ v.ctx = d
    BY <1>10
  <2> QED BY <1>1, <2>1, <2>2
<1>15. \A c \in ToSet(currvh') : \A o \in ToSet(nodes'[c].origins) :
          \E v \in vhosts' : v.name = o /\ nodes'[v.ctx] = nodes'[c]
  <2> TAKE c \in ToSet(currvh')
  <2>1. PICK d \in 1..L : nodes'[c] = nodes[d]
    BY <1>1, <1>8
  <2> TAKE o \in ToSet(nodes'[c].origins)
  <2>2. PICK k \in 1..Len(nodes[d].origins) : o = nodes[d].origins[k]
    BY <1>5, <2>1 DEF ToSet
  <2>3. PICK i \in 1..Len(A) : A[i] = [name |-> nodes[d].origins[k], node |-> nodes[d]]
    BY <1>4
  <2>4. PICK v \in vhosts' : v.name = A[i].name /\ v.ctx = L + i
    BY <1>10
  <2>5. v.name = o /\ nodes'[v.ctx] = nodes[d]
    BY <1>1, <2>2, <2>3, <2>4
  <2> QED BY <2>1, <2>5
<1> QED BY <1>11, <1>12, <1>13, <1>14, <1>15 DEF VhostsExact

\* The list is complete until it is freed, and what it described is what lws was asked for.
ListInv ==
    /\ at \in {"options", "connected", "running", "clients", "vhosts"} => ListType
    /\ VhostsExact

\* Every step keeps that.
LEMMA ListNextInv == ListInv /\ [Next]_vars => ListInv'
<1> SUFFICES ASSUME ListInv, [Next]_vars PROVE ListInv'
  OBVIOUS
<1>1. ASSUME UNCHANGED confVars, at' = at \/ at' # "running",
             at' \in {"options", "connected", "running", "clients", "vhosts"}
                => at \in {"options", "connected", "running", "clients", "vhosts"}
      PROVE  ListInv'
  <2>1. ListType => ListType'
    BY <1>1 DEF ListType, confVars
  <2>2. VhostsExact'
    <3>1. CASE at' # "running"
      BY <3>1 DEF VhostsExact
    <3>2. CASE at' = at
      BY <1>1, <3>2 DEF ListInv, VhostsExact, confVars
    <3> QED BY <1>1, <3>1, <3>2
  <2> QED BY <1>1, <2>1, <2>2 DEF ListInv
<1>2. CASE Configures
  <2>1. at = "options" /\ at' # "running"
    BY <1>2, ConfigureTouches
  <2> QED BY <1>2, <2>1, ConfigureKeepsList DEF ListInv, VhostsExact
<1>3. CASE Connect
  BY <1>3 DEF Connect, ListInv, ListType, VhostsExact
<1>4. CASE ConnectFails \/ StartFails \/ Stop
  BY <1>1, <1>4 DEF ConnectFails, StartFails, Stop
<1>5. CASE Start
  <2>1. ListType /\ CreateVhosts /\ opts' = opts
    BY <1>5 DEF Start, ListInv
  <2>2. ListType'
    BY <2>1, NodesAfter DEF ListType
  <2> QED BY <2>1, <2>2, VhostsCreated DEF ListInv
<1>6. CASE (\E d \in Fd : Service(d) \/ PeerGone(d)) \/ ReService \/ ServiceDone \/ utimer_service
  BY <1>1, <1>6 DEF Service, PeerGone, ReService, ServiceDone, utimer_service
<1>7. CASE CleanClients
  BY <1>1, <1>7, AfterIs DEF CleanClients
<1>8. CASE FreeVhosts \/ \E r \in {"lws", "ufds", "ubus"} : Freed(r)
  <2>1. at' \in {"lws", "ufds", "ubus", "ended"}
    BY <1>8, AfterIs DEF FreeVhosts, Freed
  <2> QED BY <2>1 DEF ListInv, VhostsExact
<1>9. CASE \E d \in Fd : DestroyCloses(d)
  BY <1>1, <1>9 DEF DestroyCloses
<1>10. CASE UNCHANGED vars
  BY <1>1, <1>10 DEF vars
<1> QED BY <1>2, <1>3, <1>4, <1>5, <1>6, <1>7, <1>8, <1>9, <1>10, Zenon DEF Next, Configures, MainStep

\* In the beginning there are no vhosts.
LEMMA ListInit == Init => ListInv
<1> SUFFICES ASSUME Init PROVE ListInv
  OBVIOUS
<1>1. at = "options" /\ opts = 0 /\ nodes = <<>> /\ currvh = <<>>
  BY DEF Init
<1>2. ToSet(currvh) = 1..Len(nodes)
  BY <1>1 DEF ToSet
<1> QED BY <1>1, <1>2 DEF ListInv, ListType, VhostsExact

\* Whatever the options, in whatever order, lws is asked for one vhost for each interface and
\* one for each origin, and each of them refers to a context of its own with the
\* configuration it belongs to.
THEOREM VhostsCorrect == Spec => []VhostsExact
<1>1. ListInv => VhostsExact
  BY DEF ListInv
<1> QED BY <1>1, ListInit, ListNextInv, PTL DEF Spec

-----------------------------------------------------------------------------
(* What is left at the end *)

Left == [connected |-> {"clients", "vhosts", "ufds", "ubus"},
         running |-> {"clients", "vhosts", "lws", "ufds", "ubus"},
         clients |-> {"clients", "vhosts", "lws", "ufds", "ubus"},
         vhosts |-> {"vhosts", "lws", "ufds", "ubus"},
         lws |-> {"lws", "ufds", "ubus"}, ufds |-> {"ufds", "ubus"}, ubus |-> {"ubus"},
         ended |-> {}]

\* What is allocated at each place of main(), which elements of the list are freed, and
\* which entries the table still has.
FreeInv ==
    /\ at \in DOMAIN Left => alive = Left[at]
    /\ at \in {"lws", "ufds", "ubus", "ended"} => \A i \in DOMAIN nodes : nodes[i] = FreedNode
    /\ at \in {"running", "clients", "vhosts", "lws"} =>
          \A d \in Fd : lws[d] = NotUsed => ufds[d] = None
    /\ at \in {"ufds", "ubus", "ended"} => \A d \in Fd : ufds[d] = None

\* Every step keeps it, given the table and the list.
LEMMA FreeNextInv ==
    TableInv /\ TableInv' /\ ListInv /\ FreeInv /\ [Next]_vars => FreeInv'
<1> SUFFICES ASSUME TableInv, TableInv', ListInv, FreeInv, [Next]_vars PROVE FreeInv'
  OBVIOUS
<1>1. /\ DOMAIN Left = {"connected", "running", "clients", "vhosts", "lws", "ufds", "ubus", "ended"}
      /\ Left["connected"] = {"clients", "vhosts", "ufds", "ubus"}
      /\ Left["running"] = {"clients", "vhosts", "lws", "ufds", "ubus"}
      /\ Left["clients"] = {"clients", "vhosts", "lws", "ufds", "ubus"}
      /\ Left["vhosts"] = {"vhosts", "lws", "ufds", "ubus"}
      /\ Left["lws"] = {"lws", "ufds", "ubus"} /\ Left["ufds"] = {"ufds", "ubus"}
      /\ Left["ubus"] = {"ubus"} /\ Left["ended"] = {}
  BY DEF Left
<1>2. ASSUME UNCHANGED <<at, alive, nodes, lws, ufds>> PROVE FreeInv'
  BY <1>2 DEF FreeInv
<1>3. CASE Configures \/ ConnectFails \/ StartFails
  <2>1. at' \in {"options", "crashed", "failed"}
    BY <1>3, ConfigureTouches DEF ConnectFails, StartFails
  <2> QED BY <1>1, <2>1 DEF FreeInv
<1>4. CASE Connect
  BY <1>1, <1>4 DEF Connect, FreeInv
<1>5. CASE Start
  <2>1. at' = "running" /\ alive' = Left["running"]
    BY <1>1, <1>5 DEF Start, FreeInv
  <2> QED BY <1>1, <2>1 DEF FreeInv, TableInv, Agrees
<1>6. CASE (\E d \in Fd : Service(d)) \/ ReService \/ utimer_service
  <2>1. at = "running" /\ at' = "running" /\ alive' = alive
    BY <1>6 DEF Service, ReService, utimer_service, TableInv, Idle
  <2> QED BY <2>1 DEF FreeInv, TableInv, Agrees
<1>7. CASE (\E d \in Fd : PeerGone(d)) \/ ServiceDone
  BY <1>2, <1>7 DEF PeerGone, ServiceDone, confVars, pollVars
<1>8. CASE Stop
  <2>1. at = "running" /\ at' = "clients" /\ UNCHANGED <<alive, lws, ufds>>
    BY <1>8 DEF Stop
  <2> QED BY <1>1, <2>1 DEF FreeInv
<1>9. CASE CleanClients
  <2>1. at = "clients" /\ at' = "vhosts" /\ alive' = alive \ {"clients"}
    BY <1>9, AfterIs DEF CleanClients
  <2>2. alive' = Left["vhosts"]
    BY <1>1, <2>1 DEF FreeInv
  <2>3. ASSUME NEW d \in Fd, lws'[d] = NotUsed PROVE ufds'[d] = None
    <3> DEFINE asked == {c \in Fd : lws[c].role = "remote" /\ ~lws[c].doomed}
    <3>1. /\ lws' = [c \in Fd |-> IF c \in asked THEN [lws[c] EXCEPT !.want = {"R", "W"}] ELSE lws[c]]
          /\ ufds' = [c \in Fd |-> IF c \in asked THEN {"R", "W"} ELSE ufds[c]]
      BY <1>9, Zenon DEF CleanClients
    <3>2. NotUsed.role = "none" /\ NotUsed \notin Used
      BY DEF NotUsed, Used
    <3>3. d \notin asked
      <4> SUFFICES ASSUME d \in asked PROVE FALSE
        OBVIOUS
      <4>1. lws[d] \in Used
        BY <3>2 DEF TableInv, TableType
      <4>2. [lws[d] EXCEPT !.want = {"R", "W"}] \in Used
        BY <4>1, Zenon DEF Used, Masks
      <4>3. lws'[d] = [lws[d] EXCEPT !.want = {"R", "W"}]
        <5> HIDE DEF asked
        <5> QED BY <3>1, Zenon
      <4> QED BY <2>3, <3>2, <4>2, <4>3
    <3>4. lws'[d] = lws[d] /\ ufds'[d] = ufds[d]
      <4> HIDE DEF asked
      <4> QED BY <3>1, <3>3, Zenon
    <3> QED BY <2>1, <2>3, <3>4 DEF FreeInv
  <2> QED BY <2>1, <2>2, <2>3 DEF FreeInv
<1>10. CASE FreeVhosts
  <2>1. at = "vhosts" /\ at' = "lws" /\ alive' = alive \ {"vhosts"} /\ UNCHANGED <<lws, ufds>>
    BY <1>10, AfterIs DEF FreeVhosts, pollVars
  <2>2. nodes' = [i \in DOMAIN nodes |-> IF i \in ToSet(currvh) THEN FreedNode ELSE nodes[i]]
    BY <1>10 DEF FreeVhosts
  <2>3. DOMAIN nodes = ToSet(currvh)
    BY <2>1 DEF ListInv, ListType
  <2>4. \A i \in DOMAIN nodes' : nodes'[i] = FreedNode
    BY <2>2, <2>3, Zenon
  <2> QED BY <1>1, <2>1, <2>4 DEF FreeInv
<1>11. CASE \E d \in Fd : DestroyCloses(d)
  <2>1. PICK d \in Fd : DestroyCloses(d)
    BY <1>11
  <2>2. at = "lws" /\ at' = "lws" /\ UNCHANGED <<alive, nodes>>
    BY <2>1 DEF DestroyCloses, confVars
  <2>3. \A c \in Fd : lws'[c] = NotUsed => ufds'[c] = None
    BY <2>1, <2>2 DEF DestroyCloses, DelPollFd, FreeInv, TableInv, TableType
  <2> QED BY <2>2, <2>3 DEF FreeInv
<1>12. ASSUME NEW r \in {"lws", "ufds", "ubus"}, Freed(r) PROVE FreeInv'
  <2>1. /\ at = r /\ at' = After(r) /\ alive' = alive \ {r} /\ UNCHANGED <<nodes, lws, ufds>>
        /\ r = "lws" => \A d \in Fd : lws[d] = NotUsed
    BY <1>12 DEF Freed, pollVars
  <2>2. CASE r = "lws"
    BY <1>1, <2>1, <2>2, AfterIs DEF FreeInv
  <2>3. CASE r = "ufds"
    BY <1>1, <2>1, <2>3, AfterIs DEF FreeInv
  <2>4. CASE r = "ubus"
    BY <1>1, <2>1, <2>4, AfterIs DEF FreeInv
  <2> QED BY <2>2, <2>3, <2>4
<1>13. CASE UNCHANGED vars
  BY <1>2, <1>13 DEF vars, confVars, pollVars
<1> QED BY <1>3, <1>4, <1>5, <1>6, <1>7, <1>8, <1>9, <1>10, <1>11, <1>12, <1>13, Zenon
        DEF Next, Configures, MainStep

\* When main() ends after the loop, all that it allocated is freed, every element of the list
\* of vhosts with the copies for the origins, and every entry of the table.
THEOREM CleanupCorrect == Spec => []AllFreed
<1>1. Init => TableInv
  BY DEF Init, TableInv, TableType, Empty
<1>2. Init => FreeInv
  BY DEF Init, FreeInv, Left
<1>3. FreeInv => AllFreed
  <2>1. "ended" \in DOMAIN Left /\ Left["ended"] = {}
    BY DEF Left
  <2> QED BY <2>1 DEF FreeInv, AllFreed
<1> QED BY <1>1, <1>2, <1>3, ListInit, TableNextInv, ListNextInv, FreeNextInv, PTL DEF Spec
=============================================================================

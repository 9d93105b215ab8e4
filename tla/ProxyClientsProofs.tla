------------------------- MODULE ProxyClientsProofs -------------------------
(***************************************************************************)
(* The registry of clients, for any number of addresses, handles and       *)
(* entries; at the end, the registry with uproxyd.                         *)
(***************************************************************************)
EXTENDS Uproxyd, FiniteSetTheorems, TLAPS

-----------------------------------------------------------------------------
(* Lists.  The invariant is stated of a list and what lws holds, so that it can be followed
   through the operators a callback applies one after the other. *)

Phases == {"free", "connecting", "open", "closing"}

\* Entries are sorted by index, and of two with one address one is on its way out.
Pairs(l) ==
    \A i, j \in DOMAIN l : i < j =>
        /\ l[i].index < l[j].index
        /\ l[i].addr = l[j].addr => l[i].state = "Teardown" \/ l[j].state = "Teardown"

Distinct(l) == \A i, j \in DOMAIN l : i # j /\ l[i].wsi # None => l[i].wsi # l[j].wsi

\* An entry is disconnected, or has a handle in the phase that its state stands for.
Sound(c, cn) ==
    /\ c.armed = TRUE => c.state = "Disconnected"
    /\ c.state # "Disconnected" => c.wsi # None
    /\ c.wsi # None => cn[c.wsi] \in Phase(c)

ListInv(l, cn) ==
    /\ l \in Seq(client_connection_info) /\ Len(l) <= MaxClients
    /\ Pairs(l) /\ Distinct(l)
    /\ \A i \in DOMAIN l : Sound(l[i], cn)

Owned(l, cn) == \A w \in Wsi : cn[w] # "free" => \E i \in DOMAIN l : l[i].wsi = w

\* d is what a step may make of c.
Follows(c, d) == d.index = c.index /\ d.addr = c.addr /\ (c.state = "Teardown" => d = c)

\* What is on its way out stays so.
Final(l, m) ==
    \A i \in DOMAIN l : l[i].state = "Teardown" =>
        \A j \in DOMAIN m : m[j].index = l[i].index => m[j] = l[i]

\* lws holds for the entries other than i what it did.
SameBut(l, i, cn, cn2) ==
    \A j \in DOMAIN l : j # i /\ l[j].wsi # None => cn2[l[j].wsi] = cn[l[j].wsi]

\* No entry other than i has the handle of e.
OnlyAt(l, i, e) == e.wsi # None => \A j \in DOMAIN l : j # i => l[j].wsi # e.wsi

\* The index is a number.
LEMMA EntryType ==
    ASSUME NEW l \in Seq(client_connection_info), NEW i \in DOMAIN l
    PROVE  /\ l[i] \in client_connection_info /\ l[i].index \in Int
           /\ l[i].addr \in Addr /\ l[i].wsi \in Wsi \cup {None} /\ l[i].state \in States
           /\ l[i].armed \in BOOLEAN /\ l[i].count \in 0..MaxCount
<1>1. l[i] \in client_connection_info
  OBVIOUS
<1>2. MaxClients \in Nat
  BY Zenon, ClientsAssumption
<1> QED BY <1>1, <1>2 DEF client_connection_info

\* In a sorted list an index names one entry.
LEMMA IndexNames ==
    ASSUME NEW l \in Seq(client_connection_info), Pairs(l), NEW i \in DOMAIN l, NEW j \in DOMAIN l,
           l[i].index = l[j].index
    PROVE  i = j
<1>1. i \in Int /\ j \in Int /\ l[i].index \in Int /\ l[j].index \in Int
  BY EntryType
<1>2. ~(i < j) /\ ~(j < i)
  BY <1>1 DEF Pairs
<1> QED BY <1>1, <1>2

\* A list whose entries follow some of those of another one, in their order.
LEMMA Derived ==
    ASSUME NEW l \in Seq(client_connection_info), Pairs(l),
           NEW m \in Seq(client_connection_info), NEW k \in [DOMAIN m -> DOMAIN l],
           \A a, b \in DOMAIN m : a < b => k[a] < k[b],
           \A n \in DOMAIN m : Follows(l[k[n]], m[n])
    PROVE  Pairs(m) /\ Final(l, m)
<1>1. Pairs(m)
  <2> SUFFICES ASSUME NEW a \in DOMAIN m, NEW b \in DOMAIN m, a < b
               PROVE  /\ m[a].index < m[b].index
                      /\ m[a].addr = m[b].addr => m[a].state = "Teardown" \/ m[b].state = "Teardown"
    BY DEF Pairs
  <2>1. k[a] \in DOMAIN l /\ k[b] \in DOMAIN l /\ k[a] < k[b]
    BY Zenon
  <2> QED BY <2>1 DEF Pairs, Follows
<1>2. Final(l, m)
  <2> SUFFICES ASSUME NEW i \in DOMAIN l, l[i].state = "Teardown", NEW j \in DOMAIN m,
                      m[j].index = l[i].index
               PROVE  m[j] = l[i]
    BY DEF Final
  <2>1. k[j] \in DOMAIN l /\ l[k[j]].index = l[i].index
    BY DEF Follows
  <2>2. k[j] = i
    BY <2>1, IndexNames
  <2> QED BY Zenon, <2>2 DEF Follows
<1> QED BY Zenon, <1>1, <1>2

\* One entry changes.
LEMMA UpdateKeeps ==
    ASSUME NEW l, NEW cn, ListInv(l, cn), NEW i \in DOMAIN l, NEW e \in client_connection_info,
           Follows(l[i], e), NEW cn2, Sound(e, cn2), OnlyAt(l, i, e), SameBut(l, i, cn, cn2),
           NEW m, m = [l EXCEPT ![i] = e]
    PROVE  ListInv(m, cn2) /\ Final(l, m)
<1> USE DEF OnlyAt, SameBut
<1> DEFINE k == [n \in DOMAIN m |-> n]
<1>1. l \in Seq(client_connection_info) /\ Pairs(l) /\ Distinct(l)
  BY DEF ListInv
<1>2. m \in Seq(client_connection_info) /\ DOMAIN m = DOMAIN l /\ Len(m) = Len(l)
  BY <1>1
<1>3. m[i] = e /\ \A j \in DOMAIN l : j # i => m[j] = l[j]
  BY <1>1
<1>4. /\ k \in [DOMAIN m -> DOMAIN l]
      /\ \A a, b \in DOMAIN m : a < b => k[a] < k[b]
  BY <1>2
<1>5. \A n \in DOMAIN m : Follows(l[k[n]], m[n])
  BY <1>2, <1>3 DEF Follows
<1> HIDE DEF k
<1>6. Pairs(m) /\ Final(l, m)
  BY Zenon, <1>1, <1>2, <1>4, <1>5, Derived
<1>7. Distinct(m)
  BY <1>1, <1>2, <1>3 DEF Distinct
<1>8. \A j \in DOMAIN m : Sound(m[j], cn2)
  BY <1>2, <1>3 DEF ListInv, Sound
<1> QED BY <1>2, <1>6, <1>7, <1>8 DEF ListInv

\* The elements of the second part of a sequence.
LEMMA SecondPart ==
    ASSUME NEW S, NEW a \in Seq(S), NEW b \in Seq(S), NEW n \in Len(a) + 1..Len(a) + Len(b)
    PROVE  (a \o b)[n] = b[n - Len(a)]
OBVIOUS

\* The list without the entry at a place, and with one more.
RemoveAt(l, i) == SubSeq(l, 1, i - 1) \o SubSeq(l, i + 1, Len(l))
InsertAt(l, p, e) == SubSeq(l, 1, p - 1) \o <<e>> \o SubSeq(l, p, Len(l))

\* RemoveAt moves the entries behind the place forward.
LEMMA RemoveAtIs ==
    ASSUME NEW S, NEW l \in Seq(S), NEW i \in DOMAIN l
    PROVE  /\ RemoveAt(l, i) \in Seq(S) /\ Len(RemoveAt(l, i)) = Len(l) - 1
           /\ \A n \in 1..Len(l) - 1 : RemoveAt(l, i)[n] = IF n < i THEN l[n] ELSE l[n + 1]
<1> DEFINE a == SubSeq(l, 1, i - 1)
           b == SubSeq(l, i + 1, Len(l))
<1>1. i \in 1..Len(l) /\ Len(l) \in Nat
  OBVIOUS
<1>2. a \in Seq(S) /\ Len(a) = i - 1 /\ \A n \in 1..i - 1 : a[n] = l[n]
  BY <1>1
<1>3. b \in Seq(S) /\ Len(b) = Len(l) - i /\ \A n \in 1..Len(l) - i : b[n] = l[n + i]
  BY <1>1
<1>4. RemoveAt(l, i) = a \o b
  BY DEF RemoveAt
<1> HIDE DEF a, b
<1>5. a \o b \in Seq(S) /\ Len(a \o b) = Len(l) - 1
  BY <1>1, <1>2, <1>3
<1>6. \A n \in 1..Len(l) - 1 : (a \o b)[n] = IF n < i THEN l[n] ELSE l[n + 1]
  <2> SUFFICES ASSUME NEW n \in 1..Len(l) - 1
               PROVE  (a \o b)[n] = IF n < i THEN l[n] ELSE l[n + 1]
    BY Zenon
  <2>1. CASE n < i
    BY <1>1, <1>2, <1>3, <2>1
  <2>2. CASE ~(n < i)
    <3>1. (a \o b)[n] = b[n - (i - 1)]
      <4>1. n \in Len(a) + 1..Len(a) + Len(b)
        BY <1>1, <1>2, <1>3, <2>2
      <4>2. (a \o b)[n] = b[n - Len(a)]
        BY Zenon, <1>2, <1>3, <4>1, SecondPart
      <4> QED BY <1>2, <4>2
    <3>2. n - (i - 1) \in 1..Len(l) - i
      BY <1>1, <2>2
    <3>3. b[n - (i - 1)] = l[(n - (i - 1)) + i]
      BY <1>3, <3>2
    <3>4. (n - (i - 1)) + i = n + 1
      BY <1>1
    <3> QED BY Zenon, <2>2, <3>1, <3>3, <3>4
  <2> QED BY Zenon, <2>1, <2>2
<1> QED BY <1>4, <1>5, <1>6

\* InsertAt moves them back.
LEMMA InsertAtIs ==
    ASSUME NEW S, NEW l \in Seq(S), NEW p \in 1..Len(l) + 1, NEW e \in S
    PROVE  /\ InsertAt(l, p, e) \in Seq(S) /\ Len(InsertAt(l, p, e)) = Len(l) + 1
           /\ \A n \in 1..Len(l) + 1 :
                InsertAt(l, p, e)[n] = IF n < p THEN l[n] ELSE IF n = p THEN e ELSE l[n - 1]
<1> DEFINE a == SubSeq(l, 1, p - 1)
           b == SubSeq(l, p, Len(l))
           c == a \o <<e>>
<1>1. Len(l) \in Nat /\ p \in Int /\ p >= 1 /\ p <= Len(l) + 1
  OBVIOUS
<1>2. a \in Seq(S) /\ Len(a) = p - 1 /\ \A n \in 1..p - 1 : a[n] = l[n]
  BY <1>1
<1>3. b \in Seq(S) /\ Len(b) = Len(l) - p + 1 /\ \A n \in 1..Len(l) - p + 1 : b[n] = l[n + p - 1]
  BY <1>1
<1>4. InsertAt(l, p, e) = c \o b
  BY DEF InsertAt
<1> HIDE DEF a, b
<1>5. c \in Seq(S) /\ Len(c) = p /\ c[p] = e /\ \A n \in 1..p - 1 : c[n] = l[n]
  BY <1>1, <1>2
<1> HIDE DEF c
<1>6. c \o b \in Seq(S) /\ Len(c \o b) = Len(l) + 1
  BY <1>1, <1>3, <1>5
<1>7. \A n \in 1..Len(l) + 1 :
         (c \o b)[n] = IF n < p THEN l[n] ELSE IF n = p THEN e ELSE l[n - 1]
  <2> SUFFICES ASSUME NEW n \in 1..Len(l) + 1
               PROVE  (c \o b)[n] = IF n < p THEN l[n] ELSE IF n = p THEN e ELSE l[n - 1]
    BY Zenon
  <2>1. CASE n <= p
    BY <1>1, <1>3, <1>5, <2>1
  <2>2. CASE ~(n <= p)
    <3>1. (c \o b)[n] = b[n - p]
      BY <1>1, <1>3, <1>5, <2>2
    <3>2. n - p \in 1..Len(l) - p + 1
      BY <1>1, <2>2
    <3>3. b[n - p] = l[(n - p) + p - 1]
      BY <1>3, <3>2
    <3>4. (n - p) + p - 1 = n - 1
      BY <1>1
    <3> QED BY <1>1, <2>2, <3>1, <3>3, <3>4
  <2> QED BY Zenon, <1>1, <2>1, <2>2
<1> QED BY Zenon, <1>4, <1>6, <1>7

\* One entry is deleted.
LEMMA DeleteKeeps ==
    ASSUME NEW l, NEW cn, ListInv(l, cn), NEW i \in DOMAIN l, NEW cn2,
           SameBut(l, i, cn, cn2), NEW m, m = RemoveAt(l, i)
    PROVE  /\ ListInv(m, cn2) /\ Final(l, m)
           /\ \A j \in DOMAIN l : j # i => \E n \in DOMAIN m : m[n] = l[j]
<1> USE DEF SameBut
<1> DEFINE k == [n \in DOMAIN m |-> IF n < i THEN n ELSE n + 1]
<1>1. l \in Seq(client_connection_info) /\ Pairs(l) /\ Distinct(l) /\ Len(l) <= MaxClients
  BY DEF ListInv
<1>2. i \in 1..Len(l) /\ Len(l) \in Nat
  BY <1>1
<1>3. /\ m \in Seq(client_connection_info) /\ Len(m) = Len(l) - 1
      /\ \A n \in 1..Len(l) - 1 : m[n] = IF n < i THEN l[n] ELSE l[n + 1]
  BY Zenon, <1>1, <1>2, RemoveAtIs
<1>4. DOMAIN m = 1..Len(l) - 1
  BY <1>3
<1>5. /\ k \in [DOMAIN m -> DOMAIN l]
      /\ \A a, b \in DOMAIN m : a < b => k[a] < k[b]
      /\ \A n \in DOMAIN m : m[n] = l[k[n]] /\ k[n] # i
  BY <1>1, <1>2, <1>3, <1>4
<1>6. \A j \in DOMAIN l : j # i => \E n \in DOMAIN m : m[n] = l[j]
  <2> SUFFICES ASSUME NEW j \in DOMAIN l, j # i PROVE \E n \in DOMAIN m : m[n] = l[j]
    OBVIOUS
  <2>1. CASE j < i
    BY <1>1, <1>2, <1>3, <1>4, <2>1
  <2>2. CASE ~(j < i)
    <3>1. j - 1 \in DOMAIN m /\ ~(j - 1 < i) /\ (j - 1) + 1 = j
      BY <1>1, <1>2, <1>4, <2>2
    <3> QED BY Zenon, <1>3, <1>4, <3>1
  <2> QED BY <2>1, <2>2
<1> HIDE DEF k
<1>7. Pairs(m) /\ Final(l, m)
  <2>1. \A n \in DOMAIN m : Follows(l[k[n]], m[n])
    BY <1>5 DEF Follows
  <2> QED BY Zenon, <1>1, <1>3, <1>5, <2>1, Derived
<1>8. Distinct(m)
  <2> SUFFICES ASSUME NEW a \in DOMAIN m, NEW b \in DOMAIN m, a # b, m[a].wsi # None
               PROVE  m[a].wsi # m[b].wsi
    BY Zenon DEF Distinct
  <2>1. k[a] # k[b] /\ k[a] \in DOMAIN l /\ k[b] \in DOMAIN l
    <3>1. a \in Int /\ b \in Int
      BY <1>4
    <3>2. a < b \/ b < a
      BY <3>1
    <3>3. k[a] \in Int /\ k[b] \in Int /\ (k[a] < k[b] \/ k[b] < k[a])
      BY <1>1, <1>5, <3>2
    <3> QED BY <1>5, <3>3
  <2> QED BY <1>1, <1>5, <2>1 DEF Distinct
<1>9. \A n \in DOMAIN m : Sound(m[n], cn2)
  BY <1>5 DEF ListInv, Sound
<1>10. Len(m) <= MaxClients
  BY <1>1, <1>2, <1>3, ClientsAssumption
<1> QED BY <1>3, <1>6, <1>7, <1>8, <1>9, <1>10 DEF ListInv

\* A new entry at the lowest free index.
LEMMA InsertKeeps ==
    ASSUME ListInv(clients, conn), Len(clients) < MaxClients, NEW e \in client_connection_info,
           NEW p \in 1..Len(clients) + 1, FreePlace(p), e.index = p - 1, unique_ip(e.addr),
           e.wsi = None, e.state = "Disconnected"
    PROVE  /\ ListInv(InsertAt(clients, p, e), conn) /\ Final(clients, InsertAt(clients, p, e))
           /\ \A w \in Wsi : (\E i \in DOMAIN clients : clients[i].wsi = w)
                => \E n \in DOMAIN InsertAt(clients, p, e) : InsertAt(clients, p, e)[n].wsi = w
<1> DEFINE l == clients
           m == InsertAt(clients, p, e)
<1>1. l \in Seq(client_connection_info) /\ Pairs(l) /\ Distinct(l)
  BY DEF ListInv
<1>2. Len(l) \in Nat /\ p \in Int /\ p >= 1 /\ p <= Len(l) + 1 /\ DOMAIN l = 1..Len(l)
  BY <1>1
<1>3. /\ m \in Seq(client_connection_info) /\ Len(m) = Len(l) + 1
      /\ \A n \in 1..Len(l) + 1 : m[n] = IF n < p THEN l[n] ELSE IF n = p THEN e ELSE l[n - 1]
  BY <1>1, InsertAtIs
<1> HIDE DEF m
<1>4. DOMAIN m = 1..Len(l) + 1
  BY <1>3
<1> DEFINE old(n) == IF n < p THEN n ELSE n - 1
<1>5. \A n \in DOMAIN m : n # p => old(n) \in DOMAIN l /\ m[n] = l[old(n)]
  BY <1>2, <1>3, <1>4
<1>6. \A a, b \in DOMAIN m : a # p /\ b # p /\ a < b => old(a) < old(b)
  BY <1>2, <1>4
<1>7. p \in DOMAIN m /\ m[p] = e
  BY <1>2, <1>3, <1>4
<1>8. \A i \in DOMAIN l : l[i].index \in Int /\ (i < p => l[i].index < p - 1) /\ (i >= p => l[i].index > p - 1)
  <2> SUFFICES ASSUME NEW i \in DOMAIN l
               PROVE  /\ l[i].index \in Int
                      /\ i < p => l[i].index < p - 1
                      /\ i >= p => l[i].index > p - 1
    OBVIOUS
  <2>1. l[i].index \in Int /\ i \in Int
    BY <1>1, <1>2, EntryType
  <2>2. ASSUME i < p PROVE l[i].index < p - 1
    <3>1. l[i].index <= i - 1
      BY <2>2 DEF FreePlace
    <3> QED BY <1>2, <2>1, <2>2, <3>1
  <2>3. ASSUME i >= p PROVE l[i].index > p - 1
    <3>1. p \in DOMAIN l
      BY <1>2, <2>1, <2>3
    <3>2. l[p].index > p - 1 /\ l[p].index \in Int
      BY <1>1, <3>1, EntryType DEF FreePlace
    <3>3. i = p \/ l[p].index < l[i].index
      BY <1>1, <1>2, <2>1, <2>3, <3>1 DEF Pairs
    <3> QED BY <1>2, <2>1, <3>2, <3>3
  <2> QED BY <2>1, <2>2, <2>3
<1>9. Pairs(m)
  <2> SUFFICES ASSUME NEW a \in DOMAIN m, NEW b \in DOMAIN m, a < b
               PROVE  /\ m[a].index < m[b].index
                      /\ m[a].addr = m[b].addr => m[a].state = "Teardown" \/ m[b].state = "Teardown"
    BY Zenon DEF Pairs
  <2>1. CASE a # p /\ b # p
    BY <1>1, <1>5, <1>6, <2>1 DEF Pairs
  <2>2. CASE a = p
    <3>1. b # p /\ old(b) \in DOMAIN l /\ m[b] = l[old(b)] /\ old(b) >= p
      BY <1>2, <1>4, <1>5, <2>2
    <3>2. l[old(b)].index > p - 1
      BY Zenon, <1>8, <3>1
    <3>3. l[old(b)].addr = e.addr => l[old(b)].state = "Teardown"
      BY <3>1 DEF unique_ip
    <3> HIDE DEF old
    <3> QED BY Zenon, <1>2, <1>7, <1>8, <2>2, <3>1, <3>2, <3>3
  <2>3. CASE b = p
    <3>1. a # p /\ old(a) \in DOMAIN l /\ m[a] = l[old(a)] /\ old(a) < p
      BY <1>2, <1>4, <1>5, <2>3
    <3>2. l[old(a)].index < p - 1
      BY <1>8, <3>1
    <3>3. l[old(a)].addr = e.addr => l[old(a)].state = "Teardown"
      BY <3>1 DEF unique_ip
    <3> HIDE DEF old
    <3> QED BY <1>2, <1>7, <1>8, <2>3, <3>1, <3>2, <3>3
  <2> QED BY <2>1, <2>2, <2>3
<1>10. Distinct(m)
  <2> SUFFICES ASSUME NEW a \in DOMAIN m, NEW b \in DOMAIN m, a # b, m[a].wsi # None
               PROVE  m[a].wsi # m[b].wsi
    BY DEF Distinct
  <2>1. a # p
    BY <1>7
  <2>2. CASE b = p
    BY <1>7, <2>2
  <2>3. CASE b # p
    <3>1. old(a) # old(b)
      BY <1>2, <1>4, <2>1, <2>3
    <3> HIDE DEF old
    <3> QED BY <1>1, <1>5, <2>1, <2>3, <3>1 DEF Distinct
  <2> QED BY <2>2, <2>3
<1>11. \A n \in DOMAIN m : Sound(m[n], conn)
  <2>1. Sound(e, conn)
    BY DEF Sound
  <2> QED BY <1>5, <1>7, <2>1 DEF ListInv
<1>12. Final(l, m)
  <2> SUFFICES ASSUME NEW i \in DOMAIN l, l[i].state = "Teardown", NEW n \in DOMAIN m,
                      m[n].index = l[i].index
               PROVE  m[n] = l[i]
    BY DEF Final
  <2>1. n # p
    BY <1>2, <1>7, <1>8
  <2> QED BY <1>1, <1>5, <2>1, IndexNames
<1>13. Len(m) <= MaxClients
  BY <1>2, <1>3, ClientsAssumption
<1>14. ASSUME NEW i \in DOMAIN l PROVE \E n \in DOMAIN m : m[n] = l[i]
  <2>1. CASE i < p
    BY <1>2, <1>3, <1>4, <2>1
  <2>2. CASE ~(i < p)
    <3>1. i + 1 \in DOMAIN m /\ ~(i + 1 < p) /\ i + 1 # p /\ (i + 1) - 1 = i
      BY <1>2, <1>4, <2>2
    <3> QED BY <1>3, <1>4, <3>1
  <2> QED BY <2>1, <2>2
<1> QED BY <1>3, <1>9, <1>10, <1>11, <1>12, <1>13, <1>14 DEF ListInv, m

-----------------------------------------------------------------------------
(* The registry *)

RInv ==
    /\ ListInv(clients, conn)
    /\ conn \in [Wsi -> Phases] /\ writable \subseteq Wsi
    /\ up \in BOOLEAN /\ crashed \in BOOLEAN
    /\ up = TRUE => Owned(clients, conn)
    /\ up = FALSE => clients = <<>>

\* What is to be shown of a step.
Step == RInv' /\ Final(clients, clients')

\* A list that stays is in order.
LEMMA SameFinal ==
    ASSUME ListInv(clients, conn), clients' = clients
    PROVE  Final(clients, clients')
BY IndexNames DEF ListInv, Final

\* remove_client: some entries are marked, some deleted.
LEMMA RemoveKeeps ==
    ASSUME RInv, NEW places, places \subseteq DOMAIN clients, manage_remove_client(places),
           UNCHANGED <<conn, up, crashed>>, up = TRUE
    PROVE  Step
<1> DEFINE In(states) == {i \in places : clients[i].state \in states}
           Mark(i) == IF i \in In({"Connecting", "Connected"}) THEN [clients[i] EXCEPT !.state = "Teardown"]
                      ELSE clients[i]
           kept == DOMAIN clients \ In({"Disconnected"})
           N == Cardinality(kept)
<1>1. PICK k \in [1..N -> kept] : InOrder(k, kept) /\ clients' = [n \in DOMAIN k |-> Mark(k[n])]
  BY Zenon DEF manage_remove_client, RemoveBy
<1>2. writable' = writable \cup {clients[i].wsi : i \in In({"Connected"})}
  BY DEF manage_remove_client, RemoveBy
<1>3. /\ clients \in Seq(client_connection_info) /\ Pairs(clients) /\ Distinct(clients)
      /\ Len(clients) <= MaxClients /\ Len(clients) \in Nat /\ MaxClients \in Nat
  BY ClientsAssumption DEF RInv, ListInv
<1>4. N \in Nat /\ N <= Len(clients)
  <2>1. IsFiniteSet(DOMAIN clients) /\ Cardinality(DOMAIN clients) = Len(clients)
    <3>1. DOMAIN clients = 1..Len(clients)
      BY <1>3
    <3>2. ASSUME NEW x \in Nat PROVE IsFiniteSet(1..x) /\ Cardinality(1..x) = x
      BY FS_Interval
    <3> QED BY Zenon, <1>3, <3>1, <3>2
  <2>2. kept \subseteq DOMAIN clients
    OBVIOUS
  <2>3. IsFiniteSet(kept) /\ N <= Cardinality(DOMAIN clients)
    BY <2>1, <2>2, FS_Subset
  <2> QED BY <2>1, <2>3, FS_CardinalityType
<1> HIDE DEF N
<1>5. \A i \in DOMAIN clients : Mark(i) \in client_connection_info /\ Follows(clients[i], Mark(i))
                                /\ Mark(i).wsi = clients[i].wsi
  <2> SUFFICES ASSUME NEW i \in DOMAIN clients
               PROVE  /\ Mark(i) \in client_connection_info /\ Follows(clients[i], Mark(i))
                      /\ Mark(i).wsi = clients[i].wsi
    OBVIOUS
  <2>1. clients[i] \in client_connection_info
    BY <1>3
  <2> QED BY <2>1 DEF client_connection_info, States, Follows
<1>6. \A i \in DOMAIN clients : Sound(Mark(i), conn)
  <2> SUFFICES ASSUME NEW i \in DOMAIN clients, i \in In({"Connecting", "Connected"})
               PROVE  Sound([clients[i] EXCEPT !.state = "Teardown"], conn)
    BY Zenon DEF RInv, ListInv
  <2> DEFINE e == [clients[i] EXCEPT !.state = "Teardown"]
  <2>1. clients[i] \in client_connection_info /\ Sound(clients[i], conn)
    BY <1>3 DEF RInv, ListInv
  <2>2. e.state = "Teardown" /\ e.armed = clients[i].armed /\ e.wsi = clients[i].wsi
    BY Zenon, <2>1 DEF client_connection_info
  <2> HIDE DEF e
  <2>3. clients[i].state \in {"Connecting", "Connected"}
    BY Zenon
  <2>4. Sound(e, conn)
    BY Zenon, <2>1, <2>2, <2>3 DEF Sound, Phase
  <2> QED BY <2>4 DEF e
<1> DEFINE m == clients'
<1>7. /\ DOMAIN m = 1..N /\ \A n \in 1..N : m[n] = Mark(k[n]) /\ k[n] \in DOMAIN clients
  BY <1>1
<1>8. m \in Seq(client_connection_info) /\ Len(m) = N
  <2> HIDE DEF Mark
  <2>1. m \in [1..N -> client_connection_info]
    BY <1>1, <1>5, <1>7
  <2> QED BY <1>4, <2>1
<1>9. \A a, b \in DOMAIN m : a < b => k[a] < k[b]
  BY <1>1, <1>7 DEF InOrder
<1> HIDE DEF Mark
<1>10. Pairs(m) /\ Final(clients, m)
  <2>1. k \in [DOMAIN m -> DOMAIN clients]
    BY <1>7
  <2>2. \A n \in DOMAIN m : Follows(clients[k[n]], m[n])
    BY <1>5, <1>7
  <2> QED BY Zenon, <1>3, <1>8, <1>9, <2>1, <2>2, Derived
<1>11. Distinct(m)
  <2> SUFFICES ASSUME NEW a \in DOMAIN m, NEW b \in DOMAIN m, a # b, m[a].wsi # None
               PROVE  m[a].wsi # m[b].wsi
    BY Zenon DEF Distinct
  <2>1. a \in Int /\ b \in Int /\ k[a] \in Int /\ k[b] \in Int
    BY <1>3, <1>7
  <2>2. k[a] # k[b]
    BY <1>9, <2>1
  <2> QED BY <1>3, <1>5, <1>7, <2>2 DEF Distinct
<1>12. ListInv(m, conn)
  BY <1>3, <1>4, <1>6, <1>7, <1>8, <1>10, <1>11 DEF ListInv
<1>13. Owned(m, conn)
  <2> SUFFICES ASSUME NEW w \in Wsi, conn[w] # "free" PROVE \E n \in DOMAIN m : m[n].wsi = w
    BY Zenon DEF Owned
  <2>1. PICK i \in DOMAIN clients : clients[i].wsi = w
    BY DEF RInv, Owned
  <2>2. i \in kept
    <3>1. w # None /\ conn[w] \in Phase(clients[i])
      BY <2>1, ClientsAssumption DEF RInv, ListInv, Sound
    <3> QED BY <3>1 DEF Phase
  <2>3. PICK n \in DOMAIN k : k[n] = i
    BY <1>1, <2>2 DEF InOrder
  <2> QED BY <1>5, <1>7, <2>1, <2>3
<1>14. writable' \subseteq Wsi
  <2>1. \A i \in In({"Connected"}) : clients[i].wsi \in Wsi
    <3> SUFFICES ASSUME NEW i \in In({"Connected"}) PROVE clients[i].wsi \in Wsi
      OBVIOUS
    <3>1. i \in DOMAIN clients /\ clients[i].state = "Connected"
      BY Zenon
    <3>2. clients[i].wsi \in Wsi \cup {None} /\ Sound(clients[i], conn)
      BY <1>3, <3>1, EntryType DEF RInv, ListInv
    <3> QED BY <3>1, <3>2 DEF Sound
  <2> QED BY <1>2, <2>1 DEF RInv
<1> QED BY <1>10, <1>12, <1>13, <1>14 DEF Step, RInv

-----------------------------------------------------------------------------
(* Callbacks *)

\* i is the only entry with this handle.
Owner(l, w, i) == i \in DOMAIN l /\ l[i].wsi = w /\ \A j \in DOMAIN l : l[j].wsi = w => j = i

\* The search finds it.
LEMMA OwnerFound ==
    ASSUME NEW l \in Seq(client_connection_info), NEW w, NEW i, Owner(l, w, i)
    PROVE  get_client_by_wsi(l, w) = i /\ i # 0 /\ i \in DOMAIN l
<1>1. {j \in DOMAIN l : l[j].wsi = w} = {i} /\ i \in Int /\ i # 0
  BY DEF Owner
<1>2. Min({i}) = i
  BY <1>1 DEF Min
<1>3. get_client_by_wsi(l, w) = i
  BY Zenon, <1>1, <1>2 DEF get_client_by_wsi, First
<1> QED BY <1>1, <1>3 DEF Owner

\* A connection has an owner as long as the loop runs.
LEMMA HasOwner ==
    ASSUME RInv, up = TRUE, NEW w \in Wsi, conn[w] # "free"
    PROVE  \E i \in DOMAIN clients :
              /\ Owner(clients, w, i) /\ get_client_by_wsi(clients, w) = i /\ i # 0
              /\ conn[w] \in Phase(clients[i]) /\ clients[i] \in client_connection_info
<1>1. PICK i \in DOMAIN clients : clients[i].wsi = w
  BY DEF RInv, Owned
<1>2. w # None
  BY ClientsAssumption
<1>3. clients \in Seq(client_connection_info) /\ clients[i] \in client_connection_info
  BY DEF RInv, ListInv
<1>4. Owner(clients, w, i)
  BY Zenon, <1>1, <1>2 DEF RInv, ListInv, Distinct, Owner
<1>5. conn[w] \in Phase(clients[i])
  BY Zenon, <1>1, <1>2 DEF RInv, ListInv, Sound
<1> QED BY <1>3, <1>4, <1>5, OwnerFound

\* In the empty list nothing is found.
LEMMA NoneFound ==
    ASSUME NEW w
    PROVE  get_client_by_wsi(<<>>, w) = 0
<1>1. {j \in DOMAIN <<>> : <<>>[j].wsi = w} = {}
  OBVIOUS
<1> QED BY <1>1 DEF get_client_by_wsi, First

\* wsubus_client_set_state changes the entry of the handle.
LEMMA StateSet ==
    ASSUME NEW l \in Seq(client_connection_info), NEW w, NEW i, Owner(l, w, i), NEW s \in States
    PROVE  \E e \in client_connection_info :
              /\ wsubus_client_set_state(l, w, s) = [l EXCEPT ![i] = e]
              /\ e.index = l[i].index /\ e.addr = l[i].addr /\ e.wsi = w
              /\ e.state = s /\ e.armed = l[i].armed
<1>1. get_client_by_wsi(l, w) = i /\ i # 0 /\ i \in DOMAIN l /\ l[i].wsi = w
  BY OwnerFound DEF Owner
<1>2. l[i] \in client_connection_info
  BY <1>1
<1> DEFINE n == IF s = "Connected" THEN 0 ELSE l[i].count
           d == [l[i] EXCEPT !.state = s]
           e == [d EXCEPT !.count = n]
<1>3. wsubus_client_set_state(l, w, s) = [l EXCEPT ![i] = e]
  BY Zenon, <1>1, <1>2 DEF wsubus_client_set_state, client_connection_info
<1>4. MaxCount \in Nat
  BY ClientsAssumption
<1>5. n \in 0..MaxCount
  BY <1>2, <1>4 DEF client_connection_info
<1>6. /\ d \in client_connection_info
      /\ d.index = l[i].index /\ d.addr = l[i].addr /\ d.wsi = w /\ d.state = s /\ d.armed = l[i].armed
  BY Zenon, <1>1, <1>2 DEF client_connection_info
<1> HIDE DEF d, n
<1>7. /\ e \in client_connection_info
      /\ e.index = l[i].index /\ e.addr = l[i].addr /\ e.wsi = w /\ e.state = s /\ e.armed = l[i].armed
  BY Zenon, <1>5, <1>6 DEF client_connection_info
<1> HIDE DEF e
<1> QED BY Zenon, <1>3, <1>7

\* The end of a connection or of an attempt: the entry of the handle is deleted if it is on
\* its way out, and disconnected otherwise.
LEMMA EndKeeps ==
    ASSUME RInv, NEW w \in Wsi, conn[w] # "free", conn' = [conn EXCEPT ![w] = "free"],
           writable' \subseteq Wsi, UNCHANGED <<up, crashed>>,
           wsubus_client_should_destroy(clients, w) => clients' = wsubus_client_destroy(clients, w),
           \A i : Owner(clients, w, i) /\ clients[i].state # "Teardown" =>
              \E e \in client_connection_info :
                 /\ clients' = [clients EXCEPT ![i] = e] /\ Follows(clients[i], e)
                 /\ e.state = "Disconnected" /\ e.wsi \in {w, None}
    PROVE  Step
<1>1. conn \in [Wsi -> Phases] /\ conn' \in [Wsi -> Phases] /\ conn'[w] = "free"
      /\ \A v \in Wsi : v # w => conn'[v] = conn[v]
  BY DEF RInv, Phases
<1>2. ListInv(clients, conn) /\ clients \in Seq(client_connection_info)
  BY DEF RInv, ListInv
<1>3. CASE up = FALSE
  <2>1. clients = <<>> /\ get_client_by_wsi(clients, w) = 0
    BY <1>3, NoneFound DEF RInv
  <2>2. clients' = clients
    BY <2>1 DEF wsubus_client_should_destroy, wsubus_client_destroy, RemoveAt
  <2>3. ListInv(clients', conn')
    BY <1>2, <2>1, <2>2 DEF ListInv
  <2> QED BY <1>1, <1>2, <1>3, <2>1, <2>2, <2>3, SameFinal DEF Step, RInv
<1>4. CASE up = TRUE
  <2>1. PICK i \in DOMAIN clients :
              /\ Owner(clients, w, i) /\ get_client_by_wsi(clients, w) = i /\ i # 0
              /\ conn[w] \in Phase(clients[i]) /\ clients[i] \in client_connection_info
    BY Zenon, <1>4, HasOwner
  <2>2. \A j \in DOMAIN clients : j # i /\ clients[j].wsi # None =>
           clients[j].wsi # w /\ conn'[clients[j].wsi] = conn[clients[j].wsi]
    BY <1>1, <1>2, <2>1, EntryType DEF Owner
  <2>3. ASSUME ListInv(clients', conn'), Final(clients, clients'),
               \A j \in DOMAIN clients : j # i => \E n \in DOMAIN clients' : clients'[n] = clients[j]
        PROVE  Step
    <3>1. Owned(clients', conn')
      <4> SUFFICES ASSUME NEW v \in Wsi, conn'[v] # "free"
                   PROVE  \E n \in DOMAIN clients' : clients'[n].wsi = v
        BY DEF Owned
      <4>1. v # w /\ conn[v] # "free"
        BY <1>1
      <4>2. PICK j \in DOMAIN clients : clients[j].wsi = v
        BY <1>4, <4>1 DEF RInv, Owned
      <4> QED BY <2>1, <2>3, <4>1, <4>2 DEF Owner
    <3> QED BY Zenon, <1>1, <1>4, <2>3, <3>1 DEF Step, RInv
  <2>4. CASE clients[i].state = "Teardown"
    <3>1. clients' = RemoveAt(clients, i)
      BY Zenon, <2>1, <2>4 DEF wsubus_client_should_destroy, wsubus_client_destroy, RemoveAt
    <3>2. SameBut(clients, i, conn, conn')
      BY <2>2 DEF SameBut
    <3>3. /\ ListInv(clients', conn') /\ Final(clients, clients')
          /\ \A j \in DOMAIN clients : j # i => \E n \in DOMAIN clients' : clients'[n] = clients[j]
      BY <1>2, <3>1, <3>2, DeleteKeeps
    <3> QED BY <2>3, <3>3
  <2>5. CASE clients[i].state # "Teardown"
    <3>1. PICK e \in client_connection_info :
                 /\ clients' = [clients EXCEPT ![i] = e] /\ Follows(clients[i], e)
                 /\ e.state = "Disconnected" /\ e.wsi \in {w, None}
      BY <2>1, <2>5
    <3>2. Sound(e, conn')
      BY <1>1, <3>1 DEF Sound, Phase
    <3>a. SameBut(clients, i, conn, conn')
      BY <2>2 DEF SameBut
    <3>b. OnlyAt(clients, i, e)
      BY <2>1, <3>1 DEF Owner, OnlyAt
    <3>3. ListInv(clients', conn') /\ Final(clients, clients')
      BY Zenon, <1>2, <3>a, <3>b, <3>1, <3>2, UpdateKeeps
    <3>4. \A j \in DOMAIN clients : j # i => j \in DOMAIN clients' /\ clients'[j] = clients[j]
      BY <1>2, <3>1
    <3> QED BY Zenon, <2>3, <3>3, <3>4
  <2> QED BY Zenon, <2>4, <2>5
<1> QED BY Zenon, <1>3, <1>4 DEF RInv

\* wsubus_client_connect_retry forgets the handle, wsubus_client_reconnect keeps it.
LEMMA RetrySet ==
    ASSUME NEW l \in Seq(client_connection_info), NEW w, NEW i, Owner(l, w, i)
    PROVE  /\ \E e \in client_connection_info :
                 /\ wsubus_client_connect_retry(l, w) = [l EXCEPT ![i] = e]
                 /\ e.index = l[i].index /\ e.addr = l[i].addr /\ e.wsi = None /\ e.state = l[i].state
           /\ \E e \in client_connection_info :
                 /\ wsubus_client_reconnect(l, w) = [l EXCEPT ![i] = e]
                 /\ e.index = l[i].index /\ e.addr = l[i].addr /\ e.wsi = w /\ e.state = l[i].state
<1>1. get_client_by_wsi(l, w) = i /\ i # 0 /\ i \in DOMAIN l /\ l[i].wsi = w
  BY OwnerFound DEF Owner
<1>2. l[i] \in client_connection_info
  BY <1>1
<1>3. MaxCount \in Nat
  BY ClientsAssumption
<1>4. OneMore(l[i].count) \in 0..MaxCount
  BY <1>2, <1>3 DEF client_connection_info, OneMore
<1> DEFINE n == OneMore(l[i].count)
           c == [l[i] EXCEPT !.wsi = None]
           d == [c EXCEPT !.count = n]
           e == [d EXCEPT !.armed = TRUE]
           g == [l[i] EXCEPT !.count = 0]
           h == [g EXCEPT !.armed = TRUE]
<1>5. wsubus_client_connect_retry(l, w) = [l EXCEPT ![i] = e]
  BY Zenon, <1>1, <1>2 DEF wsubus_client_connect_retry, client_connection_info
<1>6. wsubus_client_reconnect(l, w) = [l EXCEPT ![i] = h]
  BY Zenon, <1>1, <1>2 DEF wsubus_client_reconnect, client_connection_info
<1>7. /\ c \in client_connection_info
      /\ c.index = l[i].index /\ c.addr = l[i].addr /\ c.wsi = None /\ c.state = l[i].state
  BY Zenon, <1>2 DEF client_connection_info
<1>8. /\ g \in client_connection_info
      /\ g.index = l[i].index /\ g.addr = l[i].addr /\ g.wsi = w /\ g.state = l[i].state
  <2>1. 0 \in 0..MaxCount
    BY <1>3
  <2>2. g \in client_connection_info /\ g.wsi = l[i].wsi
    BY Zenon, <1>2, <2>1 DEF client_connection_info
  <2>3. g.index = l[i].index /\ g.addr = l[i].addr /\ g.state = l[i].state
    BY <1>2 DEF client_connection_info
  <2> QED BY <1>1, <2>2, <2>3
<1> HIDE DEF n, c, g
<1>9. n \in 0..MaxCount
  BY <1>4 DEF n
<1>10. /\ d \in client_connection_info
       /\ d.index = l[i].index /\ d.addr = l[i].addr /\ d.wsi = None /\ d.state = l[i].state
  BY <1>7, <1>9 DEF client_connection_info
<1>11. /\ h \in client_connection_info
       /\ h.index = l[i].index /\ h.addr = l[i].addr /\ h.wsi = w /\ h.state = l[i].state
  BY Zenon, <1>8 DEF client_connection_info
<1> HIDE DEF d
<1>12. /\ e \in client_connection_info
       /\ e.index = l[i].index /\ e.addr = l[i].addr /\ e.wsi = None /\ e.state = l[i].state
  BY Zenon, <1>10 DEF client_connection_info
<1> HIDE DEF e, h
<1> QED BY Zenon, <1>5, <1>6, <1>11, <1>12

\* Changing one entry twice.
LEMMA Twice ==
    ASSUME NEW l \in Seq(client_connection_info), NEW i, NEW a, NEW b
    PROVE  [[l EXCEPT ![i] = a] EXCEPT ![i] = b] = [l EXCEPT ![i] = b]
BY Zenon

\* The state is set to Disconnected, and the client is to be connected again.
LEMMA Disconnects ==
    ASSUME NEW l \in Seq(client_connection_info), NEW w, NEW i, Owner(l, w, i)
    PROVE  LET m == wsubus_client_set_state(l, w, "Disconnected")
           IN  /\ \E e \in client_connection_info :
                     /\ wsubus_client_connect_retry(m, w) = [l EXCEPT ![i] = e]
                     /\ e.index = l[i].index /\ e.addr = l[i].addr /\ e.wsi = None
                     /\ e.state = "Disconnected"
               /\ \E e \in client_connection_info :
                     /\ wsubus_client_reconnect(m, w) = [l EXCEPT ![i] = e]
                     /\ e.index = l[i].index /\ e.addr = l[i].addr /\ e.wsi = w
                     /\ e.state = "Disconnected"
<1> DEFINE m == wsubus_client_set_state(l, w, "Disconnected")
<1>1. "Disconnected" \in States
  BY DEF States
<1>2. PICK d \in client_connection_info :
              /\ m = [l EXCEPT ![i] = d]
              /\ d.index = l[i].index /\ d.addr = l[i].addr /\ d.wsi = w /\ d.state = "Disconnected"
  BY <1>1, StateSet
<1> HIDE DEF m
<1>3. m \in Seq(client_connection_info) /\ Owner(m, w, i) /\ m[i] = d
  BY <1>2 DEF Owner
<1>4. PICK e \in client_connection_info :
              /\ wsubus_client_connect_retry(m, w) = [m EXCEPT ![i] = e]
              /\ e.index = m[i].index /\ e.addr = m[i].addr /\ e.wsi = None /\ e.state = m[i].state
  BY <1>3, RetrySet
<1>5. PICK h \in client_connection_info :
              /\ wsubus_client_reconnect(m, w) = [m EXCEPT ![i] = h]
              /\ h.index = m[i].index /\ h.addr = m[i].addr /\ h.wsi = w /\ h.state = m[i].state
  BY <1>3, RetrySet
<1>6. [m EXCEPT ![i] = e] = [l EXCEPT ![i] = e] /\ [m EXCEPT ![i] = h] = [l EXCEPT ![i] = h]
  BY Zenon, <1>2, Twice
<1>7. \E x \in client_connection_info :
              /\ wsubus_client_connect_retry(m, w) = [l EXCEPT ![i] = x]
              /\ x.index = l[i].index /\ x.addr = l[i].addr /\ x.wsi = None /\ x.state = "Disconnected"
  BY Zenon, <1>2, <1>3, <1>4, <1>6
<1>8. \E x \in client_connection_info :
              /\ wsubus_client_reconnect(m, w) = [l EXCEPT ![i] = x]
              /\ x.index = l[i].index /\ x.addr = l[i].addr /\ x.wsi = w /\ x.state = "Disconnected"
  BY Zenon, <1>2, <1>3, <1>5, <1>6
<1> QED BY <1>7, <1>8 DEF m

-----------------------------------------------------------------------------
(* Steps *)

\* A connection ends.
LEMMA ClosedStep ==
    ASSUME RInv, NEW w \in Wsi, ConnectionError(w) \/ Closed(w)
    PROVE  Step
<1>1. /\ conn[w] # "free" /\ conn' = [conn EXCEPT ![w] = "free"]
      /\ writable' \subseteq Wsi /\ UNCHANGED <<up, crashed>>
  BY Zenon DEF ConnectionError, Closed, RInv
<1>2. wsubus_client_should_destroy(clients, w) => clients' = wsubus_client_destroy(clients, w)
  BY DEF ConnectionError, OnConnectionError, Closed
<1>3. ASSUME NEW i, Owner(clients, w, i), clients[i].state # "Teardown"
      PROVE  \E e \in client_connection_info :
                 /\ clients' = [clients EXCEPT ![i] = e] /\ Follows(clients[i], e)
                 /\ e.state = "Disconnected" /\ e.wsi \in {w, None}
  <2>1. clients \in Seq(client_connection_info)
    BY Zenon DEF RInv, ListInv
  <2>2. ~wsubus_client_should_destroy(clients, w)
    BY <1>3, <2>1, OwnerFound DEF wsubus_client_should_destroy
  <2> DEFINE m == wsubus_client_set_state(clients, w, "Disconnected")
  <2>3. clients' \in {wsubus_client_connect_retry(m, w), wsubus_client_reconnect(m, w)}
    BY <2>2 DEF ConnectionError, OnConnectionError, Closed
  <2>4. /\ \E e \in client_connection_info :
              /\ wsubus_client_connect_retry(m, w) = [clients EXCEPT ![i] = e]
              /\ e.index = clients[i].index /\ e.addr = clients[i].addr /\ e.wsi = None
              /\ e.state = "Disconnected"
        /\ \E e \in client_connection_info :
              /\ wsubus_client_reconnect(m, w) = [clients EXCEPT ![i] = e]
              /\ e.index = clients[i].index /\ e.addr = clients[i].addr /\ e.wsi = w
              /\ e.state = "Disconnected"
    BY <1>3, <2>1, Disconnects
  <2> HIDE DEF m
  <2> QED BY <1>3, <2>3, <2>4 DEF Follows
<1> QED BY Zenon, <1>1, <1>2, <1>3, EndKeeps

\* One entry changes while the loop runs.
LEMMA UpdateStep ==
    ASSUME RInv, up = TRUE, UNCHANGED <<up, crashed>>, writable' \subseteq Wsi,
           conn' \in [Wsi -> Phases], NEW i \in DOMAIN clients, NEW e \in client_connection_info,
           clients' = [clients EXCEPT ![i] = e], Follows(clients[i], e), Sound(e, conn'),
           OnlyAt(clients, i, e), SameBut(clients, i, conn, conn'),
           \A v \in Wsi : conn'[v] # "free" => v = e.wsi \/ (conn[v] # "free" /\ clients[i].wsi # v)
    PROVE  Step
<1>1. ListInv(clients, conn) /\ clients \in Seq(client_connection_info)
  BY Zenon DEF RInv, ListInv
<1>2. ListInv(clients', conn') /\ Final(clients, clients')
  BY Zenon, <1>1, UpdateKeeps
<1>3. i \in DOMAIN clients' /\ clients'[i] = e
      /\ \A j \in DOMAIN clients : j # i => j \in DOMAIN clients' /\ clients'[j] = clients[j]
  BY <1>1
<1>4. Owned(clients', conn')
  <2> SUFFICES ASSUME NEW v \in Wsi, conn'[v] # "free"
               PROVE  \E n \in DOMAIN clients' : clients'[n].wsi = v
    BY DEF Owned
  <2>1. CASE v = e.wsi
    BY <1>3, <2>1
  <2>2. CASE conn[v] # "free" /\ clients[i].wsi # v
    <3>1. PICK j \in DOMAIN clients : clients[j].wsi = v
      BY <2>2 DEF RInv, Owned
    <3> QED BY <1>3, <2>2, <3>1
  <2> QED BY <2>1, <2>2
<1> QED BY Zenon, <1>2, <1>4 DEF Step, RInv

\* The connection of an entry reaches another phase.
LEMMA PhaseStep ==
    ASSUME RInv, up = TRUE, UNCHANGED <<up, crashed>>, writable' \subseteq Wsi,
           NEW w \in Wsi, NEW i, Owner(clients, w, i), NEW p \in Phases,
           conn' = [conn EXCEPT ![w] = p], NEW e \in client_connection_info,
           clients' = [clients EXCEPT ![i] = e], Follows(clients[i], e), e.wsi = w,
           e.armed = TRUE => e.state = "Disconnected", p \in Phase(e)
    PROVE  Step
<1>1. conn \in [Wsi -> Phases] /\ conn' \in [Wsi -> Phases] /\ conn'[w] = p
      /\ \A v \in Wsi : v # w => conn'[v] = conn[v]
  BY DEF RInv
<1>2. clients \in Seq(client_connection_info) /\ i \in DOMAIN clients /\ w # None
      /\ clients[i].wsi = w
  BY ClientsAssumption DEF RInv, ListInv, Owner
<1>3. Sound(e, conn')
  BY <1>1, <1>2 DEF Sound
<1>4. OnlyAt(clients, i, e)
  BY <1>2 DEF OnlyAt, Owner
<1>5. SameBut(clients, i, conn, conn')
  <2> SUFFICES ASSUME NEW j \in DOMAIN clients, j # i, clients[j].wsi # None
               PROVE  conn'[clients[j].wsi] = conn[clients[j].wsi]
    BY DEF SameBut
  <2>1. clients[j].wsi \in Wsi /\ clients[j].wsi # w
    BY <1>2, EntryType DEF Owner
  <2> QED BY <1>1, <2>1
<1>6. \A v \in Wsi : conn'[v] # "free" => v = e.wsi \/ (conn[v] # "free" /\ clients[i].wsi # v)
  BY <1>1, <1>2
<1> QED BY Zenon, <1>1, <1>2, <1>3, <1>4, <1>5, <1>6, UpdateStep

\* A connection is established, written to, or refused.
LEMMA OpenStep ==
    ASSUME RInv, NEW w \in Wsi, EstablishedDoomed(w) \/ Established(w) \/ Writeable(w)
    PROVE  Step
<1>1. /\ up = TRUE /\ UNCHANGED <<up, crashed>> /\ conn[w] \in {"connecting", "open"}
      /\ writable' \subseteq Wsi
  BY Zenon DEF EstablishedDoomed, Established, Writeable, Running, RInv
<1>2. PICK i \in DOMAIN clients :
              /\ Owner(clients, w, i) /\ get_client_by_wsi(clients, w) = i /\ i # 0
              /\ conn[w] \in Phase(clients[i]) /\ clients[i] \in client_connection_info
  BY <1>1, HasOwner
<1>3. /\ clients \in Seq(client_connection_info) /\ clients[i].wsi = w
      /\ clients[i].armed = TRUE => clients[i].state = "Disconnected"
      /\ conn \in [Wsi -> Phases] /\ w # None
  BY <1>2, ClientsAssumption DEF RInv, ListInv, Owner, Sound
<1>4. wsubus_client_should_destroy(clients, w) <=> clients[i].state = "Teardown"
  BY <1>2 DEF wsubus_client_should_destroy
<1>5. clients[i].state # "Disconnected"
  BY <1>1, <1>2 DEF Phase
<1>6. CASE clients' = clients /\ \E p \in Phase(clients[i]) : conn' = [conn EXCEPT ![w] = p]
  <2>1. PICK p \in Phase(clients[i]) : conn' = [conn EXCEPT ![w] = p]
    BY Zenon, <1>6
  <2>2. p \in Phases
    BY <1>2, EntryType DEF Phase, Phases, States, client_connection_info
  <2>3. clients' = [clients EXCEPT ![i] = clients[i]]
    BY <1>3, <1>6
  <2>4. Follows(clients[i], clients[i])
    BY Zenon DEF Follows
  <2> QED BY Zenon, <1>1, <1>2, <1>3, <2>1, <2>2, <2>3, <2>4, PhaseStep
<1>7. CASE EstablishedDoomed(w)
  <2>1. "closing" \in Phase(clients[i])
    BY <1>4, <1>7 DEF EstablishedDoomed, Phase
  <2> QED BY Zenon, <1>6, <1>7, <2>1 DEF EstablishedDoomed
<1>8. CASE Writeable(w)
  <2>1. CASE clients[i].state = "Teardown"
    <3>1. "closing" \in Phase(clients[i])
      BY <2>1 DEF Phase
    <3> QED BY Zenon, <1>4, <1>6, <1>8, <2>1, <3>1 DEF Writeable
  <2>2. CASE clients[i].state # "Teardown"
    <3>1. conn' = [conn EXCEPT ![w] = conn[w]]
      BY Zenon, <1>3, <1>4, <1>8, <2>2 DEF Writeable
    <3> QED BY Zenon, <1>2, <1>6, <1>8, <3>1 DEF Writeable
  <2> QED BY <2>1, <2>2
<1>9. CASE Established(w)
  <2>1. clients[i].state # "Teardown" /\ "Connected" \in States
    BY <1>4, <1>9 DEF Established, States
  <2>2. PICK e \in client_connection_info :
              /\ wsubus_client_set_state(clients, w, "Connected") = [clients EXCEPT ![i] = e]
              /\ e.index = clients[i].index /\ e.addr = clients[i].addr /\ e.wsi = w
              /\ e.state = "Connected" /\ e.armed = clients[i].armed
    BY <1>2, <1>3, <2>1, StateSet
  <2>3. Follows(clients[i], e) /\ (e.armed = TRUE => e.state = "Disconnected")
    BY Zenon, <1>3, <1>5, <2>1, <2>2 DEF Follows
  <2>4. "open" \in Phase(e) /\ "open" \in Phases
    BY <2>2 DEF Phase, Phases
  <2>5. clients' = [clients EXCEPT ![i] = e] /\ conn' = [conn EXCEPT ![w] = "open"]
    BY <1>9, <2>2 DEF Established
  <2> QED BY Zenon, <1>1, <1>2, <2>2, <2>3, <2>4, <2>5, PhaseStep
<1> QED BY <1>7, <1>8, <1>9

\* Of an entry whose timer fires: it is disconnected, and no connection is its own.
LEMMA Waiting ==
    ASSUME RInv, NEW i \in DOMAIN clients, clients[i].armed
    PROVE  /\ clients \in Seq(client_connection_info) /\ clients[i] \in client_connection_info
           /\ clients[i].state = "Disconnected"
           /\ \A v \in Wsi : conn[v] # "free" => clients[i].wsi # v
<1>1. clients \in Seq(client_connection_info) /\ Sound(clients[i], conn)
  BY DEF RInv, ListInv
<1>2. clients[i] \in client_connection_info /\ clients[i].armed \in BOOLEAN
  BY <1>1, EntryType
<1>3. clients[i].armed = TRUE
  BY <1>2
<1>4. clients[i].state = "Disconnected"
  BY <1>1, <1>3 DEF Sound
<1>5. ASSUME NEW v \in Wsi, conn[v] # "free", clients[i].wsi = v PROVE FALSE
  <2>1. v # None /\ conn[v] \in Phase(clients[i])
    BY <1>1, <1>5, ClientsAssumption DEF Sound
  <2> QED BY <1>4, <1>5, <2>1 DEF Phase
<1> QED BY <1>1, <1>2, <1>4, <1>5

\* The entry when its timer has fired owns the handle.
LEMMA FiredIs ==
    ASSUME clients \in Seq(client_connection_info), NEW i \in DOMAIN clients, NEW w \in Wsi,
           Allocated(i, w)
    PROVE  /\ Fired(i, w) \in Seq(client_connection_info) /\ Owner(Fired(i, w), w, i)
           /\ Fired(i, w)[i].index = clients[i].index /\ Fired(i, w)[i].addr = clients[i].addr
           /\ Fired(i, w)[i].state = clients[i].state /\ Fired(i, w)[i].armed = FALSE
           /\ \A e : [Fired(i, w) EXCEPT ![i] = e] = [clients EXCEPT ![i] = e]
<1> DEFINE d == [clients[i] EXCEPT !.armed = FALSE]
           e == [d EXCEPT !.wsi = w]
<1>1. clients[i] \in client_connection_info
  OBVIOUS
<1>2. Fired(i, w) = [clients EXCEPT ![i] = e]
  BY Zenon, <1>1 DEF Fired, client_connection_info
<1>3. /\ d \in client_connection_info
      /\ d.index = clients[i].index /\ d.addr = clients[i].addr /\ d.state = clients[i].state
      /\ d.armed = FALSE
  BY Zenon, <1>1 DEF client_connection_info
<1> HIDE DEF d
<1>4. /\ e \in client_connection_info
      /\ e.index = clients[i].index /\ e.addr = clients[i].addr /\ e.state = clients[i].state
      /\ e.armed = FALSE /\ e.wsi = w
  BY Zenon, <1>3 DEF client_connection_info
<1> HIDE DEF e
<1>5. Fired(i, w) \in Seq(client_connection_info) /\ DOMAIN Fired(i, w) = DOMAIN clients
      /\ Fired(i, w)[i] = e /\ \A j \in DOMAIN clients : j # i => Fired(i, w)[j] = clients[j]
  BY <1>2, <1>4
<1>6. Owner(Fired(i, w), w, i)
  BY <1>4, <1>5 DEF Owner, Allocated
<1>7. \A x : [Fired(i, w) EXCEPT ![i] = x] = [clients EXCEPT ![i] = x]
  BY Zenon, <1>2, Twice
<1> QED BY <1>4, <1>5, <1>6, <1>7

\* A timer fires.
LEMMA TimerStep ==
    ASSUME RInv, NEW i \in DOMAIN clients,
           \/ \E w \in Wsi : ConnectStarts(i, w) \/ ConnectFailsAtOnce(i, w)
           \/ ConnectNoMemory(i)
    PROVE  Step
<1>1. up = TRUE /\ UNCHANGED <<up, crashed>> /\ clients[i].armed /\ writable' = writable
      /\ writable' \subseteq Wsi
  BY DEF ConnectStarts, ConnectFailsAtOnce, ConnectNoMemory, Running, lwsVars, RInv
<1>2. /\ clients \in Seq(client_connection_info) /\ clients[i] \in client_connection_info
      /\ clients[i].state = "Disconnected"
      /\ \A v \in Wsi : conn[v] # "free" => clients[i].wsi # v
  BY <1>1, Waiting
<1>3. conn \in [Wsi -> Phases]
  BY DEF RInv
<1>4. ASSUME conn' = conn, NEW e \in client_connection_info, clients' = [clients EXCEPT ![i] = e],
             e.index = clients[i].index, e.addr = clients[i].addr, e.state = "Disconnected",
             e.wsi \in {clients[i].wsi, None}
      PROVE  Step
  <2>1. Follows(clients[i], e)
    BY <1>2, <1>4 DEF Follows
  <2>2. Sound(clients[i], conn) /\ Distinct(clients)
    BY DEF RInv, ListInv
  <2>3. Sound(e, conn')
    BY <1>2, <1>4, <2>2 DEF Sound, Phase
  <2>4. OnlyAt(clients, i, e)
    BY <1>4, <2>2 DEF OnlyAt, Distinct
  <2>5. SameBut(clients, i, conn, conn')
    BY <1>4 DEF SameBut
  <2> QED BY Zenon, <1>1, <1>2, <1>3, <1>4, <2>1, <2>3, <2>4, <2>5, UpdateStep
<1>5. CASE ConnectNoMemory(i)
  <2> DEFINE e == [clients[i] EXCEPT !.armed = FALSE]
  <2>1. /\ e \in client_connection_info /\ e.index = clients[i].index /\ e.addr = clients[i].addr
        /\ e.state = clients[i].state /\ e.wsi = clients[i].wsi
    BY Zenon, <1>2 DEF client_connection_info
  <2>2. clients' = [clients EXCEPT ![i] = e] /\ conn' = conn
    BY <1>5 DEF ConnectNoMemory, lwsVars
  <2> HIDE DEF e
  <2> QED BY Zenon, <1>2, <1>4, <2>1, <2>2
<1>6. ASSUME NEW w \in Wsi, ConnectFailsAtOnce(i, w) PROVE Step
  <2> DEFINE f == Fired(i, w)
             m == wsubus_client_set_state(f, w, "Disconnected")
  <2>1. /\ f \in Seq(client_connection_info) /\ Owner(f, w, i)
        /\ f[i].index = clients[i].index /\ f[i].addr = clients[i].addr
        /\ f[i].state = "Disconnected"
        /\ \A e : [f EXCEPT ![i] = e] = [clients EXCEPT ![i] = e]
    BY Zenon, <1>2, <1>6, FiredIs DEF ConnectFailsAtOnce
  <2>2. clients' = OnConnectionError(f, w) /\ conn' = conn
    BY <1>6 DEF ConnectFailsAtOnce, lwsVars
  <2> HIDE DEF f
  <2>3. ~wsubus_client_should_destroy(f, w)
    BY <2>1, OwnerFound DEF wsubus_client_should_destroy
  <2>4. clients' = wsubus_client_connect_retry(m, w)
    BY <2>2, <2>3 DEF OnConnectionError
  <2>5. PICK e \in client_connection_info :
              /\ wsubus_client_connect_retry(m, w) = [f EXCEPT ![i] = e]
              /\ e.index = f[i].index /\ e.addr = f[i].addr /\ e.wsi = None
              /\ e.state = "Disconnected"
    BY <2>1, Disconnects
  <2> HIDE DEF m
  <2>6. clients' = [clients EXCEPT ![i] = e]
    BY Zenon, <2>1, <2>4, <2>5
  <2> QED BY Zenon, <1>4, <2>1, <2>2, <2>5, <2>6
<1>7. ASSUME NEW w \in Wsi, ConnectStarts(i, w) PROVE Step
  <2> DEFINE f == Fired(i, w)
  <2>1. /\ f \in Seq(client_connection_info) /\ Owner(f, w, i)
        /\ f[i].index = clients[i].index /\ f[i].addr = clients[i].addr /\ f[i].armed = FALSE
        /\ \A e : [f EXCEPT ![i] = e] = [clients EXCEPT ![i] = e]
    BY Zenon, <1>2, <1>7, FiredIs DEF ConnectStarts
  <2>2. /\ clients' = wsubus_client_set_state(f, w, "Connecting") /\ Allocated(i, w)
        /\ conn' = [conn EXCEPT ![w] = "connecting"]
    BY <1>7 DEF ConnectStarts
  <2> HIDE DEF f
  <2>3. "Connecting" \in States
    BY DEF States
  <2>4. PICK e \in client_connection_info :
              /\ wsubus_client_set_state(f, w, "Connecting") = [f EXCEPT ![i] = e]
              /\ e.index = f[i].index /\ e.addr = f[i].addr /\ e.wsi = w
              /\ e.state = "Connecting" /\ e.armed = f[i].armed
    BY <2>1, <2>3, StateSet
  <2>5. clients' = [clients EXCEPT ![i] = e] /\ e.armed = FALSE
    BY Zenon, <2>1, <2>2, <2>4
  <2>6. Follows(clients[i], e)
    BY <1>2, <2>1, <2>4 DEF Follows
  <2>7. conn' \in [Wsi -> Phases] /\ conn'[w] = "connecting"
        /\ \A v \in Wsi : v # w => conn'[v] = conn[v]
    BY <1>3, <2>2 DEF Phases
  <2>8. Sound(e, conn')
    <3>1. w # None /\ "connecting" \in Phase(e)
      BY <2>4, ClientsAssumption DEF Phase
    <3> QED BY <2>4, <2>5, <2>7, <3>1 DEF Sound
  <2>9. OnlyAt(clients, i, e)
    BY <2>2, <2>4 DEF Allocated, OnlyAt
  <2>10. SameBut(clients, i, conn, conn')
    <3> SUFFICES ASSUME NEW j \in DOMAIN clients, j # i, clients[j].wsi # None
                 PROVE  conn'[clients[j].wsi] = conn[clients[j].wsi]
      BY DEF SameBut
    <3>1. clients[j].wsi \in Wsi /\ clients[j].wsi # w
      BY <1>2, <2>2, EntryType DEF Allocated
    <3> QED BY <2>7, <3>1
  <2>11. \A v \in Wsi : conn'[v] # "free" => v = e.wsi \/ (conn[v] # "free" /\ clients[i].wsi # v)
    BY <1>2, <2>4, <2>7
  <2> QED BY Zenon, <1>1, <2>5, <2>6, <2>7, <2>8, <2>9, <2>10, <2>11, UpdateStep
<1> QED BY <1>5, <1>6, <1>7

\* A new entry.
Fresh(a, n) == [NewClient(a, TRUE) EXCEPT !.index = n]

\* It is disconnected.
LEMMA FreshIs ==
    ASSUME NEW a \in Addr, NEW n \in 0..MaxClients - 1
    PROVE  /\ Fresh(a, n) \in client_connection_info /\ Fresh(a, n).index = n
           /\ Fresh(a, n).addr = a /\ Fresh(a, n).wsi = None
           /\ Fresh(a, n).state = "Disconnected"
<1>1. 0 \in 0..MaxCount
  BY ClientsAssumption
<1> QED BY Zenon, <1>1 DEF Fresh, NewClient, client_connection_info, States

\* add_client.
LEMMA AddStep ==
    ASSUME RInv, NEW a \in Addr, Add(a)
    PROVE  Step
<1>1. /\ up = TRUE /\ UNCHANGED <<up, crashed>> /\ Len(clients) < MaxClients /\ unique_ip(a)
      /\ insert_at_lowest_free_index(NewClient(a, TRUE)) /\ conn' = conn /\ writable' = writable
  BY Zenon DEF Add, Running, lwsVars, RInv
<1>2. PICK p \in 1..Len(clients) + 1 :
          FreePlace(p) /\ clients' = InsertAt(clients, p, Fresh(a, p - 1))
  BY Zenon, <1>1 DEF insert_at_lowest_free_index, Fresh, InsertAt
<1> DEFINE e == Fresh(a, p - 1)
<1>3. ListInv(clients, conn) /\ Len(clients) \in Nat /\ MaxClients \in Nat /\ MaxCount \in Nat
  BY ClientsAssumption DEF RInv, ListInv
<1>4. p - 1 \in 0..MaxClients - 1
  BY <1>1, <1>2, <1>3
<1>5. /\ e \in client_connection_info /\ e.index = p - 1 /\ e.addr = a /\ e.wsi = None
      /\ e.state = "Disconnected"
  BY <1>4, FreshIs
<1> HIDE DEF e
<1>6. clients' = InsertAt(clients, p, e)
  BY Zenon, <1>2 DEF e
<1>7. /\ ListInv(clients', conn) /\ Final(clients, clients')
      /\ \A w \in Wsi : (\E i \in DOMAIN clients : clients[i].wsi = w)
            => \E n \in DOMAIN clients' : clients'[n].wsi = w
  BY <1>1, <1>2, <1>3, <1>5, <1>6, InsertKeeps
<1>8. Owned(clients', conn')
  BY Zenon, <1>1, <1>7 DEF RInv, Owned
<1> QED BY <1>1, <1>7, <1>8 DEF Step, RInv

\* remove_client, with an address or an index.
LEMMA RemoveStep ==
    ASSUME RInv, \/ \E a \in Addr : RemoveIp(a)
                 \/ \E k \in 0..MaxClients : RemoveIndex(k)
    PROVE  Step
<1>1. ASSUME NEW a \in Addr, RemoveIp(a) PROVE Step
  <2>1. /\ up = TRUE /\ UNCHANGED <<conn, up, crashed>>
        /\ manage_remove_client({i \in DOMAIN clients : clients[i].addr = a})
    BY <1>1 DEF RemoveIp, Running, RInv
  <2>2. {i \in DOMAIN clients : clients[i].addr = a} \subseteq DOMAIN clients
    OBVIOUS
  <2> QED BY <2>1, <2>2, RemoveKeeps
<1>2. ASSUME NEW k \in 0..MaxClients, RemoveIndex(k) PROVE Step
  <2>1. /\ up = TRUE /\ UNCHANGED <<conn, up, crashed>> /\ get_client_by_index(k) # 0
        /\ manage_remove_client({get_client_by_index(k)})
    BY <1>2 DEF RemoveIndex, Running, RInv
  <2>2. clients \in Seq(client_connection_info) /\ Pairs(clients)
    BY DEF RInv, ListInv
  <2> DEFINE I == {i \in DOMAIN clients : clients[i].index = k}
  <2>3. get_client_by_index(k) = IF I = {} THEN 0 ELSE Min(I)
    BY DEF get_client_by_index, First
  <2>4. PICK i : i \in I
    BY <2>1, <2>3
  <2>5. I = {i} /\ i \in DOMAIN clients /\ i \in Int
    BY <2>2, <2>4, IndexNames
  <2>6. Min({i}) = i
    BY <2>5 DEF Min
  <2> HIDE DEF I
  <2>7. {get_client_by_index(k)} \subseteq DOMAIN clients
    BY Zenon, <2>3, <2>4, <2>5, <2>6
  <2> QED BY <2>1, <2>7, RemoveKeeps
<1> QED BY <1>1, <1>2

\* The list stays, or goes with the program.
LEMMA RestStep ==
    ASSUME RInv, \/ Clean
                 \/ \E w \in Wsi : Send(w)
                 \/ \E k \in 0..MaxClients : RemoveIndexUnknown(k)
    PROVE  Step
<1>1. CASE Clean
  <2>1. clients' = <<>> /\ up' = FALSE /\ conn' = conn /\ writable' = writable /\ crashed' = crashed
    BY <1>1 DEF Clean, lwsVars
  <2>2. ListInv(clients', conn') /\ Final(clients, clients')
    BY <2>1, ClientsAssumption DEF ListInv, Pairs, Distinct, Final
  <2> QED BY Zenon, <2>1, <2>2 DEF Step, RInv
<1>2. CASE \/ \E w \in Wsi : Send(w)
           \/ \E k \in 0..MaxClients : RemoveIndexUnknown(k)
  <2>1. /\ clients' = clients /\ conn' = conn /\ up' = up /\ writable' \subseteq Wsi
        /\ crashed' \in {crashed, TRUE}
    BY Zenon, <1>2 DEF Send, Running, RemoveIndexUnknown, lwsVars, RInv
  <2>2. Final(clients, clients')
    BY <2>1, SameFinal DEF RInv
  <2> QED BY Zenon, <2>1, <2>2 DEF Step, RInv
<1> QED BY <1>1, <1>2

\* The configured clients have different addresses, and no connection.
LEMMA InitStep == Init => RInv
<1> SUFFICES ASSUME Init PROVE RInv
  OBVIOUS
<1>1. /\ Configured \in Seq(Addr) /\ IsInjective(Configured) /\ Len(Configured) <= MaxClients
      /\ MaxClients \in Nat /\ MaxCount \in Nat
  BY ClientsAssumption
<1> DEFINE New(i) == Fresh(Configured[i], i - 1)
<1>2. clients = [i \in DOMAIN Configured |-> New(i)]
  BY DEF Init, Fresh
<1>3. \A i \in DOMAIN Configured :
         /\ New(i) \in client_connection_info /\ New(i).index = i - 1
         /\ New(i).addr = Configured[i] /\ New(i).wsi = None /\ New(i).state = "Disconnected"
  <2> SUFFICES ASSUME NEW i \in DOMAIN Configured
               PROVE  /\ New(i) \in client_connection_info /\ New(i).index = i - 1
                      /\ New(i).addr = Configured[i] /\ New(i).wsi = None
                      /\ New(i).state = "Disconnected"
    OBVIOUS
  <2>1. i - 1 \in 0..MaxClients - 1 /\ Configured[i] \in Addr
    BY <1>1
  <2> QED BY <2>1, FreshIs
<1> HIDE DEF New
<1>4. /\ clients \in Seq(client_connection_info) /\ Len(clients) = Len(Configured)
      /\ DOMAIN clients = DOMAIN Configured /\ DOMAIN Configured \subseteq Int
  BY <1>1, <1>2, <1>3
<1>5. \A i \in DOMAIN clients :
         /\ clients[i].index = i - 1 /\ clients[i].addr = Configured[i] /\ clients[i].wsi = None
         /\ clients[i].state = "Disconnected"
  BY <1>2, <1>3, <1>4
<1>6. Pairs(clients)
  <2> SUFFICES ASSUME NEW i \in DOMAIN clients, NEW j \in DOMAIN clients, i < j
               PROVE  clients[i].index < clients[j].index /\ clients[i].addr # clients[j].addr
    BY DEF Pairs
  <2>1. i \in Int /\ j \in Int /\ i # j
    BY <1>4
  <2>2. Configured[i] # Configured[j]
    BY <1>1, <1>4, <2>1 DEF IsInjective
  <2> QED BY <1>5, <2>1, <2>2
<1>7. Distinct(clients) /\ \A i \in DOMAIN clients : Sound(clients[i], conn)
  BY <1>5 DEF Distinct, Sound
<1>8. conn \in [Wsi -> Phases] /\ writable \subseteq Wsi /\ up = TRUE /\ crashed = FALSE
      /\ \A w \in Wsi : conn[w] = "free"
  BY DEF Init, Phases
<1> QED BY Zenon, <1>1, <1>4, <1>6, <1>7, <1>8 DEF RInv, ListInv, Owned

\* Every step keeps the invariant, and what is on its way out stays so.
LEMMA NextStep == RInv /\ [Next]_vars => Step
<1> SUFFICES ASSUME RInv, [Next]_vars PROVE Step
  OBVIOUS
<1>1. CASE LwsStep
  BY <1>1, TimerStep, ClosedStep, OpenStep, RestStep DEF LwsStep
<1>2. CASE MethodStep
  BY <1>2, AddStep, RemoveStep, RestStep DEF MethodStep
<1>3. CASE UNCHANGED vars
  <2>1. UNCHANGED <<clients, conn, writable, up, crashed>>
    BY <1>3 DEF vars, lwsVars
  <2>2. Final(clients, clients')
    BY <2>1, SameFinal DEF RInv
  <2> QED BY <2>1, <2>2 DEF Step, RInv
<1> QED BY <1>1, <1>2, <1>3 DEF Next

-----------------------------------------------------------------------------
(* Theorems *)

\* The invariant holds.
LEMMA SpecInv == Spec => []RInv
<1>1. RInv /\ [Next]_vars => RInv'
  BY NextStep DEF Step
<1> QED BY <1>1, InitStep, PTL DEF Spec

\* The list is sorted by index, whatever the methods, timers and callbacks do to it
\* (insert_at_lowest_free_index, client_free).
THEOREM OrderCorrect == Spec => []IndexOrder
<1>1. RInv => IndexOrder
  BY DEF RInv, ListInv, Pairs, IndexOrder
<1> QED BY <1>1, SpecInv, PTL

\* No address has two entries in use (unique_ip).
THEOREM AddressesCorrect == Spec => []OneClientPerAddress
<1>1. RInv => OneClientPerAddress
  <2> SUFFICES ASSUME RInv, NEW i \in DOMAIN clients, NEW j \in DOMAIN clients,
                      clients[i].addr = clients[j].addr,
                      "Teardown" \notin {clients[i].state, clients[j].state}
               PROVE  i = j
    BY DEF OneClientPerAddress
  <2>1. clients \in Seq(client_connection_info) /\ Pairs(clients)
    BY DEF RInv, ListInv
  <2>2. i \in Int /\ j \in Int
    BY <2>1
  <2>3. ~(i < j) /\ ~(j < i)
    BY <2>1 DEF Pairs
  <2> QED BY <2>2, <2>3
<1> QED BY <1>1, SpecInv, PTL

\* The search by handle finds the entry of the connection, and only that
\* (get_client_by_wsi, ws_ubusproxy_cb).
THEOREM OwnersCorrect == Spec => []ConnectionsOwned
<1>1. RInv => ConnectionsOwned
  <2> SUFFICES ASSUME RInv, up
               PROVE  /\ \A i \in DOMAIN clients :
                            clients[i].wsi # None => conn[clients[i].wsi] \in Phase(clients[i])
                      /\ \A w \in Wsi : conn[w] # "free" =>
                            Cardinality({i \in DOMAIN clients : clients[i].wsi = w}) = 1
    BY DEF ConnectionsOwned
  <2>1. \A i \in DOMAIN clients :
           clients[i].wsi # None => conn[clients[i].wsi] \in Phase(clients[i])
    BY DEF RInv, ListInv, Sound
  <2>2. up = TRUE
    BY DEF RInv
  <2>3. ASSUME NEW w \in Wsi, conn[w] # "free"
        PROVE  Cardinality({i \in DOMAIN clients : clients[i].wsi = w}) = 1
    <3>1. PICK i \in DOMAIN clients : Owner(clients, w, i)
      BY <2>2, <2>3, HasOwner
    <3>2. {j \in DOMAIN clients : clients[j].wsi = w} = {i}
      BY <3>1 DEF Owner
    <3> QED BY <3>2, FS_Singleton
  <2> QED BY <2>1, <2>3
<1> QED BY <1>1, SpecInv, PTL

\* A timer is set only for a disconnected client (wsubus_client_connect_retry,
\* wsubus_client_reconnect, utimer_reconnect_cb).
THEOREM AttemptsCorrect == Spec => []OneAttemptAtATime
<1>1. RInv => OneAttemptAtATime
  BY Waiting DEF OneAttemptAtATime
<1> QED BY <1>1, SpecInv, PTL

\* A removed client is not brought back by a callback that is under way
\* (wsubus_client_set_state, wsubus_client_should_destroy).
THEOREM TeardownCorrect == Spec => TeardownFinal
<1>1. RInv /\ [Next]_vars => Final(clients, clients')
  BY NextStep DEF Step
<1>2. Final(clients, clients') =>
        [\A i \in DOMAIN clients : clients[i].state = "Teardown" =>
          \A j \in DOMAIN clients' : clients'[j].index = clients[i].index =>
              clients'[j] = clients[i]]_vars
  BY DEF Final
<1> QED BY <1>1, <1>2, SpecInv, PTL DEF Spec, TeardownFinal

-----------------------------------------------------------------------------
(* The registry with uproxyd *)

\* A set of numbers has a least one.
LEMMA LeastNumber ==
    ASSUME NEW T, T \subseteq Nat, T # {}
    PROVE  \E n \in T : \A m \in T : n <= m
<1> DEFINE R == OpToRel(<, Nat)
<1>1. IsWellFoundedOn(R, Nat)
  BY Zenon, NatLessThanWellFounded
<1>2. \A x, y \in Nat : y < x => <<y, x>> \in R
  BY DEF OpToRel
<1> HIDE DEF R
<1>3. PICK x \in T : \A y \in T : <<y, x>> \notin R
  BY Zenon, <1>1, WFMin
<1>4. \A y \in T : x \in Nat /\ y \in Nat /\ ~(y < x)
  BY Zenon, <1>2, <1>3
<1>5. \A y \in T : x <= y
  BY <1>4
<1> QED BY Zenon, <1>3, <1>5

Dump == [index : 0..MaxClients-1, addr : Addr, count : 0..MaxCount]

\* The reply that uproxyd goes through is sorted by index, as the registry was when it
\* answered, and the loop is behind every entry whose removal was asked for.
LoopInv ==
    /\ listed \in Seq(Dump)
    /\ \A i, j \in DOMAIN listed : i < j => listed[i].index < listed[j].index
    /\ index \in Nat
    /\ asked \subseteq Dump /\ \A e \in asked : e.index < index

\* In a sorted reply no entry has an index below its place.
LEMMA IndexAbovePlace ==
    ASSUME LoopInv, NEW i \in DOMAIN listed
    PROVE  listed[i].index \in Nat /\ listed[i].index >= i - 1
<1>1. MaxClients \in Nat /\ listed \in Seq(Dump) /\ Len(listed) \in Nat /\ DOMAIN listed = 1..Len(listed)
  BY ClientsAssumption DEF LoopInv
<1>2. \A j \in DOMAIN listed : listed[j] \in Dump
  BY <1>1
<1>3. \A j \in DOMAIN listed : listed[j].index \in Nat
  BY <1>1, <1>2 DEF Dump
<1> DEFINE Bad == {j \in DOMAIN listed : listed[j].index < j - 1}
<1>4. Bad = {}
  <2> SUFFICES ASSUME Bad # {} PROVE FALSE
    OBVIOUS
  <2>1. Bad \subseteq Nat
    BY <1>1
  <2>2. PICK n \in Bad : \A m \in Bad : n <= m
    <3> HIDE DEF Bad
    <3> QED BY Zenon, <2>1, LeastNumber
  <2>3. n \in DOMAIN listed /\ listed[n].index < n - 1 /\ n # 1
    BY <1>1, <1>3, <2>2
  <2>4. n - 1 \in DOMAIN listed /\ n - 1 < n /\ ~(n - 1 >= n)
    BY <1>1, <2>3
  <2>5. listed[n - 1].index < listed[n].index
    BY <2>3, <2>4 DEF LoopInv
  <2>6. listed[n - 1].index < n - 2
    BY <1>1, <1>3, <2>3, <2>4, <2>5
  <2>7. n - 1 \in Bad
    BY <1>1, <2>3, <2>4, <2>6
  <2> QED BY <1>1, <2>2, <2>3, <2>4, <2>7
<1> QED BY <1>1, <1>3, <1>4

\* The entry that the loop is at, if it is at one.
LEMMA LoopAt ==
    ASSUME LoopInv, InLoop
    PROVE  /\ NextStale \in Nat /\ NextStale >= index /\ NextStale + 1 \in DOMAIN listed
           /\ Current \in Dump /\ Current.index \in 0..MaxClients-1 /\ Current.index >= NextStale
<1> DEFINE rest == {i \in index..Len(listed)-1 : Stale(listed[i + 1])}
<1>1. index \in Nat /\ Len(listed) \in Nat /\ DOMAIN listed = 1..Len(listed) /\ listed \in Seq(Dump)
  BY DEF LoopInv
<1>2. rest \subseteq index..Len(listed)-1 /\ rest \subseteq Nat
  BY <1>1
<1>3. NextStale = IF rest = {} THEN Len(listed) ELSE Min(rest)
  BY Zenon DEF NextStale
<1>4. rest # {}
  BY <1>1, <1>3 DEF InLoop
<1> HIDE DEF rest
<1>5. NextStale \in rest
  <2>1. \E n \in rest : \A m \in rest : n <= m
    BY Zenon, <1>2, <1>4, LeastNumber
  <2>2. Min(rest) \in rest
    BY Zenon, <2>1 DEF Min
  <2> QED BY <1>3, <1>4, <2>2
<1>6. NextStale \in Nat /\ NextStale >= index /\ NextStale + 1 \in DOMAIN listed
  BY <1>1, <1>2, <1>5
<1>7. Current \in Dump /\ Current.index >= NextStale
  <2>1. Current = listed[NextStale + 1]
    BY DEF Current
  <2> DEFINE k == NextStale + 1
  <2>2. k \in DOMAIN listed /\ k - 1 = NextStale
    BY <1>6
  <2> HIDE DEF k
  <2>3. listed[k].index \in Nat /\ listed[k].index >= k - 1
    BY <2>2, IndexAbovePlace
  <2>4. listed[k] \in Dump
    BY <1>1, <2>2
  <2>5. Current = listed[k]
    BY Zenon, <2>1 DEF k
  <2> QED BY Zenon, <2>2, <2>3, <2>4, <2>5
<1> QED BY <1>6, <1>7 DEF Dump

\* The reply to the list call.
LEMMA PollKeeps ==
    ASSUME RInv, Poll
    PROVE  LoopInv'
<1>1. clients \in Seq(client_connection_info) /\ Pairs(clients) /\ DOMAIN clients = 1..Len(clients)
      /\ Len(clients) \in Nat
  BY DEF RInv, ListInv
<1>2. /\ listed' = [i \in DOMAIN clients |-> dump_client(clients[i])]
      /\ index' = 0 /\ asked' = {}
  BY DEF Poll
<1>3. \A i \in DOMAIN clients : dump_client(clients[i]) \in Dump
  <2> TAKE i \in DOMAIN clients
  <2>1. clients[i] \in client_connection_info
    BY <1>1
  <2> QED BY <2>1 DEF client_connection_info, dump_client, Dump
<1>4. listed' \in Seq(Dump) /\ DOMAIN listed' = DOMAIN clients
  BY <1>1, <1>2, <1>3
<1>5. \A i \in DOMAIN clients : listed'[i].index = clients[i].index
  BY <1>2 DEF dump_client
<1>6. \A i, j \in DOMAIN listed' : i < j => listed'[i].index < listed'[j].index
  BY <1>1, <1>4, <1>5 DEF Pairs
<1> QED BY <1>2, <1>4, <1>6 DEF LoopInv

\* What a round of the loop is to do: it goes forward, behind the entry it asks owsd to
\* remove, and never asks for one twice.
Forward == RemoveStale => index' > NextStale /\ NextStale >= index /\ Current \notin asked

\* A round of the loop.
LEMMA RoundKeeps ==
    ASSUME LoopInv, RemoveStale
    PROVE  LoopInv' /\ Forward /\ [Next]_vars
<1>1. /\ InLoop /\ index' = Current.index + 1 /\ asked' = asked \cup {Current} /\ listed' = listed
      /\ RemoveIndex(Current.index) \/ RemoveIndexUnknown(Current.index) \/ UNCHANGED vars
  BY Zenon DEF RemoveStale
<1>2. /\ NextStale \in Nat /\ NextStale >= index
      /\ Current \in Dump /\ Current.index \in 0..MaxClients-1 /\ Current.index >= NextStale
  BY Zenon, <1>1, LoopAt
<1>3. MaxClients \in Nat /\ index \in Nat /\ asked \subseteq Dump /\ \A e \in asked : e.index < index
  BY ClientsAssumption DEF LoopInv
<1>4. \A e \in Dump : e.index \in Nat
  BY <1>3 DEF Dump
<1>5. index' \in Nat /\ index' > NextStale /\ Current.index < index' /\ index' > index
      /\ Current.index >= index /\ Current.index \in 0..MaxClients
  BY <1>1, <1>2, <1>3
<1>6. \A e \in asked : e.index < index' /\ e.index < Current.index
  BY <1>2, <1>3, <1>4, <1>5
<1>7. Current \notin asked
  <2> SUFFICES ASSUME Current \in asked PROVE FALSE
    OBVIOUS
  <2>1. Current.index < Current.index
    BY <1>6
  <2> QED BY <1>5, <2>1
<1>8. asked' \subseteq Dump /\ \A e \in asked' : e.index < index'
  BY <1>1, <1>2, <1>3, <1>5, <1>6
<1>9. LoopInv'
  BY <1>1, <1>5, <1>8 DEF LoopInv
<1>10. [Next]_vars
  BY Zenon, <1>1, <1>5 DEF Next, MethodStep
<1> QED BY Zenon, <1>2, <1>5, <1>7, <1>9, <1>10 DEF Forward

\* Every step of the two processes keeps both invariants, and is a step of the registry or
\* leaves it alone.
LEMMA UNextStep ==
    ASSUME RInv, LoopInv, [UNext]_allVars
    PROVE  RInv' /\ LoopInv' /\ Forward /\ [Next]_vars
<1>1. LoopInv' /\ Forward /\ [Next]_vars
  <2>1. CASE RemoveStale
    BY Zenon, <2>1, RoundKeeps
  <2>2. CASE ~RemoveStale
    <3>1. Forward
      BY Zenon, <2>2 DEF Forward
    <3>2. CASE UNCHANGED loopVars /\ [Next]_vars
      <4>1. UNCHANGED <<listed, index, asked>>
        BY Zenon, <3>2 DEF loopVars
      <4>2. LoopInv'
        BY <4>1 DEF LoopInv
      <4> QED BY Zenon, <3>1, <3>2, <4>2
    <3>3. CASE Poll
      <4>1. UNCHANGED vars
        BY <3>3 DEF Poll, Running, vars, lwsVars
      <4> QED BY Zenon, <3>1, <3>3, <4>1, PollKeeps
    <3>4. CASE PollDone
      <4>1. UNCHANGED vars /\ listed' = <<>> /\ index' = 0 /\ asked' = {}
        BY Zenon, <3>4 DEF PollDone
      <4>2. LoopInv'
        BY <4>1 DEF LoopInv
      <4> QED BY Zenon, <3>1, <4>1, <4>2
    <3>5. CASE UNCHANGED allVars
      <4>1. UNCHANGED vars /\ UNCHANGED loopVars
        BY Zenon, <3>5 DEF allVars
      <4> QED BY Zenon, <3>2, <4>1
    <3>6. CASE LwsStep /\ UNCHANGED <<adds, loopVars>>
      <4>1. UNCHANGED loopVars
        BY Zenon, <3>6
      <4> QED BY Zenon, <3>2, <3>6, <4>1 DEF Next
    <3>7. ASSUME NEW a \in Addr, owsd_add_client(a) \/ owsd_remove_ip(a)
          PROVE  LoopInv' /\ Forward /\ [Next]_vars
      <4>1. UNCHANGED loopVars /\ (Add(a) \/ RemoveIp(a))
        BY Zenon, <3>7 DEF owsd_add_client, owsd_remove_ip
      <4> QED BY Zenon, <3>2, <4>1 DEF Next, MethodStep
    <3> QED BY Zenon, <2>2, <3>3, <3>4, <3>5, <3>6, <3>7
           DEF UNext, add_all_clients, receive_event_cb
  <2> QED BY Zenon, <2>1, <2>2
<1>2. RInv'
  BY Zenon, <1>1, NextStep DEF Step
<1> QED BY Zenon, <1>1, <1>2

\* Both invariants hold.
LEMMA USpecInv == USpec => [](RInv /\ LoopInv)
<1>1. UInit => RInv /\ LoopInv
  <2> SUFFICES ASSUME UInit PROVE RInv /\ LoopInv
    OBVIOUS
  <2>1. RInv
    BY Zenon, InitStep DEF UInit
  <2>2. listed = <<>> /\ index = 0 /\ asked = {}
    BY Zenon DEF UInit, Idle
  <2> QED BY <2>1, <2>2 DEF LoopInv
<1>2. RInv /\ LoopInv /\ [UNext]_allVars => RInv' /\ LoopInv'
  BY Zenon, UNextStep
<1> QED BY <1>1, <1>2, PTL DEF USpec

\* Whatever uproxyd and the devices do, owsd sees calls of its methods that are steps of the
\* registry: what is proved of the registry holds of the two processes together.
THEOREM Composition == USpec => Spec
<1>1. RInv /\ LoopInv /\ [UNext]_allVars => [Next]_vars
  BY Zenon, UNextStep
<1>2. UInit => Init
  BY Zenon DEF UInit
<1> QED BY <1>1, <1>2, USpecInv, PTL DEF USpec, Spec

\* The loop of a poll goes forward with every removal, although its variable is overwritten
\* with the index of a client, and asks for no removal twice; so it ends after at most as
\* many removals as the reply has entries (clean_stale_clients_cb).
THEOREM PollForward == USpec => [][Forward]_allVars
<1>1. RInv /\ LoopInv /\ [UNext]_allVars => [Forward]_allVars
  BY Zenon, UNextStep
<1> QED BY <1>1, USpecInv, PTL DEF USpec
=============================================================================

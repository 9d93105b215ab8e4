----------------------------- MODULE RpcService -----------------------------
(***************************************************************************)
(* What the server side of owsd promises a JSON-RPC client, without queues,*)
(* access checks or the bus: a request is taken by an open connection, is  *)
(* then either answered, exactly once and while its connection is open, or *)
(* given up.  Nothing happens to a request after that.                     *)
(***************************************************************************)
EXTENDS Naturals

CONSTANTS Wsi, Req, None

VARIABLES
    open,     \* open connections
    wsi,      \* per request: the connection that took it
    pending,  \* requests taken and not yet finished
    replies   \* per request: answers given

vars == <<open, wsi, pending, replies>>

\* No request has come in yet, on whichever connections are open.
Init ==
    /\ open \in SUBSET Wsi
    /\ wsi = [r \in Req |-> None]
    /\ pending = {}
    /\ replies = [r \in Req |-> 0]

Connect(w) ==
    /\ w \notin open
    /\ open' = open \cup {w}
    /\ UNCHANGED <<wsi, pending, replies>>

\* The requests that are pending on a closing connection are given up.
Disconnect(w) ==
    /\ w \in open
    /\ open' = open \ {w}
    /\ pending' = {r \in pending : wsi[r] # w}
    /\ UNCHANGED <<wsi, replies>>

\* The request is taken, and left pending, answered, or dropped.
Take(w, r) ==
    /\ w \in open
    /\ wsi[r] = None
    /\ wsi' = [wsi EXCEPT ![r] = w]
    /\ \/ pending' = pending \cup {r} /\ UNCHANGED replies
       \/ replies' = [replies EXCEPT ![r] = 1] /\ UNCHANGED pending
       \/ UNCHANGED <<pending, replies>>
    /\ UNCHANGED open

Answer(r) ==
    /\ r \in pending
    /\ wsi[r] \in open
    /\ replies[r] = 0
    /\ pending' = pending \ {r}
    /\ replies' = [replies EXCEPT ![r] = 1]
    /\ UNCHANGED <<open, wsi>>

\* Requests of one connection are given up without an answer.
GiveUp(w) ==
    /\ \E S \in SUBSET pending :
          /\ \A r \in S : wsi[r] = w
          /\ pending' = pending \ S
    /\ UNCHANGED <<open, wsi, replies>>

Next ==
    \/ \E w \in Wsi : Connect(w) \/ Disconnect(w) \/ GiveUp(w)
    \/ \E w \in Wsi, r \in Req : Take(w, r)
    \/ \E r \in Req : Answer(r)

Spec == Init /\ [][Next]_vars
=============================================================================

----------------------------- MODULE Transport ------------------------------
(***************************************************************************)
(* One WebSocket connection of a client, below the requests: the check of  *)
(* its origin, the pieces of text messages that lws delivers and the JSON  *)
(* parser they are fed to, and the queue of outgoing messages that is      *)
(* drained when lws says that the socket is writable.                      *)
(***************************************************************************)
EXTENDS Integers, Sequences, SequencesExt, FiniteSets

CONSTANTS
    MaxLen,    \* WSUBUS_MAX_MESSAGE_LEN
    MaxPiece,  \* bytes lws delivers at a time
    MaxMsg,    \* bound: bytes of an incoming message
    OutLen,    \* lengths of outgoing messages
    MaxOut     \* bound: outgoing messages

ASSUME TransportAssumption ==
    /\ MaxLen \in Nat /\ MaxPiece \in Nat /\ MaxMsg \in Nat /\ MaxOut \in Nat
    /\ OutLen \subseteq Nat \ {0}

VARIABLES
    phase,     \* new, upgraded, open, failed (a callback returned -1), closed
    shut,      \* shutdown() of the socket: no, RD, RDWR
    frame,     \* the frame being received: bytes to come, FIN, binary
    msg,       \* bytes received of the current text message, 0 between messages
    curr_len,  \* curr_msg.len
    fed,       \* bytes of the value the tokener is in the middle of
    bad,       \* the tokener has met an error and was not reset
    handled,   \* the last message that reached wsu_on_msg_from_client
    write_q,   \* the wsu_writereq
    buffered,  \* lws_partial_buffered
    writable,  \* lws_callback_on_writable was called
    queued,    \* lengths of all messages given to wsu_queue_write_str
    sent       \* bytes taken by lws: <<message, offset>>

rxVars == <<frame, msg, curr_len, fed, bad, handled>>
txVars == <<write_q, buffered, writable, queued, sent>>
vars == <<phase, shut, rxVars, txVars>>

NoMessage == [whole |-> TRUE, len |-> 0, dropped |-> FALSE]
NoFrame == [left |-> 0, fin |-> TRUE, bin |-> FALSE]

Init ==
    /\ phase = "new" /\ shut = "no"
    /\ frame = NoFrame /\ msg = 0 /\ curr_len = 0 /\ fed = 0 /\ bad = FALSE /\ handled = NoMessage
    /\ write_q = <<>> /\ buffered = FALSE /\ writable = FALSE /\ queued = <<>> /\ sent = <<>>

-----------------------------------------------------------------------------
(* Opening *)

\* The result of wsubus_filter for an Origin header: none, one that cannot be copied, one
\* that matches the list of the vhost, another one.
wsubus_filter(origin, restrict_origins) ==
    CASE origin = "none" -> 0
      [] origin = "uncopied" -> -3
      [] restrict_origins /\ origin # "listed" -> -5
      [] OTHER -> 0

Filter(origin, restrict_origins) ==
    /\ phase = "new"
    /\ phase' = IF wsubus_filter(origin, restrict_origins) = 0 THEN "upgraded" ELSE "closed"
    /\ UNCHANGED <<shut, rxVars, txVars>>

\* wsu_peer_init: the tokener and an empty queue.
Established ==
    /\ phase = "upgraded"
    /\ phase' = "open"
    /\ UNCHANGED <<shut, rxVars, txVars>>

-----------------------------------------------------------------------------
(* Writing *)

\* write_q and what belongs to it after a message of length n was queued.
wsu_queue_write_str(n) ==
    /\ Len(queued) < MaxOut
    /\ queued' = Append(queued, n)
    /\ write_q' = Append(write_q, [id |-> Len(queued) + 1, len |-> n, written |-> 0])
    /\ writable' = TRUE
    /\ UNCHANGED <<buffered, sent>>

\* A reply or an event that becomes ready in another callback.
Queue(n) ==
    /\ phase = "open"
    /\ wsu_queue_write_str(n)
    /\ UNCHANGED <<phase, shut, rxVars>>

Bytes(w, upto) == [i \in 1..upto - w.written |-> <<w.id, w.written + i>>]

\* The loop up to an entry: the ones before it are written and removed.
Before(j) == FlattenSeq([i \in 1..j - 1 |-> Bytes(write_q[i], write_q[i].len)])

\* lws takes everything.
TxAll ==
    /\ sent' = sent \o Before(Len(write_q) + 1)
    /\ write_q' = <<>>
    /\ buffered' = FALSE /\ writable' = FALSE
    /\ UNCHANGED <<phase, shut>>

\* Mutants: an entry begins again after a part of it was buffered; the callback is not
\* asked for again.
PartialRestarts(j, n) ==
    /\ n \in write_q[j].written + 1..write_q[j].len
    /\ sent' = sent \o Before(j) \o Bytes(write_q[j], n)
    /\ write_q' = IF n = write_q[j].len THEN SubSeq(write_q, j + 1, Len(write_q))
                  ELSE SubSeq(write_q, j, Len(write_q))
    /\ buffered' = TRUE /\ writable' = TRUE
    /\ UNCHANGED <<phase, shut>>
PartialNotAsked(j, n) ==
    /\ n \in write_q[j].written + 1..write_q[j].len
    /\ sent' = sent \o Before(j) \o Bytes(write_q[j], n)
    /\ write_q' = IF n = write_q[j].len THEN SubSeq(write_q, j + 1, Len(write_q))
                  ELSE <<[write_q[j] EXCEPT !.written = n]>> \o SubSeq(write_q, j + 1, Len(write_q))
    /\ buffered' = TRUE /\ writable' = FALSE
    /\ UNCHANGED <<phase, shut>>

\* In entry j, after byte n, lws has buffered a part; the callback is asked for again.
TxPartial(j, n) ==
    /\ n \in write_q[j].written + 1..write_q[j].len
    /\ sent' = sent \o Before(j) \o Bytes(write_q[j], n)
    /\ write_q' = IF n = write_q[j].len THEN SubSeq(write_q, j + 1, Len(write_q))
                  ELSE <<[write_q[j] EXCEPT !.written = n]>> \o SubSeq(write_q, j + 1, Len(write_q))
    /\ buffered' = TRUE /\ writable' = TRUE
    /\ UNCHANGED <<phase, shut>>

\* lws_write fails in entry j, after byte n.
TxError(j, n) ==
    /\ n \in write_q[j].written..write_q[j].len - 1
    /\ sent' = sent \o Before(j) \o Bytes(write_q[j], n)
    /\ write_q' = <<[write_q[j] EXCEPT !.written = n]>> \o SubSeq(write_q, j + 1, Len(write_q))
    /\ buffered' = FALSE /\ writable' = FALSE
    /\ phase' = "failed" /\ shut' = "RDWR"

\* Mutant: nothing is written as long as a part has been buffered before.
TxUnlessBuffered ==
    /\ phase = "open"
    /\ writable /\ ~buffered
    /\ \/ (shut # "RDWR" \/ write_q = <<>>) /\ TxAll
       \/ \E j \in DOMAIN write_q : \E n \in 0..write_q[j].len :
            \/ shut # "RDWR" /\ TxPartial(j, n)
            \/ TxError(j, n)
    /\ UNCHANGED <<rxVars, queued>>

\* lws calls back when what it had buffered is gone and the socket is writable.
wsubus_tx_text ==
    /\ phase = "open"
    /\ writable
    /\ \/ (shut # "RDWR" \/ write_q = <<>>) /\ TxAll
       \/ \E j \in DOMAIN write_q : \E n \in 0..write_q[j].len :
            \/ shut # "RDWR" /\ TxPartial(j, n)
            \/ TxError(j, n)
    /\ UNCHANGED <<rxVars, queued>>

-----------------------------------------------------------------------------
(* Reading *)

\* What the parser makes of a piece: it wants more; an object that ends with the piece, or
\* before its end; another value; an error.
Verdict == {"continue", "object", "objectRest", "other", "error"}

\* json_tokener_parse_ex (external): a finished value leaves the tokener fresh.
Parse(len, v) ==
    /\ fed' = CASE v = "continue" -> fed + len [] v = "error" -> fed [] OTHER -> 0
    /\ bad' = (bad \/ v = "error")

\* The pieces lws may deliver next: the rest of a frame, or a new one.
Piece(len, rem, fin, bin) ==
    /\ msg + len + rem <= MaxMsg
    /\ frame.left > 0 => len + rem = frame.left /\ fin = frame.fin
    /\ frame.left > 0 \/ ~frame.fin => bin = frame.bin
    /\ frame' = [left |-> rem, fin |-> fin, bin |-> bin]

TooLong(len, rem) == len > MaxLen \/ rem > MaxLen \/ curr_len + len + rem > MaxLen

\* Mutant: the parser is not reset.
RxLastNoReset(len, v) ==
    /\ IF v = "object"
       THEN /\ handled' = [whole |-> fed = msg /\ ~bad, len |-> msg + len, dropped |-> shut' # "no"]
            /\ UNCHANGED txVars \/ \E n \in OutLen : wsu_queue_write_str(n)
       ELSE /\ \E n \in OutLen : wsu_queue_write_str(n)
            /\ UNCHANGED handled
    /\ Parse(len, v)
    /\ curr_len' = 0
    /\ msg' = 0

\* The last piece of a message is handled, with an answer now or later, or refused with an
\* error; either way the state for reading is reset (wsu_read_reset).
RxLast(len, v) ==
    /\ IF v = "object"
       THEN /\ handled' = [whole |-> fed = msg /\ ~bad, len |-> msg + len, dropped |-> shut' # "no"]
            /\ UNCHANGED txVars \/ \E n \in OutLen : wsu_queue_write_str(n)
       ELSE /\ \E n \in OutLen : wsu_queue_write_str(n)
            /\ UNCHANGED handled
    /\ curr_len' = 0 /\ fed' = 0 /\ bad' = FALSE
    /\ msg' = 0

\* Another piece: the parser must want more.
RxMore(len, v) ==
    /\ Parse(len, v)
    /\ curr_len' = curr_len + len
    /\ msg' = msg + len
    /\ UNCHANGED <<handled, txVars>>

\* Too long a message and an error in the middle of one stop the reading of more from the
\* socket; this piece, and what lws has read already, goes on.
wsubus_rx(len, rem, fin, v) ==
    /\ phase = "open"
    /\ Piece(len, rem, fin, FALSE)
    /\ shut' = CASE ~(rem = 0 /\ fin) /\ v # "continue" -> "RDWR"
                 [] TooLong(len, rem) /\ shut = "no" -> "RD"
                 [] OTHER -> shut
    /\ IF rem = 0 /\ fin THEN RxLast(len, v) ELSE RxMore(len, v)
    /\ UNCHANGED phase

\* Binary messages are ignored, but not their length.
wsubus_rx_blob(len, rem, fin) ==
    /\ phase = "open"
    /\ Piece(len, rem, fin, TRUE)
    /\ shut' = IF TooLong(len, rem) /\ shut = "no" THEN "RD" ELSE shut
    /\ UNCHANGED <<phase, msg, curr_len, fed, bad, handled, txVars>>

-----------------------------------------------------------------------------
\* wsu_peer_deinit: the tokener and the queue are freed.
Closed ==
    /\ phase \in {"open", "failed"}
    /\ phase' = "closed"
    /\ frame' = NoFrame /\ msg' = 0 /\ curr_len' = 0 /\ fed' = 0 /\ bad' = FALSE
    /\ write_q' = <<>> /\ buffered' = FALSE /\ writable' = FALSE
    /\ UNCHANGED <<shut, handled, queued, sent>>

Next ==
    \/ \E o \in {"none", "uncopied", "listed", "other"}, r \in BOOLEAN : Filter(o, r)
    \/ Established
    \/ \E n \in OutLen : Queue(n)
    \/ wsubus_tx_text
    \/ \E len \in 1..MaxPiece, rem \in 0..MaxMsg, fin \in BOOLEAN :
          wsubus_rx_blob(len, rem, fin) \/ \E v \in Verdict : wsubus_rx(len, rem, fin, v)
    \/ Closed

Spec == Init /\ [][Next]_vars

\* lws delivers a WRITEABLE callback that was asked for, and closes what failed.
FairSpec == Spec /\ WF_vars(wsubus_tx_text) /\ WF_vars(phase = "failed" /\ Closed)

-----------------------------------------------------------------------------
(* Properties *)

\* The bytes of all messages, one message after the other.
Promised == FlattenSeq([i \in DOMAIN queued |-> Bytes([id |-> i, written |-> 0], queued[i])])
Unsent == FlattenSeq([i \in DOMAIN write_q |-> Bytes(write_q[i], write_q[i].len)])

\* However lws cuts the writes, what the client gets and what is still in the queue are
\* the queued messages: in order, no byte lost, repeated or put into another message.
StreamExact ==
    IF phase = "closed" THEN IsPrefix(sent, Promised) ELSE sent \o Unsent = Promised

\* No message waits for a callback that nobody has asked for.
WriteRequested == phase = "open" /\ write_q # <<>> => writable

\* Every queued message is written, or the connection ends.
QueueDrains == write_q # <<>> ~> write_q = <<>>

\* A message that is handled is one JSON object from its first piece to its last, and not
\* too long: nothing is left in the parser of an earlier message, even one that was
\* refused, as long as the client is not being dropped.
HandledWhole == ~handled.dropped => handled.whole /\ handled.len <= MaxLen
=============================================================================

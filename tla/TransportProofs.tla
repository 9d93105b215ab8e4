-------------------------- MODULE TransportProofs ---------------------------
(***************************************************************************)
(* Reading, the request for WRITEABLE callbacks and the stream of bytes    *)
(* that is written, for any limit, any size of pieces and messages, and    *)
(* any number of them.                                                     *)
(***************************************************************************)
EXTENDS Transport, Inductions

-----------------------------------------------------------------------------
(* Reading *)

\* curr_msg.len counts the bytes of the current message.  As long as the client is not being
\* dropped, the parser has got exactly these, without an error, and they are not too many.
ReadState ==
    /\ msg \in Nat /\ curr_len = msg /\ fed \in Nat
    /\ shut = "no" => fed = msg /\ bad = FALSE /\ msg <= MaxLen

RxInv == ReadState /\ HandledWhole

\* A piece of a text message (wsubus_rx).
LEMMA PieceKeeps ==
    ASSUME RxInv, NEW len \in 1..MaxPiece, NEW rem \in 0..MaxMsg, NEW fin \in BOOLEAN,
           NEW v \in Verdict, wsubus_rx(len, rem, fin, v)
    PROVE  RxInv'
<1> USE TransportAssumption
<1>1. len \in Nat /\ rem \in Nat
  OBVIOUS
<1>2. ASSUME shut' = "no"
      PROVE  /\ shut = "no"
             /\ msg + len + rem <= MaxLen
             /\ ~(rem = 0 /\ fin) => v = "continue"
  BY <1>1, <1>2 DEF wsubus_rx, TooLong, RxInv, ReadState
<1>3. CASE rem = 0 /\ fin
  <2>1. RxLast(len, v)
    BY <1>3 DEF wsubus_rx
  <2>2. msg' = 0 /\ curr_len' = 0 /\ fed' = 0 /\ bad' = FALSE
    BY <2>1 DEF RxLast
  <2>3. ReadState'
    BY <2>2 DEF ReadState
  <2>4. CASE v = "object"
    <3>1. handled' = [whole |-> fed = msg /\ ~bad, len |-> msg + len, dropped |-> shut' # "no"]
      BY <2>1, <2>4 DEF RxLast
    <3>2. ASSUME ~handled'.dropped PROVE handled'.whole /\ handled'.len <= MaxLen
      <4>1. shut' = "no"
        BY Zenon, <3>1, <3>2
      <4>2. fed = msg /\ bad = FALSE /\ msg + len <= MaxLen
        BY <1>1, <1>2, <4>1 DEF RxInv, ReadState
      <4> QED BY Zenon, <3>1, <4>2
    <3> QED BY <2>3, <3>2 DEF RxInv, HandledWhole
  <2>5. CASE v # "object"
    <3>1. handled' = handled
      BY <2>1, <2>5 DEF RxLast
    <3> QED BY <2>3, <3>1 DEF RxInv, HandledWhole
  <2> QED BY <2>4, <2>5
<1>4. CASE ~(rem = 0 /\ fin)
  <2>1. RxMore(len, v)
    BY <1>4 DEF wsubus_rx
  <2>2. /\ msg' = msg + len /\ curr_len' = curr_len + len /\ handled' = handled
        /\ fed' \in {fed + len, fed, 0}
    BY <2>1 DEF RxMore, Parse
  <2>3. ASSUME shut' = "no" PROVE fed' = msg' /\ bad' = FALSE /\ msg' <= MaxLen
    <3>1. v = "continue" /\ fed = msg /\ bad = FALSE /\ msg + len + rem <= MaxLen
      BY <1>2, <1>4, <2>3 DEF RxInv, ReadState
    <3>2. fed' = fed + len /\ bad' = FALSE
      BY Zenon, <2>1, <3>1 DEF RxMore, Parse
    <3> QED BY <1>1, <2>2, <3>1, <3>2 DEF RxInv, ReadState
  <2>4. ReadState'
    <3>1. msg \in Nat /\ curr_len = msg /\ fed \in Nat
      BY DEF RxInv, ReadState
    <3>2. msg' \in Nat /\ curr_len' = msg' /\ fed' \in Nat
      BY <1>1, <2>2, <3>1
    <3> QED BY Zenon, <2>3, <3>2 DEF ReadState
  <2>5. HandledWhole'
    BY <2>2 DEF RxInv, HandledWhole
  <2> QED BY <2>4, <2>5 DEF RxInv
<1> QED BY <1>3, <1>4

\* Every other step leaves what is read alone, or ends the connection.
LEMMA ReadNextInv == RxInv /\ [Next]_vars => RxInv'
<1> SUFFICES ASSUME RxInv, [Next]_vars PROVE RxInv'
  OBVIOUS
<1>1. ASSUME UNCHANGED <<shut, msg, curr_len, fed, bad, handled>> PROVE RxInv'
  BY <1>1 DEF RxInv, ReadState, HandledWhole
<1>2. CASE UNCHANGED vars
  BY <1>1, <1>2 DEF vars, rxVars
<1>3. ASSUME NEW o, NEW q, Filter(o, q) PROVE RxInv'
  BY <1>1, <1>3 DEF Filter, rxVars
<1>4. CASE Established
  BY <1>1, <1>4 DEF Established, rxVars
<1>5. ASSUME NEW n, Queue(n) PROVE RxInv'
  BY <1>1, <1>5 DEF Queue, rxVars
<1>6. CASE wsubus_tx_text
  <2>1. UNCHANGED rxVars /\ shut' \in {shut, "RDWR"}
    BY Zenon, <1>6 DEF wsubus_tx_text, TxAll, TxPartial, TxError
  <2> QED BY <2>1 DEF rxVars, RxInv, ReadState, HandledWhole
<1>7. ASSUME NEW len, NEW rem, NEW fin, wsubus_rx_blob(len, rem, fin) PROVE RxInv'
  <2>1. UNCHANGED <<msg, curr_len, fed, bad, handled>> /\ shut' \in {shut, "RD"}
    BY <1>7 DEF wsubus_rx_blob
  <2> QED BY <2>1 DEF RxInv, ReadState, HandledWhole
<1>8. CASE Closed
  <2>1. ReadState'
    BY <1>8, TransportAssumption DEF Closed, ReadState
  <2>2. HandledWhole'
    BY <1>8 DEF Closed, RxInv, HandledWhole
  <2> QED BY <2>1, <2>2 DEF RxInv
<1> QED BY <1>2, <1>3, <1>4, <1>5, <1>6, <1>7, <1>8, PieceKeeps DEF Next

\* What is handled is one whole object within the limit, however the messages before it
\* were cut, refused or broken off.
THEOREM ReadingCorrect == Spec => []HandledWhole
<1>1. Init => RxInv
  <2>1. Init => ReadState
    BY TransportAssumption DEF Init, ReadState
  <2>2. Init => HandledWhole
    BY TransportAssumption DEF Init, HandledWhole, NoMessage
  <2> QED BY <2>1, <2>2 DEF RxInv
<1>2. RxInv => HandledWhole
  BY DEF RxInv
<1> QED BY <1>1, <1>2, ReadNextInv, PTL DEF Spec

-----------------------------------------------------------------------------
(* Writing *)

\* The queue is empty until the connection is open.
TxInv == WriteRequested /\ (phase \in {"new", "upgraded"} => write_q = <<>>)

\* Queueing asks for the callback (wsu_queue_write_str).
LEMMA QueueAsks ==
    ASSUME NEW n, wsu_queue_write_str(n)
    PROVE  writable' = TRUE
BY DEF wsu_queue_write_str

\* Every step keeps it.
LEMMA WriteNextInv == TxInv /\ [Next]_vars => TxInv'
<1> SUFFICES ASSUME TxInv, [Next]_vars PROVE TxInv'
  OBVIOUS
<1> USE DEF TxInv, WriteRequested
<1>1. CASE UNCHANGED vars
  BY <1>1 DEF vars, txVars
<1>2. ASSUME NEW o, NEW q, Filter(o, q) PROVE TxInv'
  BY <1>2 DEF Filter, txVars
<1>3. CASE Established
  BY <1>3 DEF Established, txVars
<1>4. ASSUME NEW n, Queue(n) PROVE TxInv'
  BY Zenon, <1>4, QueueAsks DEF Queue
<1>5. CASE wsubus_tx_text
  BY Zenon, <1>5 DEF wsubus_tx_text, TxAll, TxPartial, TxError
<1>6. ASSUME NEW len, NEW rem, NEW fin, wsubus_rx_blob(len, rem, fin) PROVE TxInv'
  BY <1>6 DEF wsubus_rx_blob, txVars
<1>7. ASSUME NEW len, NEW rem, NEW fin, NEW v, wsubus_rx(len, rem, fin, v) PROVE TxInv'
  <2>1. phase = "open" /\ phase' = "open"
    BY <1>7 DEF wsubus_rx
  <2>2. UNCHANGED txVars \/ \E n \in OutLen : wsu_queue_write_str(n)
    BY <1>7 DEF wsubus_rx, RxLast, RxMore
  <2> QED BY Zenon, <2>1, <2>2, QueueAsks DEF txVars
<1>8. CASE Closed
  BY <1>8 DEF Closed
<1> QED BY <1>1, <1>2, <1>3, <1>4, <1>5, <1>6, <1>7, <1>8 DEF Next

\* As long as something is in the queue of an open connection, lws has been asked to call
\* back for it, whatever it took of the messages before.
THEOREM WritesAskedFor == Spec => []WriteRequested
<1>1. Init => TxInv
  BY DEF Init, TxInv, WriteRequested
<1>2. TxInv => WriteRequested
  BY DEF TxInv
<1> QED BY <1>1, <1>2, WriteNextInv, PTL DEF Spec

-----------------------------------------------------------------------------
(* What is written *)

Byte == Nat \X Nat
Entry == [id : Nat, len : Nat, written : Nat]

\* What is left to write of the entries of q, and the bytes of messages of lengths l.
Writes(q) == [i \in DOMAIN q |-> Bytes(q[i], q[i].len)]
Messages(l) == [i \in DOMAIN l |-> Bytes([id |-> i, written |-> 0], l[i])]

StreamInv ==
    /\ write_q \in Seq(Entry) /\ queued \in Seq(Nat) /\ sent \in Seq(Byte)
    /\ StreamExact

\* Concatenation of bytes.
LEMMA BytesConcat ==
    /\ \A a, b \in Seq(Byte) : a \o b \in Seq(Byte)
    /\ \A a, b, c \in Seq(Byte) : (a \o b) \o c = a \o (b \o c)
<1>1. \A a, b \in Seq(Byte) : a \o b \in Seq(Byte)
  <2> TAKE a, b \in Seq(Byte)
  <2> QED BY ConcatProperties
<1>2. Assoc(Byte)
  BY Associative
<1> QED BY <1>1, <1>2 DEF Assoc

\* The bytes of an entry are a sequence.
LEMMA BytesType ==
    ASSUME NEW w, w.id \in Nat, w.written \in Nat, NEW upto \in Nat
    PROVE  Bytes(w, upto) \in Seq(Byte)
<1>1. CASE w.written <= upto
  <2>1. upto - w.written \in Nat
    BY <1>1
  <2>2. \A i \in 1..upto - w.written : <<w.id, w.written + i>> \in Byte
    BY DEF Byte
  <2> QED BY <2>1, <2>2 DEF Bytes
<1>2. CASE ~(w.written <= upto)
  <2>1. 1..upto - w.written = 1..0
    BY <1>2
  <2>2. \A i \in 1..0 : <<w.id, w.written + i>> \in Byte
    OBVIOUS
  <2>3. [i \in 1..0 |-> <<w.id, w.written + i>>] \in Seq(Byte)
    BY <2>2
  <2> QED BY <2>1, <2>3 DEF Bytes
<1> QED BY <1>1, <1>2

\* So are those of the entries of a queue.
LEMMA WritesType ==
    ASSUME NEW q \in Seq(Entry)
    PROVE  /\ Writes(q) \in Seq(Seq(Byte)) /\ Len(Writes(q)) = Len(q)
           /\ \A i \in 1..Len(q) : Writes(q)[i] = Bytes(q[i], q[i].len)
<1>1. \A i \in 1..Len(q) : q[i] \in Entry
  OBVIOUS
<1>2. \A i \in 1..Len(q) : Bytes(q[i], q[i].len) \in Seq(Byte)
  BY Zenon, <1>1, BytesType DEF Entry
<1>3. Writes(q) = [i \in 1..Len(q) |-> Bytes(q[i], q[i].len)] /\ Len(q) \in Nat
  BY DEF Writes
<1> QED BY <1>2, <1>3

LEMMA MessagesType ==
    ASSUME NEW l \in Seq(Nat)
    PROVE  /\ Messages(l) \in Seq(Seq(Byte)) /\ Len(Messages(l)) = Len(l)
           /\ \A i \in 1..Len(l) : Messages(l)[i] = Bytes([id |-> i, written |-> 0], l[i])
<1>1. \A i \in 1..Len(l) : l[i] \in Nat
  OBVIOUS
<1>2. \A i \in 1..Len(l) : Bytes([id |-> i, written |-> 0], l[i]) \in Seq(Byte)
  BY <1>1, BytesType
<1>3. Messages(l) = [i \in 1..Len(l) |-> Bytes([id |-> i, written |-> 0], l[i])] /\ Len(l) \in Nat
  BY DEF Messages
<1> QED BY <1>2, <1>3

\* The parts of an entry that lws takes one after the other are the entry.
LEMMA BytesSplit ==
    ASSUME NEW w \in Entry, NEW n \in w.written..w.len
    PROVE  /\ [w EXCEPT !.written = n] \in Entry
           /\ Bytes(w, w.len) = Bytes(w, n) \o Bytes([w EXCEPT !.written = n], w.len)
<1> DEFINE v == [w EXCEPT !.written = n]
<1>0. w.id \in Nat /\ w.len \in Nat /\ w.written \in Nat /\ n \in Nat
  BY DEF Entry
<1>1. v \in Entry /\ v.id = w.id /\ v.len = w.len /\ v.written = n
  BY <1>0 DEF Entry
<1> HIDE DEF v
<1>2. Bytes(w, n) \in Seq(Byte) /\ Bytes(v, w.len) \in Seq(Byte) /\ Bytes(w, w.len) \in Seq(Byte)
  BY Zenon, <1>0, <1>1, BytesType
<1>3. /\ Len(Bytes(w, n)) = n - w.written
      /\ \A i \in 1..n - w.written : Bytes(w, n)[i] = <<w.id, w.written + i>>
  BY <1>0 DEF Bytes
<1>4. /\ Len(Bytes(v, w.len)) = w.len - n
      /\ \A i \in 1..w.len - n : Bytes(v, w.len)[i] = <<w.id, n + i>>
  BY <1>0, <1>1 DEF Bytes
<1>5. /\ Len(Bytes(w, w.len)) = w.len - w.written
      /\ \A i \in 1..w.len - w.written : Bytes(w, w.len)[i] = <<w.id, w.written + i>>
  BY <1>0 DEF Bytes
<1>6. Len(Bytes(w, w.len)) = Len(Bytes(w, n)) + Len(Bytes(v, w.len))
  BY <1>0, <1>3, <1>4, <1>5
<1>7. \A i \in 1..n - w.written : Bytes(w, w.len)[i] = Bytes(w, n)[i]
  <2> TAKE i \in 1..n - w.written
  <2>1. i \in 1..w.len - w.written
    BY <1>0
  <2> QED BY <1>3, <1>5, <2>1
<1>8. \A i \in 1..w.len - n : Bytes(w, w.len)[(n - w.written) + i] = Bytes(v, w.len)[i]
  <2> TAKE i \in 1..w.len - n
  <2>1. (n - w.written) + i \in 1..w.len - w.written /\ w.written + ((n - w.written) + i) = n + i
    BY <1>0
  <2> QED BY Zenon, <1>4, <1>5, <2>1
<1>9. Bytes(w, w.len) = Bytes(w, n) \o Bytes(v, w.len)
  <2>1. /\ \A i \in 1..Len(Bytes(w, n)) : Bytes(w, w.len)[i] = Bytes(w, n)[i]
        /\ \A i \in 1..Len(Bytes(v, w.len)) :
              Bytes(w, w.len)[Len(Bytes(w, n)) + i] = Bytes(v, w.len)[i]
    BY <1>3, <1>4, <1>7, <1>8, Zenon
  <2> QED BY <1>2, <1>6, <2>1, ConcatIs, Zenon
<1> QED BY <1>1, <1>9 DEF v

\* What is left of two queues, one after the other.
LEMMA LeftConcat ==
    ASSUME NEW q \in Seq(Entry), NEW r \in Seq(Entry)
    PROVE  FlattenSeq(Writes(q \o r)) = FlattenSeq(Writes(q)) \o FlattenSeq(Writes(r))
<1> DEFINE qr == q \o r
<1>1. /\ qr \in Seq(Entry) /\ Len(qr) = Len(q) + Len(r) /\ Len(q) \in Nat /\ Len(r) \in Nat
      /\ \A i \in 1..Len(q) : i \in 1..Len(qr) /\ qr[i] = q[i]
      /\ \A i \in 1..Len(r) : Len(q) + i \in 1..Len(qr) /\ qr[Len(q) + i] = r[i]
  OBVIOUS
<1> HIDE DEF qr
<1>2. /\ Writes(q) \in Seq(Seq(Byte)) /\ Len(Writes(q)) = Len(q)
      /\ \A i \in 1..Len(q) : Writes(q)[i] = Bytes(q[i], q[i].len)
  BY WritesType
<1>3. /\ Writes(r) \in Seq(Seq(Byte)) /\ Len(Writes(r)) = Len(r)
      /\ \A i \in 1..Len(r) : Writes(r)[i] = Bytes(r[i], r[i].len)
  BY WritesType
<1>4. /\ Writes(qr) \in Seq(Seq(Byte)) /\ Len(Writes(qr)) = Len(qr)
      /\ \A i \in 1..Len(qr) : Writes(qr)[i] = Bytes(qr[i], qr[i].len)
  BY Zenon, <1>1, WritesType
<1>5. Len(Writes(qr)) = Len(Writes(q)) + Len(Writes(r))
  BY <1>1, <1>2, <1>3, <1>4
<1>6. \A i \in 1..Len(Writes(q)) : Writes(qr)[i] = Writes(q)[i]
  BY <1>1, <1>2, <1>4, Zenon
<1>7. \A i \in 1..Len(Writes(r)) : Writes(qr)[Len(Writes(q)) + i] = Writes(r)[i]
  BY <1>1, <1>2, <1>3, <1>4, Zenon
<1>8. Writes(qr) = Writes(q) \o Writes(r)
  BY Zenon, <1>2, <1>3, <1>4, <1>5, <1>6, <1>7, ConcatIs
<1> QED BY <1>2, <1>3, <1>8, FlattenConcat DEF qr

\* What is left of one entry.
LEMMA LeftOne ==
    ASSUME NEW w \in Entry
    PROVE  FlattenSeq(Writes(<<w>>)) = Bytes(w, w.len)
<1>1. Bytes(w, w.len) \in Seq(Byte)
  BY BytesType DEF Entry
<1>2. Writes(<<w>>) = <<Bytes(w, w.len)>>
  BY DEF Writes
<1> QED BY <1>1, <1>2, FlattenOne

\* What is left of a queue is a sequence of bytes.
LEMMA LeftType ==
    ASSUME NEW q \in Seq(Entry)
    PROVE  FlattenSeq(Writes(q)) \in Seq(Byte)
BY WritesType, FlattenType

\* A queue around one of its entries.
LEMMA LeftSplit ==
    ASSUME NEW q \in Seq(Entry), NEW j \in 1..Len(q)
    PROVE  LET p == SubSeq(q, 1, j - 1)
               r == SubSeq(q, j + 1, Len(q))
           IN /\ p \in Seq(Entry) /\ r \in Seq(Entry) /\ q[j] \in Entry
              /\ Writes(p) = [i \in 1..j-1 |-> Bytes(q[i], q[i].len)]
              /\ FlattenSeq(Writes(q)) =
                   FlattenSeq(Writes(p)) \o (Bytes(q[j], q[j].len) \o FlattenSeq(Writes(r)))
<1> DEFINE p == SubSeq(q, 1, j - 1)
           r == SubSeq(q, j + 1, Len(q))
           t == <<q[j]>> \o r
<1>1. /\ p \in Seq(Entry) /\ Len(p) = j - 1 /\ \A i \in 1..j-1 : p[i] = q[i]
      /\ r \in Seq(Entry) /\ q[j] \in Entry /\ <<q[j]>> \in Seq(Entry)
  OBVIOUS
<1>2. t \in Seq(Entry) /\ t = SubSeq(q, j, Len(q))
  <2>1. Len(q) \in j..Len(q)
    OBVIOUS
  <2> QED BY <1>1, <2>1, SubSeqRecursiveFirst
<1>3. q = p \o t
  <2>1. SubSeq(q, 1, j - 1) \o SubSeq(q, (j - 1) + 1, Len(q)) = SubSeq(q, 1, Len(q))
    <3>1. 1 \in 1..Len(q)+1 /\ j - 1 \in 1-1..Len(q) /\ Len(q) \in j-1..Len(q)
      OBVIOUS
    <3> QED BY <3>1, ConcatAdjacentSubSeq, Zenon
  <2>2. SubSeq(q, 1, Len(q)) = q /\ (j - 1) + 1 = j
    BY SubSeqFull
  <2> QED BY Zenon, <1>2, <2>1, <2>2
<1>4. Writes(p) = [i \in 1..j-1 |-> Bytes(q[i], q[i].len)]
  BY <1>1 DEF Writes
<1> HIDE DEF p, r
<1>5. FlattenSeq(Writes(t)) = Bytes(q[j], q[j].len) \o FlattenSeq(Writes(r))
  <2>1. FlattenSeq(Writes(t)) = FlattenSeq(Writes(<<q[j]>>)) \o FlattenSeq(Writes(r))
    BY Zenon, <1>1, LeftConcat
  <2> QED BY <1>1, <2>1, LeftOne, Zenon
<1> HIDE DEF t
<1>6. FlattenSeq(Writes(p \o t)) = FlattenSeq(Writes(p)) \o FlattenSeq(Writes(t))
  BY Zenon, <1>1, <1>2, LeftConcat
<1> QED BY <1>1, <1>3, <1>4, <1>5, <1>6, Zenon DEF p, r

\* A message is queued at the end of both (wsu_queue_write_str).
LEMMA QueueKeeps ==
    ASSUME StreamInv, phase = "open", phase' = "open", NEW n \in OutLen, wsu_queue_write_str(n)
    PROVE  StreamInv'
<1> DEFINE w == [id |-> Len(queued) + 1, len |-> n, written |-> 0]
           m == [id |-> Len(queued) + 1, written |-> 0]
<1>0. n \in Nat
  BY TransportAssumption
<1>1. /\ write_q \in Seq(Entry) /\ queued \in Seq(Nat) /\ sent \in Seq(Byte)
      /\ sent \o FlattenSeq(Writes(write_q)) = FlattenSeq(Messages(queued))
  BY Zenon DEF StreamInv, StreamExact, Unsent, Promised, Writes, Messages
<1>2. queued' = Append(queued, n) /\ write_q' = Append(write_q, w) /\ sent' = sent
  BY DEF wsu_queue_write_str
<1>3. w \in Entry /\ Len(queued) \in Nat
  BY <1>0, <1>1 DEF Entry
<1>4. Bytes(w, n) = Bytes(m, n) /\ Bytes(w, n) \in Seq(Byte)
  <2>1. w.id = Len(queued) + 1 /\ w.written = 0 /\ m.id = Len(queued) + 1 /\ m.written = 0
    OBVIOUS
  <2>2. Bytes(w, n) \in Seq(Byte)
    BY <1>0, <1>3, <2>1, BytesType
  <2> QED BY <2>1, <2>2 DEF Bytes
<1>5. FlattenSeq(Writes(write_q')) = FlattenSeq(Writes(write_q)) \o Bytes(w, n)
  <2>1. write_q' = write_q \o <<w>> /\ <<w>> \in Seq(Entry) /\ w.len = n
    BY <1>1, <1>2, <1>3, AppendIsConcat
  <2> HIDE DEF w
  <2> QED BY <1>1, <1>3, <2>1, LeftConcat, LeftOne, Zenon
<1>6. FlattenSeq(Messages(queued')) = FlattenSeq(Messages(queued)) \o Bytes(m, n)
  <2>1. /\ queued' \in Seq(Nat) /\ Len(queued') = Len(queued) + 1
        /\ \A i \in 1..Len(queued) : queued'[i] = queued[i]
        /\ queued'[Len(queued) + 1] = n
    BY <1>0, <1>1, <1>2
  <2>2. Messages(queued') = Append(Messages(queued), Bytes(m, n))
    <3>1. /\ Messages(queued) \in Seq(Seq(Byte)) /\ Len(Messages(queued)) = Len(queued)
          /\ \A i \in 1..Len(queued) : Messages(queued)[i] = Bytes([id |-> i, written |-> 0], queued[i])
      BY <1>1, MessagesType
    <3>2. /\ Messages(queued') \in Seq(Seq(Byte)) /\ Len(Messages(queued')) = Len(queued')
          /\ \A i \in 1..Len(queued') : Messages(queued')[i] = Bytes([id |-> i, written |-> 0], queued'[i])
      BY <2>1, MessagesType
    <3> DEFINE a == Append(Messages(queued), Bytes(m, n))
    <3>3. /\ a \in Seq(Seq(Byte)) /\ Len(a) = Len(queued) + 1
          /\ \A i \in 1..Len(queued) : a[i] = Messages(queued)[i]
          /\ a[Len(queued) + 1] = Bytes(m, n)
      BY <1>4, <3>1, AppendProperties
    <3> HIDE DEF a
    <3>4. ASSUME NEW i \in 1..Len(queued') PROVE Messages(queued')[i] = a[i]
      <4>1. CASE i \in 1..Len(queued)
        BY <2>1, <3>1, <3>2, <3>3, <4>1, Zenon
      <4>2. CASE i = Len(queued) + 1
        BY <2>1, <3>2, <3>3, <4>2, Zenon
      <4> QED BY <1>3, <2>1, <4>1, <4>2
    <3>5. Messages(queued') = a
      BY <2>1, <3>2, <3>3, <3>4, SeqEqual
    <3> QED BY <3>5 DEF a
  <2> QED BY Zenon, <1>1, <1>4, <2>2, MessagesType, FlattenAppend
<1>7. sent' \o FlattenSeq(Writes(write_q')) = FlattenSeq(Messages(queued'))
  <2>1. FlattenSeq(Writes(write_q)) \in Seq(Byte)
    BY <1>1, LeftType
  <2>2. sent \o (FlattenSeq(Writes(write_q)) \o Bytes(w, n)) =
          (sent \o FlattenSeq(Writes(write_q))) \o Bytes(w, n)
    BY <1>1, <1>4, <2>1, BytesConcat, Zenon
  <2> QED BY <1>1, <1>2, <1>4, <1>5, <1>6, <2>2, Zenon
<1>8. write_q' \in Seq(Entry) /\ queued' \in Seq(Nat) /\ sent' \in Seq(Byte)
  BY <1>0, <1>1, <1>2, <1>3, AppendProperties
<1>9. StreamExact'
  BY Zenon, <1>7 DEF StreamExact, Unsent, Promised, Writes, Messages
<1> QED BY <1>8, <1>9 DEF StreamInv

\* What lws takes of entry j, all entries before it and n bytes of it, goes from the queue
\* to the stream.
LEMMA TakenMoves ==
    ASSUME NEW q \in Seq(Entry), NEW s \in Seq(Byte), NEW j \in 1..Len(q),
           NEW n \in q[j].written..q[j].len
    PROVE  \A s2, q2 :
             /\ s2 = (s \o FlattenSeq([i \in 1..j-1 |-> Bytes(q[i], q[i].len)])) \o Bytes(q[j], n)
             /\ \/ n = q[j].len /\ q2 = SubSeq(q, j + 1, Len(q))
                \/ q2 = <<[q[j] EXCEPT !.written = n]>> \o SubSeq(q, j + 1, Len(q))
             => /\ s2 \in Seq(Byte) /\ q2 \in Seq(Entry)
                /\ s2 \o FlattenSeq(Writes(q2)) = s \o FlattenSeq(Writes(q))
<1> SUFFICES ASSUME NEW s2, NEW q2,
                    s2 = (s \o FlattenSeq([i \in 1..j-1 |-> Bytes(q[i], q[i].len)])) \o Bytes(q[j], n),
                    \/ n = q[j].len /\ q2 = SubSeq(q, j + 1, Len(q))
                    \/ q2 = <<[q[j] EXCEPT !.written = n]>> \o SubSeq(q, j + 1, Len(q))
             PROVE  /\ s2 \in Seq(Byte) /\ q2 \in Seq(Entry)
                    /\ s2 \o FlattenSeq(Writes(q2)) = s \o FlattenSeq(Writes(q))
  BY Zenon
<1> DEFINE P == FlattenSeq(Writes(SubSeq(q, 1, j - 1)))
           r == SubSeq(q, j + 1, Len(q))
           R == FlattenSeq(Writes(r))
           w == q[j]
           v == [w EXCEPT !.written = n]
<1>1. /\ SubSeq(q, 1, j - 1) \in Seq(Entry) /\ r \in Seq(Entry) /\ w \in Entry
      /\ s2 = (s \o P) \o Bytes(w, n)
      /\ FlattenSeq(Writes(q)) = P \o (Bytes(w, w.len) \o R)
  BY LeftSplit, Zenon
<1>2. v \in Entry /\ Bytes(w, w.len) = Bytes(w, n) \o Bytes(v, w.len) /\ v.len = w.len
  BY Zenon, <1>1, BytesSplit DEF Entry
<1>3. n \in Nat /\ w.len \in Nat /\ w.id \in Nat /\ w.written \in Nat /\ v.id \in Nat /\ v.written \in Nat
  BY Zenon, <1>1, <1>2 DEF Entry
<1>4. P \in Seq(Byte) /\ R \in Seq(Byte)
  BY Zenon, <1>1, LeftType
<1>5. Bytes(w, n) \in Seq(Byte) /\ Bytes(v, w.len) \in Seq(Byte) /\ Bytes(w, w.len) \in Seq(Byte)
  BY Zenon, <1>3, BytesType
<1>6. /\ q2 \in Seq(Entry)
      /\ Bytes(w, n) \o FlattenSeq(Writes(q2)) = Bytes(w, w.len) \o R
  <2>1. CASE n = w.len /\ q2 = r
    BY <1>1, <2>1
  <2>2. CASE q2 = <<v>> \o r
    <3>1. <<v>> \in Seq(Entry) /\ q2 \in Seq(Entry)
      BY <1>1, <1>2, <2>2, ConcatProperties
    <3> HIDE DEF v, w, r, R
    <3>2. FlattenSeq(Writes(q2)) = Bytes(v, w.len) \o R
      <4>1. FlattenSeq(Writes(<<v>> \o r)) = FlattenSeq(Writes(<<v>>)) \o FlattenSeq(Writes(r))
        BY <1>1, <3>1, LeftConcat, Zenon
      <4>2. FlattenSeq(Writes(<<v>>)) = Bytes(v, v.len)
        BY <1>2, LeftOne, Zenon
      <4> QED BY <1>2, <2>2, <4>1, <4>2, Zenon DEF R
    <3>3. Bytes(w, n) \o (Bytes(v, w.len) \o R) = (Bytes(w, n) \o Bytes(v, w.len)) \o R
      BY <1>4, <1>5, BytesConcat, Zenon
    <3> QED BY <1>2, <3>1, <3>2, <3>3, Zenon
  <2> QED BY Zenon, <2>1, <2>2
<1>7. s \o P \in Seq(Byte) /\ s2 \in Seq(Byte)
  <2> HIDE DEF P, w
  <2>1. s \o P \in Seq(Byte)
    BY <1>4, BytesConcat, Zenon
  <2>2. (s \o P) \o Bytes(w, n) \in Seq(Byte)
    BY <1>5, <2>1, BytesConcat, Zenon
  <2> QED BY <1>1, <2>1, <2>2, Zenon
<1> DEFINE U == FlattenSeq(Writes(q2))
<1>8. U \in Seq(Byte)
  BY <1>6, LeftType
<1> HIDE DEF P, R, w, v, r, U
<1>9. s2 \o U = (s \o P) \o (Bytes(w, n) \o U)
  <2> DEFINE X == s \o P
             Y == Bytes(w, n)
  <2>1. X \in Seq(Byte) /\ Y \in Seq(Byte) /\ s2 = X \o Y
    BY <1>1, <1>5, <1>7, Zenon
  <2> HIDE DEF X, Y
  <2>2. (X \o Y) \o U = X \o (Y \o U)
    BY <1>8, <2>1, BytesConcat, Zenon
  <2> QED BY <2>1, <2>2, Zenon DEF X, Y
<1>10. (s \o P) \o (Bytes(w, w.len) \o R) = s \o (P \o (Bytes(w, w.len) \o R))
  <2>1. Bytes(w, w.len) \o R \in Seq(Byte)
    BY <1>4, <1>5, BytesConcat, Zenon
  <2> QED BY <1>4, <2>1, BytesConcat, Zenon
<1> QED BY <1>1, <1>6, <1>7, <1>9, <1>10, Zenon DEF U

\* The writable callback moves bytes from the queue to the stream (wsubus_tx_text).
LEMMA WritingKeeps ==
    ASSUME StreamInv, wsubus_tx_text
    PROVE  StreamInv'
<1>1. /\ write_q \in Seq(Entry) /\ queued \in Seq(Nat) /\ sent \in Seq(Byte)
      /\ phase = "open" /\ queued' = queued
      /\ sent \o FlattenSeq(Writes(write_q)) = FlattenSeq(Messages(queued))
  BY Zenon DEF StreamInv, StreamExact, Unsent, Promised, Writes, Messages, wsubus_tx_text
<1>2. ASSUME write_q' \in Seq(Entry), sent' \in Seq(Byte), phase' \in {"open", "failed"},
             sent' \o FlattenSeq(Writes(write_q')) = sent \o FlattenSeq(Writes(write_q))
      PROVE  StreamInv'
  BY Zenon, <1>1, <1>2 DEF StreamInv, StreamExact, Unsent, Promised, Writes, Messages
<1>3. CASE TxAll
  <2>1. Before(Len(write_q) + 1) = FlattenSeq(Writes(write_q))
    <3>1. (Len(write_q) + 1) - 1 = Len(write_q) /\ DOMAIN write_q = 1..Len(write_q)
      BY <1>1
    <3> QED BY <3>1, Zenon DEF Before, Writes
  <2>2. sent' = sent \o FlattenSeq(Writes(write_q)) /\ write_q' = <<>> /\ phase' = phase
    BY <1>3, <2>1 DEF TxAll
  <2>3. FlattenSeq(Writes(write_q)) \in Seq(Byte)
    BY <1>1, LeftType
  <2>4. sent' \in Seq(Byte) /\ write_q' \in Seq(Entry)
    BY <1>1, <2>2, <2>3, BytesConcat, EmptySeq, Zenon
  <2>5. FlattenSeq(Writes(write_q')) = <<>>
    <3>1. Writes(<<>>) = <<>>
      BY DEF Writes
    <3> QED BY <2>2, <3>1, FlattenEmpty, Zenon
  <2>6. sent' \o <<>> = sent'
    BY <2>4, ConcatEmptySeq
  <2> QED BY Zenon, <1>1, <1>2, <2>2, <2>4, <2>5, <2>6
<1>4. ASSUME NEW j \in DOMAIN write_q, NEW n, TxPartial(j, n) \/ TxError(j, n) PROVE StreamInv'
  <2>1. j \in 1..Len(write_q) /\ write_q[j] \in Entry
    BY <1>1, <1>4
  <2>2. /\ n \in write_q[j].written..write_q[j].len
        /\ sent' = (sent \o FlattenSeq([i \in 1..j-1 |-> Bytes(write_q[i], write_q[i].len)]))
                      \o Bytes(write_q[j], n)
        /\ \/ n = write_q[j].len /\ write_q' = SubSeq(write_q, j + 1, Len(write_q))
           \/ write_q' = <<[write_q[j] EXCEPT !.written = n]>> \o SubSeq(write_q, j + 1, Len(write_q))
        /\ phase' \in {"open", "failed"}
    <3>1. CASE TxPartial(j, n)
      <4>1. n \in write_q[j].written..write_q[j].len
        BY <2>1, <3>1 DEF TxPartial, Entry
      <4> QED BY Zenon, <1>1, <3>1, <4>1 DEF TxPartial, Before
    <3>2. CASE TxError(j, n)
      <4>1. n \in write_q[j].written..write_q[j].len
        BY <2>1, <3>2 DEF TxError, Entry
      <4> QED BY <3>2, <4>1 DEF TxError, Before
    <3> QED BY Zenon, <1>4, <3>1, <3>2
  <2>3. /\ sent' \in Seq(Byte) /\ write_q' \in Seq(Entry)
        /\ sent' \o FlattenSeq(Writes(write_q')) = sent \o FlattenSeq(Writes(write_q))
    <3>1. \A s2, q2 :
             /\ s2 = (sent \o FlattenSeq([i \in 1..j-1 |-> Bytes(write_q[i], write_q[i].len)]))
                        \o Bytes(write_q[j], n)
             /\ \/ n = write_q[j].len /\ q2 = SubSeq(write_q, j + 1, Len(write_q))
                \/ q2 = <<[write_q[j] EXCEPT !.written = n]>> \o SubSeq(write_q, j + 1, Len(write_q))
             => /\ s2 \in Seq(Byte) /\ q2 \in Seq(Entry)
                /\ s2 \o FlattenSeq(Writes(q2)) = sent \o FlattenSeq(Writes(write_q))
      BY Zenon, <1>1, <2>1, <2>2, TakenMoves
    <3> QED BY <2>2, <3>1, Zenon
  <2> QED BY Zenon, <1>2, <2>2, <2>3
<1> QED BY <1>3, <1>4, Zenon DEF wsubus_tx_text

\* What was sent when the connection is gone is a beginning of what was queued.
LEMMA ClosedPrefix ==
    ASSUME StreamInv, UNCHANGED <<queued, sent>>, phase' = "closed",
           write_q' \in {write_q, <<>>}
    PROVE  StreamInv'
<1>1. write_q \in Seq(Entry) /\ queued \in Seq(Nat) /\ sent \in Seq(Byte) /\ StreamExact
  BY DEF StreamInv
<1>2. IsPrefix(sent, Promised)
  <2>1. CASE phase = "closed"
    BY <1>1, <2>1 DEF StreamExact
  <2>2. CASE phase # "closed"
    <3>1. sent \o FlattenSeq(Writes(write_q)) = Promised
      BY <1>1, <2>2 DEF StreamExact, Unsent, Writes
    <3>2. FlattenSeq(Writes(write_q)) \in Seq(Byte)
      BY <1>1, LeftType
    <3> DEFINE U == FlattenSeq(Writes(write_q))
    <3> HIDE DEF U
    <3>3. Len(sent) <= Len(sent \o U) /\ SubSeq(sent, 1, Len(sent)) = SubSeq(sent \o U, 1, Len(sent))
      BY <1>1, <3>2 DEF U
    <3> QED BY <3>1, <3>3 DEF IsPrefix, U
  <2> QED BY <2>1, <2>2
<1>3. StreamExact'
  BY <1>2 DEF StreamExact, Promised
<1>4. write_q' \in Seq(Entry)
  BY <1>1, EmptySeq, Zenon
<1> QED BY <1>1, <1>3, <1>4 DEF StreamInv

\* Every step keeps the stream exact.
LEMMA StreamNextInv == StreamInv /\ [Next]_vars => StreamInv'
<1> SUFFICES ASSUME StreamInv, [Next]_vars PROVE StreamInv'
  OBVIOUS
<1>1. ASSUME UNCHANGED <<phase, write_q, queued, sent>> PROVE StreamInv'
  BY Zenon, <1>1 DEF StreamInv, StreamExact, Promised, Unsent
<1>2. CASE UNCHANGED vars
  BY <1>1, <1>2 DEF vars, txVars
<1>3. ASSUME NEW o, NEW q, Filter(o, q) PROVE StreamInv'
  <2>1. phase = "new" /\ phase' \in {"upgraded", "closed"} /\ UNCHANGED <<write_q, queued, sent>>
    BY <1>3 DEF Filter, txVars
  <2>2. CASE phase' = "upgraded"
    BY Zenon, <2>1, <2>2 DEF StreamInv, StreamExact, Promised, Unsent
  <2> QED BY <2>1, <2>2, ClosedPrefix
<1>4. CASE Established
  BY Zenon, <1>4 DEF Established, txVars, StreamInv, StreamExact, Promised, Unsent
<1>5. ASSUME NEW n \in OutLen, Queue(n) PROVE StreamInv'
  BY <1>5, QueueKeeps DEF Queue
<1>6. CASE wsubus_tx_text
  BY <1>6, WritingKeeps
<1>7. ASSUME NEW len, NEW rem, NEW fin, wsubus_rx_blob(len, rem, fin) PROVE StreamInv'
  BY <1>1, <1>7 DEF wsubus_rx_blob, txVars
<1>8. ASSUME NEW len, NEW rem, NEW fin, NEW v, wsubus_rx(len, rem, fin, v) PROVE StreamInv'
  <2>1. phase = "open" /\ phase' = "open"
    BY <1>8 DEF wsubus_rx
  <2>2. UNCHANGED txVars \/ \E n \in OutLen : wsu_queue_write_str(n)
    BY <1>8 DEF wsubus_rx, RxLast, RxMore
  <2>3. CASE UNCHANGED txVars
    BY <1>1, <2>1, <2>3 DEF txVars
  <2> QED BY <2>1, <2>2, <2>3, QueueKeeps
<1>9. CASE Closed
  BY <1>9, ClosedPrefix DEF Closed
<1> QED BY <1>2, <1>3, <1>4, <1>5, <1>6, <1>7, <1>8, <1>9 DEF Next

\* It holds in every state.
LEMMA StreamSpecInv == Spec => []StreamInv
<1>1. Init => StreamInv
  <2> SUFFICES ASSUME Init PROVE StreamInv
    OBVIOUS
  <2>1. write_q = <<>> /\ queued = <<>> /\ sent = <<>> /\ phase = "new"
    BY DEF Init
  <2>2. write_q \in Seq(Entry) /\ queued \in Seq(Nat) /\ sent \in Seq(Byte)
    BY <2>1
  <2>3. Unsent = <<>> /\ Promised = <<>>
    <3>1. [i \in DOMAIN write_q |-> Bytes(write_q[i], write_q[i].len)] = <<>>
      BY <2>1
    <3>2. [i \in DOMAIN queued |-> Bytes([id |-> i, written |-> 0], queued[i])] = <<>>
      BY <2>1
    <3> QED BY <3>1, <3>2, FlattenEmpty, Zenon DEF Unsent, Promised
  <2>4. <<>> \o <<>> = <<>>
    OBVIOUS
  <2> QED BY <2>1, <2>2, <2>3, <2>4 DEF StreamInv, StreamExact
<1> QED BY <1>1, StreamNextInv, PTL DEF Spec

\* However lws cuts, buffers and fails the writes, what it took and what is still queued are
\* the messages given to wsu_queue_write_str, in order and byte for byte; of a connection
\* that is gone, a beginning of them was sent.
THEOREM StreamCorrect == Spec => []StreamExact
<1>1. StreamInv => StreamExact
  BY DEF StreamInv
<1> QED BY <1>1, StreamSpecInv, PTL
=============================================================================

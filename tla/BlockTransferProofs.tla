------------------------ MODULE BlockTransferProofs ------------------------
(***************************************************************************)
(* Proofs about BlockTransfer, for every set of transfers and every bound: *)
(* for both kinds of network the type invariant, and that the buffer never *)
(* has a hole; for one that keeps the order of messages, that whole        *)
(* payloads are handed on, once, and before the server is told of success. *)
(***************************************************************************)
EXTENDS BlockTransfer, SequenceTheorems, TLAPS

\* Taking an element out of a sequence leaves a sequence over the same set.
LEMMA RemoveAtType ==
  ASSUME NEW S, NEW q \in Seq(S), NEW i \in DOMAIN q
  PROVE  RemoveAt(q, i) \in Seq(S)
<1>1. i \in 1..Len(q)
  OBVIOUS
<1>2. SubSeq(q, 1, i - 1) \in Seq(S)
  BY <1>1
<1>3. SubSeq(q, i + 1, Len(q)) \in Seq(S)
  BY <1>1
<1> QED
  BY <1>2, <1>3 DEF RemoveAt

\* The transfers are the numbers up to the length of Blocks.
LEMMA TransfersAre == Transfers = 1..Len(Blocks) /\ Len(Blocks) \in Nat
  BY BlockAssumption DEF Transfers

\* The block a server is at is a block.
LEMMA BlockOfType ==
  ASSUME NEW t \in Transfers, NEW num \in Nat
  PROVE  BlockOf(t, num) \in Block
<1>1. (num + 1 < Blocks[t]) \in BOOLEAN
  OBVIOUS
<1> QED
  BY <1>1 DEF BlockOf, Block

DataType == [exists : BOOLEAN, num : Nat, buf : Seq(Block)]

\* Contiguous as a predicate of the block data alone.
NoHole(d) ==
  d.exists => /\ Len(d.buf) = d.num + 1
              /\ \A k \in DOMAIN d.buf : d.buf[k].num = k - 1

\* The handler keeps the type of the block data and leaves no hole in it: a
\* block is appended only under the number that follows the last one.
LEMMA HandlerKeeps ==
  ASSUME data \in DataType, NoHole(data), NEW m \in Block
  PROVE  /\ prv_coap_block_handler(m).data \in DataType
         /\ NoHole(prv_coap_block_handler(m).data)
<1> DEFINE h == prv_coap_block_handler(m)
           first == [exists |-> TRUE, num |-> 0, buf |-> <<m>>]
           more == [data EXCEPT !.num = m.num, !.buf = Append(@, m)]
<1>1. m.num \in Nat
  BY DEF Block
<1>2. first \in DataType /\ (m.num = 0 => NoHole(first))
  <2>1. <<m>> \in Seq(Block) /\ Len(<<m>>) = 1 /\ DOMAIN <<m>> = {1} /\ <<m>>[1] = m
    OBVIOUS
  <2> QED
    BY <2>1 DEF DataType, NoHole
<1>3. more \in DataType /\ (data.exists /\ m.num = data.num + 1 => NoHole(more))
  <2> DEFINE b == data.buf
  <2>1. b \in Seq(Block) /\ data.num \in Nat
    BY DEF DataType
  <2>2. Append(b, m) \in Seq(Block) /\ Len(Append(b, m)) = Len(b) + 1
    BY <2>1
  <2>3. more.exists = data.exists /\ more.num = m.num /\ more.buf = Append(b, m)
    BY DEF DataType
  <2>4. more \in DataType
    BY <2>2, <1>1 DEF DataType
  <2>5. ASSUME data.exists, m.num = data.num + 1
        PROVE  NoHole(more)
    <3>1. Len(b) = data.num + 1 /\ \A k \in DOMAIN b : b[k].num = k - 1
      BY <2>5 DEF NoHole
    <3>2. \A k \in DOMAIN Append(b, m) : Append(b, m)[k].num = k - 1
      <4> SUFFICES ASSUME NEW k \in DOMAIN Append(b, m)
                   PROVE  Append(b, m)[k].num = k - 1
        OBVIOUS
      <4>1. k \in 1..(Len(b) + 1)
        BY <2>1, <2>2
      <4>2. CASE k = Len(b) + 1
        BY <4>2, <2>1, <2>5, <3>1
      <4>3. CASE k \in DOMAIN b
        BY <4>3, <2>1, <3>1
      <4> QED
        BY <4>1, <4>2, <4>3, <2>1
    <3> QED
      BY <2>2, <2>3, <2>5, <3>1, <3>2 DEF NoHole
  <2> QED
    BY <2>4, <2>5
<1>4. \/ m.num = 0 /\ h.data = first
      \/ data.exists /\ m.num = data.num + 1 /\ h.data = more
      \/ h.data = data
  BY DEF prv_coap_block_handler, Accepted, Rejected
<1> QED
  BY <1>2, <1>3, <1>4

\* The code of the handler's result.
LEMMA HandlerCode ==
  ASSUME NEW m
  PROVE  prv_coap_block_handler(m).code \in {"231", "NO_ERROR", "408", "RETRANSMISSION"}
BY DEF prv_coap_block_handler, Accepted, Rejected

\* The inductive invariant: the types, and no hole in the buffer.
IInv == TypeOK /\ Contiguous

\* One received block keeps the invariant.
LEMMA ReceiveKeeps == IInv /\ Receive => IInv'
<1> SUFFICES ASSUME IInv, Receive
             PROVE  IInv'
  OBVIOUS
<1>1. PICK i \in Next_in(up) : /\ lwm2m_handle_packet(up[i])
                               /\ up' = RemoveAt(up, i)
                               /\ UNCHANGED <<snd, told>>
  BY DEF Receive
<1> DEFINE m == up[i]
           h == prv_coap_block_handler(m)
<1>2. up \in Seq(Block) /\ i \in DOMAIN up
  BY <1>1 DEF IInv, TypeOK, Next_in
<1>3. m \in Block
  BY <1>2
<1>4. up' \in Seq(Block)
  BY <1>1, <1>2, RemoveAtType
<1>5. data \in DataType /\ NoHole(data)
  BY DEF IInv, TypeOK, Contiguous, DataType, NoHole
<1>6. h.data \in DataType /\ NoHole(h.data)
  BY <1>3, <1>5, HandlerKeeps
<1>7. data' = h.data
  BY <1>1 DEF lwm2m_handle_packet
<1>8. down' \in Seq(Answer)
  <2>1. PICK code \in {"231", "204", "err"} :
          down' = Append(down, [t |-> m.t, num |-> m.num, code |-> code])
    BY <1>1 DEF lwm2m_handle_packet, RetransmissionAnswer
  <2>2. [t |-> m.t, num |-> m.num, code |-> code] \in Answer
    BY <1>3 DEF Block, Answer
  <2> QED
    BY <2>1, <2>2 DEF IInv, TypeOK
<1>9. runs' \in Seq(Run)
  <2>1. CASE UNCHANGED runs
    BY <2>1 DEF IInv, TypeOK
  <2>2. CASE runs' = Append(runs, [t |-> m.t, payload |-> h.data.buf])
    <3>1. [t |-> m.t, payload |-> h.data.buf] \in Run
      BY <1>3, <1>6 DEF Block, Run, DataType
    <3> QED
      BY <2>2, <3>1 DEF IInv, TypeOK
  <2> QED
    BY <1>1, <2>1, <2>2 DEF lwm2m_handle_packet
<1> QED
  BY <1>1, <1>4, <1>6, <1>7, <1>8, <1>9 DEF IInv, TypeOK, Contiguous, DataType, NoHole

\* A message that leaves a queue, and the end of a transfer, keep the types.
LEMMA EndTransferType ==
  ASSUME TypeOK, NEW outcome \in {"success", "failure"}, snd.t \in Transfers,
         EndTransfer(outcome)
  PROVE  /\ told' \in [Transfers -> {"nothing", "success", "failure"}]
         /\ snd' \in [t : 1..(Len(Blocks) + 1), num : Nat, copies : 0..MaxCopies]
<1>1. snd.t + 1 \in 1..(Len(Blocks) + 1) /\ 0 \in 0..MaxCopies
  BY TransfersAre, BlockAssumption
<1> QED
  BY <1>1 DEF EndTransfer, TypeOK

\* The steps of the server and the network keep the invariant.
LEMMA OthersKeep == IInv /\ (Transmit \/ GetAnswer \/ GiveUp \/ Lose) => IInv'
<1> USE DEF IInv
<1>1. ASSUME IInv, Transmit PROVE IInv'
  <2>1. up' \in Seq(Block)
    BY <1>1, BlockOfType DEF Transmit, TypeOK
  <2>2. snd' \in [t : 1..(Len(Blocks) + 1), num : Nat, copies : 0..MaxCopies]
    <3>1. snd.copies + 1 \in 0..MaxCopies
      BY <1>1, BlockAssumption DEF Transmit, TypeOK
    <3> QED
      BY <1>1, <3>1 DEF Transmit, TypeOK
  <2> QED
    BY <1>1, <2>1, <2>2 DEF Transmit, TypeOK, Contiguous
<1>2. ASSUME IInv, GetAnswer PROVE IInv'
  <2>1. PICK i \in Next_in(down) :
          /\ IF down[i].t = snd.t /\ down[i].num = snd.num /\ snd.copies > 0
             THEN \/ /\ snd' = [snd EXCEPT !.num = @ + 1, !.copies = 0]
                     /\ UNCHANGED told
                  \/ EndTransfer("success")
                  \/ EndTransfer("failure")
             ELSE UNCHANGED <<snd, told>>
          /\ down' = RemoveAt(down, i)
          /\ UNCHANGED <<data, up, runs>>
    BY <1>2 DEF GetAnswer
  <2>2. down \in Seq(Answer) /\ i \in DOMAIN down
    BY <1>2, <2>1 DEF TypeOK, Next_in
  <2>3. down' \in Seq(Answer)
    BY <2>1, <2>2, RemoveAtType
  <2>4. down[i].t \in Transfers
    <3>1. down[i] \in Answer
      BY <2>2
    <3> QED
      BY <3>1 DEF Answer
  <2>5. /\ told' \in [Transfers -> {"nothing", "success", "failure"}]
        /\ snd' \in [t : 1..(Len(Blocks) + 1), num : Nat, copies : 0..MaxCopies]
    <3>1. CASE UNCHANGED <<snd, told>>
      BY <3>1, <1>2 DEF TypeOK
    <3>2. CASE snd' = [snd EXCEPT !.num = @ + 1, !.copies = 0] /\ UNCHANGED told
      <4>1. snd \in [t : 1..(Len(Blocks) + 1), num : Nat, copies : 0..MaxCopies]
        BY <1>2 DEF TypeOK
      <4>2. 0 \in 0..MaxCopies /\ snd.num + 1 \in Nat
        BY <4>1, BlockAssumption
      <4>3. snd' \in [t : 1..(Len(Blocks) + 1), num : Nat, copies : 0..MaxCopies]
        BY <3>2, <4>1, <4>2
      <4> QED
        BY <3>2, <4>3, <1>2 DEF TypeOK
    <3>3. CASE snd.t \in Transfers /\ (EndTransfer("success") \/ EndTransfer("failure"))
      BY <3>3, <1>2, EndTransferType
    <3> QED
      BY <2>1, <2>4, <3>1, <3>2, <3>3
  <2> QED
    BY <1>2, <2>1, <2>3, <2>5 DEF TypeOK, Contiguous
<1>3. ASSUME IInv, GiveUp PROVE IInv'
  <2>1. snd.t \in Transfers /\ EndTransfer("failure") /\ UNCHANGED <<data, up, down, runs>>
    BY <1>3 DEF GiveUp
  <2> QED
    BY <1>3, <2>1, EndTransferType DEF TypeOK, Contiguous
<1>4. ASSUME IInv, Lose PROVE IInv'
  <2>1. up' \in Seq(Block) /\ down' \in Seq(Answer)
    BY <1>4, RemoveAtType DEF Lose, TypeOK
  <2> QED
    BY <1>4, <2>1 DEF Lose, TypeOK, Contiguous
<1> QED
  BY <1>1, <1>2, <1>3, <1>4

\* The inductive invariant holds in every reachable state.
THEOREM Invariance == Spec => []IInv
<1>1. ASSUME Blocks # <<>>, Init PROVE IInv
  BY <1>1, TransfersAre, BlockAssumption DEF Init, IInv, TypeOK, Contiguous
<1>2. ASSUME Blocks = <<>>, Init PROVE IInv
  BY <1>2, TransfersAre, BlockAssumption DEF Init, IInv, TypeOK, Contiguous
<1>3. IInv /\ [Next]_vars => IInv'
  <2>1. IInv /\ UNCHANGED vars => IInv'
    BY DEF IInv, TypeOK, Contiguous, vars
  <2> QED
    BY <2>1, ReceiveKeeps, OthersKeep DEF Next
<1>4. Init => IInv
  BY <1>1, <1>2
<1> QED
  BY <1>3, <1>4, PTL DEF Spec

\* The types of the block data, the messages and the server's state
\* (lwm2m_block_data_t) are kept by every step.
THEOREM TypeCorrect == Spec => []TypeOK
  BY Invariance, PTL DEF IInv

\* Whatever is lost, repeated or reordered, in whatever number of transfers,
\* prv_coap_block_handler never leaves a hole in the buffer it hands on.
THEOREM BufferContiguous == Spec => []Contiguous
  BY Invariance, PTL DEF IInv
----------------------------------------------------------------------------
\* Taking out an element moves up the ones behind it.
LEMMA RemoveAtElements ==
  ASSUME NEW S, NEW q \in Seq(S), NEW i \in DOMAIN q
  PROVE  /\ Len(RemoveAt(q, i)) = Len(q) - 1
         /\ \A j \in DOMAIN RemoveAt(q, i) :
              /\ j \in DOMAIN q /\ j + 1 \in DOMAIN q
              /\ RemoveAt(q, i)[j] = IF j < i THEN q[j] ELSE q[j + 1]
<1> DEFINE a == SubSeq(q, 1, i - 1)
           b == SubSeq(q, i + 1, Len(q))
<1>1. i \in 1..Len(q) /\ Len(q) \in Nat
  OBVIOUS
<1>2. a \in Seq(S) /\ Len(a) = i - 1 /\ \A j \in 1..(i - 1) : a[j] = q[j]
  BY <1>1
<1>3. b \in Seq(S) /\ Len(b) = Len(q) - i /\ \A j \in 1..(Len(q) - i) : b[j] = q[j + i]
  BY <1>1
<1>4. RemoveAt(q, i) = a \o b
  BY DEF RemoveAt
<1> HIDE DEF a, b
<1>5. Len(a \o b) = Len(q) - 1 /\ DOMAIN (a \o b) = 1..(Len(q) - 1)
  BY <1>1, <1>2, <1>3
<1>6. \A j \in 1..(Len(q) - 1) : (a \o b)[j] = IF j < i THEN q[j] ELSE q[j + 1]
  <2> SUFFICES ASSUME NEW j \in 1..(Len(q) - 1)
               PROVE  (a \o b)[j] = IF j < i THEN q[j] ELSE q[j + 1]
    OBVIOUS
  <2>1. CASE j < i
    BY <2>1, <1>1, <1>2, <1>3
  <2>2. CASE ~(j < i)
    <3>1. j - (i - 1) \in 1..(Len(q) - i) /\ j - (i - 1) + i = j + 1
      BY <2>2, <1>1
    <3>2. j \in (Len(a) + 1)..(Len(a) + Len(b)) /\ j - Len(a) = j - (i - 1)
      BY <2>2, <1>1, <1>2, <1>3
    <3>3. (a \o b)[j] = b[j - Len(a)]
      <4>1. a \in Seq(S) /\ b \in Seq(S)
        BY <1>2, <1>3
      <4>2. \A k \in 1..(Len(a) + Len(b)) :
              (a \o b)[k] = IF k <= Len(a) THEN a[k] ELSE b[k - Len(a)]
        BY <4>1, ConcatProperties
      <4>3. j \in 1..(Len(a) + Len(b)) /\ ~(j <= Len(a))
        BY <3>2, <1>1, <1>2, <1>3
      <4> QED
        BY <4>2, <4>3
    <3> QED
      BY <2>2, <3>1, <3>2, <3>3, <1>3
  <2> QED
    BY <2>1, <2>2
<1> QED
  BY <1>1, <1>4, <1>5, <1>6

(***************************************************************************)
(* On a network that keeps the order: the inductive invariant. Positions   *)
(* are pairs of a transfer and a block number. Held and data.num are the   *)
(* position of the receiver; it never is behind a block that was answered  *)
(* with 2.31, nor ahead of a block in flight.                              *)
(***************************************************************************)
NotAfter(t1, n1, t2, n2) == t1 < t2 \/ (t1 = t2 /\ n1 <= n2)
Held(d) == d.buf[1].t
Reached(d, t, n) == d.exists /\ NotAfter(t, n, Held(d), d.num)
WasRun(r, t) == \E i \in DOMAIN r : r[i].t = t
OfTransfer(m) == m = BlockOf(m.t, m.num) /\ m.num < Blocks[m.t]

\* The buffer is the beginning of one transfer; when it is the whole of it,
\* it was handed on.
BufferFits ==
  data.exists => /\ data.num < Blocks[Held(data)]
                 /\ \A k \in DOMAIN data.buf : data.buf[k] = BlockOf(Held(data), k - 1)
                 /\ NotAfter(Held(data), data.num, snd.t, snd.num)
                 /\ data.num > 0 /\ data.num + 1 = Blocks[Held(data)] => WasRun(runs, Held(data))

\* The server only goes on from a block the receiver has.
SenderFits ==
  /\ snd.t \in Transfers => snd.num < Blocks[snd.t]
  /\ snd.num > 0 => Reached(data, snd.t, snd.num - 1)

\* Blocks in flight are in order, between the receiver and the server.
UpFits ==
  \A i \in DOMAIN up :
    /\ OfTransfer(up[i])
    /\ NotAfter(up[i].t, up[i].num, snd.t, snd.num)
    /\ data.exists => NotAfter(Held(data), data.num, up[i].t, up[i].num)
    /\ up[i].num > 0 => Reached(data, up[i].t, up[i].num - 1)
    /\ \A j \in DOMAIN up : i < j => NotAfter(up[i].t, up[i].num, up[j].t, up[j].num)

DownFits ==
  \A i \in DOMAIN down :
    /\ down[i].code = "231" => Reached(data, down[i].t, down[i].num)
    /\ down[i].code = "204" => WasRun(runs, down[i].t)

\* The receiver is past the last block of what it handed on.
RunsFit ==
  \A i \in DOMAIN runs :
     Blocks[runs[i].t] > 1 => Reached(data, runs[i].t, Blocks[runs[i].t] - 1)

OrderInv ==
  /\ IInv /\ BufferFits /\ SenderFits /\ UpFits /\ DownFits /\ RunsFit
  /\ DeliveredWhole /\ ExecutedOnce /\ SuccessMeansExecuted

\* What the handler makes of a block: refused, the one stored last, or stored.
Refused(h) == h.code = "408" /\ h.data = data
Repeated(m, h) ==
  /\ h.code = "RETRANSMISSION" /\ h.data = data
  /\ data.exists /\ Held(data) = m.t /\ data.num = m.num /\ m.num > 0
Stored(m, h) ==
  /\ h.code = IF m.more THEN "231" ELSE "NO_ERROR"
  /\ h.data.exists /\ h.data.num = m.num
  /\ h.data.buf \in Seq(Block) /\ Len(h.data.buf) = m.num + 1
  /\ \A k \in 1..(m.num + 1) : h.data.buf[k] = BlockOf(m.t, k - 1)
  /\ m.num > 0 => data.exists /\ Held(data) = m.t /\ data.num = m.num - 1

\* The handler on an ordered network: the block is refused, was the last one
\* stored, or the buffer becomes its transfer up to it.
LEMMA HandlerInOrder ==
  ASSUME IInv, BufferFits, NEW m \in Block, OfTransfer(m),
         data.exists => NotAfter(Held(data), data.num, m.t, m.num),
         m.num > 0 => Reached(data, m.t, m.num - 1)
  PROVE  LET h == prv_coap_block_handler(m)
         IN  Refused(h) \/ Repeated(m, h) \/ Stored(m, h)
<1> DEFINE h == prv_coap_block_handler(m)
<1>1. m.num \in Nat /\ m.t \in Nat /\ m = BlockOf(m.t, m.num) /\ m.more \in BOOLEAN
  BY TransfersAre DEF Block, OfTransfer
<1>2. CASE m.num = 0
  <2>1. h = [code |-> IF m.more THEN "231" ELSE "NO_ERROR",
             data |-> [exists |-> TRUE, num |-> 0, buf |-> <<m>>]]
    BY <1>2 DEF prv_coap_block_handler, Accepted
  <2>2. <<m>> \in Seq(Block) /\ Len(<<m>>) = 1 /\ <<m>>[1] = m
    OBVIOUS
  <2>3. \A k \in 1..(m.num + 1) : <<m>>[k] = BlockOf(m.t, k - 1)
    BY <1>1, <1>2, <2>2
  <2>4. /\ h.code = (IF m.more THEN "231" ELSE "NO_ERROR")
        /\ h.data.exists /\ h.data.num = 0 /\ h.data.buf = <<m>>
    BY <2>1
  <2> HIDE DEF h
  <2>5. Stored(m, h)
    BY <1>1, <1>2, <2>2, <2>3, <2>4 DEF Stored
  <2> QED
    BY <2>5 DEF h
<1>3. CASE m.num > 0
  <2>1. data.exists /\ data \in DataType /\ Contiguous
    BY <1>3 DEF Reached, IInv, TypeOK, DataType
  <2>2. /\ data.buf \in Seq(Block) /\ data.num \in Nat /\ Len(data.buf) = data.num + 1
        /\ data.buf[1] \in Block
    BY <2>1 DEF DataType, Contiguous
  <2>3. Held(data) \in Nat
    BY <2>2, TransfersAre DEF Held, Block
  <2>4. Held(data) = m.t /\ (data.num = m.num - 1 \/ data.num = m.num)
    BY <1>1, <1>3, <2>1, <2>2, <2>3 DEF Reached, NotAfter
  <2>5. CASE data.num = m.num
    <3>1. m.num # 0 /\ m.num <= data.num
      BY <1>1, <1>3, <2>2, <2>5
    <3>2. h = [code |-> "RETRANSMISSION", data |-> data]
      BY <2>1, <3>1 DEF prv_coap_block_handler, Rejected
    <3> QED
      BY <1>3, <2>1, <2>4, <2>5, <3>2 DEF Repeated
  <2>6. CASE data.num = m.num - 1 /\ ~SizeIs(data.buf, m.num)
    BY <1>1, <1>3, <2>1, <2>2, <2>6 DEF prv_coap_block_handler, Rejected, Refused
  <2>7. CASE data.num = m.num - 1 /\ SizeIs(data.buf, m.num)
    <3>1. h = Accepted([data EXCEPT !.num = m.num, !.buf = Append(@, m)], m)
      BY <1>1, <1>3, <2>1, <2>2, <2>7 DEF prv_coap_block_handler
    <3>2. /\ h.code = IF m.more THEN "231" ELSE "NO_ERROR"
          /\ h.data.exists /\ h.data.num = m.num /\ h.data.buf = Append(data.buf, m)
      <4> DEFINE d == [data EXCEPT !.num = m.num, !.buf = Append(@, m)]
      <4>1. d.exists = data.exists /\ d.num = m.num /\ d.buf = Append(data.buf, m)
        BY <2>1 DEF DataType
      <4>2. h.code = (IF m.more THEN "231" ELSE "NO_ERROR") /\ h.data = d
        BY <3>1 DEF Accepted
      <4> QED
        BY <2>1, <4>1, <4>2
    <3>3. Append(data.buf, m) \in Seq(Block) /\ Len(Append(data.buf, m)) = m.num + 1
      BY <1>1, <2>2, <2>7
    <3>4. \A k \in 1..(m.num + 1) : Append(data.buf, m)[k] = BlockOf(m.t, k - 1)
      <4> SUFFICES ASSUME NEW k \in 1..(m.num + 1)
                   PROVE  Append(data.buf, m)[k] = BlockOf(m.t, k - 1)
        OBVIOUS
      <4>1. CASE k = m.num + 1
        <5>1. k = Len(data.buf) + 1 /\ k - 1 = m.num
          BY <4>1, <1>1, <2>2, <2>7
        <5>2. Append(data.buf, m)[k] = m
          BY <5>1, <2>2
        <5> QED
          BY <5>1, <5>2, <1>1
      <4>2. CASE k \in 1..m.num
        <5>1. k \in DOMAIN data.buf /\ Append(data.buf, m)[k] = data.buf[k]
          BY <4>2, <1>1, <2>2, <2>7
        <5>2. data.buf[k] = BlockOf(Held(data), k - 1)
          BY <5>1, <2>1 DEF BufferFits
        <5> QED
          BY <5>1, <5>2, <2>4
      <4>3. k = m.num + 1 \/ k \in 1..m.num
        <5>1. m.num \in Nat
          BY <1>1
        <5> QED
          BY <5>1
      <4> QED
        BY <4>1, <4>2, <4>3
    <3> QED
      BY <2>1, <2>4, <2>7, <3>2, <3>3, <3>4 DEF Stored
  <2> QED
    BY <2>4, <2>5, <2>6, <2>7
<1> QED
  BY <1>1, <1>2, <1>3


\* Positions are ordered.
LEMMA NotAfterTransitive ==
  ASSUME NEW t1 \in Int, NEW n1 \in Int, NEW t2 \in Int, NEW n2 \in Int,
         NEW t3 \in Int, NEW n3 \in Int,
         NotAfter(t1, n1, t2, n2), NotAfter(t2, n2, t3, n3)
  PROVE  NotAfter(t1, n1, t3, n3)
BY DEF NotAfter

\* The receiver's position is a pair of numbers.
LEMMA HeldType ==
  ASSUME IInv, data.exists
  PROVE  Held(data) \in Transfers /\ Held(data) \in Nat /\ data.num \in Nat
<1>1. data.buf \in Seq(Block) /\ data.num \in Nat /\ Len(data.buf) = data.num + 1
  BY DEF IInv, TypeOK, Contiguous
<1>2. data.buf[1] \in Block
  BY <1>1
<1> QED
  BY <1>1, <1>2, TransfersAre DEF Held, Block

\* A block from the queue of an ordered network is what the handler expects.
LEMMA HeadOfUp ==
  ASSUME OrderInv, NEW i \in DOMAIN up
  PROVE  /\ up[i] \in Block /\ up[i].t \in Nat /\ up[i].num \in Nat
         /\ up[i].t \in Transfers /\ up[i].more \in BOOLEAN
         /\ up[i].num < Blocks[up[i].t] /\ Blocks[up[i].t] \in Nat \ {0}
         /\ up[i].more <=> up[i].num + 1 < Blocks[up[i].t]
         /\ OfTransfer(up[i])
<1>1. up[i] \in Block
  BY DEF OrderInv, IInv, TypeOK
<1>2. up[i].t \in Nat /\ up[i].t \in Transfers /\ up[i].num \in Nat /\ up[i].more \in BOOLEAN
  BY <1>1, TransfersAre DEF Block
<1>3. Blocks[up[i].t] \in Nat \ {0}
  BY <1>2, BlockAssumption DEF Transfers
<1>4. OfTransfer(up[i])
  BY DEF OrderInv, UpFits
<1>5. up[i].more <=> up[i].num + 1 < Blocks[up[i].t]
  <2> DEFINE m == up[i]
  <2>1. m = [t |-> m.t, num |-> m.num, more |-> m.num + 1 < Blocks[m.t]]
    BY <1>4 DEF OfTransfer, BlockOf
  <2> HIDE DEF m
  <2>2. m.more = (m.num + 1 < Blocks[m.t])
    BY <2>1
  <2> QED
    BY <2>2 DEF m
<1> QED
  BY <1>1, <1>2, <1>3, <1>4, <1>5 DEF OfTransfer

\* One block received in order keeps the invariant.
LEMMA ReceiveInOrder ==
  ASSUME Reorder = FALSE, OrderInv, Receive
  PROVE  OrderInv'
<1> DEFINE m == up[1]
           h == prv_coap_block_handler(m)
<1>1. /\ 1 \in DOMAIN up /\ lwm2m_handle_packet(m) /\ up' = RemoveAt(up, 1)
      /\ UNCHANGED <<snd, told>>
  BY DEF Receive, Next_in
<1>2. IInv /\ IInv'
  BY ReceiveKeeps DEF OrderInv
<1>3. /\ m \in Block /\ m.t \in Nat /\ m.num \in Nat /\ m.t \in Transfers /\ m.more \in BOOLEAN
      /\ m.num < Blocks[m.t] /\ Blocks[m.t] \in Nat \ {0}
      /\ m.more <=> m.num + 1 < Blocks[m.t]
      /\ OfTransfer(m)
  BY <1>1, HeadOfUp
<1>4. /\ data.exists => NotAfter(Held(data), data.num, m.t, m.num)
      /\ m.num > 0 => Reached(data, m.t, m.num - 1)
      /\ NotAfter(m.t, m.num, snd.t, snd.num)
      /\ \A j \in DOMAIN up : 1 < j => NotAfter(m.t, m.num, up[j].t, up[j].num)
  BY <1>1 DEF OrderInv, UpFits
<1>5. Refused(h) \/ Repeated(m, h) \/ Stored(m, h)
  BY <1>2, <1>3, <1>4, HandlerInOrder DEF OrderInv
<1>6. data' = h.data
  BY <1>1 DEF lwm2m_handle_packet
<1>7. \A j \in DOMAIN up' : j + 1 \in DOMAIN up /\ j \in Nat \ {0} /\ up'[j] = up[j + 1]
  <2>1. up \in Seq(Block) /\ up' \in Seq(Block)
    BY <1>2 DEF IInv, TypeOK
  <2>2. \A j \in DOMAIN up' : j \in Nat \ {0}
    BY <2>1
  <2> QED
    BY <1>1, <2>1, <2>2, RemoveAtElements
<1>8. Stored(m, h) => data'.exists /\ Held(data') = m.t /\ data'.num = m.num
  <2>1. ASSUME Stored(m, h) PROVE Held(data') = m.t
    <3>1. data'.buf[1] = BlockOf(m.t, 0)
      <4>1. \A k \in 1..(m.num + 1) : data'.buf[k] = BlockOf(m.t, k - 1)
        BY <2>1, <1>6 DEF Stored
      <4>2. 1 \in 1..(m.num + 1) /\ 1 - 1 = 0
        BY <1>3
      <4> QED
        BY <4>1, <4>2
    <3> QED
      BY <3>1 DEF Held, BlockOf
  <2> QED
    BY <2>1, <1>6 DEF Stored
\* The receiver goes forward, up to this block.
<1>9. /\ \A t, n \in Int : Reached(data, t, n) => Reached(data', t, n)
      /\ data'.exists => NotAfter(Held(data'), data'.num, m.t, m.num)
  <2>1. CASE data' = data
    BY <2>1, <1>4 DEF Reached, Held
  <2>2. CASE Stored(m, h)
    <3>1. NotAfter(m.t, m.num, m.t, m.num)
      BY <1>3 DEF NotAfter
    <3>2. ASSUME NEW t \in Int, NEW n \in Int, Reached(data, t, n) PROVE Reached(data', t, n)
      <4>1. Held(data) \in Int /\ data.num \in Int
        BY <1>2, <3>2, HeldType DEF Reached
      <4>2. NotAfter(t, n, m.t, m.num)
        BY <1>3, <1>4, <3>2, <4>1, NotAfterTransitive DEF Reached
      <4> QED
        BY <2>2, <1>8, <4>2 DEF Reached
    <3> QED
      BY <2>2, <1>8, <3>1, <3>2
  <2> QED
    BY <1>5, <1>6, <2>1, <2>2 DEF Refused, Repeated
<1>10. runs \in Seq(Run) /\ \A k \in DOMAIN runs : runs[k].t \in Transfers /\ runs[k].t \in Int
  <2>1. runs \in Seq(Run)
    BY <1>2 DEF IInv, TypeOK
  <2>2. \A k \in DOMAIN runs : runs[k] \in Run
    BY <2>1
  <2> QED
    BY <2>1, <2>2, TransfersAre DEF Run
\* What is handed on is new, and is the whole transfer.
<1>11. ASSUME h.code = "NO_ERROR",
              runs' = Append(runs, [t |-> m.t, payload |-> h.data.buf])
       PROVE  /\ Stored(m, h) /\ ~m.more /\ WasRun(runs', m.t) /\ \A t : WasRun(runs, t) => WasRun(runs', t)
              /\ DeliveredWhole' /\ ExecutedOnce' /\ RunsFit'
  <2> DEFINE r == [t |-> m.t, payload |-> h.data.buf]
  <2>1. Stored(m, h) /\ ~m.more /\ m.num + 1 = Blocks[m.t]
    <3>1. Stored(m, h)
      BY <1>5, <1>11 DEF Refused, Repeated
    <3>2. ~m.more
      BY <1>3, <1>11, <3>1 DEF Stored
    <3> QED
      BY <1>3, <3>1, <3>2
  <2>2. r \in Run
    BY <1>3, <2>1 DEF Stored, Run
  <2>3. h.data.buf = Payload(m.t)
    <3>1. h.data.buf \in Seq(Block) /\ Len(h.data.buf) = Blocks[m.t]
      BY <1>3, <2>1 DEF Stored
    <3>2. \A k \in 1..Blocks[m.t] : h.data.buf[k] = BlockOf(m.t, k - 1)
      BY <1>3, <2>1 DEF Stored
    <3>3. Payload(m.t) \in Seq(Block) /\ Len(Payload(m.t)) = Blocks[m.t]
      <4>1. \A k \in 1..Blocks[m.t] : BlockOf(m.t, k - 1) \in Block
        BY <1>3, BlockOfType
      <4> QED
        BY <1>3, <4>1 DEF Payload
    <3>4. \A k \in 1..Blocks[m.t] : Payload(m.t)[k] = BlockOf(m.t, k - 1)
      BY DEF Payload
    <3> QED
      BY <3>1, <3>2, <3>3, <3>4, SeqEqual
  <2>4. /\ DOMAIN runs' = 1..(Len(runs) + 1) /\ Len(runs) \in Nat
        /\ runs'[Len(runs) + 1] = r
        /\ \A k \in 1..Len(runs) : k \in DOMAIN runs /\ runs'[k] = runs[k]
    BY <1>10, <1>11, <2>2
  <2>5. DeliveredWhole'
    <3> SUFFICES ASSUME NEW k \in DOMAIN runs'
                 PROVE  runs'[k].payload = Payload(runs'[k].t)
      BY DEF DeliveredWhole, Payload, BlockOf
    <3>1. CASE k = Len(runs) + 1
      BY <2>3, <2>4, <3>1
    <3>2. CASE k \in 1..Len(runs)
      BY <2>4, <3>2 DEF OrderInv, DeliveredWhole
    <3> QED
      BY <2>4, <3>1, <3>2
  <2>6. ASSUME Blocks[m.t] > 1, NEW k \in DOMAIN runs PROVE runs[k].t # m.t
    <3> SUFFICES ASSUME runs[k].t = m.t PROVE FALSE
      OBVIOUS
    <3>1. Reached(data, m.t, m.num)
      BY <1>3, <2>1, <2>6 DEF OrderInv, RunsFit
    <3>2. m.num > 0
      BY <1>3, <2>1, <2>6
    <3>3. data.exists /\ Held(data) = m.t /\ data.num = m.num - 1
      BY <2>1, <3>2 DEF Stored
    <3> QED
      BY <1>3, <3>1, <3>3 DEF Reached, NotAfter
  <2>7. ExecutedOnce'
    <3> SUFFICES ASSUME NEW i \in DOMAIN runs', NEW j \in DOMAIN runs',
                        runs'[i].t = runs'[j].t, Blocks[runs'[i].t] > 1
                 PROVE  i = j
      BY DEF ExecutedOnce
    <3>1. CASE i \in 1..Len(runs) /\ j \in 1..Len(runs)
      BY <2>4, <3>1 DEF OrderInv, ExecutedOnce
    <3>2. CASE i = Len(runs) + 1 /\ j \in 1..Len(runs)
      BY <2>4, <2>6, <3>2
    <3>3. CASE j = Len(runs) + 1 /\ i \in 1..Len(runs)
      BY <2>4, <2>6, <3>3
    <3> QED
      BY <2>4, <3>1, <3>2, <3>3
  <2>8. RunsFit' /\ WasRun(runs', m.t) /\ \A t : WasRun(runs, t) => WasRun(runs', t)
    <3>1. Reached(data', m.t, m.num)
      BY <1>3, <1>8, <2>1 DEF Reached, NotAfter
    <3>2. ASSUME NEW k \in DOMAIN runs', Blocks[runs'[k].t] > 1
          PROVE  Reached(data', runs'[k].t, Blocks[runs'[k].t] - 1)
      <4>1. CASE k = Len(runs) + 1
        <5>1. runs'[k].t = m.t /\ Blocks[runs'[k].t] - 1 = m.num
          BY <1>3, <2>1, <2>4, <4>1
        <5> QED
          BY <3>1, <5>1
      <4>2. CASE k \in 1..Len(runs)
        <5>1. runs'[k] = runs[k] /\ k \in DOMAIN runs
          BY <2>4, <4>2
        <5>2. Blocks[runs[k].t] - 1 \in Int
          BY <1>10, <5>1, BlockAssumption DEF Transfers
        <5>3. Reached(data, runs[k].t, Blocks[runs[k].t] - 1)
          BY <3>2, <5>1 DEF OrderInv, RunsFit
        <5> QED
          BY <1>9, <1>10, <5>1, <5>2, <5>3
      <4> QED
        BY <2>4, <3>2, <4>1, <4>2
    <3>3. WasRun(runs', m.t)
      BY <2>4 DEF WasRun
    <3>4. ASSUME NEW t, WasRun(runs, t) PROVE WasRun(runs', t)
      BY <1>10, <2>4, <3>4 DEF WasRun
    <3> QED
      BY <3>2, <3>3, <3>4 DEF RunsFit
  <2> QED
    BY <2>1, <2>5, <2>7, <2>8
\* In every case: what is answered, and what follows for what was handed on.
<1>12. PICK code \in {"231", "204", "err"} :
         /\ down' = Append(down, [t |-> m.t, num |-> m.num, code |-> code])
         /\ code = "231" => Reached(data', m.t, m.num)
         /\ code = "204" => WasRun(runs', m.t)
         /\ DeliveredWhole' /\ ExecutedOnce' /\ RunsFit'
         /\ \A t : WasRun(runs, t) => WasRun(runs', t)
         /\ data'.exists /\ data'.num > 0 /\ data'.num + 1 = Blocks[Held(data')]
            => WasRun(runs', Held(data'))
  <2>1. ASSUME UNCHANGED runs
        PROVE  /\ DeliveredWhole' /\ ExecutedOnce' /\ RunsFit'
               /\ \A t : WasRun(runs, t) => WasRun(runs', t)
    <3>1. ASSUME NEW k \in DOMAIN runs, Blocks[runs[k].t] > 1
          PROVE  Reached(data', runs[k].t, Blocks[runs[k].t] - 1)
      <4>1. Reached(data, runs[k].t, Blocks[runs[k].t] - 1)
        BY <3>1 DEF OrderInv, RunsFit
      <4>2. Blocks[runs[k].t] - 1 \in Int
        BY <1>10, BlockAssumption DEF Transfers
      <4> QED
        BY <1>9, <1>10, <4>1, <4>2
    <3>2. DeliveredWhole' /\ ExecutedOnce'
      BY <2>1 DEF OrderInv, DeliveredWhole, ExecutedOnce, Payload, BlockOf
    <3> QED
      BY <2>1, <3>1, <3>2 DEF RunsFit
  <2>2. CASE /\ h.code = "NO_ERROR"
             /\ runs' = Append(runs, [t |-> m.t, payload |-> h.data.buf])
             /\ \E result \in {"204", "err"} :
                  down' = Append(down, [t |-> m.t, num |-> m.num, code |-> result])
    <3>1. /\ Stored(m, h) /\ WasRun(runs', m.t) /\ \A t : WasRun(runs, t) => WasRun(runs', t)
          /\ DeliveredWhole' /\ ExecutedOnce' /\ RunsFit'
      BY <2>2, <1>11
    <3>2. PICK result \in {"204", "err"} :
            down' = Append(down, [t |-> m.t, num |-> m.num, code |-> result])
      BY <2>2
    <3>3. Held(data') = m.t
      BY <1>8, <3>1
    <3>4. result \in {"231", "204", "err"} /\ result # "231"
      BY <3>2
    <3> QED
      BY <3>1, <3>2, <3>3, <3>4
  <2>3. CASE /\ h.code = "231" /\ UNCHANGED runs
             /\ down' = Append(down, [t |-> m.t, num |-> m.num, code |-> "231"])
    <3>1. Stored(m, h) /\ m.more
      <4>1. Stored(m, h)
        BY <1>5, <2>3 DEF Refused, Repeated
      <4> QED
        BY <1>3, <2>3, <4>1 DEF Stored
    <3>2. Reached(data', m.t, m.num)
      BY <1>3, <1>8, <3>1 DEF Reached, NotAfter
    <3>3. data'.num + 1 # Blocks[Held(data')]
      BY <1>3, <1>8, <3>1
    <3> QED
      BY <2>1, <2>3, <3>2, <3>3
  <2>4. CASE /\ h.code = "408" /\ UNCHANGED runs
             /\ down' = Append(down, [t |-> m.t, num |-> m.num, code |-> "err"])
    <3>1. data' = data
      BY <1>5, <1>6, <2>4 DEF Refused, Repeated, Stored
    <3>2. data'.exists /\ data'.num > 0 /\ data'.num + 1 = Blocks[Held(data')]
            => WasRun(runs', Held(data'))
      BY <3>1, <2>4 DEF OrderInv, BufferFits
    <3> QED
      BY <2>1, <2>4, <3>2
  <2>5. CASE /\ h.code = "RETRANSMISSION" /\ UNCHANGED runs
             /\ down' = Append(down, [t |-> m.t, num |-> m.num, code |-> RetransmissionAnswer(m)])
    <3>1. Repeated(m, h)
      BY <1>5, <2>5 DEF Refused, Stored
    <3>2. data' = data /\ data.exists /\ Held(data) = m.t /\ data.num = m.num /\ m.num > 0
      BY <1>6, <3>1 DEF Repeated
    <3>3. data'.exists /\ data'.num > 0 /\ data'.num + 1 = Blocks[Held(data')]
            => WasRun(runs', Held(data'))
      BY <3>2, <2>5 DEF OrderInv, BufferFits
    <3>4. CASE m.more
      <4>1. RetransmissionAnswer(m) = "231"
        BY <3>4 DEF RetransmissionAnswer
      <4>2. Reached(data', m.t, m.num)
        BY <1>3, <3>2 DEF Reached, NotAfter
      <4> QED
        BY <2>1, <2>5, <3>3, <4>1, <4>2
    <3>5. CASE ~m.more
      <4>1. RetransmissionAnswer(m) = "204"
        BY <3>5 DEF RetransmissionAnswer
      <4>2. m.num + 1 = Blocks[m.t]
        BY <1>3, <3>5
      <4>3. WasRun(runs', m.t)
        BY <3>2, <3>3, <4>2
      <4> QED
        BY <2>1, <2>5, <3>3, <4>1, <4>3
    <3> QED
      BY <3>4, <3>5
  <2> QED
    BY <1>1, <2>2, <2>3, <2>4, <2>5 DEF lwm2m_handle_packet
<1>13. BufferFits'
  <2> SUFFICES ASSUME data'.exists
               PROVE  /\ data'.num < Blocks[Held(data')]
                      /\ \A k \in DOMAIN data'.buf : data'.buf[k] = BlockOf(Held(data'), k - 1)
                      /\ NotAfter(Held(data'), data'.num, snd.t, snd.num)
    BY <1>1, <1>12 DEF BufferFits, BlockOf
  <2>1. CASE data' = data
    BY <2>1 DEF OrderInv, BufferFits
  <2>2. CASE Stored(m, h)
    <3>1. DOMAIN data'.buf = 1..(m.num + 1)
      BY <1>3, <1>6, <2>2 DEF Stored
    <3> QED
      BY <1>3, <1>4, <1>6, <1>8, <2>2, <3>1 DEF Stored
  <2> QED
    BY <1>5, <1>6, <2>1, <2>2 DEF Refused, Repeated
<1>14. SenderFits'
  <2>1. snd.t \in Int /\ snd.num \in Nat
    BY <1>2 DEF IInv, TypeOK
  <2>2. snd.num > 0 => Reached(data', snd.t, snd.num - 1)
    BY <1>9, <2>1 DEF OrderInv, SenderFits
  <2> QED
    BY <1>1, <2>2 DEF OrderInv, SenderFits
<1>15. UpFits'
  <2> SUFFICES ASSUME NEW j \in DOMAIN up'
               PROVE  /\ OfTransfer(up'[j])
                      /\ NotAfter(up'[j].t, up'[j].num, snd.t, snd.num)
                      /\ data'.exists => NotAfter(Held(data'), data'.num, up'[j].t, up'[j].num)
                      /\ up'[j].num > 0 => Reached(data', up'[j].t, up'[j].num - 1)
                      /\ \A k \in DOMAIN up' :
                           j < k => NotAfter(up'[j].t, up'[j].num, up'[k].t, up'[k].num)
    BY <1>1 DEF UpFits, OfTransfer, BlockOf
  <2> DEFINE n == up[j + 1]
  <2>1. j + 1 \in DOMAIN up /\ up'[j] = n /\ 1 < j + 1 /\ j \in Nat
    BY <1>7
  <2>2. n.t \in Nat /\ n.num \in Nat
    BY <2>1, HeadOfUp
  <2>3. /\ OfTransfer(n) /\ NotAfter(n.t, n.num, snd.t, snd.num)
        /\ n.num > 0 => Reached(data, n.t, n.num - 1)
        /\ \A k \in DOMAIN up : j + 1 < k => NotAfter(n.t, n.num, up[k].t, up[k].num)
    BY <2>1 DEF OrderInv, UpFits
  <2>4. data'.exists => NotAfter(Held(data'), data'.num, n.t, n.num)
    <3>1. NotAfter(m.t, m.num, n.t, n.num)
      BY <1>4, <2>1
    <3>2. ASSUME data'.exists PROVE Held(data') \in Int /\ data'.num \in Int
      <4>1. CASE data' = data
        BY <1>2, <3>2, <4>1, HeldType
      <4>2. CASE Stored(m, h)
        BY <1>3, <1>8, <4>2
      <4> QED
        BY <1>5, <1>6, <4>1, <4>2 DEF Refused, Repeated
    <3> QED
      BY <1>3, <1>9, <2>2, <3>1, <3>2, NotAfterTransitive
  <2>5. n.num > 0 => Reached(data', n.t, n.num - 1)
    BY <1>9, <2>2, <2>3
  <2>6. ASSUME NEW k \in DOMAIN up', j < k
        PROVE  NotAfter(up'[j].t, up'[j].num, up'[k].t, up'[k].num)
    <3>1. k + 1 \in DOMAIN up /\ up'[k] = up[k + 1] /\ j + 1 < k + 1
      BY <1>7, <2>1, <2>6
    <3> QED
      BY <2>1, <2>3, <3>1
  <2> QED
    BY <2>1, <2>3, <2>4, <2>5, <2>6
<1>16. DownFits'
  <2>1. down \in Seq(Answer)
    BY <1>2 DEF IInv, TypeOK
  <2> DEFINE a == [t |-> m.t, num |-> m.num, code |-> code]
  <2>2. a \in Answer
    BY <1>3, <1>12 DEF Answer
  <2>3. /\ DOMAIN down' = 1..(Len(down) + 1) /\ Len(down) \in Nat /\ down'[Len(down) + 1] = a
        /\ \A k \in 1..Len(down) : k \in DOMAIN down /\ down'[k] = down[k]
    BY <1>12, <2>1, <2>2
  <2> SUFFICES ASSUME NEW k \in DOMAIN down'
               PROVE  /\ down'[k].code = "231" => Reached(data', down'[k].t, down'[k].num)
                      /\ down'[k].code = "204" => WasRun(runs', down'[k].t)
    BY DEF DownFits
  <2>4. CASE k = Len(down) + 1
    BY <1>12, <2>3, <2>4
  <2>5. CASE k \in 1..Len(down)
    <3>1. k \in DOMAIN down /\ down'[k] = down[k] /\ down[k] \in Answer
      BY <2>1, <2>3, <2>5
    <3>2. down[k].t \in Int /\ down[k].num \in Int
      BY <3>1, TransfersAre DEF Answer
    <3>3. /\ down[k].code = "231" => Reached(data, down[k].t, down[k].num)
          /\ down[k].code = "204" => WasRun(runs, down[k].t)
      BY <3>1 DEF OrderInv, DownFits
    <3> QED
      BY <1>9, <1>12, <3>1, <3>2, <3>3
  <2> QED
    BY <2>3, <2>4, <2>5
<1>17. SuccessMeansExecuted'
  BY <1>1, <1>12 DEF OrderInv, SuccessMeansExecuted, WasRun, Transfers
<1> QED
  BY <1>2, <1>12, <1>13, <1>14, <1>15, <1>16, <1>17 DEF OrderInv

\* The server's position.
LEMMA SenderType ==
  ASSUME IInv
  PROVE  /\ snd.t \in Nat /\ snd.num \in Nat
         /\ \A i \in DOMAIN up : up[i].t \in Nat /\ up[i].num \in Nat
         /\ \A i \in DOMAIN down : down[i].t \in Nat /\ down[i].num \in Nat
<1>1. snd.t \in Nat /\ snd.num \in Nat
  BY TransfersAre DEF IInv, TypeOK
<1>2. \A i \in DOMAIN up : up[i] \in Block
  BY DEF IInv, TypeOK
<1>3. \A i \in DOMAIN down : down[i] \in Answer
  BY DEF IInv, TypeOK
<1> QED
  BY <1>1, <1>2, <1>3, TransfersAre DEF Block, Answer

\* Blocks that leave the queue leave the others in order.
LEMMA FewerUp ==
  ASSUME OrderInv, NEW i \in DOMAIN up, up' = RemoveAt(up, i), UNCHANGED <<data, snd>>
  PROVE  UpFits'
<1>1. up \in Seq(Block)
  BY DEF OrderInv, IInv, TypeOK
<1>2. up' \in Seq(Block)
  BY <1>1, RemoveAtType
<1> DEFINE from(j) == IF j < i THEN j ELSE j + 1
<1>3. \A j \in DOMAIN up' : from(j) \in DOMAIN up /\ up'[j] = up[from(j)]
  BY <1>1, RemoveAtElements
<1>4. \A j, k \in DOMAIN up' : j < k => from(j) < from(k)
  <2>1. DOMAIN up' \subseteq Nat /\ i \in Nat
    BY <1>1, <1>2
  <2> QED
    BY <2>1
<1> HIDE DEF from
<1> SUFFICES ASSUME NEW j \in DOMAIN up'
             PROVE  /\ OfTransfer(up'[j])
                    /\ NotAfter(up'[j].t, up'[j].num, snd.t, snd.num)
                    /\ data.exists => NotAfter(Held(data), data.num, up'[j].t, up'[j].num)
                    /\ up'[j].num > 0 => Reached(data, up'[j].t, up'[j].num - 1)
                    /\ \A k \in DOMAIN up' :
                         j < k => NotAfter(up'[j].t, up'[j].num, up'[k].t, up'[k].num)
  BY DEF UpFits, OfTransfer, BlockOf
<1>5. from(j) \in DOMAIN up /\ up'[j] = up[from(j)]
  BY <1>3
<1>6. \A k \in DOMAIN up' : j < k => NotAfter(up'[j].t, up'[j].num, up'[k].t, up'[k].num)
  BY <1>3, <1>4, <1>5 DEF OrderInv, UpFits
<1> QED
  BY <1>5, <1>6 DEF OrderInv, UpFits

LEMMA FewerDown ==
  ASSUME OrderInv, NEW i \in DOMAIN down, down' = RemoveAt(down, i), UNCHANGED <<data, runs>>
  PROVE  DownFits'
<1>1. down \in Seq(Answer)
  BY DEF OrderInv, IInv, TypeOK
<1>2. \A j \in DOMAIN down' : \E k \in DOMAIN down : down'[j] = down[k]
  BY <1>1, RemoveAtElements
<1> QED
  BY <1>2 DEF OrderInv, DownFits

\* A server that goes on stays ahead of the receiver and of what is in flight.
LEMMA SenderAhead ==
  ASSUME OrderInv, UNCHANGED <<data, up, runs>>, IInv',
         NotAfter(snd.t, snd.num, snd'.t, snd'.num), SenderFits'
  PROVE  BufferFits' /\ UpFits' /\ RunsFit' /\ DeliveredWhole' /\ ExecutedOnce'
<1>1. /\ snd.t \in Int /\ snd.num \in Int /\ snd'.t \in Int /\ snd'.num \in Int
      /\ \A i \in DOMAIN up : up[i].t \in Int /\ up[i].num \in Int
  BY SenderType DEF OrderInv, IInv, TypeOK
<1>2. BufferFits'
  <2> SUFFICES ASSUME data.exists PROVE NotAfter(Held(data), data.num, snd'.t, snd'.num)
    BY DEF OrderInv, BufferFits, BlockOf
  <2>1. Held(data) \in Int /\ data.num \in Int
    BY HeldType DEF OrderInv
  <2> QED
    BY <1>1, <2>1, NotAfterTransitive DEF OrderInv, BufferFits
<1>3. UpFits'
  <2>1. \A i \in DOMAIN up : NotAfter(up[i].t, up[i].num, snd'.t, snd'.num)
    BY <1>1, NotAfterTransitive DEF OrderInv, UpFits
  <2> QED
    BY <2>1 DEF OrderInv, UpFits, OfTransfer, BlockOf
<1> QED
  BY <1>2, <1>3 DEF OrderInv, RunsFit, DeliveredWhole, ExecutedOnce, Payload, BlockOf

\* A transfer that ends: the server is at the beginning of the next one.
LEMMA EndInOrder ==
  ASSUME OrderInv, snd.t \in Transfers, NEW outcome \in {"success", "failure"},
         EndTransfer(outcome), outcome = "success" => WasRun(runs, snd.t)
  PROVE  /\ SenderFits' /\ NotAfter(snd.t, snd.num, snd'.t, snd'.num)
         /\ runs' = runs => SuccessMeansExecuted'
<1>1. snd.t \in Nat /\ snd'.t = snd.t + 1 /\ snd'.num = 0
  BY SenderType DEF OrderInv, EndTransfer
<1>2. SenderFits'
  <2>1. snd'.t \in Transfers => 0 < Blocks[snd'.t]
    BY BlockAssumption DEF Transfers
  <2> QED
    BY <1>1, <2>1 DEF SenderFits, Transfers
<1>3. told' = [told EXCEPT ![snd.t] = outcome] /\ told \in [Transfers -> {"nothing", "success", "failure"}]
  BY DEF OrderInv, IInv, TypeOK, EndTransfer
<1>4. ASSUME runs' = runs PROVE SuccessMeansExecuted'
  <2> SUFFICES ASSUME NEW t \in Transfers, told'[t] = "success"
               PROVE  \E i \in DOMAIN runs : runs[i].t = t
    BY <1>4 DEF SuccessMeansExecuted, Transfers
  <2>1. CASE t = snd.t
    BY <1>3, <2>1 DEF WasRun
  <2>2. CASE t # snd.t
    BY <1>3, <2>2 DEF OrderInv, SuccessMeansExecuted
  <2> QED
    BY <2>1, <2>2
<1> QED
  BY <1>1, <1>2, <1>4 DEF NotAfter

\* A block sent takes its place behind those in flight.
LEMMA TransmitInOrder == ASSUME OrderInv, Transmit PROVE OrderInv'
<1>1. IInv'
  BY OthersKeep DEF OrderInv
<1> DEFINE m == BlockOf(snd.t, snd.num)
<1>2. /\ snd.t \in Transfers /\ up' = Append(up, m) /\ UNCHANGED <<data, down, told, runs>>
      /\ snd'.t = snd.t /\ snd'.num = snd.num
  BY DEF Transmit, OrderInv, IInv, TypeOK
<1>3. snd.t \in Nat /\ snd.num \in Nat /\ snd.num < Blocks[snd.t]
  BY <1>2, SenderType DEF OrderInv, SenderFits
<1>4. m \in Block /\ m.t = snd.t /\ m.num = snd.num /\ OfTransfer(m)
  BY <1>2, <1>3, BlockOfType DEF BlockOf, OfTransfer
<1>5. SenderFits'
  BY <1>2 DEF OrderInv, SenderFits, Transfers
<1>6. up \in Seq(Block)
  BY DEF OrderInv, IInv, TypeOK
<1>7. /\ DOMAIN up' = 1..(Len(up) + 1) /\ Len(up) \in Nat /\ up'[Len(up) + 1] = m
      /\ \A k \in 1..Len(up) : k \in DOMAIN up /\ up'[k] = up[k]
  BY <1>2, <1>4, <1>6
<1>8. UpFits'
  <2> SUFFICES ASSUME NEW j \in DOMAIN up'
               PROVE  /\ OfTransfer(up'[j])
                      /\ NotAfter(up'[j].t, up'[j].num, snd.t, snd.num)
                      /\ data.exists => NotAfter(Held(data), data.num, up'[j].t, up'[j].num)
                      /\ up'[j].num > 0 => Reached(data, up'[j].t, up'[j].num - 1)
                      /\ \A k \in DOMAIN up' :
                           j < k => NotAfter(up'[j].t, up'[j].num, up'[k].t, up'[k].num)
    BY <1>2 DEF UpFits, OfTransfer, BlockOf
  <2>1. CASE j = Len(up) + 1
    <3>1. up'[j] = m /\ \A k \in DOMAIN up' : ~(j < k)
      BY <1>7, <2>1
    <3>2. NotAfter(m.t, m.num, snd.t, snd.num)
      BY <1>3, <1>4 DEF NotAfter
    <3>3. data.exists => NotAfter(Held(data), data.num, m.t, m.num)
      BY <1>4 DEF OrderInv, BufferFits
    <3>4. m.num > 0 => Reached(data, m.t, m.num - 1)
      BY <1>4 DEF OrderInv, SenderFits
    <3> QED
      BY <1>4, <3>1, <3>2, <3>3, <3>4
  <2>2. CASE j \in 1..Len(up)
    <3>1. j \in DOMAIN up /\ up'[j] = up[j]
      BY <1>7, <2>2
    <3>2. ASSUME NEW k \in DOMAIN up', j < k
          PROVE  NotAfter(up'[j].t, up'[j].num, up'[k].t, up'[k].num)
      <4>1. CASE k = Len(up) + 1
        <5>1. up'[k] = m
          BY <1>7, <4>1
        <5> QED
          BY <1>4, <3>1, <5>1 DEF OrderInv, UpFits
      <4>2. CASE k \in 1..Len(up)
        <5>1. k \in DOMAIN up /\ up'[k] = up[k]
          BY <1>7, <4>2
        <5> QED
          BY <3>1, <3>2, <5>1 DEF OrderInv, UpFits
      <4> QED
        BY <1>7, <4>1, <4>2
    <3> QED
      BY <3>1, <3>2 DEF OrderInv, UpFits
  <2> QED
    BY <1>7, <2>1, <2>2
<1>9. BufferFits' /\ RunsFit' /\ DownFits' /\ DeliveredWhole' /\ ExecutedOnce' /\ SuccessMeansExecuted'
  BY <1>2 DEF OrderInv, BufferFits, RunsFit, DownFits, DeliveredWhole, ExecutedOnce,
              SuccessMeansExecuted, Payload, BlockOf, Transfers
<1> QED
  BY <1>1, <1>5, <1>8, <1>9 DEF OrderInv

\* An answer: the server goes on to the next block, which the receiver has
\* room for, or to the next transfer.
LEMMA AnswerInOrder == ASSUME OrderInv, GetAnswer PROVE OrderInv'
<1>1. IInv'
  BY OthersKeep DEF OrderInv
<1>2. PICK i \in Next_in(down) :
        /\ \/ UNCHANGED <<snd, told>>
           \/ /\ down[i].t = snd.t /\ down[i].num = snd.num
              /\ down[i].code = "231" /\ BlockOf(down[i].t, down[i].num).more
              /\ snd' = [snd EXCEPT !.num = @ + 1, !.copies = 0] /\ UNCHANGED told
           \/ down[i].t = snd.t /\ down[i].code = "204" /\ EndTransfer("success")
           \/ down[i].t = snd.t /\ EndTransfer("failure")
        /\ down' = RemoveAt(down, i) /\ UNCHANGED <<data, up, runs>>
  BY DEF GetAnswer
<1>3. i \in DOMAIN down
  BY <1>2 DEF Next_in
<1>4. DownFits'
  BY <1>2, <1>3, FewerDown
<1>5. /\ down[i].code = "231" => Reached(data, down[i].t, down[i].num)
      /\ down[i].code = "204" => WasRun(runs, down[i].t)
      /\ down[i].t \in Transfers
  <2>1. down[i] \in Answer
    BY <1>3 DEF OrderInv, IInv, TypeOK
  <2> QED
    BY <1>3, <2>1 DEF OrderInv, DownFits, Answer
<1>6. snd.t \in Nat /\ snd.num \in Nat
  BY SenderType DEF OrderInv
<1>7. SenderFits' /\ NotAfter(snd.t, snd.num, snd'.t, snd'.num) /\ SuccessMeansExecuted'
  <2>1. CASE UNCHANGED <<snd, told>>
    BY <1>2, <1>6, <2>1 DEF OrderInv, SenderFits, SuccessMeansExecuted, NotAfter, Transfers
  <2>2. CASE /\ down[i].t = snd.t /\ down[i].num = snd.num
             /\ down[i].code = "231" /\ BlockOf(down[i].t, down[i].num).more
             /\ snd' = [snd EXCEPT !.num = @ + 1, !.copies = 0] /\ UNCHANGED told
    <3>1. snd'.t = snd.t /\ snd'.num = snd.num + 1
      BY <2>2 DEF OrderInv, IInv, TypeOK
    <3>2. snd.num + 1 < Blocks[snd.t]
      BY <2>2 DEF BlockOf
    <3>3. snd'.num - 1 = snd.num
      BY <1>6, <3>1
    <3>4. SenderFits'
      BY <1>2, <1>5, <2>2, <3>1, <3>2, <3>3 DEF SenderFits, Transfers
    <3>5. SuccessMeansExecuted'
      BY <1>2, <2>2 DEF OrderInv, SuccessMeansExecuted, Transfers
    <3> QED
      BY <1>6, <3>1, <3>4, <3>5 DEF NotAfter
  <2>3. CASE down[i].t = snd.t /\ down[i].code = "204" /\ EndTransfer("success")
    BY <1>2, <1>5, <2>3, EndInOrder
  <2>4. CASE down[i].t = snd.t /\ EndTransfer("failure")
    BY <1>2, <1>5, <2>4, EndInOrder
  <2> QED
    BY <1>2, <2>1, <2>2, <2>3, <2>4
<1> QED
  BY <1>1, <1>2, <1>4, <1>7, SenderAhead DEF OrderInv

\* Giving up a transfer, and losing a message.
LEMMA GiveUpInOrder == ASSUME OrderInv, GiveUp PROVE OrderInv'
<1>1. IInv'
  BY OthersKeep DEF OrderInv
<1>2. snd.t \in Transfers /\ EndTransfer("failure") /\ UNCHANGED <<data, up, down, runs>>
  BY DEF GiveUp
<1>3. SenderFits' /\ NotAfter(snd.t, snd.num, snd'.t, snd'.num) /\ SuccessMeansExecuted'
  BY <1>2, EndInOrder
<1>4. DownFits'
  BY <1>2 DEF OrderInv, DownFits
<1> QED
  BY <1>1, <1>2, <1>3, <1>4, SenderAhead DEF OrderInv

LEMMA LoseInOrder == ASSUME OrderInv, Lose PROVE OrderInv'
<1>1. IInv'
  BY OthersKeep DEF OrderInv
<1>2. UNCHANGED <<data, snd, told, runs>>
  BY DEF Lose
<1>3. UpFits'
  <2>1. CASE UNCHANGED up
    BY <1>2, <2>1 DEF OrderInv, UpFits, OfTransfer, BlockOf
  <2>2. CASE \E i \in DOMAIN up : up' = RemoveAt(up, i)
    BY <1>2, <2>2, FewerUp
  <2> QED
    BY <2>1, <2>2 DEF Lose
<1>4. DownFits'
  <2>1. CASE UNCHANGED down
    BY <1>2, <2>1 DEF OrderInv, DownFits
  <2>2. CASE \E i \in DOMAIN down : down' = RemoveAt(down, i)
    BY <1>2, <2>2, FewerDown
  <2> QED
    BY <2>1, <2>2 DEF Lose
<1>5. /\ BufferFits' /\ SenderFits' /\ RunsFit' /\ DeliveredWhole' /\ ExecutedOnce'
      /\ SuccessMeansExecuted'
  BY <1>2 DEF OrderInv, BufferFits, SenderFits, RunsFit, DeliveredWhole, ExecutedOnce,
              SuccessMeansExecuted, Payload, BlockOf, Transfers
<1> QED
  BY <1>1, <1>3, <1>4, <1>5 DEF OrderInv

\* On an ordered network the invariant holds in every reachable state.
THEOREM InvarianceInOrder == ASSUME Reorder = FALSE PROVE Spec => []OrderInv
<1>1. Init => OrderInv
  <2> SUFFICES ASSUME Init PROVE OrderInv
    OBVIOUS
  <2>1. IInv
    <3>1. CASE Blocks # <<>>
      BY <3>1, TransfersAre, BlockAssumption DEF Init, IInv, TypeOK, Contiguous
    <3>2. CASE Blocks = <<>>
      BY <3>2, TransfersAre, BlockAssumption DEF Init, IInv, TypeOK, Contiguous
    <3> QED
      BY <3>1, <3>2
  <2>2. SenderFits
    BY BlockAssumption DEF Init, SenderFits, Transfers
  <2>3. \A t \in Transfers : told[t] = "nothing"
    BY DEF Init
  <2> QED
    BY <2>1, <2>2, <2>3 DEF Init, OrderInv, BufferFits, UpFits, DownFits, RunsFit,
                            DeliveredWhole, ExecutedOnce, SuccessMeansExecuted
<1>2. OrderInv /\ [Next]_vars => OrderInv'
  <2>1. ASSUME OrderInv, UNCHANGED vars PROVE OrderInv'
    <3>1. IInv'
      BY <2>1 DEF OrderInv, IInv, TypeOK, Contiguous, vars
    <3> QED
      BY <2>1, <3>1 DEF vars, OrderInv, BufferFits, SenderFits, UpFits, DownFits, RunsFit,
            DeliveredWhole, ExecutedOnce, SuccessMeansExecuted, Payload, BlockOf, OfTransfer, Transfers
  <2> QED
    BY <2>1, ReceiveInOrder, TransmitInOrder, AnswerInOrder, GiveUpInOrder, LoseInOrder DEF Next
<1> QED
  BY <1>1, <1>2, PTL DEF Spec

\* What is handed on to the resource is the whole payload of one transfer, for
\* any number and length of transfers and whatever is lost or sent again, if
\* the network keeps the order (prv_coap_block_handler).
THEOREM WholeDelivered == ASSUME Reorder = FALSE PROVE Spec => []DeliveredWhole
  BY InvarianceInOrder, PTL DEF OrderInv

\* A write in several blocks is carried out once on such a network, however
\* often its last block is sent again (the buffer block.c keeps).
THEOREM OnceExecuted == ASSUME Reorder = FALSE PROVE Spec => []ExecutedOnce
  BY InvarianceInOrder, PTL DEF OrderInv

\* On such a network a server is told of success only if its payload was
\* handed on (the answers packet.c makes up from the Block1 option).
THEOREM SuccessExecuted == ASSUME Reorder = FALSE PROVE Spec => []SuccessMeansExecuted
  BY InvarianceInOrder, PTL DEF OrderInv
============================================================================

--------------------------- MODULE BlockTransfer ---------------------------
(***************************************************************************)
(* Block-wise requests to the client (CoAP Block1): a server writes to one *)
(* resource in several blocks, which prv_coap_block_handler (coap/block.c) *)
(* puts together and lwm2m_handle_packet (core/packet.c) hands on when the *)
(* last one is there.                                                      *)
(*                                                                         *)
(* The server is external: it sends block after block, each one again      *)
(* until it is answered or given up, then goes on to its next transfer.    *)
(* Messages may be lost and, if Reorder, overtake each other. A block is   *)
(* known by its transfer and its number; what is in it does not matter,    *)
(* only that the last one may be shorter than the block size.              *)
(***************************************************************************)
EXTENDS Integers, Sequences, SequencesExt

CONSTANTS
  Blocks,     \* per transfer: its number of blocks
  FullLast,   \* the transfers whose last block has full size
  Reorder,    \* messages may overtake each other
  MaxCopies,  \* bound: transmissions of one block
  MaxFlight   \* bound: messages in flight when a block is sent

ASSUME BlockAssumption ==
  /\ Blocks \in Seq(Nat \ {0})
  /\ FullLast \subseteq Nat
  /\ Reorder \in BOOLEAN
  /\ MaxCopies \in Nat \ {0} /\ MaxFlight \in Nat

VARIABLES
  data,   \* lwm2m_block_data_t of the resource: exists, blockNum and blockBuffer
  up,     \* block requests in flight, in the order they were sent
  down,   \* answers in flight
  snd,    \* the server: its transfer, the block it is at, copies sent of it
  told,   \* per transfer: what the server was told of it in the end
  runs    \* history: the payloads that were handed on

vars == <<data, up, down, snd, told, runs>>

Transfers == DOMAIN Blocks
Block == [t : Transfers, num : Nat, more : BOOLEAN]
Answer == [t : Transfers, num : Nat, code : {"231", "204", "err"}]
Run == [t : Transfers, payload : Seq(Block)]

BlockOf(t, num) == [t |-> t, num |-> num, more |-> num + 1 < Blocks[t]]
Payload(t) == [k \in 1..Blocks[t] |-> BlockOf(t, k - 1)]

Init ==
  /\ data = [exists |-> FALSE, num |-> 0, buf |-> <<>>]
  /\ up = <<>> /\ down = <<>>
  /\ snd = [t |-> 1, num |-> 0, copies |-> 0]
  /\ told = [t \in Transfers |-> "nothing"]
  /\ runs = <<>>
----------------------------------------------------------------------------
\* blockBufferSize = blockSize * blockNum: as many blocks, and all of full size.
SizeIs(buf, num) ==
  /\ Len(buf) = num
  /\ \A k \in DOMAIN buf : buf[k].more \/ buf[k].t \in FullLast

(***************************************************************************)
(* prv_coap_block_handler. Block 0 starts over; a number that is not new   *)
(* is a retransmission; the next number is appended if the sizes add up. A *)
(* number further ahead is neither refused nor stored.                     *)
(***************************************************************************)
Accepted(d, m) == [code |-> IF m.more THEN "231" ELSE "NO_ERROR", data |-> d]
Rejected(code) == [code |-> code, data |-> data]

\* Faulty variant: the last block again is taken for a new one.
prv_coap_block_handler_twice(m) ==
  IF m.num = 0 THEN Accepted([exists |-> TRUE, num |-> 0, buf |-> <<m>>], m)
  ELSE IF ~data.exists THEN Rejected("408")
  ELSE IF m.num < data.num THEN Rejected("RETRANSMISSION")
  ELSE IF m.num = data.num + 1 /\ ~SizeIs(data.buf, m.num) THEN Rejected("408")
  ELSE IF m.num = data.num + 1
  THEN Accepted([data EXCEPT !.num = m.num, !.buf = Append(@, m)], m)
  ELSE Accepted(data, m)

\* Faulty variant: the block that is expected next is taken for a retransmission.
prv_coap_block_handler_behind(m) ==
  IF m.num = 0 THEN Accepted([exists |-> TRUE, num |-> 0, buf |-> <<m>>], m)
  ELSE IF ~data.exists THEN Rejected("408")
  ELSE IF m.num <= data.num + 1 THEN Rejected("RETRANSMISSION")
  ELSE Accepted(data, m)

\* Faulty variant: the first block does not clear what an earlier transfer left.
prv_coap_block_handler_keeps(m) ==
  IF m.num = 0
  THEN Accepted([exists |-> TRUE, num |-> 0, buf |-> Append(data.buf, m)], m)
  ELSE IF ~data.exists THEN Rejected("408")
  ELSE IF m.num <= data.num THEN Rejected("RETRANSMISSION")
  ELSE IF m.num = data.num + 1
  THEN Accepted([data EXCEPT !.num = m.num, !.buf = Append(@, m)], m)
  ELSE Accepted(data, m)

prv_coap_block_handler(m) ==
  IF m.num = 0 THEN Accepted([exists |-> TRUE, num |-> 0, buf |-> <<m>>], m)
  ELSE IF ~data.exists THEN Rejected("408")
  ELSE IF m.num <= data.num THEN Rejected("RETRANSMISSION")
  ELSE IF m.num = data.num + 1 /\ ~SizeIs(data.buf, m.num) THEN Rejected("408")
  ELSE IF m.num = data.num + 1
  THEN Accepted([data EXCEPT !.num = m.num, !.buf = Append(@, m)], m)
  ELSE Accepted(data, m)

(***************************************************************************)
(* lwm2m_handle_packet for a block request: a complete payload is handed   *)
(* to handle_request, which succeeds or not, and the result is the answer; *)
(* a retransmission is answered from its own Block1 option.                *)
(***************************************************************************)
RetransmissionAnswer(m) == IF m.more THEN "231" ELSE "204"

lwm2m_handle_packet(m) ==
  LET h == prv_coap_block_handler(m)
      answer(code) == down' = Append(down, [t |-> m.t, num |-> m.num, code |-> code])
  IN  /\ data' = h.data
      /\ \/ /\ h.code = "NO_ERROR"
            /\ runs' = Append(runs, [t |-> m.t, payload |-> h.data.buf])
            /\ \E result \in {"204", "err"} : answer(result)
         \/ h.code = "231" /\ answer("231") /\ UNCHANGED runs
         \/ h.code = "408" /\ answer("err") /\ UNCHANGED runs
         \/ h.code = "RETRANSMISSION" /\ answer(RetransmissionAnswer(m)) /\ UNCHANGED runs

Next_in(q) == IF Reorder THEN DOMAIN q ELSE {i \in DOMAIN q : i = 1}

Receive ==
  \E i \in Next_in(up) :
    /\ lwm2m_handle_packet(up[i])
    /\ up' = RemoveAt(up, i)
    /\ UNCHANGED <<snd, told>>
----------------------------------------------------------------------------
(* The server and the network.                                             *)
Transmit ==
  /\ snd.t \in Transfers /\ snd.copies < MaxCopies
  /\ Len(up) + Len(down) <= MaxFlight
  /\ up' = Append(up, BlockOf(snd.t, snd.num))
  /\ snd' = [snd EXCEPT !.copies = @ + 1]
  /\ UNCHANGED <<data, down, told, runs>>

EndTransfer(outcome) ==
  /\ told' = [told EXCEPT ![snd.t] = outcome]
  /\ snd' = [t |-> snd.t + 1, num |-> 0, copies |-> 0]

\* The answer to the block the server is at; any other is ignored.
GetAnswer ==
  \E i \in Next_in(down) :
    LET a == down[i]
        m == BlockOf(a.t, a.num)
    IN  /\ IF a.t = snd.t /\ a.num = snd.num /\ snd.copies > 0
           THEN \/ /\ a.code = "231" /\ m.more
                   /\ snd' = [snd EXCEPT !.num = @ + 1, !.copies = 0]
                   /\ UNCHANGED told
                \/ a.code = "204" /\ ~m.more /\ EndTransfer("success")
                \/ a.code = "err" /\ EndTransfer("failure")
           ELSE UNCHANGED <<snd, told>>
        /\ down' = RemoveAt(down, i)
        /\ UNCHANGED <<data, up, runs>>

GiveUp ==
  /\ snd.t \in Transfers /\ snd.copies = MaxCopies
  /\ EndTransfer("failure")
  /\ UNCHANGED <<data, up, down, runs>>

Lose ==
  \/ /\ \E i \in DOMAIN up : up' = RemoveAt(up, i)
     /\ UNCHANGED <<data, down, snd, told, runs>>
  \/ /\ \E i \in DOMAIN down : down' = RemoveAt(down, i)
     /\ UNCHANGED <<data, up, snd, told, runs>>
----------------------------------------------------------------------------
Next == Receive \/ Transmit \/ GetAnswer \/ GiveUp \/ Lose

Spec == Init /\ [][Next]_vars
----------------------------------------------------------------------------
(* Type invariant of the receiver, the sender and the messages.            *)
TypeOK ==
  /\ data \in [exists : BOOLEAN, num : Nat, buf : Seq(Block)]
  /\ up \in Seq(Block) /\ down \in Seq(Answer)
  /\ snd \in [t : 1..(Len(Blocks) + 1), num : Nat, copies : 0..MaxCopies]
  /\ told \in [Transfers -> {"nothing", "success", "failure"}]
  /\ runs \in Seq(Run)

(* The buffer has no holes: whatever is lost, repeated or reordered, it    *)
(* holds blocks 0 to blockNum, each one once and in order (though not      *)
(* always of the same transfer).                                           *)
Contiguous ==
  data.exists => /\ Len(data.buf) = data.num + 1
                 /\ \A k \in DOMAIN data.buf : data.buf[k].num = k - 1

(* What is handed on to the resource is the whole payload of one transfer. *)
(* On an ordered network this holds whatever is lost and sent again;       *)
(* prv_coap_block_handler answers blocks it does not get "in right order"  *)
(* with 4.08.                                                              *)
DeliveredWhole == \A i \in DOMAIN runs : runs[i].payload = Payload(runs[i].t)

(* A write in several blocks is carried out once, however often its last   *)
(* block is sent again (block.c keeps the buffer for that).                *)
ExecutedOnce ==
  \A i, j \in DOMAIN runs : runs[i].t = runs[j].t /\ Blocks[runs[i].t] > 1 => i = j

(* A server that was told of success had its payload handed on: the answer *)
(* to a retransmission, which packet.c makes up from the Block1 option,    *)
(* never stands for a payload that was not complete.                       *)
SuccessMeansExecuted ==
  \A t \in Transfers : told[t] = "success" =>
    \E i \in DOMAIN runs : runs[i].t = t
============================================================================

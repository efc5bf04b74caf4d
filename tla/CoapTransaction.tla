-------------------------- MODULE CoapTransaction --------------------------
(***************************************************************************)
(* The CoAP transaction layer of the LwM2M engine (coap/transaction.c):    *)
(* confirmable requests that are retransmitted with an exponential         *)
(* back-off until they are acknowledged, answered, reset or given up.      *)
(*                                                                         *)
(* A transaction is named by its message id (mID). contextP->nextMID never *)
(* hands out an id twice while it is in use, so mids double as identities. *)
(* Time is kept relative: left is retrans_time minus the current time, so  *)
(* it goes down by one per second and is negative when the transaction is  *)
(* overdue. All comparisons of retrans_time with the clock are comparisons *)
(* of left with zero.                                                      *)
(*                                                                         *)
(* The network may lose, delay, duplicate and reorder: a peer that was     *)
(* sent a request may deliver any answer to it, any number of times and at *)
(* any later moment, also after the transaction is gone.                   *)
(***************************************************************************)
EXTENDS Integers

CONSTANTS
  Mids,             \* message ids of the client's transactions
  Peers,            \* sessions (peerH)
  PeerMids,         \* ids the peers use for messages of their own
  MAX_RETRANSMIT,   \* COAP_MAX_RETRANSMIT (4)
  RESPONSE_TIMEOUT, \* COAP_RESPONSE_TIMEOUT in seconds (2)
  StepTimeout,      \* the value *timeoutP has when transaction_step starts
  MaxLag,           \* bound: seconds a due transaction may wait for a step
  MaxDenied         \* bound: 4.01 answers delivered to one transaction

ASSUME TransactionAssumption ==
  /\ MAX_RETRANSMIT \in Nat
  /\ RESPONSE_TIMEOUT \in Nat \ {0}
  /\ StepTimeout \in Nat \ {0}
  /\ MaxLag \in Nat
  /\ MaxDenied \in Nat

\* The arithmetic of the left shift, for the shift counts the code uses.
ASSUME ShiftAssumption ==
  \A n \in 0..(MAX_RETRANSMIT + 1) :
    2^n \in Nat /\ 2^(n + 1) = 2 * 2^n /\ 2^n <= 2^(MAX_RETRANSMIT + 1)

VARIABLES
  tx,       \* per mid: its lwm2m_transaction_t, and what happened to it
  timeout,  \* *timeoutP of the last step, counted down as time passes
  calls     \* history: invocations of each transaction's callback

vars == <<tx, timeout, calls>>

(***************************************************************************)
(* peer, tok (a token was set), ack, ctr and left stand for peerH, the     *)
(* token option, ack_received, retrans_counter and retrans_time. The rest  *)
(* is history, kept while the transaction exists: its transmissions, the   *)
(* seconds since the first, the 4.01 answers that made the client try      *)
(* again, and whether a final response with its token was delivered.       *)
(***************************************************************************)
Transaction == [st : {"free", "listed", "done", "unsent"},
                peer : Peers, tok : BOOLEAN, ack : BOOLEAN, ctr : Nat, left : Int,
                sent : Nat, age : Nat, denied : Nat, heard : BOOLEAN]

Listed == {m \in Mids : tx[m].st = "listed"}

\* A transaction struct outside the list: nothing of it is left but its peer.
Blank(st, p, tok) ==
  [st |-> st, peer |-> p, tok |-> tok, ack |-> FALSE, ctr |-> 0, left |-> 0,
   sent |-> 0, age |-> 0, denied |-> 0, heard |-> FALSE]

\* transaction_remove: the transaction leaves the list and is freed.
transaction_remove_noop(t) == t    \* faulty variant: the list keeps it
transaction_remove(t) == Blank("done", t.peer, FALSE)

\* COAP_RESPONSE_TIMEOUT << n
Shifted_flat(n) == RESPONSE_TIMEOUT              \* faulty variant: no back-off
Shifted_twice(n) == RESPONSE_TIMEOUT * 2^(n + 1) \* faulty variant: one shift too many
Shifted(n) == RESPONSE_TIMEOUT * 2^n

\* Seconds the back-off covers with k transmissions: the sum of the first k waits.
Span(k) == RESPONSE_TIMEOUT * (2^k - 1)
----------------------------------------------------------------------------
(* Messages a peer may deliver about request m, once m was transmitted.    *)
Answer(m) ==
  LET mid(type) == IF type \in {"ACK", "RST"} THEN {m} ELSE PeerMids
  IN  {[type |-> "ACK", mid |-> m, token |-> {}, code |-> "empty"],
       [type |-> "RST", mid |-> m, token |-> {}, code |-> "empty"]}
      \cup UNION {[type : {ty}, mid : mid(ty), token : {{m}}, code : {"final", "401"}] :
                    ty \in {"ACK", "CON", "NON"}}
----------------------------------------------------------------------------
Init ==
  /\ tx \in [Mids -> {Blank("free", p, tok) : p \in Peers, tok \in BOOLEAN}]
  /\ timeout = 0
  /\ calls = [m \in Mids |-> 0]

(***************************************************************************)
(* transaction_send on a transaction that is due. The first transmission   *)
(* (counter 0) is in SendRequest. An acknowledged transaction that comes   *)
(* up again, and one whose retries are used up, is given up: its callback  *)
(* is called without a message and it leaves the list.                     *)
(***************************************************************************)
GivenUp(t) == t.ack \/ t.ctr > MAX_RETRANSMIT + 1

transaction_send(t) ==
  IF GivenUp(t)
  THEN transaction_remove(t)
  ELSE [t EXCEPT !.left = @ + Shifted(t.ctr - 1), !.ctr = @ + 1, !.sent = @ + 1]

\* A caller creates a request, adds it to the list and sends it for the first time.
SendRequest(m) ==
  /\ tx[m].st = "free"
  /\ tx' = [tx EXCEPT ![m].st = "listed", ![m].ctr = 2, ![m].left = RESPONSE_TIMEOUT,
                      ![m].sent = 1]
  /\ timeout' = 0
  /\ UNCHANGED calls

\* The request cannot be serialised: it leaves the list and the caller gets an
\* error, but the callback is not called.
SendFails(m) ==
  /\ tx[m].st = "free"
  /\ tx' = [tx EXCEPT ![m].st = "unsent"]
  /\ UNCHANGED <<timeout, calls>>

\* What the wait of a transaction contributes to *timeoutP.
Interval(t) == IF t.left > 0 THEN t.left ELSE 1

(***************************************************************************)
(* transaction_step: every listed transaction that is due is sent again or *)
(* given up, and the time until the next one is due is handed back.        *)
(***************************************************************************)
Due_skipsAcked == {m \in Listed : tx[m].left <= 0 /\ ~tx[m].ack} \* faulty variant
Due == {m \in Listed : tx[m].left <= 0}

Removed == {m \in Due : GivenUp(tx[m])}

\* Faulty variant: the wait of some transaction is handed back, not the shortest.
transaction_step_anyWait ==
  LET new == [m \in Mids |-> IF m \in Due THEN transaction_send(tx[m]) ELSE tx[m]]
  IN  /\ tx' = new
      /\ calls' = [m \in Mids |-> IF m \in Removed THEN calls[m] + 1 ELSE calls[m]]
      /\ timeout' \in {StepTimeout} \cup {Interval(new[m]) : m \in Listed}

transaction_step ==
  LET new == [m \in Mids |-> IF m \in Due THEN transaction_send(tx[m]) ELSE tx[m]]
  IN  /\ tx' = new
      /\ calls' = [m \in Mids |-> IF m \in Removed THEN calls[m] + 1 ELSE calls[m]]
      /\ IF Removed # {}
         THEN timeout' = 1
         ELSE /\ timeout' \in {StepTimeout} \cup {Interval(new[m]) : m \in Listed}
              /\ timeout' <= StepTimeout
              /\ \A m \in Listed : timeout' <= Interval(new[m])

\* prv_checkFinished: an answer with the transaction's token completes it, but
\* only under the transaction's own message id.
prv_checkFinished(m, acked, msg) ==
  /\ msg.mid = m
  /\ IF tx[m].tok THEN msg.token = {m} ELSE acked

(***************************************************************************)
(* transaction_handleResponse: only the listed transaction of that session *)
(* whose mID is the message's can be concerned. A reset, or an answer that *)
(* finishes it, calls the callback; a 4.01 answer is a reason to try again *)
(* while few retries were used; a bare acknowledgement stops the           *)
(* retransmissions and starts the wait for the response.                   *)
(***************************************************************************)
Handle(m, msg) ==
  LET t     == tx[m]
      found == ~t.ack /\ msg.type \in {"ACK", "RST"}
      acked == t.ack \/ found
      reset == found /\ msg.type = "RST"
      done  == reset \/ prv_checkFinished(m, acked, msg)
      retry == done /\ ~reset /\ msg.code = "401" /\ MAX_RETRANSMIT > t.ctr
  IN  \/ /\ retry /\ t.denied < MaxDenied
         /\ tx' = [tx EXCEPT ![m].ack = FALSE, ![m].left = @ + RESPONSE_TIMEOUT,
                             ![m].denied = @ + 1]
         /\ UNCHANGED calls
      \/ /\ done /\ ~retry
         /\ tx' = [tx EXCEPT ![m] = transaction_remove(t)]
         /\ calls' = [calls EXCEPT ![m] = @ + 1]
      \/ /\ found /\ ~done
         /\ tx' = [tx EXCEPT ![m].ack = TRUE, ![m].left = RESPONSE_TIMEOUT * t.ctr]
         /\ UNCHANGED calls
      \/ /\ ~found /\ ~done
         /\ UNCHANGED <<tx, calls>>

\* A message that concerns no listed transaction changes nothing here. When a
\* final response to request r comes under another id than r's, this is noted.
Ignore(p, r, msg) ==
  /\ tx' = [tx EXCEPT ![r].heard = @ \/ /\ r \in Listed /\ tx[r].tok
                                        /\ msg.token = {r} /\ msg.code = "final"]
  /\ UNCHANGED calls

transaction_handleResponse(p, r, msg) ==
  /\ IF msg.mid \in Listed /\ tx[msg.mid].peer = p
     THEN Handle(msg.mid, msg)
     ELSE Ignore(p, r, msg)
  /\ timeout' = 0        \* the packet wakes the event loop, which steps again

Receive ==
  \E r \in Mids : \E msg \in Answer(r) :
    /\ tx[r].st \in {"listed", "done"}
    /\ transaction_handleResponse(tx[r].peer, r, msg)

\* One second passes. The event loop keeps calling lwm2m_step, so that no
\* transaction is overdue by more than MaxLag seconds.
Tick ==
  /\ Listed # {}
  /\ \A m \in Listed : tx[m].left > -MaxLag
  /\ tx' = [m \in Mids |-> IF m \in Listed
                           THEN [tx[m] EXCEPT !.left = @ - 1, !.age = @ + 1]
                           ELSE tx[m]]
  /\ timeout' = IF timeout > 0 THEN timeout - 1 ELSE 0
  /\ UNCHANGED calls

Next ==
  \/ \E m \in Mids : SendRequest(m) \/ SendFails(m)
  \/ transaction_step
  \/ Receive
  \/ Tick

Spec == Init /\ [][Next]_vars

\* The event loop goes round for ever and time passes; no answer is promised.
Fairness == WF_vars(transaction_step) /\ WF_vars(Tick)
FairSpec == Spec /\ Fairness
----------------------------------------------------------------------------
(* Type invariant: the fields of every transaction, the sleeping time and  *)
(* the callback counts stay in their ranges (lwm2m_transaction_t).         *)
TypeOK ==
  /\ tx \in [Mids -> Transaction]
  /\ timeout \in Nat
  /\ calls \in [Mids -> Nat]

(* The callback registered with a transaction is called at most once, and  *)
(* exactly once by the time the transaction left the list, whatever mix of *)
(* acknowledgements, answers, resets, duplicates and timeouts arrives; the *)
(* callers free the callback's userData in it.                             *)
CallbackOnce ==
  \A m \in Mids : calls[m] = (IF tx[m].st = "done" THEN 1 ELSE 0)

(* No request is transmitted more than COAP_MAX_RETRANSMIT + 1 times, not  *)
(* even when refused answers (4.01) make the client try again.             *)
TransmitBound == \A m \in Mids : tx[m].sent <= MAX_RETRANSMIT + 1

(* The back-off is never shortened: a request that was sent k times and is *)
(* not acknowledged comes up again no earlier than the first k waits of    *)
(* the exponential schedule after its first transmission (a 4.01 answer to *)
(* an acknowledged request restarts the schedule and is left out).         *)
BackoffKept ==
  \A m \in Listed :
    ~tx[m].ack /\ tx[m].denied = 0 => tx[m].age + tx[m].left >= Span(tx[m].sent)

(* A transaction that was not refused ends within the whole schedule, one  *)
(* wait for the separate response and the lag of two steps: with the       *)
(* constants of er-coap-13.h and a lag of at most 9 s, within the          *)
(* COAP_MAX_TRANSMIT_WAIT (93 s) by which registration_step renews a       *)
(* registration ahead of its expiry.                                       *)
EndsInTime ==
  \A m \in Listed :
    tx[m].denied = 0 =>
      tx[m].age <= Span(MAX_RETRANSMIT + 1) + RESPONSE_TIMEOUT * (MAX_RETRANSMIT + 2) + 2 * MaxLag

(* transaction_step never lets the event loop sleep past the moment a      *)
(* listed transaction is due (transaction.c adjusts *timeoutP).            *)
NoOversleep == \A m \in Listed : timeout <= Interval(tx[m])

(* Every request that was sent comes to an end, even if the peer is silent *)
(* for ever or acknowledges and then never answers.                        *)
EveryRequestEnds == \A m \in Mids : (tx[m].st = "listed") ~> (tx[m].st = "done")

(* transaction.c says of a request with a token that "a matching response  *)
(* may finish the transaction even without the ACK.MID": no transaction    *)
(* stays listed once the response carrying its token was delivered. Not    *)
(* checked: a separate response has an id of the peer's and is not matched.*)
MatchingResponseFinishes == \A m \in Listed : ~tx[m].heard
============================================================================

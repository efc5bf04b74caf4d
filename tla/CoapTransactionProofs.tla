----------------------- MODULE CoapTransactionProofs -----------------------
(***************************************************************************)
(* Proofs about CoapTransaction, for any number of transactions and peers, *)
(* any retransmission limit, response timeout and lag of the event loop.   *)
(***************************************************************************)
EXTENDS CoapTransaction, TLAPS

\* The longest an acknowledged transaction may be listed, counted from its first
\* transmission.
AckedEnd == Span(MAX_RETRANSMIT + 1) + RESPONSE_TIMEOUT * (MAX_RETRANSMIT + 2) + MaxLag

(***************************************************************************)
(* What holds of one transaction t whose callback was called c times. One  *)
(* that is not listed has no history. A listed one was sent once less than *)
(* its counter says and is overdue by at most MaxLag; until it is refused  *)
(* it keeps exactly to the schedule while unacknowledged, and waits a      *)
(* bounded time more once acknowledged.                                    *)
(***************************************************************************)
CountersMatch(t) ==
  /\ t.st = "listed" => /\ t.ctr = t.sent + 1
                        /\ t.sent \in 1..(MAX_RETRANSMIT + 1)
                        /\ t.left >= -MaxLag
  /\ t.st # "listed" => t.sent = 0 /\ t.age = 0 /\ ~t.ack

OnSchedule(t) ==
  t.st = "listed" /\ t.denied = 0 =>
    IF t.ack THEN t.age + t.left <= AckedEnd ELSE t.age + t.left = Span(t.sent)

Sound(t, c) ==
  /\ c = (IF t.st = "done" THEN 1 ELSE 0)
  /\ CountersMatch(t)
  /\ OnSchedule(t)

\* The inductive invariant.
IInv == TypeOK /\ \A m \in Mids : Sound(tx[m], calls[m])
----------------------------------------------------------------------------
\* The numbers the schedule is made of.
LEMMA ScheduleNumbers ==
  ASSUME NEW n \in 0..(MAX_RETRANSMIT + 1)
  PROVE  /\ Shifted(n) \in Nat
         /\ Span(n) \in Int
         /\ Span(n) <= Span(MAX_RETRANSMIT + 1)
         /\ Span(n + 1) = Span(n) + Shifted(n)
<1> DEFINE p == 2^n
           q == 2^(MAX_RETRANSMIT + 1)
<1>1. /\ p \in Nat /\ 2^(n + 1) = 2 * p /\ p <= q
  BY ShiftAssumption
<1>2. q \in Nat
  BY ShiftAssumption, TransactionAssumption
<1>3. RESPONSE_TIMEOUT \in Nat
  BY TransactionAssumption
<1>4. /\ RESPONSE_TIMEOUT * p \in Nat
      /\ RESPONSE_TIMEOUT * (p - 1) \in Int
      /\ RESPONSE_TIMEOUT * (2 * p - 1) = RESPONSE_TIMEOUT * (p - 1) + RESPONSE_TIMEOUT * p
  <2> HIDE DEF p, q
  <2> QED BY <1>1, <1>3
<1>5. RESPONSE_TIMEOUT * (p - 1) <= RESPONSE_TIMEOUT * (q - 1)
  <2> HIDE DEF p, q
  <2> QED BY <1>1, <1>2, <1>3
<1> QED
  BY <1>1, <1>4, <1>5 DEF Shifted, Span

\* A transaction outside the list is of the right type and owes nothing.
LEMMA BlankSound ==
  ASSUME NEW st \in {"free", "done", "unsent"}, NEW p \in Peers, NEW tok \in BOOLEAN
  PROVE  /\ Blank(st, p, tok) \in Transaction
         /\ Sound(Blank(st, p, tok), IF st = "done" THEN 1 ELSE 0)
BY DEF Blank, Transaction, Sound, CountersMatch, OnSchedule

\* Sending a due transaction again, or giving it up, keeps it sound.
LEMMA SendSound ==
  ASSUME NEW t \in Transaction, NEW c \in Nat, Sound(t, c), t.st = "listed", t.left <= 0
  PROVE  LET u == transaction_send(t)
         IN  /\ u \in Transaction
             /\ Sound(u, IF GivenUp(t) THEN c + 1 ELSE c)
<1>1. CASE GivenUp(t)
  <2>1. transaction_send(t) = Blank("done", t.peer, FALSE)
    BY <1>1 DEF transaction_send, transaction_remove
  <2>2. t.peer \in Peers /\ c = 0
    BY DEF Transaction, Sound
  <2>3. /\ Blank("done", t.peer, FALSE) \in Transaction
        /\ Sound(Blank("done", t.peer, FALSE), 1)
    <3>1. 1 = (IF "done" = "done" THEN 1 ELSE 0)
      OBVIOUS
    <3> QED BY <2>2, <3>1, BlankSound
  <2>4. (IF GivenUp(t) THEN c + 1 ELSE c) = 1
    BY <1>1, <2>2
  <2> QED BY <2>1, <2>3, <2>4
<1>2. CASE ~GivenUp(t)
  <2> DEFINE u == [t EXCEPT !.left = @ + Shifted(t.ctr - 1), !.ctr = @ + 1, !.sent = @ + 1]
             n == t.ctr - 1
  <2>1. transaction_send(t) = u
    BY <1>2 DEF transaction_send
  <2>2. /\ ~t.ack /\ t.ctr <= MAX_RETRANSMIT + 1
        /\ n = t.sent /\ n \in 1..MAX_RETRANSMIT
    BY <1>2, TransactionAssumption DEF GivenUp, Sound, CountersMatch, Transaction
  <2>3. /\ Shifted(n) \in Nat /\ Span(n) \in Int /\ Span(n + 1) = Span(n) + Shifted(n)
    BY <2>2, ScheduleNumbers, TransactionAssumption
  <2>4. /\ u.st = "listed" /\ u.ack = t.ack /\ u.denied = t.denied /\ u.age = t.age
        /\ u.left = t.left + Shifted(n) /\ u.ctr = t.ctr + 1 /\ u.sent = t.sent + 1
        /\ u \in Transaction
    <3> HIDE DEF n
    <3>1. t.left + Shifted(n) \in Int /\ t.ctr + 1 \in Nat /\ t.sent + 1 \in Nat
      BY <2>3 DEF Transaction
    <3> QED BY <3>1 DEF Transaction, n
  <2>5. CountersMatch(u)
    BY <2>2, <2>3, <2>4, TransactionAssumption DEF CountersMatch, Sound, Transaction
  <2>6. OnSchedule(u)
    BY <2>2, <2>3, <2>4 DEF OnSchedule, Sound, Transaction
  <2> QED BY <1>2, <2>1, <2>4, <2>5, <2>6 DEF Sound
<1> QED BY <1>1, <1>2

\* The numbers of a listed transaction are what the schedule is defined on.
LEMMA ListedNumbers ==
  ASSUME NEW t \in Transaction, CountersMatch(t), t.st = "listed"
  PROVE  /\ t.sent \in 0..(MAX_RETRANSMIT + 1) /\ Span(t.sent) \in Int
         /\ Span(t.sent) <= Span(MAX_RETRANSMIT + 1)
         /\ Span(MAX_RETRANSMIT + 1) \in Int
         /\ RESPONSE_TIMEOUT * t.ctr \in Nat
         /\ RESPONSE_TIMEOUT * t.ctr <= RESPONSE_TIMEOUT * (MAX_RETRANSMIT + 2)
         /\ RESPONSE_TIMEOUT * (MAX_RETRANSMIT + 2) \in Nat
<1>1. /\ t.sent \in 0..(MAX_RETRANSMIT + 1) /\ t.ctr \in Nat /\ t.ctr <= MAX_RETRANSMIT + 2
  BY TransactionAssumption DEF CountersMatch, Transaction
<1>2. MAX_RETRANSMIT + 1 \in 0..(MAX_RETRANSMIT + 1)
  BY TransactionAssumption
<1>3. /\ Span(t.sent) \in Int /\ Span(t.sent) <= Span(MAX_RETRANSMIT + 1)
      /\ Span(MAX_RETRANSMIT + 1) \in Int
  BY <1>1, <1>2, ScheduleNumbers
<1>4. ASSUME NEW r \in Nat, NEW a \in Nat, NEW b \in Nat, a <= b
      PROVE  r * a \in Nat /\ r * b \in Nat /\ r * a <= r * b
  BY <1>4
<1> QED
  BY <1>1, <1>3, <1>4, TransactionAssumption

\* The answers to request r are messages with the fields Handle looks at.
LEMMA HandleSound ==
  ASSUME IInv, NEW m \in Listed, NEW msg, Handle(m, msg)
  PROVE  /\ tx' \in [Mids -> Transaction] /\ calls' \in [Mids -> Nat]
         /\ \A k \in Mids : Sound(tx'[k], calls'[k])
<1> DEFINE t == tx[m]
           found == ~t.ack /\ msg.type \in {"ACK", "RST"}
           acked == t.ack \/ found
           reset == found /\ msg.type = "RST"
           done  == reset \/ prv_checkFinished(m, acked, msg)
           retry == done /\ ~reset /\ msg.code = "401" /\ MAX_RETRANSMIT > t.ctr
<1>1. /\ m \in Mids /\ t \in Transaction /\ t.st = "listed" /\ calls[m] = 0
      /\ Sound(t, 0) /\ CountersMatch(t) /\ OnSchedule(t)
      /\ tx \in [Mids -> Transaction] /\ calls \in [Mids -> Nat]
  BY DEF IInv, TypeOK, Listed, Sound
<1>2. ASSUME NEW u, NEW d \in Nat, u \in Transaction, Sound(u, d),
             tx' = [tx EXCEPT ![m] = u], calls' = [calls EXCEPT ![m] = d]
      PROVE  /\ tx' \in [Mids -> Transaction] /\ calls' \in [Mids -> Nat]
             /\ \A k \in Mids : Sound(tx'[k], calls'[k])
  BY <1>1, <1>2 DEF IInv
<1>3. ASSUME UNCHANGED calls PROVE calls' = [calls EXCEPT ![m] = 0]
  BY <1>1, <1>3
<1>4. CASE /\ retry /\ t.denied < MaxDenied
           /\ tx' = [tx EXCEPT ![m].ack = FALSE, ![m].left = @ + RESPONSE_TIMEOUT,
                               ![m].denied = @ + 1]
           /\ UNCHANGED calls
  <2> DEFINE u == [t EXCEPT !.ack = FALSE, !.left = @ + RESPONSE_TIMEOUT, !.denied = @ + 1]
  <2>1. tx' = [tx EXCEPT ![m] = u]
    BY <1>1, <1>4
  <2>2. /\ u \in Transaction /\ u.st = "listed" /\ u.ctr = t.ctr /\ u.sent = t.sent
        /\ u.left = t.left + RESPONSE_TIMEOUT /\ u.denied = t.denied + 1
    <3>1. t.left + RESPONSE_TIMEOUT \in Int /\ t.denied + 1 \in Nat
      BY <1>1, TransactionAssumption DEF Transaction
    <3> QED BY <1>1, <3>1 DEF Transaction
  <2>3. CountersMatch(u) /\ OnSchedule(u)
    BY <1>1, <2>2, TransactionAssumption DEF CountersMatch, OnSchedule, Transaction
  <2>4. Sound(u, 0)
    BY <2>2, <2>3 DEF Sound
  <2> QED BY <1>2, <1>3, <1>4, <2>1, <2>2, <2>4
<1>5. CASE /\ done /\ ~retry
           /\ tx' = [tx EXCEPT ![m] = transaction_remove(t)]
           /\ calls' = [calls EXCEPT ![m] = @ + 1]
  <2>1. calls' = [calls EXCEPT ![m] = 1]
    BY <1>1, <1>5
  <2>2. transaction_remove(t) = Blank("done", t.peer, FALSE) /\ t.peer \in Peers
    BY <1>1 DEF transaction_remove, Transaction
  <2>3. 1 = (IF "done" = "done" THEN 1 ELSE 0)
    OBVIOUS
  <2>4. transaction_remove(t) \in Transaction /\ Sound(transaction_remove(t), 1)
    BY <2>2, <2>3, BlankSound
  <2> QED BY <1>2, <1>5, <2>1, <2>4
<1>6. CASE /\ found /\ ~done
           /\ tx' = [tx EXCEPT ![m].ack = TRUE, ![m].left = RESPONSE_TIMEOUT * t.ctr]
           /\ UNCHANGED calls
  <2> DEFINE w == RESPONSE_TIMEOUT * t.ctr
             u == [t EXCEPT !.ack = TRUE, !.left = w]
  <2>1. tx' = [tx EXCEPT ![m] = u]
    BY <1>1, <1>6
  <2>2. /\ w \in Nat /\ w <= RESPONSE_TIMEOUT * (MAX_RETRANSMIT + 2)
        /\ Span(t.sent) \in Int /\ Span(t.sent) <= Span(MAX_RETRANSMIT + 1)
        /\ Span(MAX_RETRANSMIT + 1) \in Int
        /\ RESPONSE_TIMEOUT * (MAX_RETRANSMIT + 2) \in Nat
    BY <1>1, ListedNumbers
  <2> HIDE DEF w
  <2>3. /\ u \in Transaction /\ u.st = "listed" /\ u.ctr = t.ctr /\ u.sent = t.sent
        /\ u.left = w /\ u.denied = t.denied /\ u.age = t.age
    <3>1. w \in Int
      BY <2>2
    <3> QED BY <1>1, <3>1 DEF Transaction
  <2>8. u.ack
    BY <1>1 DEF Transaction
  <2>4. CountersMatch(u)
    BY <1>1, <2>2, <2>3, TransactionAssumption DEF CountersMatch, Transaction
  <2>5. ASSUME t.denied = 0 PROVE t.age + w <= AckedEnd
    <3>1. t.age + t.left = Span(t.sent)
      BY <1>1, <1>6, <2>5 DEF OnSchedule
    <3>2. t.left >= -MaxLag /\ t.left \in Int /\ t.age \in Nat /\ MaxLag \in Nat
      BY <1>1, TransactionAssumption DEF CountersMatch, Transaction
    <3> QED BY <2>2, <3>1, <3>2 DEF AckedEnd
  <2>6. OnSchedule(u)
    BY <2>3, <2>5, <2>8 DEF OnSchedule
  <2>7. Sound(u, 0)
    BY <2>3, <2>4, <2>6 DEF Sound
  <2> QED BY <1>2, <1>3, <1>6, <2>1, <2>3, <2>7
<1>7. CASE UNCHANGED <<tx, calls>>
  BY <1>1, <1>7 DEF IInv
<1> QED
  BY <1>4, <1>5, <1>6, <1>7 DEF Handle

\* A message that concerns no listed transaction only touches the history.
LEMMA IgnoreSound ==
  ASSUME IInv, NEW r \in Mids, NEW p, NEW msg, Ignore(p, r, msg)
  PROVE  /\ tx' \in [Mids -> Transaction] /\ calls' \in [Mids -> Nat]
         /\ \A k \in Mids : Sound(tx'[k], calls'[k])
<1> DEFINE t == tx[r]
           h == t.heard \/ /\ r \in Listed /\ t.tok
                           /\ msg.token = {r} /\ msg.code = "final"
           u == [t EXCEPT !.heard = h]
<1>1. /\ tx \in [Mids -> Transaction] /\ calls \in [Mids -> Nat]
      /\ t \in Transaction /\ Sound(t, calls[r])
  BY DEF IInv, TypeOK
<1>2. tx' = [tx EXCEPT ![r] = u] /\ calls' = calls
  BY <1>1 DEF Ignore
<1>3. h \in BOOLEAN
  BY <1>1 DEF Transaction
<1> HIDE DEF h
<1>4. /\ u \in Transaction /\ u.st = t.st /\ u.ctr = t.ctr /\ u.sent = t.sent
      /\ u.left = t.left /\ u.denied = t.denied /\ u.age = t.age /\ u.ack = t.ack
  BY <1>1, <1>3 DEF Transaction
<1>5. CountersMatch(u) /\ OnSchedule(u)
  BY <1>1, <1>4 DEF Sound, CountersMatch, OnSchedule
<1>6. Sound(u, calls[r])
  BY <1>1, <1>4, <1>5 DEF Sound
<1> QED
  BY <1>1, <1>2, <1>4, <1>6 DEF IInv

\* A second passes for one listed transaction.
LEMMA TickSound ==
  ASSUME NEW t \in Transaction, NEW c, Sound(t, c), t.st = "listed", t.left > -MaxLag
  PROVE  LET u == [t EXCEPT !.left = @ - 1, !.age = @ + 1]
         IN  u \in Transaction /\ Sound(u, c)
<1> DEFINE u == [t EXCEPT !.left = @ - 1, !.age = @ + 1]
<1>1. t.left - 1 \in Int /\ t.age + 1 \in Nat /\ t.left \in Int /\ t.age \in Nat
  BY DEF Transaction
<1>2. /\ u \in Transaction /\ u.st = t.st /\ u.ctr = t.ctr /\ u.sent = t.sent
      /\ u.left = t.left - 1 /\ u.denied = t.denied /\ u.age = t.age + 1 /\ u.ack = t.ack
  BY <1>1 DEF Transaction
<1>3. u.age + u.left = t.age + t.left
  BY <1>1, <1>2
<1>4. u.left >= -MaxLag
  BY <1>1, <1>2, TransactionAssumption
<1>5. CountersMatch(u) /\ OnSchedule(u)
  BY <1>2, <1>3, <1>4 DEF Sound, CountersMatch, OnSchedule
<1> QED
  BY <1>2, <1>5 DEF Sound

\* Initially no transaction is listed.
LEMMA InitIInv == Init => IInv
<1> SUFFICES ASSUME Init PROVE IInv
  OBVIOUS
<1>1. /\ tx \in [Mids -> {Blank("free", p, tok) : p \in Peers, tok \in BOOLEAN}]
      /\ timeout = 0 /\ calls = [m \in Mids |-> 0]
  BY DEF Init
<1>2. ASSUME NEW m \in Mids PROVE tx[m] \in Transaction /\ Sound(tx[m], calls[m])
  <2>1. PICK p \in Peers, tok \in BOOLEAN : tx[m] = Blank("free", p, tok)
    BY <1>1
  <2>2. calls[m] = (IF "free" = "done" THEN 1 ELSE 0)
    BY <1>1
  <2> QED BY <2>1, <2>2, BlankSound
<1>3. tx \in [Mids -> Transaction] /\ calls \in [Mids -> Nat]
  BY <1>1, <1>2
<1> QED
  BY <1>1, <1>2, <1>3 DEF IInv, TypeOK

\* The first transmission puts a sound transaction on the list.
LEMMA SendRequestIInv ==
  ASSUME IInv, NEW m \in Mids, SendRequest(m)
  PROVE  IInv'
<1> DEFINE t == tx[m]
           u == [t EXCEPT !.st = "listed", !.ctr = 2, !.left = RESPONSE_TIMEOUT, !.sent = 1]
<1>1. /\ tx \in [Mids -> Transaction] /\ calls \in [Mids -> Nat] /\ t \in Transaction
      /\ calls[m] = 0
  BY DEF IInv, TypeOK, SendRequest, Sound
<1>2. tx' = [tx EXCEPT ![m] = u] /\ timeout' = 0 /\ calls' = calls
  BY <1>1 DEF SendRequest
<1>3. RESPONSE_TIMEOUT \in Nat /\ MAX_RETRANSMIT \in Nat /\ MaxLag \in Nat
  BY TransactionAssumption
<1>4. /\ u.st = "listed" /\ u.ctr = 2 /\ u.sent = 1
      /\ u.left = RESPONSE_TIMEOUT /\ u.age = t.age
  BY <1>1 DEF Transaction
<1>5. u.ack = t.ack
  BY <1>1 DEF Transaction
<1>6. u \in Transaction
  <2>1. RESPONSE_TIMEOUT \in Int /\ 2 \in Nat /\ 1 \in Nat
    BY <1>3
  <2> QED BY <1>1, <2>1 DEF Transaction
<1>7. t.age = 0 /\ ~t.ack
  BY DEF IInv, Sound, CountersMatch, SendRequest
<1>8. Span(1) = RESPONSE_TIMEOUT
  <2>1. 0 \in 0..(MAX_RETRANSMIT + 1) /\ 0 + 1 = 1
    BY <1>3
  <2>2. 2^1 = 2 * 2^0
    BY <2>1, ShiftAssumption
  <2>3. 2^0 = 1
    BY SMT
  <2> QED BY <1>3, <2>2, <2>3 DEF Span
<1>9. CountersMatch(u) /\ OnSchedule(u)
  BY <1>3, <1>4, <1>5, <1>7, <1>8 DEF CountersMatch, OnSchedule
<1>10. Sound(u, 0)
  BY <1>4, <1>9 DEF Sound
<1> QED
  BY <1>1, <1>2, <1>6, <1>10 DEF IInv, TypeOK

\* A request that cannot be serialised leaves no trace but its state.
LEMMA SendFailsIInv ==
  ASSUME IInv, NEW m \in Mids, SendFails(m)
  PROVE  IInv'
<1> DEFINE t == tx[m]
           u == [t EXCEPT !.st = "unsent"]
<1>1. /\ tx \in [Mids -> Transaction] /\ calls \in [Mids -> Nat] /\ t \in Transaction
      /\ calls[m] = 0 /\ CountersMatch(t) /\ t.st = "free"
  BY DEF IInv, TypeOK, SendFails, Sound
<1>2. tx' = [tx EXCEPT ![m] = u] /\ timeout' = timeout /\ calls' = calls
  BY <1>1 DEF SendFails
<1>3. /\ u \in Transaction /\ u.st = "unsent" /\ u.sent = t.sent /\ u.age = t.age
  BY <1>1 DEF Transaction
<1>4. u.ack = t.ack
  BY <1>1 DEF Transaction
<1>5. Sound(u, 0)
  BY <1>1, <1>3, <1>4 DEF Sound, CountersMatch, OnSchedule
<1> QED
  BY <1>1, <1>2, <1>3, <1>5 DEF IInv, TypeOK

\* transaction_step keeps every transaction sound.
LEMMA StepIInv ==
  ASSUME IInv, transaction_step
  PROVE  IInv'
<1> DEFINE new == [m \in Mids |-> IF m \in Due THEN transaction_send(tx[m]) ELSE tx[m]]
<1>1. /\ tx' = new
      /\ calls' = [m \in Mids |-> IF m \in Removed THEN calls[m] + 1 ELSE calls[m]]
      /\ \/ timeout' = 1
         \/ timeout' \in {StepTimeout} \cup {Interval(new[m]) : m \in Listed}
  BY DEF transaction_step
<1>2. ASSUME NEW m \in Mids
      PROVE  new[m] \in Transaction /\ calls'[m] \in Nat /\ Sound(new[m], calls'[m])
  <2>1. tx[m] \in Transaction /\ calls[m] \in Nat /\ Sound(tx[m], calls[m])
    BY DEF IInv, TypeOK
  <2>2. CASE m \in Due
    <3>1. calls'[m] = IF GivenUp(tx[m]) THEN calls[m] + 1 ELSE calls[m]
      BY <1>1, <2>2 DEF Removed
    <3>2. new[m] = transaction_send(tx[m]) /\ tx[m].st = "listed" /\ tx[m].left <= 0
      BY <2>2 DEF Due, Listed
    <3> QED BY <2>1, <3>1, <3>2, SendSound
  <2>3. CASE m \notin Due
    BY <1>1, <2>1, <2>3 DEF Removed
  <2> QED BY <2>2, <2>3
<1>3. timeout' \in Nat
  <2>1. ASSUME NEW m \in Mids PROVE Interval(new[m]) \in Nat
    BY <1>2 DEF Interval, Transaction
  <2> QED BY <1>1, <2>1, TransactionAssumption DEF Listed
<1>4. tx' \in [Mids -> Transaction] /\ calls' \in [Mids -> Nat]
  BY <1>1, <1>2
<1> QED
  BY <1>1, <1>2, <1>3, <1>4 DEF IInv, TypeOK

\* Time passing keeps every transaction sound.
LEMMA TickIInv ==
  ASSUME IInv, Tick
  PROVE  IInv'
<1>1. /\ tx' = [m \in Mids |-> IF m \in Listed
                               THEN [tx[m] EXCEPT !.left = @ - 1, !.age = @ + 1]
                               ELSE tx[m]]
      /\ calls' = calls /\ calls \in [Mids -> Nat]
      /\ \A m \in Listed : tx[m].left > -MaxLag
  BY DEF Tick, IInv, TypeOK
<1>2. ASSUME NEW m \in Mids
      PROVE  tx'[m] \in Transaction /\ Sound(tx'[m], calls'[m])
  <2>1. tx[m] \in Transaction /\ Sound(tx[m], calls[m])
    BY DEF IInv, TypeOK
  <2>2. CASE m \in Listed
    <3>1. tx[m].st = "listed" /\ tx[m].left > -MaxLag
      BY <1>1, <2>2 DEF Listed
    <3> QED BY <1>1, <2>1, <2>2, <3>1, TickSound
  <2>3. CASE m \notin Listed
    BY <1>1, <2>1, <2>3 DEF Removed
  <2> QED BY <2>2, <2>3
<1>3. timeout' \in Nat
  <2>1. timeout \in Nat /\ timeout' = IF timeout > 0 THEN timeout - 1 ELSE 0
    BY DEF Tick, IInv, TypeOK
  <2> QED BY <2>1
<1>4. tx' \in [Mids -> Transaction]
  <2> DEFINE F(m) == IF m \in Listed THEN [tx[m] EXCEPT !.left = @ - 1, !.age = @ + 1]
                                    ELSE tx[m]
  <2>1. tx' = [m \in Mids |-> F(m)]
    BY <1>1
  <2> HIDE DEF F
  <2>2. \A m \in Mids : F(m) \in Transaction
    BY <1>2, <2>1
  <2> QED BY <2>1, <2>2
<1> QED
  BY <1>1, <1>2, <1>3, <1>4 DEF IInv, TypeOK

\* Every step preserves the inductive invariant.
LEMMA NextIInv == IInv /\ [Next]_vars => IInv'
<1> SUFFICES ASSUME IInv, [Next]_vars PROVE IInv'
  OBVIOUS
<1>1. CASE \E m \in Mids : SendRequest(m) \/ SendFails(m)
  BY <1>1, SendRequestIInv, SendFailsIInv
<1>2. CASE transaction_step
  BY <1>2, StepIInv
<1>3. CASE Receive
  <2>0. PICK r \in Mids : \E msg \in Answer(r) : transaction_handleResponse(tx[r].peer, r, msg)
    BY <1>3 DEF Receive
  <2>1. PICK msg \in Answer(r) : transaction_handleResponse(tx[r].peer, r, msg)
    BY <2>0
  <2>2. timeout' = 0
    BY <2>1 DEF transaction_handleResponse
  <2>3. /\ tx' \in [Mids -> Transaction] /\ calls' \in [Mids -> Nat]
        /\ \A k \in Mids : Sound(tx'[k], calls'[k])
    BY <2>1, HandleSound, IgnoreSound DEF transaction_handleResponse
  <2> QED BY <2>2, <2>3 DEF IInv, TypeOK
<1>4. CASE Tick
  BY <1>4, TickIInv
<1>5. CASE UNCHANGED vars
  BY <1>5 DEF vars, IInv, TypeOK
<1> QED
  BY <1>1, <1>2, <1>3, <1>4, <1>5 DEF Next

(* The inductive invariant holds in every reachable state.                 *)
THEOREM Invariance == Spec => []IInv
BY InitIInv, NextIInv, PTL DEF Spec

(* Transactions, the sleeping time and the callback counts keep their      *)
(* types: retrans_counter never runs past what transaction_send tests.     *)
THEOREM TypeCorrect == Spec => []TypeOK
<1>1. IInv => TypeOK
  BY DEF IInv
<1> QED BY <1>1, Invariance, PTL

(* transaction.c calls a transaction's callback exactly once, when it      *)
(* leaves the list, whatever arrives in whatever order.                    *)
THEOREM CallbackCorrect == Spec => []CallbackOnce
<1>1. IInv => CallbackOnce
  BY DEF IInv, Sound, CallbackOnce
<1> QED BY <1>1, Invariance, PTL

(* A request is transmitted at most MAX_RETRANSMIT + 1 times.              *)
THEOREM TransmissionsBounded == Spec => []TransmitBound
<1>1. IInv => TransmitBound
  <2> SUFFICES ASSUME IInv, NEW m \in Mids PROVE tx[m].sent <= MAX_RETRANSMIT + 1
    BY DEF TransmitBound
  <2>1. CountersMatch(tx[m]) /\ tx[m] \in Transaction
    BY DEF IInv, Sound, TypeOK
  <2> QED BY <2>1, TransactionAssumption DEF CountersMatch, Transaction
<1> QED BY <1>1, Invariance, PTL

(* Retransmissions keep the exponential back-off.                          *)
THEOREM BackoffCorrect == Spec => []BackoffKept
<1>1. IInv => BackoffKept
  <2> SUFFICES ASSUME IInv, NEW m \in Listed, ~tx[m].ack, tx[m].denied = 0
               PROVE  tx[m].age + tx[m].left >= Span(tx[m].sent)
    BY DEF BackoffKept
  <2>1. /\ OnSchedule(tx[m]) /\ CountersMatch(tx[m]) /\ tx[m] \in Transaction
        /\ tx[m].st = "listed"
    BY DEF IInv, Sound, TypeOK, Listed
  <2>2. Span(tx[m].sent) \in Int
    BY <2>1, ListedNumbers
  <2> QED BY <2>1, <2>2 DEF OnSchedule, Transaction
<1> QED BY <1>1, Invariance, PTL

(* A transaction that is not refused is over within a time that depends    *)
(* on the retransmission parameters and the lag of the event loop only.    *)
THEOREM LifetimeBounded == Spec => []EndsInTime
<1>1. IInv => EndsInTime
  <2> DEFINE S == Span(MAX_RETRANSMIT + 1)
             W == RESPONSE_TIMEOUT * (MAX_RETRANSMIT + 2)
  <2> SUFFICES ASSUME IInv, NEW m \in Listed, tx[m].denied = 0
               PROVE  tx[m].age <= S + W + 2 * MaxLag
    BY DEF EndsInTime
  <2> DEFINE t == tx[m]
  <2>1. /\ OnSchedule(t) /\ CountersMatch(t) /\ t \in Transaction /\ t.st = "listed"
    BY DEF IInv, Sound, TypeOK, Listed
  <2>2. /\ Span(t.sent) \in Int /\ Span(t.sent) <= S /\ S \in Int /\ W \in Nat
    BY <2>1, ListedNumbers
  <2>3. /\ t.age \in Nat /\ t.left \in Int /\ t.left >= -MaxLag /\ MaxLag \in Nat
    BY <2>1, TransactionAssumption DEF CountersMatch, Transaction
  <2>4. t.age + t.left <= S + W + MaxLag
    <3>1. CASE t.ack
      BY <2>1, <3>1 DEF OnSchedule, AckedEnd
    <3>2. CASE ~t.ack
      <4>1. t.age + t.left = Span(t.sent)
        BY <2>1, <3>2 DEF OnSchedule
      <4> HIDE DEF S, W
      <4> QED BY <2>2, <2>3, <4>1
    <3> QED BY <3>1, <3>2
  <2> HIDE DEF S, W
  <2> QED BY <2>2, <2>3, <2>4
<1> QED BY <1>1, Invariance, PTL

\* A wait is a number of seconds, one at least.
LEMMA IntervalPositive ==
  ASSUME NEW t \in Transaction
  PROVE  Interval(t) \in Nat /\ Interval(t) >= 1 /\ Interval(t) >= t.left
BY DEF Interval, Transaction

\* What is listed after a step was listed before it, or was sent just now.
LEMMA WaitKept == IInv /\ NoOversleep /\ [Next]_vars => NoOversleep'
<1> SUFFICES ASSUME IInv, NoOversleep, [Next]_vars, NEW m \in Mids, tx'[m].st = "listed"
             PROVE  timeout' <= Interval(tx'[m])
  BY DEF NoOversleep, Listed
<1>1. IInv'
  BY NextIInv
<1>2. /\ tx \in [Mids -> Transaction] /\ timeout \in Nat
      /\ tx'[m] \in Transaction /\ timeout' \in Nat
  BY <1>1 DEF IInv, TypeOK
<1>3. Interval(tx'[m]) \in Nat /\ Interval(tx'[m]) >= 1
  BY <1>2, IntervalPositive
<1>4. CASE timeout' = 0
  BY <1>3, <1>4
<1>5. CASE \E k \in Mids : SendRequest(k)
  BY <1>4, <1>5 DEF SendRequest
<1>6. CASE \E k \in Mids : SendFails(k)
  <2>1. PICK k \in Mids : SendFails(k)
    BY <1>6
  <2>2. /\ timeout' = timeout /\ k # m /\ tx'[m] = tx[m]
    <3>1. tx'[k].st = "unsent"
      BY <1>2, <2>1 DEF SendFails, Transaction
    <3> QED BY <1>2, <2>1, <3>1 DEF SendFails
  <2> QED BY <2>2 DEF NoOversleep, Listed
<1>7. CASE transaction_step
  <2> DEFINE new == [k \in Mids |-> IF k \in Due THEN transaction_send(tx[k]) ELSE tx[k]]
  <2>1. m \in Listed
    <3>1. m \in Due \/ tx'[m] = tx[m]
      BY <1>7 DEF transaction_step
    <3> QED BY <3>1 DEF Due, Listed
  <2>2. timeout' = 1 \/ timeout' <= Interval(new[m])
    BY <1>7, <2>1 DEF transaction_step
  <2>3. tx'[m] = new[m]
    BY <1>7 DEF transaction_step
  <2> QED BY <1>2, <1>3, <2>2, <2>3
<1>8. CASE Receive
  <2>1. timeout' = 0
    BY <1>8 DEF Receive, transaction_handleResponse
  <2> QED BY <1>4, <2>1
<1>9. CASE Tick
  <2>1. m \in Listed
    BY <1>2, <1>9 DEF Tick, Listed
  <2>2. tx'[m] = [tx[m] EXCEPT !.left = @ - 1, !.age = @ + 1]
    BY <1>9, <2>1 DEF Tick
  <2>3. tx'[m].left = tx[m].left - 1 /\ tx[m].left \in Int
    BY <1>2, <2>2 DEF Transaction
  <2>4. timeout <= Interval(tx[m]) /\ timeout' = IF timeout > 0 THEN timeout - 1 ELSE 0
    BY <1>9, <2>1 DEF Tick, NoOversleep
  <2> QED BY <1>2, <2>3, <2>4 DEF Interval
<1>10. CASE UNCHANGED vars
  BY <1>10 DEF vars, NoOversleep, Listed
<1> QED
  BY <1>5, <1>6, <1>7, <1>8, <1>9, <1>10 DEF Next

(* transaction_step hands back a time no longer than the shortest wait of  *)
(* a listed transaction, and it stays so while time passes, requests are   *)
(* made and packets come in: the event loop never sleeps past one.         *)
THEOREM SleepBounded == Spec => []NoOversleep
<1>1. Init => NoOversleep
  <2> SUFFICES ASSUME Init, NEW m \in Mids PROVE timeout <= Interval(tx[m])
    BY DEF NoOversleep, Listed
  <2>1. tx[m] \in Transaction /\ timeout = 0
    BY InitIInv DEF IInv, TypeOK, Init
  <2>2. Interval(tx[m]) \in Nat
    BY <2>1, IntervalPositive
  <2> QED BY <2>1, <2>2
<1> QED BY <1>1, WaitKept, Invariance, PTL DEF Spec
============================================================================

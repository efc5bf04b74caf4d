------------------------- MODULE RegistrationProofs -------------------------
(***************************************************************************)
(* Proofs about Registration, for every set of servers, every order among  *)
(* them and every limit: the type invariant, the bound on the              *)
(* registrations that are sent, that a server that waits has a request     *)
(* under way, the order of registration, that an update with objects stays *)
(* asked for, and that the servers have the current object list. Each of   *)
(* the last three rests on lemmas that say what an operator on the context *)
(* changes, server by server.                                              *)
(***************************************************************************)
EXTENDS Registration, FiniteSetTheorems, TLAPS

\* The limits that count: one attempt and one sequence are always made.
A == AtLeastOne(AttemptLimit)
S == AtLeastOne(SequenceLimit)

LEMMA Limits == /\ A \in Nat /\ A > 0 /\ AttemptLimit <= A /\ AttemptLimit \in Nat
                /\ S \in Nat /\ S > 0 /\ SequenceLimit <= S /\ SequenceLimit \in Nat
                /\ (AttemptLimit = 0 => A = 1) /\ (AttemptLimit # 0 => A = AttemptLimit)
  BY RegistrationAssumption DEF A, S, AtLeastOne

(***************************************************************************)
(* The inductive invariant of one server. tries is bounded by what attempt *)
(* and sequence say; a server that is about to register has an attempt     *)
(* left in this sequence, or a sequence left.                              *)
(***************************************************************************)
Bounded(r) ==
  /\ r.attempt <= A /\ r.sequence <= S
  /\ r.sequence = 0 => r.attempt = 0
  /\ r.attempt = 0 => r.tries <= r.sequence * A
  /\ r.attempt > 0 => r.tries <= (r.sequence - 1) * A + r.attempt
  /\ r.status = "REG_HOLD_OFF" => \/ r.attempt = 0 /\ r.sequence < S
                                  \/ r.attempt > 0 /\ r.attempt < A
  /\ r.status = "REG_PENDING" => r.attempt > 0

Good(r) == r \in Server /\ Bounded(r)

\* Multiplication by A, as far as it is needed.
LEMMA Times ==
  /\ 0 * A = 0
  /\ \A n \in Nat : n * A \in Nat /\ (n + 1) * A = n * A + A /\ (n + 1 - 1) * A = n * A
  /\ \A n \in Nat : n <= S => n * A <= A * S
<1>1. A \in Nat /\ S \in Nat
  BY Limits
<1>2. \A n \in Nat : n * A \in Nat /\ (n + 1) * A = n * A + A /\ (n + 1 - 1) * A = n * A
  BY <1>1
<1>3. \A n \in Nat : n <= S => n * A <= A * S
  <2> HIDE DEF A, S
  <2>1. SUFFICES ASSUME NEW n \in Nat, n <= S PROVE n * A <= A * S
    OBVIOUS
  <2>2. PICK d \in Nat : S = n + d
    BY <1>1, <2>1
  <2>3. A * S = n * A + d * A
    BY <1>1, <2>2
  <2>4. d * A \in Nat /\ n * A \in Nat
    BY <1>1
  <2> QED
    BY <2>3, <2>4
<1> QED
  BY <1>1, <1>2, <1>3

\* The bound on the registrations follows.
LEMMA BoundedTries ==
  ASSUME NEW r, Good(r) PROVE r.tries <= A * S
<1>1. r.attempt \in Nat /\ r.sequence \in Nat /\ r.tries \in Nat
  BY DEF Good, Server
<1> DEFINE n == r.sequence
<1>2. n * A <= A * S /\ n * A \in Nat /\ A * S \in Nat
  BY <1>1, Times, Limits DEF Good, Bounded
<1>3. CASE r.attempt = 0
  BY <1>1, <1>2, <1>3 DEF Good, Bounded
<1>4. CASE r.attempt > 0
  <2>1. n # 0 /\ r.attempt <= A /\ r.tries <= (n - 1) * A + r.attempt
    BY <1>1, <1>4 DEF Good, Bounded
  <2>2. n - 1 \in Nat /\ (n - 1 + 1) * A = (n - 1) * A + A /\ (n - 1) * A \in Nat
    BY <1>1, <2>1, Times
  <2>3. n * A = (n - 1) * A + A
    BY <1>1, <2>2
  <2> HIDE DEF n
  <2> QED
    BY <1>1, <1>2, <2>1, <2>2, <2>3, Limits
<1> QED
  BY <1>1, <1>3, <1>4
----------------------------------------------------------------------------
(* What the operations on one server do to it.                             *)

\* A change of status that is neither to hold-off nor to pending, and any change
\* of the flags, keeps a server good.
LEMMA StatusChange ==
  ASSUME NEW r, Good(r), NEW x \in Server,
         x.attempt = r.attempt, x.sequence = r.sequence, x.tries = r.tries,
         x.status \in {r.status} \cup (RegStatus \ Pending)
  PROVE  Good(x)
BY DEF Good, Bounded, Pending

\* registration_start resets a server that is not registering.
Reset(r) == [r EXCEPT !.attempt = 0, !.sequence = 0, !.tries = 0, !.waiting = TRUE]

LEMMA ResetGood ==
  ASSUME NEW r \in Server
  PROVE  /\ Reset(r) \in Server
         /\ r.status \notin Pending => Good(Reset(r))
         /\ \A s \in Servers : Good(prv_startRegistration(Reset(r), s))
<1>1. Reset(r) \in Server
  BY DEF Reset, Server
<1>2. /\ Reset(r).attempt = 0 /\ Reset(r).sequence = 0 /\ Reset(r).tries = 0
      /\ Reset(r).status = r.status
  BY DEF Reset, Server
<1>3. ASSUME r.status \notin Pending PROVE Good(Reset(r))
  BY <1>1, <1>2, <1>3, Limits, Times DEF Good, Bounded, Pending
<1>4. ASSUME NEW s \in Servers PROVE Good(prv_startRegistration(Reset(r), s))
  <2> DEFINE x == prv_startRegistration(Reset(r), s)
  <2>1. x \in Server
    BY <1>1 DEF prv_startRegistration, Server, RegStatus
  <2>2. x.attempt = 0 /\ x.sequence = 0 /\ x.tries = 0 /\ x.status = "REG_HOLD_OFF"
    BY <1>1, <1>2 DEF prv_startRegistration, Server
  <2> QED
    BY <2>1, <2>2, Limits, Times DEF Good, Bounded
<1> QED
  BY <1>1, <1>3, <1>4

\* prv_register uses up an attempt, and a sequence when it is the first one.
LEMMA RegisterGood ==
  ASSUME NEW r, Good(r), r.status = "REG_HOLD_OFF"
  PROVE  Good(prv_register(r))
<1> DEFINE x == prv_register(r)
           n == r.sequence
<1>1. /\ r.attempt \in Nat /\ n \in Nat /\ r.tries \in Nat /\ r \in Server
  BY DEF Good, Server
<1> DEFINE q == IF r.attempt = 0 THEN n + 1 ELSE n
<1>a. r.attempt + 1 \in Nat /\ r.tries + 1 \in Nat /\ q \in Nat
  BY <1>1
<1>b. x = [r EXCEPT !.status = "REG_PENDING", !.open = TRUE, !.attempt = r.attempt + 1,
                    !.tries = r.tries + 1, !.sequence = q]
  BY <1>1 DEF prv_register, Server
<1>2. x \in Server
  <2> HIDE DEF q, x
  <2> QED
    BY <1>1, <1>a, <1>b DEF Server, RegStatus
<1>3. x.attempt = r.attempt + 1 /\ x.tries = r.tries + 1 /\ x.status = "REG_PENDING"
  BY <1>1 DEF prv_register, Server
<1>4. x.sequence = IF r.attempt = 0 THEN n + 1 ELSE n
  BY <1>1 DEF prv_register, Server
<1>5. CASE r.attempt = 0
  <2>1. n < S /\ r.tries <= n * A
    BY <1>5 DEF Good, Bounded
  <2>2. x.sequence = n + 1 /\ x.attempt = 1
    BY <1>3, <1>4, <1>5
  <2>3. x.tries <= (x.sequence - 1) * A + x.attempt
    <3>1. (n + 1 - 1) * A = n * A /\ n * A \in Nat
      BY <1>1, Times
    <3> HIDE DEF x, n, A
    <3> QED
      BY <3>1, <1>1, <1>3, <2>1, <2>2
  <2>4. x.sequence <= S /\ x.sequence # 0 /\ x.attempt <= A
    BY <1>1, <2>1, <2>2, Limits
  <2> HIDE DEF x, n
  <2>5. Bounded(x)
    BY <1>3, <2>2, <2>3, <2>4 DEF Bounded
  <2> QED
    BY <1>2, <2>5 DEF Good, x
<1>6. CASE r.attempt # 0
  <2>1. n # 0 /\ r.attempt < A /\ n <= S /\ r.tries <= (n - 1) * A + r.attempt
    BY <1>1, <1>6 DEF Good, Bounded
  <2>2. x.sequence = n
    BY <1>4, <1>6
  <2>3. x.tries <= (x.sequence - 1) * A + x.attempt
    <3>1. (n - 1) * A \in Nat
      BY <1>1, <2>1, Times
    <3> HIDE DEF x, n
    <3> QED
      BY <3>1, <1>1, <1>3, <2>1, <2>2
  <2> QED
    BY <1>1, <1>2, <1>3, <2>1, <2>2, <2>3, Limits DEF Good, Bounded
<1> QED
  BY <1>5, <1>6

\* An attempt failed and another one is allowed.
LEMMA HoldOffGood ==
  ASSUME NEW r, Good(r), r.status = "REG_PENDING", r.attempt < AttemptLimit
  PROVE  Good([r EXCEPT !.status = "REG_HOLD_OFF", !.due = FALSE])
<1> DEFINE x == [r EXCEPT !.status = "REG_HOLD_OFF", !.due = FALSE]
<1>1. x \in Server
  BY DEF Good, Server, RegStatus
<1>2. /\ x.attempt = r.attempt /\ x.sequence = r.sequence /\ x.tries = r.tries
      /\ x.status = "REG_HOLD_OFF"
  BY DEF Good, Server
<1>3. r.attempt > 0 /\ r.attempt < A /\ r.attempt \in Nat
  BY Limits DEF Good, Bounded, Server
<1> QED
  BY <1>1, <1>2, <1>3 DEF Good, Bounded

\* A sequence failed and another one is allowed.
LEMMA NextSequenceGood ==
  ASSUME NEW r, Good(r), r.status = "REG_PENDING", r.sequence < SequenceLimit
  PROVE  Good([r EXCEPT !.status = "REG_HOLD_OFF", !.due = FALSE, !.attempt = 0])
<1> DEFINE x == [r EXCEPT !.status = "REG_HOLD_OFF", !.due = FALSE, !.attempt = 0]
           n == r.sequence
<1>1. x \in Server
  BY DEF Good, Server, RegStatus
<1>2. /\ x.attempt = 0 /\ x.sequence = r.sequence /\ x.tries = r.tries
      /\ x.status = "REG_HOLD_OFF"
  BY DEF Good, Server
<1>3. r.attempt \in Nat /\ n \in Nat /\ r.tries \in Nat
  BY DEF Good, Server
<1>4. n < S /\ n # 0 /\ r.attempt <= A /\ r.tries <= (n - 1) * A + r.attempt
  BY <1>3, Limits DEF Good, Bounded
<1>5. n - 1 \in Nat /\ (n - 1 + 1) * A = (n - 1) * A + A /\ (n - 1) * A \in Nat
  BY <1>3, <1>4, Times
<1>6. n * A = (n - 1) * A + A
  BY <1>3, <1>5
<1>7. r.tries <= n * A
  <2> HIDE DEF n
  <2> QED
    BY <1>3, <1>4, <1>5, <1>6, Limits
<1> QED
  BY <1>1, <1>2, <1>3, <1>4, <1>7, Limits DEF Good, Bounded
----------------------------------------------------------------------------
(* What the operations on the context do to it.                            *)
GoodContext(c) == c \in Context /\ \A s \in Servers : Good(c.srv[s])

LEMMA ServersAssigned ==
  ASSUME NEW c, GoodContext(c), NEW f, DOMAIN f = Servers, f = [s \in Servers |-> f[s]],
         \A s \in Servers : Good(f[s])
  PROVE  GoodContext([c EXCEPT !.srv = f])
<1>1. f \in [Servers -> Server]
  BY DEF Good
<1>2. [c EXCEPT !.srv = f] \in Context /\ [c EXCEPT !.srv = f].srv = f
  BY <1>1 DEF GoodContext, Context
<1> QED
  BY <1>2 DEF GoodContext

LEMMA ServerAssigned ==
  ASSUME NEW c, GoodContext(c), NEW s \in Servers, NEW x, Good(x)
  PROVE  GoodContext([c EXCEPT !.srv[s] = x])
<1> DEFINE d == [c EXCEPT !.srv[s] = x]
<1>1. x \in Server /\ c \in Context /\ c.srv \in [Servers -> Server]
  BY DEF Good, GoodContext, Context
<1>2. d \in Context /\ d.srv = [c.srv EXCEPT ![s] = x]
  BY <1>1 DEF Context
<1>3. \A t \in Servers : d.srv[t] = IF t = s THEN x ELSE c.srv[t]
  BY <1>1, <1>2
<1> QED
  BY <1>2, <1>3 DEF GoodContext

LEMMA StateAssigned ==
  ASSUME NEW c, GoodContext(c), NEW st \in ClientStates
  PROVE  GoodContext([c EXCEPT !.state = st])
<1>1. [c EXCEPT !.state = st] \in Context /\ [c EXCEPT !.state = st].srv = c.srv
  BY DEF GoodContext, Context
<1> QED
  BY <1>1 DEF GoodContext

LEMMA ProgressAssigned ==
  ASSUME NEW c, GoodContext(c), NEW b \in {"ongoing", "finished", "failed"}
  PROVE  GoodContext([c EXCEPT !.bs = b])
<1>1. [c EXCEPT !.bs = b] \in Context /\ [c EXCEPT !.bs = b].srv = c.srv
  BY DEF GoodContext, Context
<1> QED
  BY <1>1 DEF GoodContext

\* registration_start leaves the servers alone that are registering.
LEMMA StartGood ==
  ASSUME NEW c, GoodContext(c), NEW restart \in BOOLEAN
  PROVE  /\ GoodContext(registration_start(c, restart))
         /\ \A s \in Servers : c.srv[s].status = "REG_PENDING" =>
              registration_start(c, restart).srv[s] = c.srv[s]
<1> DEFINE startable == {s \in Servers : \/ c.srv[s].status = "DEREGISTERED"
                                         \/ (restart /\ c.srv[s].status = "REG_FAILED")}
           starts == (startable \ Ordered) \cup First(startable \cap Ordered)
           f == [s \in Servers |-> IF s \in starts THEN prv_startRegistration(Reset(c.srv[s]), s)
                                   ELSE IF s \in startable THEN Reset(c.srv[s])
                                   ELSE c.srv[s]]
<1>1. starts \subseteq startable /\ \A s \in startable : c.srv[s].status \notin Pending
  BY DEF First, Pending
<1>2. \A s \in Servers : c.srv[s] \in Server /\ Good(c.srv[s])
  BY DEF GoodContext, Good
<1>3. registration_start(c, restart) = [c EXCEPT !.srv = f]
  BY DEF registration_start, Reset, GoodContext, Context
<1> HIDE DEF startable, starts
<1>4. ASSUME NEW s \in Servers PROVE Good(f[s])
  BY <1>1, <1>2, ResetGood
<1>5. GoodContext([c EXCEPT !.srv = f])
  BY <1>4, ServersAssigned
<1>6. ASSUME NEW s \in Servers, c.srv[s].status = "REG_PENDING" PROVE f[s] = c.srv[s]
  BY <1>1, <1>6 DEF Pending
<1>7. [c EXCEPT !.srv = f].srv = f
  BY DEF GoodContext, Context
<1> QED
  BY <1>3, <1>5, <1>6, <1>7

\* A registration failed: the server is held off again, or it has failed.
LEMMA SequenceFailureGood ==
  ASSUME NEW c, GoodContext(c), NEW s \in Servers, c.srv[s].status = "REG_PENDING"
  PROVE  GoodContext(prv_handleRegistrationSequenceFailure(c, s))
<1> DEFINE next == IF s \in Ordered \ Blocking /\ c.srv[s].sequence = 1
                   THEN registration_start(c, FALSE) ELSE c
           r == next.srv[s]
           failed == [next EXCEPT !.srv[s].status = "REG_FAILED"]
           held == [next EXCEPT !.srv[s].status = "REG_HOLD_OFF", !.srv[s].due = FALSE,
                                !.srv[s].attempt = 0]
           taken == [t \in Servers |-> IF t \in Ordered /\ failed.srv[t].status = "DEREGISTERED"
                       THEN [failed.srv[t] EXCEPT !.status = "REG_FAILED", !.waiting = FALSE]
                       ELSE failed.srv[t]]
<1>1. GoodContext(next) /\ r = c.srv[s]
  BY StartGood
<1>2. /\ next \in Context /\ next.srv \in [Servers -> Server]
      /\ Good(r) /\ r \in Server /\ r.status = "REG_PENDING"
  BY <1>1 DEF GoodContext, Context, Good
<1>3. prv_handleRegistrationSequenceFailure(c, s) =
        IF r.sequence < SequenceLimit THEN held
        ELSE IF s \in BootstrapOn THEN [failed EXCEPT !.state = "BOOTSTRAP_REQUIRED"]
        ELSE IF s \in Ordered \cap Blocking THEN [failed EXCEPT !.srv = taken]
        ELSE failed
  BY DEF prv_handleRegistrationSequenceFailure
<1> HIDE DEF next
<1>4. ASSUME r.sequence < SequenceLimit PROVE GoodContext(held)
  <2> DEFINE x == [r EXCEPT !.status = "REG_HOLD_OFF", !.due = FALSE, !.attempt = 0]
  <2>1. held = [next EXCEPT !.srv[s] = x]
    BY <1>2 DEF Context, Server
  <2>2. Good(x)
    BY <1>2, <1>4, NextSequenceGood
  <2> HIDE DEF x, held
  <2> QED
    BY <1>1, <2>1, <2>2, ServerAssigned
<1>5. GoodContext(failed)
  <2> DEFINE x == [r EXCEPT !.status = "REG_FAILED"]
  <2>1. failed = [next EXCEPT !.srv[s] = x]
    BY <1>2 DEF Context, Server
  <2>2. /\ x \in Server /\ x.attempt = r.attempt /\ x.sequence = r.sequence
        /\ x.tries = r.tries /\ x.status = "REG_FAILED"
    BY <1>2 DEF Server, RegStatus
  <2>3. "REG_FAILED" \in RegStatus \ Pending
    BY DEF RegStatus, Pending
  <2> HIDE DEF x, failed
  <2>4. Good(x)
    BY <1>2, <2>2, <2>3, StatusChange
  <2> QED
    BY <1>1, <2>1, <2>4, ServerAssigned
<1>6. GoodContext([failed EXCEPT !.state = "BOOTSTRAP_REQUIRED"])
  <2> HIDE DEF failed
  <2> QED
    BY <1>5, StateAssigned DEF ClientStates
<1>7. GoodContext([failed EXCEPT !.srv = taken])
  <2> HIDE DEF failed
  <2>1. ASSUME NEW t \in Servers PROVE Good(taken[t])
    <3> DEFINE y == failed.srv[t]
               x == [y EXCEPT !.status = "REG_FAILED", !.waiting = FALSE]
    <3>1. Good(y) /\ y \in Server
      BY <1>5 DEF GoodContext, Good
    <3>2. /\ x \in Server /\ x.attempt = y.attempt /\ x.sequence = y.sequence
          /\ x.tries = y.tries /\ x.status = "REG_FAILED"
      BY <3>1 DEF Server, RegStatus
    <3>3. "REG_FAILED" \in RegStatus \ Pending
      BY DEF RegStatus, Pending
    <3>4. taken[t] = x \/ taken[t] = y
      OBVIOUS
    <3> HIDE DEF x, y, taken
    <3>5. Good(x)
      BY <3>1, <3>2, <3>3, StatusChange
    <3> QED
      BY <3>1, <3>4, <3>5
  <2> QED
    BY <1>5, <2>1, ServersAssigned
<1> QED
  <2> HIDE DEF failed, held, taken, r
  <2> QED
    BY <1>3, <1>4, <1>5, <1>6, <1>7

LEMMA AttemptFailureGood ==
  ASSUME NEW c, GoodContext(c), NEW s \in Servers, c.srv[s].status = "REG_PENDING"
  PROVE  GoodContext(prv_handleRegistrationAttemptFailure(c, s))
<1>1. CASE c.srv[s].attempt >= AttemptLimit
  BY <1>1, SequenceFailureGood DEF prv_handleRegistrationAttemptFailure
<1>2. CASE ~(c.srv[s].attempt >= AttemptLimit)
  <2> DEFINE r == c.srv[s]
             x == [r EXCEPT !.status = "REG_HOLD_OFF", !.due = FALSE]
  <2>1. Good(r) /\ r \in Server /\ r.attempt \in Nat /\ c \in Context
    BY DEF GoodContext, Good, Server
  <2>2. prv_handleRegistrationAttemptFailure(c, s) = [c EXCEPT !.srv[s] = x]
    BY <1>2, <2>1 DEF prv_handleRegistrationAttemptFailure, Context, Server
  <2>3. r.attempt < AttemptLimit
    BY <1>2, <2>1, Limits
  <2>4. Good(x)
    BY <2>1, <2>3, HoldOffGood
  <2> HIDE DEF x
  <2> QED
    BY <2>2, <2>4, ServerAssigned
<1> QED
  BY <1>1, <1>2

\* One server gets another status and other flags, and keeps its counters.
LEMMA ServerSettled ==
  ASSUME NEW c, GoodContext(c), NEW s \in Servers, NEW x \in Server,
         x.attempt = c.srv[s].attempt, x.sequence = c.srv[s].sequence,
         x.tries = c.srv[s].tries, x.status \in {c.srv[s].status} \cup (RegStatus \ Pending)
  PROVE  GoodContext([c EXCEPT !.srv[s] = x])
<1>1. Good(c.srv[s])
  BY DEF GoodContext
<1>2. Good(x)
  BY <1>1, StatusChange
<1> QED
  BY <1>2, ServerAssigned

\* The callbacks of the three requests.
LEMMA CallbackGood ==
  ASSUME NEW c, GoodContext(c), NEW req \in Request, NEW code
  PROVE  GoodContext(Callback(c, req, code))
<1> DEFINE s == req.srv
           r == c.srv[s]
<1>1. s \in Servers /\ c \in Context /\ r \in Server /\ c.srv \in [Servers -> Server]
  BY DEF Request, GoodContext, Context
<1>2. CASE req.kind = "register"
  <2> DEFINE x == [r EXCEPT !.status = "REGISTERED", !.located = TRUE, !.due = FALSE]
             done == [c EXCEPT !.srv[s].status = "REGISTERED", !.srv[s].located = TRUE,
                               !.srv[s].due = FALSE]
  <2>1. done = [c EXCEPT !.srv[s] = x]
    BY <1>1 DEF Context, Server
  <2>2. /\ x \in Server /\ x.attempt = r.attempt /\ x.sequence = r.sequence
        /\ x.tries = r.tries /\ x.status \in RegStatus \ Pending
    BY <1>1 DEF Server, RegStatus, Pending
  <2>3. GoodContext(done)
    <3> HIDE DEF x, done
    <3> QED
      BY <1>1, <2>1, <2>2, ServerSettled
  <2>4. GoodContext(registration_start(done, FALSE))
    <3> HIDE DEF done
    <3> QED
      BY <2>3, StartGood
  <2>5. r.status = "REG_PENDING" => GoodContext(prv_handleRegistrationAttemptFailure(c, s))
    BY <1>1, AttemptFailureGood
  <2>6. Callback(c, req, code) = prv_handleRegistrationReply(c, s, code)
    BY <1>2 DEF Callback
  <2>7. \/ Callback(c, req, code) = c
        \/ /\ r.status = "REG_PENDING"
           /\ Callback(c, req, code) = prv_handleRegistrationAttemptFailure(c, s)
        \/ Callback(c, req, code) = registration_start(done, FALSE)
        \/ Callback(c, req, code) = done
    BY <2>6 DEF prv_handleRegistrationReply
  <2> HIDE DEF done
  <2> QED
    BY <2>3, <2>4, <2>5, <2>7
<1>3. CASE req.kind = "update"
  <2> DEFINE st == IF code = "204" THEN "REGISTERED" ELSE "REG_FAILED"
             x == [r EXCEPT !.status = st, !.due = FALSE]
  <2>1. Callback(c, req, code) = prv_handleRegistrationUpdateReply(c, s, code)
    BY <1>3 DEF Callback
  <2>a. [c EXCEPT !.srv[s].status = st, !.srv[s].due = FALSE] = [c EXCEPT !.srv[s] = x]
    <3> HIDE DEF st
    <3> QED
      BY <1>1 DEF Context, Server
  <2>2. Callback(c, req, code) = c \/ Callback(c, req, code) = [c EXCEPT !.srv[s] = x]
    BY <2>1, <2>a DEF prv_handleRegistrationUpdateReply
  <2>3. st \in RegStatus \ Pending
    BY DEF RegStatus, Pending
  <2> HIDE DEF st
  <2>4. /\ x \in Server /\ x.attempt = r.attempt /\ x.sequence = r.sequence
        /\ x.tries = r.tries /\ x.status \in RegStatus \ Pending
    BY <1>1, <2>3 DEF Server
  <2> HIDE DEF x
  <2> QED
    BY <1>1, <2>2, <2>4, ServerSettled
<1>4. CASE req.kind = "delete"
  <2> DEFINE x == [r EXCEPT !.status = "DEREGISTERED"]
  <2>1. Callback(c, req, code) = prv_handleDeregistrationReply(c, s)
    BY <1>4 DEF Callback
  <2>2. Callback(c, req, code) = c \/ Callback(c, req, code) = [c EXCEPT !.srv[s] = x]
    BY <1>1, <2>1 DEF prv_handleDeregistrationReply, Context, Server
  <2>4. /\ x \in Server /\ x.attempt = r.attempt /\ x.sequence = r.sequence
        /\ x.tries = r.tries /\ x.status \in RegStatus \ Pending
    BY <1>1 DEF Server, RegStatus, Pending
  <2> HIDE DEF x
  <2> QED
    BY <1>1, <2>2, <2>4, ServerSettled
<1> QED
  BY <1>2, <1>3, <1>4 DEF Request

\* A request for an update only changes the status of servers that are registered.
LEMMA UpdateGood ==
  ASSUME NEW c, GoodContext(c), NEW id, NEW withObjects \in BOOLEAN
  PROVE  GoodContext(lwm2m_update_registration(c, id, withObjects))
<1> DEFINE st(s) == IF c.srv[s].status \in Registered \/ (id # 0 /\ withObjects)
                    THEN Needed(withObjects) ELSE c.srv[s].status
           x(s) == Asked(c.srv[s], withObjects, st(s))
           f == [s \in Servers |->
                  IF id \notin {0, s} \/ c.srv[s].status \notin Registered \cup UpdateNeeded
                  THEN c.srv[s] ELSE x(s)]
<1>1. c \in Context /\ \A s \in Servers : c.srv[s] \in Server /\ Good(c.srv[s])
  BY DEF GoodContext, Good
<1>2. lwm2m_update_registration(c, id, withObjects) = [c EXCEPT !.srv = f]
  BY <1>1 DEF lwm2m_update_registration, Context
<1>3. ASSUME NEW s \in Servers PROVE Good(f[s])
  <2>1. Needed(withObjects) \in RegStatus \ Pending
    BY DEF Needed, RegStatus, Pending
  <2>2. st(s) \in {c.srv[s].status} \cup (RegStatus \ Pending) /\ st(s) \in RegStatus
    BY <1>1, <2>1 DEF Server
  <2>3. (c.srv[s].want \/ withObjects) \in BOOLEAN
    OBVIOUS
  <2> HIDE DEF st
  <2>4. /\ x(s) \in Server /\ x(s).attempt = c.srv[s].attempt
        /\ x(s).sequence = c.srv[s].sequence /\ x(s).tries = c.srv[s].tries
        /\ x(s).status = st(s)
    BY <1>1, <2>2, <2>3 DEF Asked, Server
  <2>5. f[s] = x(s) \/ f[s] = c.srv[s]
    OBVIOUS
  <2> HIDE DEF x, f
  <2>6. Good(x(s))
    BY <1>1, <2>2, <2>4, StatusChange
  <2> QED
    BY <1>1, <2>5, <2>6
<1> HIDE DEF x
<1>4. GoodContext([c EXCEPT !.srv = f])
  BY <1>3, ServersAssigned
<1> QED
  BY <1>2, <1>4

LEMMA FullListGood ==
  ASSUME NEW c, GoodContext(c) PROVE GoodContext(sendFullObjectList(c))
BY UpdateGood DEF sendFullObjectList

\* The switch of lwm2m_step.
LEMMA AdvanceGood ==
  ASSUME NEW c, GoodContext(c) PROVE GoodContext(Advance(c))
<1> DEFINE boot == [c EXCEPT !.state = "BOOTSTRAPPING", !.bs = "ongoing"]
           need == [c EXCEPT !.state = "BOOTSTRAP_REQUIRED"]
           start == [registration_start(c, TRUE) EXCEPT !.state = "REGISTERING"]
           ready == [c EXCEPT !.state = "READY"]
<1>1. Advance(c) \in {boot, need, start, ready, c}
  BY DEF Advance
<1>2. GoodContext(need) /\ GoodContext(ready)
  BY StateAssigned DEF ClientStates
<1>3. GoodContext(boot)
  <2> DEFINE d == [c EXCEPT !.state = "BOOTSTRAPPING"]
  <2>1. GoodContext(d)
    BY StateAssigned DEF ClientStates
  <2>2. boot = [d EXCEPT !.bs = "ongoing"]
    BY DEF GoodContext, Context
  <2> HIDE DEF d, boot
  <2> QED
    BY <2>1, <2>2, ProgressAssigned
<1>4. GoodContext(start)
  BY StartGood, StateAssigned DEF ClientStates
<1> HIDE DEF boot, need, start, ready
<1> QED
  BY <1>1, <1>2, <1>3, <1>4

\* registration_step on one server.
LEMMA StepServerGood ==
  ASSUME NEW r, Good(r), NEW s \in Servers, NEW refused
  PROVE  Good(StepServer(r, s, refused))
<1>1. r \in Server
  BY DEF Good
<1>2. CASE Registers(r, s, refused)
  <2> DEFINE y == prv_register(r)
             x == [y EXCEPT !.overlap = ReqsOf(s) # {}]
  <2>1. Good(y) /\ y \in Server
    BY <1>2, RegisterGood DEF Registers, Good
  <2>2. StepServer(r, s, refused) = x
    BY <1>2 DEF StepServer
  <2> HIDE DEF y
  <2>3. (ReqsOf(s) # {}) \in BOOLEAN
    OBVIOUS
  <2>4. /\ x \in Server /\ x.attempt = y.attempt /\ x.sequence = y.sequence
        /\ x.tries = y.tries /\ x.status = y.status
    BY <2>1, <2>3 DEF Server
  <2> HIDE DEF x
  <2>5. Good(x)
    BY <2>1, <2>4, StatusChange
  <2> QED
    BY <2>2, <2>5
<1>3. CASE ~Registers(r, s, refused) /\ Updates(r)
  <2> DEFINE w == r.want /\ Carries(r) = 0
             o == ReqsOf(s) # {} \/ (prv_updateRegistration(r).overlap /\ Carries(r) = 0)
             y == prv_updateRegistration(r)
             x == [y EXCEPT !.overlap = o]
  <2>1. w \in BOOLEAN /\ o \in BOOLEAN
    OBVIOUS
  <2>2. y = [r EXCEPT !.status = "REG_UPDATE_PENDING", !.want = w]
    BY DEF prv_updateRegistration
  <2>3. StepServer(r, s, refused) = x
    BY <1>3 DEF StepServer
  <2> HIDE DEF w, o, y
  <2>4. y \in Server
    BY <1>1, <2>1, <2>2 DEF Server, RegStatus
  <2>5. /\ y.attempt = r.attempt /\ y.sequence = r.sequence /\ y.tries = r.tries
        /\ y.status = "REG_UPDATE_PENDING"
    BY <1>1, <2>2 DEF Server
  <2>6. /\ x \in Server /\ x.attempt = y.attempt /\ x.sequence = y.sequence
        /\ x.tries = y.tries /\ x.status = y.status
    BY <2>1, <2>4 DEF Server
  <2>7. "REG_UPDATE_PENDING" \in RegStatus \ Pending
    BY DEF RegStatus, Pending
  <2> HIDE DEF x
  <2>8. Good(x)
    BY <2>5, <2>6, <2>7, StatusChange
  <2> QED
    BY <2>3, <2>8
<1>4. CASE ~Registers(r, s, refused) /\ ~Updates(r)
  <2> DEFINE x == [r EXCEPT !.open = FALSE]
  <2>1. StepServer(r, s, refused) \in {x, r}
    BY <1>4 DEF StepServer
  <2>2. /\ x \in Server /\ x.attempt = r.attempt /\ x.sequence = r.sequence
        /\ x.tries = r.tries /\ x.status = r.status
    BY <1>1 DEF Server
  <2> HIDE DEF x
  <2>3. Good(x)
    BY <2>2, StatusChange
  <2> QED
    BY <2>1, <2>3
<1> QED
  BY <1>2, <1>3, <1>4

LEMMA StepGood ==
  ASSUME NEW c, GoodContext(c), NEW refused
  PROVE  GoodContext(registration_step(c, refused))
<1> DEFINE f == [s \in Servers |-> StepServer(c.srv[s], s, refused)]
<1>1. registration_step(c, refused) = [c EXCEPT !.srv = f]
  BY DEF registration_step, GoodContext, Context
<1>2. \A s \in Servers : Good(f[s])
  BY StepServerGood DEF GoodContext
<1>3. GoodContext([c EXCEPT !.srv = f])
  BY <1>2, ServersAssigned
<1> QED
  BY <1>1, <1>3
----------------------------------------------------------------------------
(* The list of requests.                                                   *)

\* Taking a request off the list.
LEMMA RequestsRemoved ==
  ASSUME NEW q \in Seq(Request), NEW i \in DOMAIN q
  PROVE  RemoveAt(q, i) \in Seq(Request)
BY DEF RemoveAt

\* The requests registration_step appends.
LEMMA RequestsAdded ==
  ASSUME version \in 1..MaxVersion, NEW c, NEW refused,
         NEW T \in SUBSET Servers, NEW q \in InListOrder(T)
  PROVE  NewRequests(c, refused, q) \in Seq(Request)
<1>1. IsFiniteSet(T)
  BY RegistrationAssumption, FS_Subset
<1>2. Cardinality(T) \in Nat
  BY <1>1, FS_CardinalityType
<1>3. q \in [1..Cardinality(T) -> T] /\ DOMAIN q = 1..Cardinality(T)
  BY DEF InListOrder
<1>4. ASSUME NEW i \in DOMAIN q PROVE NewRequests(c, refused, q)[i] \in Request
  <2> DEFINE k == IF Registers(c.srv[q[i]], q[i], refused) THEN "register" ELSE "update"
             o == Carries(c.srv[q[i]])
  <2>1. k \in {"register", "update", "delete"}
    OBVIOUS
  <2>2. o \in 0..MaxVersion /\ MaxBlock \in 0..MaxBlock
    BY RegistrationAssumption DEF Carries
  <2>3. q[i] \in Servers
    BY <1>3
  <2>4. NewRequests(c, refused, q)[i] =
          [srv |-> q[i], kind |-> k, objs |-> o, blk |-> MaxBlock, ans |-> "none", over |-> FALSE]
    BY DEF NewRequests
  <2> HIDE DEF k, o
  <2> QED
    BY <2>1, <2>2, <2>3, <2>4 DEF Request
<1>5. NewRequests(c, refused, q) = [i \in 1..Cardinality(T) |-> NewRequests(c, refused, q)[i]]
  BY <1>3 DEF NewRequests
<1> QED
  BY <1>2, <1>3, <1>4, <1>5
----------------------------------------------------------------------------
(***************************************************************************)
(* The inductive invariant: the types, and Bounded for every server.       *)
(***************************************************************************)
IInv == TypeOK /\ GoodContext(context)

LEMMA InitIInv == Init => IInv
<1> SUFFICES ASSUME Init PROVE IInv
  OBVIOUS
<1> DEFINE r == [status |-> "DEREGISTERED", attempt |-> 0, sequence |-> 0, due |-> FALSE,
                 open |-> FALSE, located |-> FALSE, tries |-> 0, want |-> FALSE,
                 overlap |-> FALSE, waiting |-> FALSE]
<1>1. r \in Server /\ r.attempt = 0 /\ r.sequence = 0 /\ r.tries = 0 /\ r.status = "DEREGISTERED"
  BY DEF Server, RegStatus
<1>2. Good(r)
  <2> HIDE DEF r
  <2> QED
    BY <1>1, Limits, Times DEF Good, Bounded
<1>3. PICK b \in BOOLEAN :
        context = [state |-> "INITIAL", bs |-> "ongoing", bootstrapServer |-> b,
                   srv |-> [s \in Servers |-> r]]
  BY DEF Init
<1>4. GoodContext(context)
  <2> HIDE DEF r
  <2> QED
    BY <1>1, <1>2, <1>3 DEF GoodContext, Context, ClientStates
<1>5. /\ reqs \in Seq(Request) /\ prev \in ClientStates /\ version \in 1..MaxVersion
      /\ remote \in [Servers -> 0..MaxVersion] /\ unreachable \subseteq Servers
      /\ stepping \in BOOLEAN
  <2>1. MaxVersion \in Nat /\ MaxVersion # 0
    BY RegistrationAssumption
  <2>2. version \in 1..MaxVersion /\ unreachable \subseteq Servers /\ 0 \in 0..MaxVersion
    BY <2>1 DEF Init
  <2>3. remote \in [Servers -> 0..MaxVersion]
    BY <2>2 DEF Init
  <2>4. reqs \in Seq(Request)
    <3>1. reqs = << >>
      BY DEF Init
    <3> QED
      BY <3>1
  <2>5. prev \in ClientStates /\ stepping \in BOOLEAN
    <3>1. prev = "INITIAL" /\ stepping = FALSE
      BY DEF Init
    <3> QED
      BY <3>1 DEF ClientStates
  <2> QED
    BY <2>2, <2>3, <2>4, <2>5
<1> QED
  BY <1>4, <1>5 DEF IInv, TypeOK, GoodContext

\* update_bootstrap_info keeps the context good.
LEMMA InfoGood ==
  ASSUME NEW c, GoodContext(c), update_bootstrap_info(c)
  PROVE  GoodContext(context') /\ prev' \in ClientStates
<1>1. c.state \in ClientStates
  BY DEF GoodContext, Context
<1>2. GoodContext(sendFullObjectList(c))
  BY FullListGood
<1> QED
  BY <1>1, <1>2 DEF update_bootstrap_info

LEMMA SendDataStep ==
  ASSUME IInv, SendData PROVE IInv'
<1>1. PICK expired \in SUBSET DOMAIN reqs : sendData(expired)
  BY DEF SendData
<1> DEFINE c == Advance(context)
<1>2. GoodContext(c)
  BY AdvanceGood DEF IInv
<1>3. UNCHANGED <<version, remote>>
  BY <1>1 DEF sendData
<1>4. CASE /\ update_bootstrap_info([c EXCEPT !.state = "INITIAL"])
           /\ unreachable' = {} /\ UNCHANGED <<reqs, stepping>>
  <2>1. GoodContext([c EXCEPT !.state = "INITIAL"])
    BY <1>2, StateAssigned DEF ClientStates
  <2>2. GoodContext(context') /\ prev' \in ClientStates
    BY <1>4, <2>1, InfoGood
  <2> QED
    BY <1>3, <1>4, <2>2 DEF IInv, TypeOK, GoodContext
<1>5. CASE context' = c /\ unreachable' = {} /\ UNCHANGED <<reqs, prev, stepping>>
  BY <1>2, <1>3, <1>5 DEF IInv, TypeOK, GoodContext
<1>6. ASSUME NEW refused \in SUBSET Connecting(c), stepping' = TRUE, UNCHANGED prev,
             unreachable' = refused,
             NEW q \in InListOrder({s \in Servers : \/ Registers(c.srv[s], s, refused)
                                                   \/ Updates(c.srv[s])}),
             reqs' = [i \in DOMAIN reqs |-> [reqs[i] EXCEPT !.over = i \in expired]]
                     \o NewRequests(c, refused, q),
             context' = registration_step(c, refused)
      PROVE  IInv'
  <2>1. GoodContext(context')
    BY <1>2, <1>6, StepGood
  <2>2. unreachable' \subseteq Servers
    BY <1>6 DEF Connecting
  <2>3. reqs' \in Seq(Request)
    <3> DEFINE marked == [i \in DOMAIN reqs |-> [reqs[i] EXCEPT !.over = i \in expired]]
    <3>1. reqs \in Seq(Request) /\ version \in 1..MaxVersion
      BY DEF IInv, TypeOK
    <3>2. ASSUME NEW i \in DOMAIN reqs PROVE marked[i] \in Request
      <4>1. reqs[i] \in Request /\ (i \in expired) \in BOOLEAN
        BY <3>1
      <4> QED
        BY <4>1 DEF Request
    <3>3. marked \in Seq(Request)
      <4>1. marked \in [1..Len(reqs) -> Request] /\ Len(reqs) \in Nat
        BY <3>1, <3>2
      <4> QED
        BY <4>1
    <3>4. NewRequests(c, refused, q) \in Seq(Request)
      BY <3>1, RequestsAdded
    <3> HIDE DEF marked
    <3> QED
      BY <1>6, <3>3, <3>4 DEF marked
  <2> QED
    BY <1>3, <1>6, <2>1, <2>2, <2>3 DEF IInv, TypeOK, GoodContext
<1> QED
  BY <1>1, <1>4, <1>5, <1>6 DEF sendData

LEMMA GiveUpStep ==
  ASSUME IInv, GiveUp PROVE IInv'
<1>1. PICK i \in DOMAIN reqs : /\ context' = Callback(context, reqs[i], "timeout")
                               /\ reqs' = RemoveAt(reqs, i)
  BY DEF GiveUp
<1>2. reqs \in Seq(Request) /\ reqs[i] \in Request
  BY DEF IInv, TypeOK
<1>3. GoodContext(context')
  BY <1>1, <1>2, CallbackGood DEF IInv
<1>4. reqs' \in Seq(Request)
  BY <1>1, <1>2, RequestsRemoved
<1> QED
  BY <1>3, <1>4 DEF IInv, TypeOK, GiveUp, GoodContext

LEMMA EndStep ==
  ASSUME IInv, EndOfSendData PROVE IInv'
<1>1. GoodContext(context') /\ prev' \in ClientStates
  BY InfoGood DEF IInv, EndOfSendData
<1> QED
  BY <1>1 DEF IInv, TypeOK, EndOfSendData, GoodContext

LEMMA ReadDataStep ==
  ASSUME IInv, NEW i \in DOMAIN reqs, readData(i) PROVE IInv'
<1> DEFINE req == reqs[i]
<1>1. reqs \in Seq(Request) /\ req \in Request
  BY DEF IInv, TypeOK
<1>2. GoodContext(context')
  BY <1>1, CallbackGood DEF IInv, readData
<1>3. RemoveAt(reqs, i) \in Seq(Request)
  BY <1>1, RequestsRemoved
<1>4. ASSUME NEW asked \in 0..MaxBlock, Smaller(req.blk, asked) < req.blk,
             reqs' = Append(RemoveAt(reqs, i), [req EXCEPT !.blk = Smaller(req.blk, asked),
                                                           !.ans = "none"])
      PROVE  reqs' \in Seq(Request)
  <2>1. Smaller(req.blk, asked) \in 0..MaxBlock
    BY RegistrationAssumption DEF Smaller
  <2>2. [req EXCEPT !.blk = Smaller(req.blk, asked), !.ans = "none"] \in Request
    BY <1>1, <2>1 DEF Request
  <2> QED
    BY <1>3, <1>4, <2>2
<1>5. reqs' \in Seq(Request)
  BY <1>3, <1>4 DEF readData
<1> QED
  BY <1>2, <1>5 DEF IInv, TypeOK, readData, GoodContext

LEMMA ServerHandlesStep ==
  ASSUME IInv, NEW i \in DOMAIN reqs, ServerHandles(i) PROVE IInv'
<1> DEFINE req == reqs[i]
           s == req.srv
<1>1. /\ reqs \in Seq(Request) /\ req \in Request /\ s \in Servers
      /\ req.objs \in 0..MaxVersion /\ remote \in [Servers -> 0..MaxVersion]
      /\ 0 \in 0..MaxVersion
  <2>1. reqs \in Seq(Request) /\ remote \in [Servers -> 0..MaxVersion]
    BY DEF IInv, TypeOK
  <2>2. req \in Request
    BY <2>1
  <2>3. 0 \in 0..MaxVersion
    BY RegistrationAssumption
  <2> QED
    BY <2>1, <2>2, <2>3 DEF Request
<1>2. PICK ans \in {"err", "413", "201", "204", "202"}, v \in 0..MaxVersion :
        reqs' = [reqs EXCEPT ![i].ans = ans] /\ remote' = [remote EXCEPT ![s] = v]
  BY <1>1 DEF ServerHandles
<1>3. reqs' \in Seq(Request)
  <2>1. [req EXCEPT !.ans = ans] \in Request
    BY <1>1 DEF Request
  <2>2. reqs' = [reqs EXCEPT ![i] = [req EXCEPT !.ans = ans]]
    BY <1>2
  <2> QED
    BY <1>1, <2>1, <2>2
<1>4. remote' \in [Servers -> 0..MaxVersion]
  BY <1>1, <1>2
<1>5. UNCHANGED <<context, prev, version, unreachable, stepping>>
  BY DEF ServerHandles
<1> QED
  BY <1>3, <1>4, <1>5 DEF IInv, TypeOK, GoodContext

\* The actions that change one server's status or flags, or the list's version.
LEMMA DeregisterStep ==
  ASSUME IInv, NEW s \in Servers, registration_deregister(s) PROVE IInv'
<1> DEFINE r == context.srv[s]
           x == [r EXCEPT !.status = "DEREG_PENDING", !.want = FALSE]
           new == [srv |-> s, kind |-> "delete", objs |-> 0, blk |-> MaxBlock,
                   ans |-> "none", over |-> FALSE]
<1>1. r \in Server /\ context \in Context /\ GoodContext(context)
  BY DEF IInv, GoodContext, Context
<1>2. context' = [context EXCEPT !.srv[s] = x]
  BY <1>1 DEF registration_deregister, Context, Server
<1>3. /\ x \in Server /\ x.attempt = r.attempt /\ x.sequence = r.sequence
      /\ x.tries = r.tries /\ x.status \in RegStatus \ Pending
  BY <1>1 DEF Server, RegStatus, Pending
<1>4. GoodContext(context')
  <2> HIDE DEF x
  <2> QED
    BY <1>1, <1>2, <1>3, ServerSettled
<1>5. 0 \in 0..MaxVersion /\ MaxBlock \in 0..MaxBlock
  BY RegistrationAssumption
<1>6. new \in Request
  BY <1>5 DEF Request
<1>7. reqs' = Append(reqs, new)
  BY DEF registration_deregister
<1> HIDE DEF new
<1>8. reqs' \in Seq(Request)
  BY <1>6, <1>7 DEF IInv, TypeOK
<1> QED
  BY <1>4, <1>8 DEF IInv, TypeOK, registration_deregister, GoodContext

LEMMA ElapseStep ==
  ASSUME IInv, NEW s \in Servers, Elapse(s) PROVE IInv'
<1> DEFINE r == context.srv[s]
           x == [r EXCEPT !.due = TRUE]
<1>1. r \in Server /\ context \in Context /\ GoodContext(context)
  BY DEF IInv, GoodContext, Context
<1>2. context' = [context EXCEPT !.srv[s] = x]
  BY <1>1 DEF Elapse, Context, Server
<1>3. /\ x \in Server /\ x.attempt = r.attempt /\ x.sequence = r.sequence
      /\ x.tries = r.tries /\ x.status = r.status
  BY <1>1 DEF Server
<1>4. GoodContext(context')
  <2> HIDE DEF x
  <2> QED
    BY <1>1, <1>2, <1>3, ServerSettled
<1> QED
  BY <1>4 DEF IInv, TypeOK, Elapse, GoodContext

LEMMA OtherSteps ==
  ASSUME IInv,
         \/ refreshObjects \/ UpdateRegistration \/ BootstrapEnds
         \/ \E s \in Servers : ServerForgets(s)
         \/ UNCHANGED vars
  PROVE  IInv'
<1>1. GoodContext(context)
  BY DEF IInv
<1>2. CASE refreshObjects
  <2>1. GoodContext(context')
    BY <1>1, <1>2, FullListGood DEF refreshObjects
  <2>2. version' \in 1..MaxVersion
    BY <1>2, RegistrationAssumption DEF IInv, TypeOK, refreshObjects
  <2> QED
    BY <1>2, <2>1, <2>2 DEF IInv, TypeOK, refreshObjects, GoodContext
<1>3. CASE UpdateRegistration
  <2>1. PICK call \in ApiCalls : context' = lwm2m_update_registration(context, call[1], call[2])
    BY <1>3 DEF UpdateRegistration
  <2>2. call[2] \in BOOLEAN
    BY RegistrationAssumption
  <2>3. GoodContext(context')
    BY <1>1, <2>1, <2>2, UpdateGood
  <2> QED
    BY <1>3, <2>3 DEF IInv, TypeOK, UpdateRegistration, GoodContext
<1>4. CASE BootstrapEnds
  <2>a. PICK b \in {"finished", "failed"} : context' = [context EXCEPT !.bs = b]
    BY <1>4 DEF BootstrapEnds
  <2>1. GoodContext(context')
    BY <1>1, <2>a, ProgressAssigned
  <2> QED
    BY <1>4, <2>1 DEF IInv, TypeOK, BootstrapEnds, GoodContext
<1>5. ASSUME NEW s \in Servers, ServerForgets(s) PROVE IInv'
  <2>1. 0 \in 0..MaxVersion
    BY RegistrationAssumption
  <2>2. remote' \in [Servers -> 0..MaxVersion]
    BY <1>5, <2>1 DEF IInv, TypeOK, ServerForgets
  <2> QED
    BY <1>5, <2>2 DEF IInv, TypeOK, ServerForgets, GoodContext
<1>6. CASE UNCHANGED vars
  BY <1>6 DEF vars, IInv, TypeOK, GoodContext
<1> QED
  BY <1>2, <1>3, <1>4, <1>5, <1>6

(* The inductive invariant holds in every reachable state, for every set   *)
(* of servers, every order among them and every limit.                     *)
THEOREM Invariance == Spec => []IInv
<1>1. IInv /\ [Next]_vars => IInv'
  <2> SUFFICES ASSUME IInv, [Next]_vars PROVE IInv'
    OBVIOUS
  <2> QED
    BY SendDataStep, GiveUpStep, EndStep, ReadDataStep, ServerHandlesStep, DeregisterStep,
       ElapseStep, OtherSteps DEF Next
<1> QED
  BY <1>1, InitIInv, PTL DEF Spec

(* The types of the context, the request list and the history, for every   *)
(* set of servers.                                                         *)
THEOREM TypeCorrect == Spec => []TypeOK
<1>1. IInv => TypeOK
  BY DEF IInv
<1> QED
  BY <1>1, Invariance, PTL

(* Between two starts of a server's registration (registration_start), no  *)
(* more registrations are sent to it than the Server Object's two retry    *)
(* limits allow, for every set of servers and whatever the answers are.    *)
THEOREM RegistrationsBounded == Spec => []TriesBounded
<1>1. IInv => TriesBounded
  BY BoundedTries DEF IInv, GoodContext, TriesBounded, A, S
<1> QED
  BY <1>1, Invariance, PTL

-----------------------------------------------------------------------------
(***************************************************************************)
(* What needs more than the bounds on one server: the statuses of the      *)
(* servers and the list of requests belong together, in every order the    *)
(* requests may end.                                                       *)
(***************************************************************************)
Kinds == {"register", "update", "delete"}

\* The status in which a server waits for a request of a kind to end.
WaitsFor(kind) ==
  CASE kind = "register" -> "REG_PENDING"
    [] kind = "update"   -> "REG_UPDATE_PENDING"
    [] kind = "delete"   -> "DEREG_PENDING"

Waiting == {WaitsFor(k) : k \in Kinds}

LEMMA WaitingStatuses ==
  /\ Waiting = {"REG_PENDING", "REG_UPDATE_PENDING", "DEREG_PENDING"}
  /\ WaitsFor("register") = "REG_PENDING" /\ WaitsFor("update") = "REG_UPDATE_PENDING"
  /\ WaitsFor("delete") = "DEREG_PENDING"
BY DEF Waiting, WaitsFor, Kinds

IsFor(req, s, kind) == req.srv = s /\ req.kind = kind

\* Every server that waits in context c has a request in list q it waits for.
Served(c, q) ==
  \A s \in Servers : \A k \in Kinds :
    c.srv[s].status = WaitsFor(k) => \E i \in DOMAIN q : IsFor(q[i], s, k)

\* From c to d no server starts to wait.
NoneWaits(c, d) ==
  \A s \in Servers : d.srv[s].status \in Waiting => d.srv[s].status = c.srv[s].status

LEMMA NoneWaitsTransitive ==
  ASSUME NEW c, NEW d, NEW e, NoneWaits(c, d), NoneWaits(d, e)
  PROVE  NoneWaits(c, e)
BY DEF NoneWaits

LEMMA ServedKept ==
  ASSUME NEW c, NEW d, NEW q, Served(c, q), NoneWaits(c, d)
  PROVE  Served(d, q)
BY DEF Served, NoneWaits, Waiting
----------------------------------------------------------------------------
(* What the operations on the context do to the statuses.                  *)

\* One server gets a status in which it does not wait, or keeps the one it has.
LEMMA AssignedWaits ==
  ASSUME NEW c, GoodContext(c), NEW s \in Servers, NEW x,
         x.status \in Waiting => x.status = c.srv[s].status
  PROVE  LET d == [c EXCEPT !.srv[s] = x]
         IN  NoneWaits(c, d) /\ d.srv[s] = x
<1> DEFINE d == [c EXCEPT !.srv[s] = x]
<1>1. c.srv \in [Servers -> Server] /\ c \in Context
  BY DEF GoodContext, Context
<1>2. d.srv = [c.srv EXCEPT ![s] = x]
  BY <1>1 DEF Context
<1>3. \A t \in Servers : d.srv[t] = IF t = s THEN x ELSE c.srv[t]
  BY <1>1, <1>2
<1> HIDE DEF d
<1>4. NoneWaits(c, d) /\ d.srv[s] = x
  BY <1>3 DEF NoneWaits
<1> QED BY <1>4 DEF d

LEMMA StartWaits ==
  ASSUME NEW c, GoodContext(c), NEW restart \in BOOLEAN
  PROVE  /\ NoneWaits(c, registration_start(c, restart))
         /\ \A s \in Servers : c.srv[s].status \notin {"DEREGISTERED", "REG_FAILED"} =>
              registration_start(c, restart).srv[s] = c.srv[s]
<1> DEFINE startable == {s \in Servers : \/ c.srv[s].status = "DEREGISTERED"
                                         \/ (restart /\ c.srv[s].status = "REG_FAILED")}
           starts == (startable \ Ordered) \cup First(startable \cap Ordered)
           f == [s \in Servers |-> IF s \in starts THEN prv_startRegistration(Reset(c.srv[s]), s)
                                   ELSE IF s \in startable THEN Reset(c.srv[s])
                                   ELSE c.srv[s]]
           d == registration_start(c, restart)
<1>1. starts \subseteq startable
  BY DEF First
<1>2. d = [c EXCEPT !.srv = f] /\ d.srv = f
  BY DEF registration_start, Reset, GoodContext, Context
<1>3. ASSUME NEW s \in Servers
      PROVE  /\ prv_startRegistration(Reset(c.srv[s]), s).status = "REG_HOLD_OFF"
             /\ Reset(c.srv[s]).status = c.srv[s].status
  <2>1. c.srv[s] \in Server
    BY DEF GoodContext, Good
  <2>2. Reset(c.srv[s]) \in Server /\ Reset(c.srv[s]).status = c.srv[s].status
    BY <2>1, ResetGood DEF Reset, Server
  <2> QED BY <2>2 DEF prv_startRegistration, Server
<1>4. ASSUME NEW s \in Servers
      PROVE  /\ f[s].status \in {"REG_HOLD_OFF", c.srv[s].status}
             /\ c.srv[s].status \notin {"DEREGISTERED", "REG_FAILED"} => f[s] = c.srv[s]
  <2>1. s \in startable => c.srv[s].status \in {"DEREGISTERED", "REG_FAILED"}
    OBVIOUS
  <2> HIDE DEF startable, starts
  <2> QED BY <1>1, <1>3, <2>1
<1> HIDE DEF f, d
<1>5. NoneWaits(c, d)
  BY <1>2, <1>4, WaitingStatuses DEF NoneWaits
<1> QED BY <1>2, <1>4, <1>5 DEF d

\* A registration failed: its server no longer waits, and no other starts to.
LEMMA SequenceFailureWaits ==
  ASSUME NEW c, GoodContext(c), NEW s \in Servers, c.srv[s].status = "REG_PENDING"
  PROVE  LET d == prv_handleRegistrationSequenceFailure(c, s)
         IN  NoneWaits(c, d) /\ d.srv[s].status # "REG_PENDING"
<1> DEFINE next == IF s \in Ordered \ Blocking /\ c.srv[s].sequence = 1
                   THEN registration_start(c, FALSE) ELSE c
           r == next.srv[s]
           y == [r EXCEPT !.status = "REG_FAILED"]
           x == [r EXCEPT !.status = "REG_HOLD_OFF", !.due = FALSE, !.attempt = 0]
           failed == [next EXCEPT !.srv[s] = y]
           held == [next EXCEPT !.srv[s] = x]
           taken == [t \in Servers |-> IF t \in Ordered /\ failed.srv[t].status = "DEREGISTERED"
                       THEN [failed.srv[t] EXCEPT !.status = "REG_FAILED", !.waiting = FALSE]
                       ELSE failed.srv[t]]
           d == prv_handleRegistrationSequenceFailure(c, s)
<1>1. GoodContext(next) /\ NoneWaits(c, next)
  BY StartGood, StartWaits DEF NoneWaits
<1>2. next \in Context /\ r \in Server
  BY <1>1 DEF GoodContext, Good
<1> HIDE DEF next
<1>3. /\ [next EXCEPT !.srv[s].status = "REG_FAILED"] = failed
      /\ [next EXCEPT !.srv[s].status = "REG_HOLD_OFF", !.srv[s].due = FALSE,
                      !.srv[s].attempt = 0] = held
  BY <1>2 DEF Context, Server
<1>4. \/ d = held
      \/ d = [failed EXCEPT !.state = "BOOTSTRAP_REQUIRED"]
      \/ d = [failed EXCEPT !.srv = taken]
      \/ d = failed
  BY <1>3 DEF prv_handleRegistrationSequenceFailure, next
<1>5. y.status = "REG_FAILED" /\ x.status = "REG_HOLD_OFF"
  BY <1>2 DEF Server
<1> HIDE DEF x, y
<1>6. /\ NoneWaits(next, held) /\ held.srv[s] = x
      /\ NoneWaits(next, failed) /\ failed.srv[s] = y
  BY <1>1, <1>5, AssignedWaits, WaitingStatuses
<1>7. /\ [failed EXCEPT !.state = "BOOTSTRAP_REQUIRED"].srv = failed.srv
      /\ [failed EXCEPT !.srv = taken].srv = taken
      /\ \A t \in Servers : failed.srv[t] \in Server
  <2>1. y \in Server
    BY <1>2 DEF y, Server, RegStatus
  <2>2. failed \in Context
    BY <1>2, <2>1 DEF Context
  <2> HIDE DEF failed, taken
  <2> QED BY <2>2 DEF Context
<1> HIDE DEF held, failed, d
<1>8. \A t \in Servers : taken[t].status \in {"REG_FAILED", failed.srv[t].status}
  BY <1>7 DEF Server
<1>9. taken[s].status \in {"REG_FAILED", y.status}
  BY <1>6, <1>8
<1> HIDE DEF taken
<1>10. NoneWaits(next, d) /\ d.srv[s].status # "REG_PENDING"
  <2>1. CASE d = held
    BY <1>5, <1>6, <2>1
  <2>2. CASE d.srv = failed.srv
    BY <1>5, <1>6, <2>2 DEF NoneWaits
  <2>3. CASE d.srv = taken
    <3>1. \A t \in Servers : taken[t].status \in Waiting => taken[t].status = next.srv[t].status
      BY <1>6, <1>8, WaitingStatuses DEF NoneWaits
    <3>2. taken[s].status # "REG_PENDING"
      BY <1>5, <1>9
    <3> QED BY <2>3, <3>1, <3>2 DEF NoneWaits
  <2> QED BY <1>4, <1>7, <2>1, <2>2, <2>3
<1>11. NoneWaits(c, d)
  BY <1>1, <1>10, NoneWaitsTransitive
<1> QED BY <1>10, <1>11 DEF d

LEMMA AttemptFailureWaits ==
  ASSUME NEW c, GoodContext(c), NEW s \in Servers, c.srv[s].status = "REG_PENDING"
  PROVE  LET d == prv_handleRegistrationAttemptFailure(c, s)
         IN  NoneWaits(c, d) /\ d.srv[s].status # "REG_PENDING"
<1>1. CASE c.srv[s].attempt >= AttemptLimit
  BY <1>1, SequenceFailureWaits DEF prv_handleRegistrationAttemptFailure
<1>2. CASE ~(c.srv[s].attempt >= AttemptLimit)
  <2> DEFINE x == [c.srv[s] EXCEPT !.status = "REG_HOLD_OFF", !.due = FALSE]
  <2>1. c.srv[s] \in Server /\ c \in Context
    BY DEF GoodContext, Good
  <2>2. prv_handleRegistrationAttemptFailure(c, s) = [c EXCEPT !.srv[s] = x]
    BY <1>2, <2>1 DEF prv_handleRegistrationAttemptFailure, Context, Server
  <2>3. x.status = "REG_HOLD_OFF"
    BY <2>1 DEF Server
  <2> HIDE DEF x
  <2> QED BY <2>2, <2>3, AssignedWaits, WaitingStatuses
<1> QED BY <1>1, <1>2

\* The end of a request: its server no longer waits for one of that kind.
LEMMA CallbackWaits ==
  ASSUME NEW c, GoodContext(c), NEW req \in Request, NEW code, code # "413"
  PROVE  LET d == Callback(c, req, code)
         IN  NoneWaits(c, d) /\ d.srv[req.srv].status # WaitsFor(req.kind)
<1> DEFINE s == req.srv
           r == c.srv[s]
           d == Callback(c, req, code)
<1>1. s \in Servers /\ c \in Context /\ r \in Server /\ c.srv \in [Servers -> Server]
  BY DEF Request, GoodContext, Context
<1>0. NoneWaits(c, c)
  BY DEF NoneWaits
<1>2. CASE req.kind = "register"
  <2> DEFINE x == [r EXCEPT !.status = "REGISTERED", !.located = TRUE, !.due = FALSE]
             done == [c EXCEPT !.srv[s] = x]
  <2>1. done = [c EXCEPT !.srv[s].status = "REGISTERED", !.srv[s].located = TRUE,
                         !.srv[s].due = FALSE]
    BY <1>1 DEF Context, Server
  <2>2. /\ x \in Server /\ x.attempt = r.attempt /\ x.sequence = r.sequence
        /\ x.tries = r.tries /\ x.status \in RegStatus \ Pending /\ x.status = "REGISTERED"
    BY <1>1 DEF Server, RegStatus, Pending
  <2>3. d = prv_handleRegistrationReply(c, s, code)
    BY <1>2 DEF Callback
  <2>4. \/ d = c /\ r.status # "REG_PENDING"
        \/ r.status = "REG_PENDING" /\ d = prv_handleRegistrationAttemptFailure(c, s)
        \/ d = registration_start(done, FALSE)
        \/ d = done
    BY <2>1, <2>3 DEF prv_handleRegistrationReply
  <2> HIDE DEF x
  <2>5. GoodContext(done)
    BY <1>1, <2>2, ServerSettled
  <2>6. NoneWaits(c, done) /\ done.srv[s] = x
    BY <1>1, <2>2, AssignedWaits, WaitingStatuses
  <2> HIDE DEF done
  <2>7. /\ NoneWaits(done, registration_start(done, FALSE))
        /\ registration_start(done, FALSE).srv[s] = x
    <3>1. done.srv[s].status \notin {"DEREGISTERED", "REG_FAILED"}
      BY <2>2, <2>6
    <3> QED BY <1>1, <2>5, <2>6, <3>1, StartWaits
  <2>8. NoneWaits(c, registration_start(done, FALSE))
    BY <2>6, <2>7, NoneWaitsTransitive
  <2>9. r.status = "REG_PENDING" /\ d = prv_handleRegistrationAttemptFailure(c, s)
          => NoneWaits(c, d) /\ d.srv[s].status # "REG_PENDING"
    BY <1>1, AttemptFailureWaits
  <2> HIDE DEF d
  <2>10. NoneWaits(c, d) /\ d.srv[s].status # "REG_PENDING"
    BY <1>0, <2>2, <2>4, <2>6, <2>7, <2>8, <2>9
  <2> QED BY <1>2, <2>10, WaitingStatuses DEF d
<1>3. CASE req.kind = "update"
  <2> DEFINE st == IF code = "204" THEN "REGISTERED" ELSE "REG_FAILED"
             x == [r EXCEPT !.status = st, !.due = FALSE]
  <2>1. d = prv_handleRegistrationUpdateReply(c, s, code)
    BY <1>3 DEF Callback
  <2>2. [c EXCEPT !.srv[s].status = st, !.srv[s].due = FALSE] = [c EXCEPT !.srv[s] = x]
    <3> HIDE DEF st
    <3> QED BY <1>1 DEF Context, Server
  <2>3. \/ d = c /\ r.status # "REG_UPDATE_PENDING"
        \/ d = [c EXCEPT !.srv[s] = x]
    BY <2>1, <2>2 DEF prv_handleRegistrationUpdateReply
  <2>4. x.status = st /\ st \in {"REGISTERED", "REG_FAILED"}
    BY <1>1 DEF Server
  <2> HIDE DEF st, x, d
  <2>5. NoneWaits(c, [c EXCEPT !.srv[s] = x]) /\ [c EXCEPT !.srv[s] = x].srv[s] = x
    BY <1>1, <2>4, AssignedWaits, WaitingStatuses
  <2>6. NoneWaits(c, d) /\ d.srv[s].status # "REG_UPDATE_PENDING"
    BY <1>0, <2>3, <2>4, <2>5
  <2> QED BY <1>3, <2>6, WaitingStatuses DEF d
<1>4. CASE req.kind = "delete"
  <2> DEFINE x == [r EXCEPT !.status = "DEREGISTERED"]
  <2>1. d = prv_handleDeregistrationReply(c, s)
    BY <1>4 DEF Callback
  <2>2. \/ d = c /\ r.status # "DEREG_PENDING"
        \/ d = [c EXCEPT !.srv[s] = x]
    BY <1>1, <2>1 DEF prv_handleDeregistrationReply, Context, Server
  <2>3. x.status = "DEREGISTERED"
    BY <1>1 DEF Server
  <2> HIDE DEF x, d
  <2>4. NoneWaits(c, [c EXCEPT !.srv[s] = x]) /\ [c EXCEPT !.srv[s] = x].srv[s] = x
    BY <1>1, <2>3, AssignedWaits, WaitingStatuses
  <2>5. NoneWaits(c, d) /\ d.srv[s].status # "DEREG_PENDING"
    BY <1>0, <2>2, <2>3, <2>4
  <2> QED BY <1>4, <2>5, WaitingStatuses DEF d
<1> QED BY <1>2, <1>3, <1>4 DEF Request

LEMMA UpdateWaits ==
  ASSUME NEW c, GoodContext(c), NEW id, NEW withObjects
  PROVE  NoneWaits(c, lwm2m_update_registration(c, id, withObjects))
<1> DEFINE d == lwm2m_update_registration(c, id, withObjects)
<1>1. c \in Context /\ \A s \in Servers : c.srv[s] \in Server
  BY DEF GoodContext, Good
<1>2. ASSUME NEW s \in Servers
      PROVE  d.srv[s].status \in {c.srv[s].status, "REG_FULL_UPDATE_NEEDED", "REG_UPDATE_NEEDED"}
  <2> DEFINE st == IF c.srv[s].status \in Registered \/ (id # 0 /\ withObjects)
                   THEN Needed(withObjects) ELSE c.srv[s].status
  <2>1. d.srv[s] \in {c.srv[s], Asked(c.srv[s], withObjects, st)}
    BY <1>1 DEF lwm2m_update_registration, Context
  <2>2. st \in {c.srv[s].status, "REG_FULL_UPDATE_NEEDED", "REG_UPDATE_NEEDED"}
    BY DEF Needed
  <2> HIDE DEF st
  <2>3. Asked(c.srv[s], withObjects, st).status = st
    BY <1>1 DEF Asked, Server
  <2> QED BY <2>1, <2>2, <2>3
<1> QED BY <1>2, WaitingStatuses DEF NoneWaits

LEMMA FullListWaits ==
  ASSUME NEW c, GoodContext(c) PROVE NoneWaits(c, sendFullObjectList(c))
BY UpdateWaits DEF sendFullObjectList, NoneWaits

LEMMA AdvanceWaits ==
  ASSUME NEW c, GoodContext(c) PROVE NoneWaits(c, Advance(c))
<1> DEFINE start == registration_start(c, TRUE)
<1>1. GoodContext(start) /\ NoneWaits(c, start)
  BY StartGood, StartWaits
<1> HIDE DEF start
<1>2. Advance(c).srv \in {c.srv, start.srv}
  <2>1. c \in Context /\ start \in Context
    BY <1>1 DEF GoodContext
  <2> QED BY <2>1 DEF Advance, Context, start
<1> QED BY <1>1, <1>2 DEF NoneWaits

\* registration_step: a server starts to wait when a request is sent to it.
LEMMA StepWaits ==
  ASSUME NEW c, GoodContext(c), NEW refused, NEW s \in Servers
  PROVE  LET d == registration_step(c, refused)
         IN  \/ d.srv[s].status = c.srv[s].status
             \/ Registers(c.srv[s], s, refused) /\ d.srv[s].status = "REG_PENDING"
             \/ /\ ~Registers(c.srv[s], s, refused) /\ Updates(c.srv[s])
                /\ d.srv[s].status = "REG_UPDATE_PENDING"
<1> DEFINE r == c.srv[s]
<1>1. Good(r) /\ r \in Server /\ c \in Context
  BY DEF GoodContext, Good
<1>2. registration_step(c, refused).srv[s] = StepServer(r, s, refused)
  BY <1>1 DEF registration_step, Context
<1> HIDE DEF r
<1>3. Registers(r, s, refused) =>
        prv_register(r) \in Server /\ prv_register(r).status = "REG_PENDING"
  <2>1. Registers(r, s, refused) => prv_register(r) \in Server
    BY <1>1, RegisterGood DEF Registers, Good
  <2>2. prv_register(r).status = "REG_PENDING"
    BY <1>1 DEF prv_register, Server
  <2> QED BY <2>1, <2>2
<1>4. prv_updateRegistration(r) \in Server
      /\ prv_updateRegistration(r).status = "REG_UPDATE_PENDING"
  BY <1>1 DEF prv_updateRegistration, Server, RegStatus
<1>5. CASE Registers(r, s, refused)
  <2>1. StepServer(r, s, refused) = [prv_register(r) EXCEPT !.overlap = ReqsOf(s) # {}]
    BY <1>5 DEF StepServer
  <2>2. StepServer(r, s, refused).status = "REG_PENDING"
    BY <1>3, <1>5, <2>1 DEF Server
  <2> QED BY <1>2, <1>5, <2>2 DEF r
<1>6. CASE ~Registers(r, s, refused) /\ Updates(r)
  <2> DEFINE y == prv_updateRegistration(r)
             o == ReqsOf(s) # {} \/ (y.overlap /\ Carries(r) = 0)
  <2>1. StepServer(r, s, refused) = [y EXCEPT !.overlap = o]
    BY <1>6 DEF StepServer
  <2> HIDE DEF o
  <2>2. StepServer(r, s, refused).status = "REG_UPDATE_PENDING"
    BY <1>4, <2>1 DEF Server
  <2> QED BY <1>2, <1>6, <2>2 DEF r
<1>7. CASE ~Registers(r, s, refused) /\ ~Updates(r)
  <2>1. StepServer(r, s, refused) \in {r, [r EXCEPT !.open = FALSE]}
    BY <1>7 DEF StepServer
  <2>2. StepServer(r, s, refused).status = r.status
    BY <1>1, <2>1 DEF Server
  <2> QED BY <1>2, <2>2 DEF r
<1> QED BY <1>5, <1>6, <1>7
----------------------------------------------------------------------------
(* What the actions do to the list of requests.                            *)

\* Taking a request off the list leaves every other one.
LEMMA OthersStay ==
  ASSUME NEW q \in Seq(Request), NEW i \in DOMAIN q
  PROVE  /\ \A j \in DOMAIN q \ {i} : \E k \in DOMAIN RemoveAt(q, i) : RemoveAt(q, i)[k] = q[j]
         /\ \A k \in DOMAIN RemoveAt(q, i) : \E j \in DOMAIN q : RemoveAt(q, i)[k] = q[j]
<1> DEFINE n == Len(q)
           p == RemoveAt(q, i)
<1>1. n \in Nat /\ i \in 1..n /\ DOMAIN q = 1..n
  OBVIOUS
<1>2. /\ SubSeq(q, 1, i - 1) \in Seq(Request) /\ Len(SubSeq(q, 1, i - 1)) = i - 1
      /\ \A k \in 1..(i - 1) : SubSeq(q, 1, i - 1)[k] = q[k]
  BY <1>1
<1>3. /\ SubSeq(q, i + 1, n) \in Seq(Request) /\ Len(SubSeq(q, i + 1, n)) = n - i
      /\ \A k \in 1..(n - i) : SubSeq(q, i + 1, n)[k] = q[i + k]
  BY <1>1
<1>4. p = SubSeq(q, 1, i - 1) \o SubSeq(q, i + 1, n)
  BY DEF RemoveAt
<1>5. p \in Seq(Request) /\ Len(p) = n - 1 /\ DOMAIN p = 1..(n - 1)
  BY <1>1, <1>2, <1>3, <1>4
<1>6. ASSUME NEW k \in 1..(n - 1) PROVE p[k] = IF k < i THEN q[k] ELSE q[k + 1]
  <2>1. CASE k < i
    <3>1. k \in 1..(i - 1)
      BY <1>1, <2>1
    <3>2. p[k] = SubSeq(q, 1, i - 1)[k]
      BY <1>2, <1>3, <1>4, <3>1
    <3> QED BY <1>2, <2>1, <3>1, <3>2
  <2>2. CASE ~(k < i)
    <3>1. k - (i - 1) \in 1..(n - i) /\ i + (k - (i - 1)) = k + 1
      BY <1>1, <2>2
    <3>2. p[k] = SubSeq(q, i + 1, n)[k - (i - 1)]
      <4> DEFINE u == SubSeq(q, 1, i - 1)
                 v == SubSeq(q, i + 1, n)
      <4>1. u \in Seq(Request) /\ v \in Seq(Request) /\ Len(u) = i - 1 /\ Len(v) = n - i
            /\ p = u \o v
        BY <1>2, <1>3, <1>4
      <4> HIDE DEF u, v, p, n
      <4>2. k \in 1..(Len(u) + Len(v)) /\ ~(k <= Len(u))
        BY <1>1, <2>2, <4>1
      <4>3. (u \o v)[k] = v[k - Len(u)]
        BY <4>1, <4>2
      <4> QED BY <4>1, <4>3 DEF v
    <3> QED BY <1>3, <2>2, <3>1, <3>2
  <2> QED BY <2>1, <2>2
<1> HIDE DEF p, n
<1>7. ASSUME NEW j \in DOMAIN q \ {i} PROVE \E k \in DOMAIN p : p[k] = q[j]
  <2>1. CASE j < i
    <3>1. j \in 1..(n - 1) /\ p[j] = q[j]
      BY <1>1, <1>6, <2>1
    <3> QED BY <1>5, <3>1
  <2>2. CASE j > i
    <3>1. j - 1 \in 1..(n - 1) /\ p[j - 1] = q[j]
      BY <1>1, <1>6, <2>2
    <3> QED BY <1>5, <3>1
  <2> QED BY <1>1, <2>1, <2>2
<1>8. ASSUME NEW k \in DOMAIN p PROVE \E j \in DOMAIN q : p[k] = q[j]
  <2>1. k \in 1..n /\ k + 1 \in 1..n
    BY <1>1, <1>5
  <2> QED BY <1>1, <1>5, <1>6, <2>1
<1> QED BY <1>7, <1>8 DEF p

\* A request ends and its server no longer waits for one of its kind.
LEMMA ServedAfter ==
  ASSUME NEW c, NEW d, NEW q \in Seq(Request), NEW i \in DOMAIN q,
         Served(c, q), NoneWaits(c, d), d.srv[q[i].srv].status # WaitsFor(q[i].kind)
  PROVE  Served(d, RemoveAt(q, i))
<1>1. Served(d, q)
  BY ServedKept
<1>2. ASSUME NEW s \in Servers, NEW k \in Kinds, d.srv[s].status = WaitsFor(k)
      PROVE  \E j \in DOMAIN RemoveAt(q, i) : IsFor(RemoveAt(q, i)[j], s, k)
  <2>1. PICK j \in DOMAIN q : IsFor(q[j], s, k)
    BY <1>1, <1>2 DEF Served
  <2>2. j # i
    BY <1>2, <2>1 DEF IsFor
  <2>3. PICK m \in DOMAIN RemoveAt(q, i) : RemoveAt(q, i)[m] = q[j]
    BY <2>2, OthersStay
  <2> QED BY <2>1, <2>3 DEF IsFor
<1> QED BY <1>2 DEF Served

\* A list that holds for every request of another one a request like it.
LEMMA ServedAlike ==
  ASSUME NEW c, NEW q, NEW p, Served(c, q),
         \A i \in DOMAIN q : \E k \in DOMAIN p : p[k].srv = q[i].srv /\ p[k].kind = q[i].kind
  PROVE  Served(c, p)
BY DEF Served, IsFor

\* Every server of T comes in the list of T.
LEMMA AllListed ==
  ASSUME NEW T \in SUBSET Servers, NEW q \in InListOrder(T)
  PROVE  \A s \in T : \E i \in DOMAIN q : q[i] = s
<1> DEFINE n == Cardinality(T)
<1>1. IsFiniteSet(T) /\ n \in Nat
  BY RegistrationAssumption, FS_Subset, FS_CardinalityType
<1> HIDE DEF n
<1>2. q \in [1..n -> T] /\ \A i, j \in 1..n : i < j => q[i] < q[j]
  BY DEF InListOrder, n
<1>3. \A i, j \in 1..n : q[i] = q[j] => i = j
  <2>1. \A i \in 1..n : q[i] \in Nat
    BY <1>2, RegistrationAssumption
  <2> QED BY <1>1, <1>2, <2>1
<1>4. q \in Injection(1..n, T)
  BY <1>2, <1>3 DEF Injection, IsInjective
<1>5. IsFiniteSet(1..n) /\ Cardinality(1..n) = n
  BY <1>1, FS_Interval
<1>6. q \in Surjection(1..n, T)
  BY <1>1, <1>4, <1>5, FS_Injection DEF n
<1> QED BY <1>2, <1>6 DEF Surjection

\* A list put behind another.
LEMMA BothListed ==
  ASSUME NEW p \in Seq(Request), NEW q \in Seq(Request)
  PROVE  /\ \A i \in DOMAIN p : i \in DOMAIN (p \o q) /\ (p \o q)[i] = p[i]
         /\ \A i \in DOMAIN q : Len(p) + i \in DOMAIN (p \o q) /\ (p \o q)[Len(p) + i] = q[i]
         /\ \A k \in DOMAIN (p \o q) : \/ \E i \in DOMAIN p : (p \o q)[k] = p[i]
                                       \/ \E i \in DOMAIN q : (p \o q)[k] = q[i]
<1>1. /\ Len(p) \in Nat /\ Len(q) \in Nat /\ DOMAIN p = 1..Len(p) /\ DOMAIN q = 1..Len(q)
      /\ DOMAIN (p \o q) = 1..(Len(p) + Len(q))
  OBVIOUS
<1>2. \A i \in DOMAIN p : i \in DOMAIN (p \o q) /\ (p \o q)[i] = p[i]
  BY <1>1
<1>3. \A i \in DOMAIN q : Len(p) + i \in DOMAIN (p \o q) /\ (p \o q)[Len(p) + i] = q[i]
  BY <1>1
<1>4. ASSUME NEW k \in DOMAIN (p \o q), k \notin DOMAIN p
      PROVE  \E i \in DOMAIN q : (p \o q)[k] = q[i]
  <2>1. k - Len(p) \in DOMAIN q /\ Len(p) + (k - Len(p)) = k
    BY <1>1, <1>4
  <2> QED BY <1>3, <2>1
<1> QED BY <1>2, <1>3, <1>4
----------------------------------------------------------------------------
(* The steps. Only the servers' answers need TooLarge to be FALSE.         *)

\* What is invariant besides IInv. A 4.13 to a first block leaves the server waiting
\* for a request in smaller blocks that may never be made, so there is none here.
PInv == Served(context, reqs) /\ \A i \in DOMAIN reqs : reqs[i].ans # "413"

\* update_bootstrap_info makes no server wait.
LEMMA InfoWaits ==
  ASSUME NEW c, GoodContext(c), update_bootstrap_info(c)
  PROVE  NoneWaits(c, context')
BY FullListWaits DEF update_bootstrap_info, NoneWaits

\* A step that makes no server wait and leaves the list alone.
LEMMA ListAlone ==
  ASSUME PInv, NoneWaits(context, context'), UNCHANGED reqs
  PROVE  PInv'
<1>1. Served(context', reqs)
  BY ServedKept DEF PInv
<1> QED BY <1>1 DEF PInv, Served

LEMMA SendDataServed ==
  ASSUME IInv, PInv, SendData PROVE PInv'
<1>1. PICK expired \in SUBSET DOMAIN reqs : sendData(expired)
  BY DEF SendData
<1> DEFINE c == Advance(context)
<1>2. GoodContext(c) /\ NoneWaits(context, c)
  BY AdvanceGood, AdvanceWaits DEF IInv
<1>3. CASE update_bootstrap_info([c EXCEPT !.state = "INITIAL"]) /\ UNCHANGED reqs
  <2> DEFINE d == [c EXCEPT !.state = "INITIAL"]
  <2>1. GoodContext(d) /\ d.srv = c.srv
    BY <1>2, StateAssigned DEF ClientStates, GoodContext, Context
  <2> HIDE DEF d
  <2>2. NoneWaits(d, context')
    BY <1>3, <2>1, InfoWaits DEF d
  <2>3. NoneWaits(context, context')
    BY <1>2, <2>1, <2>2 DEF NoneWaits
  <2> QED BY <1>3, <2>3, ListAlone
<1>4. CASE context' = c /\ UNCHANGED reqs
  BY <1>2, <1>4, ListAlone
<1>5. ASSUME NEW refused \in SUBSET Connecting(c),
             NEW q \in InListOrder({s \in Servers : \/ Registers(c.srv[s], s, refused)
                                                   \/ Updates(c.srv[s])}),
             reqs' = [i \in DOMAIN reqs |-> [reqs[i] EXCEPT !.over = i \in expired]]
                     \o NewRequests(c, refused, q),
             context' = registration_step(c, refused)
      PROVE  PInv'
  <2> DEFINE T == {s \in Servers : Registers(c.srv[s], s, refused) \/ Updates(c.srv[s])}
             marked == [i \in DOMAIN reqs |-> [reqs[i] EXCEPT !.over = i \in expired]]
             new == NewRequests(c, refused, q)
  <2>1. reqs \in Seq(Request) /\ version \in 1..MaxVersion
    BY DEF IInv, TypeOK
  <2>2. ASSUME NEW i \in DOMAIN reqs
        PROVE  /\ marked[i] \in Request /\ marked[i].srv = reqs[i].srv
               /\ marked[i].kind = reqs[i].kind /\ marked[i].ans = reqs[i].ans
    <3>1. reqs[i] \in Request /\ (i \in expired) \in BOOLEAN
      BY <2>1
    <3> QED BY <3>1 DEF Request
  <2>3. marked \in Seq(Request) /\ DOMAIN marked = DOMAIN reqs
    <3>1. marked \in [1..Len(reqs) -> Request] /\ Len(reqs) \in Nat /\ DOMAIN reqs = 1..Len(reqs)
      BY <2>1, <2>2
    <3> QED BY <3>1
  <2>4. new \in Seq(Request) /\ DOMAIN new = DOMAIN q
    BY <2>1, RequestsAdded DEF NewRequests
  <2>5. ASSUME NEW i \in DOMAIN q
        PROVE  /\ new[i].srv = q[i] /\ new[i].ans = "none"
               /\ new[i].kind = IF Registers(c.srv[q[i]], q[i], refused) THEN "register" ELSE "update"
    BY DEF NewRequests
  <2>6. \A s \in T : \E i \in DOMAIN q : q[i] = s
    BY AllListed
  <2>7. Served(c, reqs)
    BY <1>2, ServedKept DEF PInv
  <2>8. \A i \in DOMAIN reqs' : reqs'[i].ans # "413"
    <3> HIDE DEF marked, new
    <3>1. \A i \in DOMAIN marked : marked[i].ans # "413"
      BY <2>2, <2>3 DEF PInv
    <3>2. \A i \in DOMAIN new : new[i].ans # "413"
      BY <2>4, <2>5
    <3>3. reqs' = marked \o new
      BY <1>5 DEF marked, new
    <3> QED BY <2>3, <2>4, <3>1, <3>2, <3>3, BothListed
  <2>9. ASSUME NEW s \in Servers, NEW k \in Kinds, context'.srv[s].status = WaitsFor(k)
        PROVE  \E i \in DOMAIN reqs' : IsFor(reqs'[i], s, k)
    <3> HIDE DEF marked, new, T
    <3>1. reqs' = marked \o new
      BY <1>5 DEF marked, new
    <3>2. CASE context'.srv[s].status = c.srv[s].status
      <4>1. PICK i \in DOMAIN reqs : IsFor(reqs[i], s, k)
        BY <2>7, <2>9, <3>2 DEF Served
      <4>2. i \in DOMAIN reqs' /\ reqs'[i] = marked[i]
        BY <2>3, <2>4, <3>1, BothListed
      <4> QED BY <2>2, <4>1, <4>2 DEF IsFor
    <3>3. ASSUME s \in T,
                 k = IF Registers(c.srv[s], s, refused) THEN "register" ELSE "update"
          PROVE  \E i \in DOMAIN reqs' : IsFor(reqs'[i], s, k)
      <4>1. PICK i \in DOMAIN q : q[i] = s
        BY <2>6, <3>3
      <4>2. Len(marked) + i \in DOMAIN reqs' /\ reqs'[Len(marked) + i] = new[i]
        BY <2>3, <2>4, <3>1, BothListed
      <4>3. new[i].srv = s /\ new[i].kind = k
        BY <2>5, <3>3, <4>1
      <4> QED BY <4>2, <4>3 DEF IsFor
    <3>4. CASE Registers(c.srv[s], s, refused) /\ context'.srv[s].status = "REG_PENDING"
      <4>1. k = "register" /\ s \in T
        BY <2>9, <3>4, WaitingStatuses DEF Kinds, T
      <4> QED BY <3>3, <3>4, <4>1
    <3>5. CASE /\ ~Registers(c.srv[s], s, refused) /\ Updates(c.srv[s])
               /\ context'.srv[s].status = "REG_UPDATE_PENDING"
      <4>1. k = "update" /\ s \in T
        BY <2>9, <3>5, WaitingStatuses DEF Kinds, T
      <4> QED BY <3>3, <3>5, <4>1
    <3> HIDE DEF c
    <3> QED BY <1>2, <1>5, <3>2, <3>4, <3>5, StepWaits
  <2> QED BY <2>8, <2>9 DEF PInv, Served
<1> QED BY <1>1, <1>3, <1>4, <1>5 DEF sendData

\* A request ends: it was given up or answered.
LEMMA EndServed ==
  ASSUME IInv, PInv, NEW i \in DOMAIN reqs, NEW code, code # "413",
         context' = Callback(context, reqs[i], code), reqs' = RemoveAt(reqs, i)
  PROVE  PInv'
<1>1. reqs \in Seq(Request) /\ reqs[i] \in Request
  BY DEF IInv, TypeOK
<1>2. NoneWaits(context, context') /\ context'.srv[reqs[i].srv].status # WaitsFor(reqs[i].kind)
  BY <1>1, CallbackWaits DEF IInv
<1>3. Served(context', RemoveAt(reqs, i))
  BY <1>1, <1>2, ServedAfter DEF PInv
<1>4. \A k \in DOMAIN RemoveAt(reqs, i) : RemoveAt(reqs, i)[k].ans # "413"
  BY <1>1, OthersStay DEF PInv
<1> QED BY <1>3, <1>4 DEF PInv, Served

LEMMA GiveUpServed ==
  ASSUME IInv, PInv, GiveUp PROVE PInv'
<1>1. PICK i \in DOMAIN reqs : /\ context' = Callback(context, reqs[i], "timeout")
                               /\ reqs' = RemoveAt(reqs, i)
  BY DEF GiveUp
<1> QED BY <1>1, EndServed

LEMMA ReadDataServed ==
  ASSUME IInv, PInv, NEW i \in DOMAIN reqs, readData(i) PROVE PInv'
<1>1. reqs[i].ans # "413"
  BY DEF PInv
<1>2. context' = Callback(context, reqs[i], reqs[i].ans) /\ reqs' = RemoveAt(reqs, i)
  BY <1>1 DEF readData
<1> QED BY <1>1, <1>2, EndServed

LEMMA ServerHandlesServed ==
  ASSUME IInv, PInv, TooLarge = FALSE, NEW i \in DOMAIN reqs, ServerHandles(i) PROVE PInv'
<1>1. reqs \in Seq(Request)
  BY DEF IInv, TypeOK
<1>2. PICK ans \in {"err", "201", "204", "202"} : reqs' = [reqs EXCEPT ![i].ans = ans]
  BY DEF ServerHandles
<1>3. context' = context
  BY DEF ServerHandles
<1>4. \A k \in DOMAIN reqs : /\ reqs'[k].srv = reqs[k].srv /\ reqs'[k].kind = reqs[k].kind
                             /\ reqs'[k].ans \in {reqs[k].ans, ans}
  <2>1. \A k \in DOMAIN reqs : reqs[k] \in Request
    BY <1>1
  <2> QED BY <1>2, <2>1 DEF Request
<1>5. DOMAIN reqs' = DOMAIN reqs
  BY <1>2
<1>6. Served(context, reqs')
  BY <1>4, <1>5, ServedAlike DEF PInv
<1> QED BY <1>3, <1>4, <1>5, <1>6 DEF PInv, Served

LEMMA DeregisterServed ==
  ASSUME IInv, PInv, NEW s \in Servers, registration_deregister(s) PROVE PInv'
<1> DEFINE r == context.srv[s]
           x == [r EXCEPT !.status = "DEREG_PENDING", !.want = FALSE]
           new == [srv |-> s, kind |-> "delete", objs |-> 0, blk |-> MaxBlock,
                   ans |-> "none", over |-> FALSE]
<1>1. r \in Server /\ context \in Context /\ reqs \in Seq(Request)
  BY DEF IInv, TypeOK, GoodContext, Context
<1>2. context' = [context EXCEPT !.srv[s] = x] /\ x.status = "DEREG_PENDING"
  BY <1>1 DEF registration_deregister, Context, Server
<1> HIDE DEF x
<1>3. \A t \in Servers : context'.srv[t].status =
                           IF t = s THEN "DEREG_PENDING" ELSE context.srv[t].status
  BY <1>1, <1>2 DEF Context
<1>4. new.srv = s /\ new.kind = "delete" /\ new.ans = "none"
  OBVIOUS
<1>5. reqs' = Append(reqs, new)
  BY DEF registration_deregister
<1> HIDE DEF new
<1>6. /\ Len(reqs) \in Nat /\ DOMAIN reqs = 1..Len(reqs) /\ DOMAIN reqs' = 1..(Len(reqs) + 1)
      /\ reqs'[Len(reqs) + 1] = new /\ \A i \in DOMAIN reqs : reqs'[i] = reqs[i]
  BY <1>1, <1>5
<1>7. \A i \in DOMAIN reqs : i \in DOMAIN reqs'
  BY <1>6
<1>8. Len(reqs) + 1 \in DOMAIN reqs'
  BY <1>6
<1>9. \A i \in DOMAIN reqs' : reqs'[i].ans # "413"
  <2>1. \A i \in DOMAIN reqs' : i \in DOMAIN reqs \/ i = Len(reqs) + 1
    BY <1>6
  <2> QED BY <1>4, <1>6, <2>1 DEF PInv
<1>10. ASSUME NEW t \in Servers, NEW k \in Kinds, context'.srv[t].status = WaitsFor(k)
       PROVE  \E i \in DOMAIN reqs' : IsFor(reqs'[i], t, k)
  <2>1. CASE t = s
    <3>1. k = "delete"
      BY <1>3, <1>10, <2>1, WaitingStatuses DEF Kinds
    <3> QED BY <1>4, <1>6, <1>8, <2>1, <3>1 DEF IsFor
  <2>2. CASE t # s
    <3>1. PICK i \in DOMAIN reqs : IsFor(reqs[i], t, k)
      BY <1>3, <1>10, <2>2 DEF PInv, Served
    <3> QED BY <1>6, <1>7, <3>1
  <2> QED BY <2>1, <2>2
<1> QED BY <1>9, <1>10 DEF PInv, Served

\* The steps that leave the list alone.
LEMMA OthersServed ==
  ASSUME IInv, PInv,
         \/ EndOfSendData \/ refreshObjects \/ UpdateRegistration \/ BootstrapEnds
         \/ \E s \in Servers : Elapse(s) \/ ServerForgets(s)
         \/ UNCHANGED vars
  PROVE  PInv'
<1>1. GoodContext(context) /\ context \in Context
  BY DEF IInv, GoodContext
<1>2. CASE EndOfSendData
  BY <1>1, <1>2, InfoWaits, ListAlone DEF EndOfSendData
<1>3. CASE refreshObjects
  BY <1>1, <1>3, FullListWaits, ListAlone DEF refreshObjects
<1>4. CASE UpdateRegistration
  BY <1>1, <1>4, UpdateWaits, ListAlone DEF UpdateRegistration
<1>5. CASE BootstrapEnds
  <2>1. context'.srv = context.srv
    BY <1>1, <1>5 DEF BootstrapEnds, Context
  <2>2. NoneWaits(context, context') /\ UNCHANGED reqs
    BY <1>5, <2>1 DEF NoneWaits, BootstrapEnds
  <2> QED BY <2>2, ListAlone
<1>6. ASSUME NEW s \in Servers, Elapse(s) PROVE PInv'
  <2> DEFINE x == [context.srv[s] EXCEPT !.due = TRUE]
  <2>1. context.srv[s] \in Server
    BY <1>1 DEF Context
  <2>2. context' = [context EXCEPT !.srv[s] = x] /\ x.status = context.srv[s].status
    BY <1>1, <1>6, <2>1 DEF Elapse, Context, Server
  <2> HIDE DEF x
  <2>3. NoneWaits(context, [context EXCEPT !.srv[s] = x])
    BY <1>1, <2>2, AssignedWaits
  <2>4. NoneWaits(context, context') /\ UNCHANGED reqs
    BY <1>6, <2>2, <2>3 DEF Elapse
  <2> QED BY <2>4, ListAlone
<1>7. CASE \/ \E s \in Servers : ServerForgets(s)
           \/ UNCHANGED vars
  <2>1. context' = context /\ UNCHANGED reqs
    BY <1>7 DEF ServerForgets, vars
  <2>2. NoneWaits(context, context')
    BY <2>1 DEF NoneWaits
  <2> QED BY <2>1, <2>2, ListAlone
<1> QED BY <1>2, <1>3, <1>4, <1>5, <1>6, <1>7

(* A server whose status says that a registration, an update or a          *)
(* deregistration is pending has such a request in the list, although the  *)
(* callbacks look at the status and not at which request ended: for every  *)
(* set of servers, every order among them, every limit and any number of   *)
(* requests, as long as no server answers 4.13.                            *)
THEOREM PendingServed ==
  ASSUME TooLarge = FALSE PROVE Spec => []PendingHasRequest
<1>1. Init => PInv
  <2> SUFFICES ASSUME Init PROVE PInv
    OBVIOUS
  <2>1. reqs = << >> /\ \A s \in Servers : context.srv[s].status = "DEREGISTERED"
    BY DEF Init
  <2>2. DOMAIN reqs = {}
    BY <2>1
  <2>3. \A k \in Kinds : WaitsFor(k) # "DEREGISTERED"
    BY WaitingStatuses DEF Kinds
  <2> QED BY <2>1, <2>2, <2>3 DEF PInv, Served
<1>2. IInv /\ PInv /\ [Next]_vars => PInv'
  <2> SUFFICES ASSUME IInv, PInv, [Next]_vars PROVE PInv'
    OBVIOUS
  <2> QED
    BY SendDataServed, GiveUpServed, ReadDataServed, ServerHandlesServed, DeregisterServed,
       OthersServed DEF Next
<1>3. PInv => PendingHasRequest
  <2> SUFFICES ASSUME PInv, NEW s \in Servers
               PROVE  \A k \in Kinds : context.srv[s].status = WaitsFor(k) =>
                                         \E i \in ReqsOf(s) : reqs[i].kind = k
    BY WaitingStatuses DEF PendingHasRequest, Kinds
  <2> QED BY DEF PInv, Served, IsFor, ReqsOf
<1> QED BY <1>1, <1>2, <1>3, Invariance, PTL DEF Spec

-----------------------------------------------------------------------------
(***************************************************************************)
(* What the operations change, server by server, for the properties that   *)
(* relate the servers to one another and to the object list.               *)
(***************************************************************************)
Unstarted == {"DEREGISTERED", "REG_FAILED"}

\* A server that was started comes after no ordered server that never was.
OrderIn(c) ==
  \A s, t \in Ordered :
    Priority[s] < Priority[t] /\ c.srv[t].status \notin Unstarted
      => c.srv[s].status # "DEREGISTERED"

SameFlags(r, x) == x.want = r.want /\ x.overlap = r.overlap

\* The order is kept when nothing is deregistered and only servers that were
\* started before go on.
LEMMA OrderStays ==
  ASSUME NEW c, NEW d, OrderIn(c),
         \A s \in Servers : \/ d.srv[s].status = c.srv[s].status
                            \/ d.srv[s].status = "REG_FAILED"
                            \/ /\ c.srv[s].status \notin Unstarted
                               /\ d.srv[s].status # "DEREGISTERED"
  PROVE  OrderIn(d)
<1>1. SUFFICES ASSUME NEW s \in Ordered, NEW t \in Ordered, Priority[s] < Priority[t],
                      d.srv[t].status \notin Unstarted
               PROVE  d.srv[s].status # "DEREGISTERED"
  BY DEF OrderIn
<1>2. s \in Servers /\ t \in Servers
  BY RegistrationAssumption
<1>3. c.srv[t].status \notin Unstarted
  BY <1>1, <1>2 DEF Unstarted
<1>4. c.srv[s].status # "DEREGISTERED"
  BY <1>1, <1>3 DEF OrderIn
<1> QED BY <1>2, <1>4

\* registration_start: of the ordered servers only the first that may start.
LEMMA StartEffect ==
  ASSUME NEW c, GoodContext(c), NEW restart \in BOOLEAN
  PROVE  LET d == registration_start(c, restart)
         IN  /\ d.state = c.state
             /\ \A s \in Servers :
                  /\ SameFlags(c.srv[s], d.srv[s])
                  /\ \/ d.srv[s].status = c.srv[s].status
                     \/ c.srv[s].status \in Unstarted /\ d.srv[s].status = "REG_HOLD_OFF"
             /\ OrderIn(c) => OrderIn(d)
<1> DEFINE startable == {s \in Servers : \/ c.srv[s].status = "DEREGISTERED"
                                         \/ (restart /\ c.srv[s].status = "REG_FAILED")}
           starts == (startable \ Ordered) \cup First(startable \cap Ordered)
           f == [s \in Servers |-> IF s \in starts THEN prv_startRegistration(Reset(c.srv[s]), s)
                                   ELSE IF s \in startable THEN Reset(c.srv[s])
                                   ELSE c.srv[s]]
           d == registration_start(c, restart)
<1>1. starts \subseteq startable
  BY DEF First
<1>2. d = [c EXCEPT !.srv = f] /\ d.srv = f /\ d.state = c.state
  BY DEF registration_start, Reset, GoodContext, Context
<1>3. ASSUME NEW s \in Servers
      PROVE  /\ prv_startRegistration(Reset(c.srv[s]), s).status = "REG_HOLD_OFF"
             /\ Reset(c.srv[s]).status = c.srv[s].status
             /\ SameFlags(c.srv[s], prv_startRegistration(Reset(c.srv[s]), s))
             /\ SameFlags(c.srv[s], Reset(c.srv[s]))
  <2>1. c.srv[s] \in Server
    BY DEF GoodContext, Good
  <2>2. /\ Reset(c.srv[s]) \in Server /\ Reset(c.srv[s]).status = c.srv[s].status
        /\ SameFlags(c.srv[s], Reset(c.srv[s]))
    BY <2>1, ResetGood DEF Reset, Server, SameFlags
  <2> DEFINE r == Reset(c.srv[s])
  <2> HIDE DEF r
  <2>3. r \in Server => /\ prv_startRegistration(r, s).status = "REG_HOLD_OFF"
                        /\ SameFlags(r, prv_startRegistration(r, s))
    BY DEF prv_startRegistration, Server, SameFlags
  <2> QED BY <2>2, <2>3 DEF r, SameFlags
<1>4. ASSUME NEW s \in Servers
      PROVE  /\ SameFlags(c.srv[s], f[s])
             /\ \/ f[s].status = c.srv[s].status
                \/ /\ s \in starts /\ c.srv[s].status \in Unstarted
                   /\ f[s].status = "REG_HOLD_OFF"
             /\ c.srv[s].status = "DEREGISTERED" => s \in startable
  <2>1. s \in startable => c.srv[s].status \in Unstarted
    BY DEF Unstarted
  <2>2. c.srv[s].status = "DEREGISTERED" => s \in startable
    OBVIOUS
  <2>3. SameFlags(c.srv[s], c.srv[s])
    BY DEF SameFlags
  <2> HIDE DEF startable, starts
  <2>4. CASE s \in starts
    BY <1>1, <1>3, <2>1, <2>2, <2>4
  <2>5. CASE s \notin starts /\ s \in startable
    BY <1>3, <2>2, <2>5
  <2>6. CASE s \notin starts /\ s \notin startable
    BY <2>2, <2>3, <2>6
  <2> QED BY <2>4, <2>5, <2>6
<1>5. ASSUME OrderIn(c), NEW s \in Ordered, NEW t \in Ordered, Priority[s] < Priority[t],
             f[t].status \notin Unstarted
      PROVE  f[s].status # "DEREGISTERED"
  <2>1. s \in Servers /\ t \in Servers /\ Priority[s] \in Nat /\ Priority[t] \in Nat
    BY RegistrationAssumption
  <2>2. c.srv[s].status # "DEREGISTERED" => f[s].status # "DEREGISTERED"
    BY <1>4, <2>1
  <2>3. CASE c.srv[t].status \notin Unstarted
    BY <1>5, <2>2, <2>3 DEF OrderIn
  <2>4. CASE c.srv[t].status \in Unstarted
    <3>1. t \in starts
      BY <1>4, <1>5, <2>1, <2>4
    <3>2. t \in First(startable \cap Ordered)
      BY <1>5, <3>1
    <3>3. s \notin startable
      <4>1. s \in startable => \/ Priority[t] < Priority[s]
                               \/ Priority[t] = Priority[s] /\ t <= s
        BY <1>5, <3>2 DEF First
      <4> QED BY <1>5, <2>1, <4>1
    <3> QED BY <1>4, <2>1, <2>2, <3>3
  <2> QED BY <2>3, <2>4
<1> HIDE DEF f, d, starts, startable
<1>6. OrderIn(c) => OrderIn(d)
  BY <1>2, <1>5 DEF OrderIn
<1>7. \A s \in Servers :
        /\ SameFlags(c.srv[s], d.srv[s])
        /\ \/ d.srv[s].status = c.srv[s].status
           \/ c.srv[s].status \in Unstarted /\ d.srv[s].status = "REG_HOLD_OFF"
  BY <1>2, <1>4
<1> QED BY <1>2, <1>6, <1>7 DEF d

\* One server gets another status and other flags than want and overlap.
LEMMA AssignedEffect ==
  ASSUME NEW c, GoodContext(c), NEW s \in Servers, NEW x, SameFlags(c.srv[s], x)
  PROVE  LET d == [c EXCEPT !.srv[s] = x]
         IN  /\ d.state = c.state /\ d.srv[s] = x
             /\ \A t \in Servers \ {s} : d.srv[t] = c.srv[t]
             /\ \A t \in Servers : SameFlags(c.srv[t], d.srv[t])
<1> DEFINE d == [c EXCEPT !.srv[s] = x]
<1>1. c.srv \in [Servers -> Server] /\ c \in Context
  BY DEF GoodContext, Context
<1>2. d.srv = [c.srv EXCEPT ![s] = x] /\ d.state = c.state
  BY <1>1 DEF Context
<1>3. \A t \in Servers : d.srv[t] = IF t = s THEN x ELSE c.srv[t]
  BY <1>1, <1>2
<1> HIDE DEF d
<1>4. \A t \in Servers : SameFlags(c.srv[t], d.srv[t])
  BY <1>3 DEF SameFlags
<1> QED BY <1>2, <1>3, <1>4 DEF d

\* A registration with s failed: others may start, or fail with it.
Fails(c, d, s) ==
  /\ d.state \in {c.state, "BOOTSTRAP_REQUIRED"}
  /\ \A t \in Servers : SameFlags(c.srv[t], d.srv[t])
  /\ \A t \in Servers \ {s} :
       \/ d.srv[t].status = c.srv[t].status
       \/ c.srv[t].status \in Unstarted /\ d.srv[t].status \in {"REG_HOLD_OFF", "REG_FAILED"}
  /\ d.srv[s].status \in {"REG_HOLD_OFF", "REG_FAILED"}
  /\ OrderIn(c) => OrderIn(d)

LEMMA SequenceFailureEffect ==
  ASSUME NEW c, GoodContext(c), NEW s \in Servers, c.srv[s].status = "REG_PENDING"
  PROVE  Fails(c, prv_handleRegistrationSequenceFailure(c, s), s)
<1> DEFINE next == IF s \in Ordered \ Blocking /\ c.srv[s].sequence = 1
                   THEN registration_start(c, FALSE) ELSE c
           r == next.srv[s]
           y == [r EXCEPT !.status = "REG_FAILED"]
           x == [r EXCEPT !.status = "REG_HOLD_OFF", !.due = FALSE, !.attempt = 0]
           failed == [next EXCEPT !.srv[s] = y]
           held == [next EXCEPT !.srv[s] = x]
           lost(t) == [failed.srv[t] EXCEPT !.status = "REG_FAILED", !.waiting = FALSE]
           taken == [t \in Servers |-> IF t \in Ordered /\ failed.srv[t].status = "DEREGISTERED"
                                       THEN lost(t) ELSE failed.srv[t]]
           d == prv_handleRegistrationSequenceFailure(c, s)
<1>1. /\ GoodContext(next) /\ next.state = c.state
      /\ \A t \in Servers : /\ SameFlags(c.srv[t], next.srv[t])
                            /\ \/ next.srv[t].status = c.srv[t].status
                               \/ /\ c.srv[t].status \in Unstarted
                                  /\ next.srv[t].status = "REG_HOLD_OFF"
      /\ OrderIn(c) => OrderIn(next)
  <2>1. CASE s \in Ordered \ Blocking /\ c.srv[s].sequence = 1
    <3>1. next = registration_start(c, FALSE)
      BY <2>1
    <3> HIDE DEF next
    <3>2. GoodContext(registration_start(c, FALSE))
      BY StartGood
    <3> QED BY <3>1, <3>2, StartEffect
  <2>2. CASE ~(s \in Ordered \ Blocking /\ c.srv[s].sequence = 1)
    <3>1. next = c
      BY <2>2
    <3> HIDE DEF next
    <3> QED BY <3>1 DEF SameFlags
  <2> QED BY <2>1, <2>2
<1>2. next \in Context /\ r \in Server
  BY <1>1 DEF GoodContext, Good
<1>b. \A t \in Servers : next.srv[t] \in Server
  BY <1>1 DEF GoodContext, Good
<1>a. r.status = "REG_PENDING"
  BY <1>1 DEF Unstarted
<1> HIDE DEF next
<1>3. /\ [next EXCEPT !.srv[s].status = "REG_FAILED"] = failed
      /\ [next EXCEPT !.srv[s].status = "REG_HOLD_OFF", !.srv[s].due = FALSE,
                      !.srv[s].attempt = 0] = held
  BY <1>2 DEF Context, Server
<1>4. \/ d = held
      \/ d = [failed EXCEPT !.state = "BOOTSTRAP_REQUIRED"]
      \/ d = [failed EXCEPT !.srv = taken]
      \/ d = failed
  BY <1>3 DEF prv_handleRegistrationSequenceFailure, next
<1>5. /\ y.status = "REG_FAILED" /\ x.status = "REG_HOLD_OFF" /\ y \in Server
      /\ SameFlags(r, y) /\ SameFlags(r, x)
  BY <1>2 DEF Server, RegStatus, SameFlags
<1> HIDE DEF x, y, r
<1>6. /\ held.state = next.state /\ held.srv[s] = x
      /\ \A t \in Servers \ {s} : held.srv[t] = next.srv[t]
      /\ \A t \in Servers : SameFlags(next.srv[t], held.srv[t])
  BY <1>1, <1>5, AssignedEffect DEF r
<1>7. /\ failed.state = next.state /\ failed.srv[s] = y
      /\ \A t \in Servers \ {s} : failed.srv[t] = next.srv[t]
      /\ \A t \in Servers : SameFlags(next.srv[t], failed.srv[t])
  BY <1>1, <1>5, AssignedEffect DEF r
<1>8. \A t \in Servers : failed.srv[t] \in Server
  BY <1>b, <1>5, <1>7
<1>9. failed \in Context
  BY <1>2, <1>5 DEF Context
<1> HIDE DEF held, failed
<1>10. /\ [failed EXCEPT !.state = "BOOTSTRAP_REQUIRED"].srv = failed.srv
       /\ [failed EXCEPT !.state = "BOOTSTRAP_REQUIRED"].state = "BOOTSTRAP_REQUIRED"
       /\ [failed EXCEPT !.srv = taken].srv = taken
       /\ [failed EXCEPT !.srv = taken].state = failed.state
  <2> HIDE DEF taken
  <2> QED BY <1>9 DEF Context
<1>11. ASSUME NEW t \in Servers
       PROVE  /\ SameFlags(failed.srv[t], taken[t])
              /\ \/ taken[t].status = failed.srv[t].status
                 \/ failed.srv[t].status = "DEREGISTERED" /\ taken[t].status = "REG_FAILED"
  <2>1. lost(t).status = "REG_FAILED" /\ SameFlags(failed.srv[t], lost(t))
    BY <1>8 DEF Server, SameFlags
  <2>2. SameFlags(failed.srv[t], failed.srv[t])
    BY DEF SameFlags
  <2> HIDE DEF lost
  <2> QED BY <2>1, <2>2
<1> HIDE DEF taken, d
<1>12. /\ d.state \in {next.state, "BOOTSTRAP_REQUIRED"}
       /\ d.srv \in {held.srv, failed.srv, taken}
  BY <1>4, <1>6, <1>7, <1>10
<1>13. \A t \in Servers : SameFlags(next.srv[t], d.srv[t])
  BY <1>6, <1>7, <1>11, <1>12 DEF SameFlags
<1>14. \A t \in Servers \ {s} : \/ d.srv[t].status = next.srv[t].status
                                \/ /\ next.srv[t].status = "DEREGISTERED"
                                   /\ d.srv[t].status = "REG_FAILED"
  BY <1>6, <1>7, <1>11, <1>12
<1>15. d.srv[s].status \in {"REG_HOLD_OFF", "REG_FAILED"}
  BY <1>5, <1>6, <1>7, <1>11, <1>12
<1>16. OrderIn(next) => OrderIn(d)
  <2>1. ASSUME NEW t \in Servers
        PROVE  \/ d.srv[t].status = next.srv[t].status
               \/ d.srv[t].status = "REG_FAILED"
               \/ next.srv[t].status \notin Unstarted /\ d.srv[t].status # "DEREGISTERED"
    BY <1>a, <1>14, <1>15 DEF Unstarted, r
  <2> QED BY <2>1, OrderStays
<1>17. \A t \in Servers \ {s} :
         \/ d.srv[t].status = c.srv[t].status
         \/ c.srv[t].status \in Unstarted /\ d.srv[t].status \in {"REG_HOLD_OFF", "REG_FAILED"}
  BY <1>1, <1>14 DEF Unstarted
<1>18. \A t \in Servers : SameFlags(c.srv[t], d.srv[t])
  BY <1>1, <1>13 DEF SameFlags
<1> QED BY <1>1, <1>12, <1>15, <1>16, <1>17, <1>18 DEF Fails, d

LEMMA AttemptFailureEffect ==
  ASSUME NEW c, GoodContext(c), NEW s \in Servers, c.srv[s].status = "REG_PENDING"
  PROVE  Fails(c, prv_handleRegistrationAttemptFailure(c, s), s)
<1>1. CASE c.srv[s].attempt >= AttemptLimit
  BY <1>1, SequenceFailureEffect DEF prv_handleRegistrationAttemptFailure
<1>2. CASE ~(c.srv[s].attempt >= AttemptLimit)
  <2> DEFINE x == [c.srv[s] EXCEPT !.status = "REG_HOLD_OFF", !.due = FALSE]
             d == [c EXCEPT !.srv[s] = x]
  <2>1. c.srv[s] \in Server /\ c \in Context
    BY DEF GoodContext, Good
  <2>2. prv_handleRegistrationAttemptFailure(c, s) = d
    BY <1>2, <2>1 DEF prv_handleRegistrationAttemptFailure, Context, Server
  <2>3. x.status = "REG_HOLD_OFF" /\ SameFlags(c.srv[s], x)
    BY <2>1 DEF Server, SameFlags
  <2> HIDE DEF x
  <2>4. /\ d.state = c.state /\ d.srv[s] = x
        /\ \A t \in Servers \ {s} : d.srv[t] = c.srv[t]
        /\ \A t \in Servers : SameFlags(c.srv[t], d.srv[t])
    BY <2>3, AssignedEffect
  <2> HIDE DEF d
  <2>5. OrderIn(c) => OrderIn(d)
    <3>1. ASSUME NEW t \in Servers
          PROVE  \/ d.srv[t].status = c.srv[t].status
                 \/ c.srv[t].status \notin Unstarted /\ d.srv[t].status # "DEREGISTERED"
      BY <2>3, <2>4 DEF Unstarted
    <3> QED BY <3>1, OrderStays
  <2> QED BY <2>2, <2>3, <2>4, <2>5 DEF Fails
<1> QED BY <1>1, <1>2

\* The statuses the end of a request may leave its server in.
Outcomes(kind) ==
  CASE kind = "register" -> {"REGISTERED", "REG_HOLD_OFF", "REG_FAILED"}
    [] kind = "update"   -> {"REGISTERED", "REG_FAILED"}
    [] kind = "delete"   -> {"DEREGISTERED"}

LEMMA OutcomesKnown ==
  /\ Outcomes("register") = {"REGISTERED", "REG_HOLD_OFF", "REG_FAILED"}
  /\ Outcomes("update") = {"REGISTERED", "REG_FAILED"}
  /\ Outcomes("delete") = {"DEREGISTERED"}
BY DEF Outcomes

\* Request req ended with code: its server moves on if it waited for it, and the
\* others only when that ended a registration.
EndedFor(c, d, req, code, t) ==
  \/ d.srv[t].status = c.srv[t].status
  \/ /\ c.srv[t].status \in Unstarted /\ c.srv[req.srv].status = "REG_PENDING"
     /\ d.srv[t].status \in {"REG_HOLD_OFF", "REG_FAILED"}
  \/ /\ t = req.srv /\ c.srv[t].status = WaitsFor(req.kind)
     /\ d.srv[t].status \in Outcomes(req.kind)
     /\ req.kind # "delete" => code # "413"
     /\ req.kind = "update" /\ d.srv[t].status = "REGISTERED" => code = "204"

Ended(c, d, req, code) ==
  /\ d.state \in {c.state, "BOOTSTRAP_REQUIRED"}
  /\ \A t \in Servers : SameFlags(c.srv[t], d.srv[t])
  /\ \A t \in Servers : EndedFor(c, d, req, code, t)
  /\ OrderIn(c) /\ c.srv[req.srv].status # "DEREG_PENDING" => OrderIn(d)

LEMMA NothingEnded ==
  ASSUME NEW c, NEW req, NEW code PROVE Ended(c, c, req, code)
BY DEF Ended, EndedFor, SameFlags

\* One server that waited for req is settled, and no other moves.
LEMMA SettledEffect ==
  ASSUME NEW c, GoodContext(c), NEW req \in Request, NEW code, NEW x,
         req.kind # "delete" => code # "413",
         SameFlags(c.srv[req.srv], x), c.srv[req.srv].status = WaitsFor(req.kind),
         x.status \in Outcomes(req.kind),
         req.kind = "update" /\ x.status = "REGISTERED" => code = "204"
  PROVE  LET d == [c EXCEPT !.srv[req.srv] = x]
         IN  Ended(c, d, req, code) /\ d.state = c.state /\ d.srv[req.srv] = x
<1> DEFINE s == req.srv
           d == [c EXCEPT !.srv[s] = x]
<1>1. s \in Servers /\ req.kind \in Kinds
  BY DEF Request, Kinds
<1>2. /\ d.state = c.state /\ d.srv[s] = x
      /\ \A t \in Servers \ {s} : d.srv[t] = c.srv[t]
      /\ \A t \in Servers : SameFlags(c.srv[t], d.srv[t])
  BY <1>1, AssignedEffect
<1> HIDE DEF d
<1>3. OrderIn(c) /\ c.srv[s].status # "DEREG_PENDING" => OrderIn(d)
  <2> SUFFICES ASSUME OrderIn(c), c.srv[s].status # "DEREG_PENDING" PROVE OrderIn(d)
    OBVIOUS
  <2>1. c.srv[s].status \notin Unstarted /\ x.status # "DEREGISTERED"
    BY <1>1, WaitingStatuses, OutcomesKnown DEF Kinds, Unstarted
  <2>2. ASSUME NEW t \in Servers
        PROVE  \/ d.srv[t].status = c.srv[t].status
               \/ c.srv[t].status \notin Unstarted /\ d.srv[t].status # "DEREGISTERED"
    BY <1>2, <2>1
  <2> QED BY <2>2, OrderStays
<1>4. Ended(c, d, req, code)
  <2>1. ASSUME NEW t \in Servers PROVE EndedFor(c, d, req, code, t)
    BY <1>2 DEF EndedFor
  <2> QED BY <1>2, <1>3, <2>1 DEF Ended
<1> QED BY <1>2, <1>4 DEF d

LEMMA CallbackEffect ==
  ASSUME NEW c, GoodContext(c), NEW req \in Request, NEW code
  PROVE  Ended(c, Callback(c, req, code), req, code)
<1> DEFINE s == req.srv
           r == c.srv[s]
           d == Callback(c, req, code)
<1>1. s \in Servers /\ c \in Context /\ r \in Server /\ c.srv \in [Servers -> Server]
  BY DEF Request, GoodContext, Context
<1>2. CASE req.kind = "register"
  <2> DEFINE x == [r EXCEPT !.status = "REGISTERED", !.located = TRUE, !.due = FALSE]
             done == [c EXCEPT !.srv[s] = x]
             start == registration_start(done, FALSE)
  <2>1. done = [c EXCEPT !.srv[s].status = "REGISTERED", !.srv[s].located = TRUE,
                         !.srv[s].due = FALSE]
    BY <1>1 DEF Context, Server
  <2>2. /\ x \in Server /\ x.attempt = r.attempt /\ x.sequence = r.sequence
        /\ x.tries = r.tries /\ x.status \in RegStatus \ Pending /\ x.status = "REGISTERED"
    BY <1>1 DEF Server, RegStatus, Pending
  <2>a. SameFlags(r, x)
    BY <1>1 DEF Server, SameFlags
  <2>3. d = prv_handleRegistrationReply(c, s, code)
    BY <1>2 DEF Callback
  <2>4. \/ d = c
        \/ /\ r.status = "REG_PENDING" /\ code # "413"
           /\ d = prv_handleRegistrationAttemptFailure(c, s)
        \/ r.status = "REG_PENDING" /\ code # "413" /\ d \in {done, start}
    BY <2>1, <2>3 DEF prv_handleRegistrationReply
  <2> HIDE DEF x
  <2>5. GoodContext(done)
    BY <1>1, <2>2, ServerSettled
  <2>6. r.status = "REG_PENDING" /\ code # "413" =>
          Ended(c, done, req, code) /\ done.state = c.state /\ done.srv[s] = x
    BY <1>2, <2>2, <2>a, SettledEffect, WaitingStatuses, OutcomesKnown
  <2> HIDE DEF done, d
  <2>7. CASE r.status = "REG_PENDING" /\ code # "413" /\ d = start
    <3>1. /\ start.state = done.state
          /\ \A t \in Servers :
               /\ SameFlags(done.srv[t], start.srv[t])
               /\ \/ start.srv[t].status = done.srv[t].status
                  \/ done.srv[t].status \in Unstarted /\ start.srv[t].status = "REG_HOLD_OFF"
          /\ OrderIn(done) => OrderIn(start)
      BY <2>5, StartEffect
    <3> HIDE DEF start
    <3>2. Ended(c, done, req, code) /\ done.state = c.state /\ done.srv[s] = x
      BY <2>6, <2>7
    <3>3. \A t \in Servers : SameFlags(c.srv[t], start.srv[t])
      BY <3>1, <3>2 DEF Ended, SameFlags
    <3>4. start.srv[s].status = "REGISTERED"
      BY <1>1, <2>2, <3>1, <3>2 DEF Unstarted
    <3>5. ASSUME NEW t \in Servers, t # s
          PROVE  \/ start.srv[t].status = c.srv[t].status
                 \/ c.srv[t].status \in Unstarted
                    /\ start.srv[t].status \in {"REG_HOLD_OFF", "REG_FAILED"}
      <4>1. \/ done.srv[t].status = c.srv[t].status
            \/ c.srv[t].status \in Unstarted
               /\ done.srv[t].status \in {"REG_HOLD_OFF", "REG_FAILED"}
        BY <1>2, <3>2, <3>5 DEF Ended, EndedFor
      <4> QED BY <3>1, <4>1
    <3>6. OrderIn(c) /\ c.srv[s].status # "DEREG_PENDING" => OrderIn(start)
      BY <3>1, <3>2 DEF Ended
    <3>7. "REGISTERED" \in Outcomes(req.kind) /\ WaitsFor(req.kind) = "REG_PENDING"
      BY <1>2, WaitingStatuses, OutcomesKnown
    <3>8. start.state = c.state
      BY <3>1, <3>2
    <3>9. Ended(c, start, req, code)
      <4>1. ASSUME NEW t \in Servers
            PROVE  EndedFor(c, start, req, code, t)
        BY <1>2, <2>7, <3>4, <3>5, <3>7 DEF EndedFor
      <4> QED BY <3>3, <3>6, <3>8, <4>1 DEF Ended
    <3> QED BY <2>7, <3>9 DEF d
  <2>8. CASE /\ r.status = "REG_PENDING" /\ code # "413"
             /\ d = prv_handleRegistrationAttemptFailure(c, s)
    <3>1. Fails(c, d, s)
      BY <1>1, <2>8, AttemptFailureEffect
    <3>2. /\ "REG_HOLD_OFF" \in Outcomes(req.kind) /\ "REG_FAILED" \in Outcomes(req.kind)
          /\ WaitsFor(req.kind) = "REG_PENDING"
      BY <1>2, WaitingStatuses, OutcomesKnown
    <3>3. ASSUME NEW t \in Servers
          PROVE  EndedFor(c, d, req, code, t)
      <4>1. CASE t = s
        BY <1>2, <2>8, <3>1, <3>2, <4>1 DEF Fails, EndedFor
      <4>2. CASE t # s
        BY <2>8, <3>1, <4>2 DEF Fails, EndedFor
      <4> QED BY <4>1, <4>2
    <3> QED BY <3>1, <3>3 DEF Fails, Ended, d
  <2> QED BY <2>4, <2>6, <2>7, <2>8, NothingEnded DEF d
<1>3. CASE req.kind = "update"
  <2> DEFINE st == IF code = "204" THEN "REGISTERED" ELSE "REG_FAILED"
             x == [r EXCEPT !.status = st, !.due = FALSE]
  <2>1. d = prv_handleRegistrationUpdateReply(c, s, code)
    BY <1>3 DEF Callback
  <2>2. [c EXCEPT !.srv[s].status = st, !.srv[s].due = FALSE] = [c EXCEPT !.srv[s] = x]
    <3> HIDE DEF st
    <3> QED BY <1>1 DEF Context, Server
  <2>3. \/ d = c
        \/ r.status = "REG_UPDATE_PENDING" /\ code # "413" /\ d = [c EXCEPT !.srv[s] = x]
    BY <2>1, <2>2 DEF prv_handleRegistrationUpdateReply
  <2>4. /\ x.status = st /\ SameFlags(r, x)
        /\ st \in {"REGISTERED", "REG_FAILED"} /\ (st = "REGISTERED" => code = "204")
    BY <1>1 DEF Server, SameFlags
  <2> HIDE DEF st, x, d
  <2>5. r.status = "REG_UPDATE_PENDING" /\ code # "413" =>
          Ended(c, [c EXCEPT !.srv[s] = x], req, code)
    BY <1>3, <2>4, SettledEffect, WaitingStatuses, OutcomesKnown
  <2>6. Ended(c, d, req, code)
    BY <2>3, <2>5, NothingEnded
  <2> QED BY <2>6 DEF d
<1>4. CASE req.kind = "delete"
  <2> DEFINE x == [r EXCEPT !.status = "DEREGISTERED"]
  <2>1. d = prv_handleDeregistrationReply(c, s)
    BY <1>4 DEF Callback
  <2>2. \/ d = c
        \/ r.status = "DEREG_PENDING" /\ d = [c EXCEPT !.srv[s] = x]
    BY <1>1, <2>1 DEF prv_handleDeregistrationReply, Context, Server
  <2>3. x.status = "DEREGISTERED" /\ SameFlags(r, x)
    BY <1>1 DEF Server, SameFlags
  <2> HIDE DEF x, d
  <2>4. r.status = "DEREG_PENDING" =>
          Ended(c, [c EXCEPT !.srv[s] = x], req, code)
    BY <1>4, <2>3, SettledEffect, WaitingStatuses, OutcomesKnown
  <2>5. Ended(c, d, req, code)
    BY <2>2, <2>4, NothingEnded
  <2> QED BY <2>5 DEF d
<1> QED BY <1>2, <1>3, <1>4 DEF Request

\* lwm2m_update_registration: only servers that are registered need an update then.
LEMMA UpdateEffect ==
  ASSUME NEW c, GoodContext(c), NEW id, NEW withObjects \in BOOLEAN
  PROVE  LET d == lwm2m_update_registration(c, id, withObjects)
         IN  /\ d.state = c.state
             /\ \A s \in Servers :
                  /\ d.srv[s].overlap = c.srv[s].overlap
                  /\ \/ d.srv[s] = c.srv[s]
                     \/ /\ c.srv[s].status \in Registered \cup UpdateNeeded
                        /\ d.srv[s].status \in UpdateNeeded
                  /\ withObjects /\ c.srv[s].status # "REG_UPDATE_NEEDED" =>
                       d.srv[s] = c.srv[s] \/ d.srv[s].status = "REG_FULL_UPDATE_NEEDED"
                  /\ withObjects /\ id = 0 => d.srv[s].status \notin Registered
             /\ OrderIn(c) => OrderIn(d)
<1> DEFINE d == lwm2m_update_registration(c, id, withObjects)
<1>1. c \in Context /\ \A s \in Servers : c.srv[s] \in Server
  BY DEF GoodContext, Good
<1>2. ASSUME NEW s \in Servers
      PROVE  /\ d.srv[s].overlap = c.srv[s].overlap
             /\ \/ d.srv[s] = c.srv[s]
                \/ /\ c.srv[s].status \in Registered \cup UpdateNeeded
                   /\ d.srv[s].status \in UpdateNeeded
             /\ withObjects /\ c.srv[s].status # "REG_UPDATE_NEEDED" =>
                  d.srv[s] = c.srv[s] \/ d.srv[s].status = "REG_FULL_UPDATE_NEEDED"
             /\ withObjects /\ id = 0 => d.srv[s].status \notin Registered
  <2> DEFINE r == c.srv[s]
             st == IF r.status \in Registered \/ (id # 0 /\ withObjects)
                   THEN Needed(withObjects) ELSE r.status
             x == Asked(r, withObjects, st)
  <2>1. d.srv[s] = IF id \notin {0, s} \/ r.status \notin Registered \cup UpdateNeeded
                   THEN r ELSE x
    BY <1>1 DEF lwm2m_update_registration, Context
  <2>2. Needed(withObjects) \in UpdateNeeded
        /\ (withObjects => Needed(withObjects) = "REG_FULL_UPDATE_NEEDED")
    BY DEF Needed, UpdateNeeded
  <2>3. /\ r.status \in Registered \cup UpdateNeeded => st \in UpdateNeeded
        /\ withObjects /\ r.status \in Registered => st = "REG_FULL_UPDATE_NEEDED"
        /\ withObjects /\ r.status = "REG_FULL_UPDATE_NEEDED" => st = "REG_FULL_UPDATE_NEEDED"
    BY <2>2
  <2>4. \A q \in Registered : q \notin UpdateNeeded
    BY DEF Registered, UpdateNeeded
  <2> HIDE DEF st
  <2>5. x.status = st /\ x.overlap = r.overlap
    BY <1>1 DEF Asked, Server
  <2>6. r.status \in UpdateNeeded /\ r.status # "REG_UPDATE_NEEDED"
          => r.status = "REG_FULL_UPDATE_NEEDED"
    BY DEF UpdateNeeded
  <2> HIDE DEF x, d
  <2> QED BY <2>1, <2>3, <2>4, <2>5, <2>6
<1>3. d.state = c.state
  BY <1>1 DEF lwm2m_update_registration, Context
<1> HIDE DEF d
<1>4. OrderIn(c) => OrderIn(d)
  <2>1. ASSUME NEW s \in Servers
        PROVE  \/ d.srv[s].status = c.srv[s].status
               \/ c.srv[s].status \notin Unstarted /\ d.srv[s].status # "DEREGISTERED"
    BY <1>2 DEF Registered, UpdateNeeded, Unstarted
  <2> QED BY <2>1, OrderStays
<1> QED BY <1>2, <1>3, <1>4 DEF d

\* The switch of lwm2m_step: it starts registrations or only changes its state.
LEMMA AdvanceEffect ==
  ASSUME NEW c, GoodContext(c)
  PROVE  LET d == Advance(c)
         IN  /\ \/ d = c
                \/ d.srv = c.srv /\ d.state \in {"BOOTSTRAPPING", "BOOTSTRAP_REQUIRED"}
                \/ d.srv = registration_start(c, TRUE).srv /\ d.state = "REGISTERING"
                \/ /\ d.srv = c.srv /\ c.state = "REGISTERING" /\ d.state = "READY"
                   /\ registration_getStatus(c) = "REGISTERED"
             /\ Returns503(c) => /\ d.srv = c.srv
                                 /\ d.state \in {"BOOTSTRAPPING", "BOOTSTRAP_REQUIRED"}
             /\ \A s \in Servers :
                  /\ SameFlags(c.srv[s], d.srv[s])
                  /\ \/ d.srv[s].status = c.srv[s].status
                     \/ c.srv[s].status \in Unstarted /\ d.srv[s].status = "REG_HOLD_OFF"
             /\ OrderIn(c) => OrderIn(d)
<1> DEFINE start == registration_start(c, TRUE)
           d == Advance(c)
<1>1. /\ GoodContext(start)
      /\ \A s \in Servers :
           /\ SameFlags(c.srv[s], start.srv[s])
           /\ \/ start.srv[s].status = c.srv[s].status
              \/ c.srv[s].status \in Unstarted /\ start.srv[s].status = "REG_HOLD_OFF"
      /\ OrderIn(c) => OrderIn(start)
  BY StartGood, StartEffect
<1> HIDE DEF start
<1>2. c \in Context /\ start \in Context
  BY <1>1 DEF GoodContext
<1>3. \/ d = c
      \/ d.srv = c.srv /\ d.state \in {"BOOTSTRAPPING", "BOOTSTRAP_REQUIRED"}
      \/ d.srv = start.srv /\ d.state = "REGISTERING"
      \/ /\ d.srv = c.srv /\ c.state = "REGISTERING" /\ d.state = "READY"
         /\ registration_getStatus(c) = "REGISTERED"
  <2> DEFINE boot == [c EXCEPT !.state = "BOOTSTRAPPING", !.bs = "ongoing"]
             need == [c EXCEPT !.state = "BOOTSTRAP_REQUIRED"]
             begun == [start EXCEPT !.state = "REGISTERING"]
             ready == [c EXCEPT !.state = "READY"]
  <2>1. \/ d \in {boot, need, begun, c}
        \/ d = ready /\ c.state = "REGISTERING" /\ registration_getStatus(c) = "REGISTERED"
    BY DEF Advance, start
  <2>2. /\ boot.srv = c.srv /\ boot.state = "BOOTSTRAPPING"
        /\ need.srv = c.srv /\ need.state = "BOOTSTRAP_REQUIRED"
        /\ begun.srv = start.srv /\ begun.state = "REGISTERING"
        /\ ready.srv = c.srv /\ ready.state = "READY"
    BY <1>2 DEF Context
  <2> HIDE DEF d, boot, need, begun, ready
  <2> QED BY <2>1, <2>2
<1>4. ASSUME Returns503(c)
      PROVE  d.srv = c.srv /\ d.state \in {"BOOTSTRAPPING", "BOOTSTRAP_REQUIRED"}
  <2>1. CASE NeedsBootstrap(c) /\ ~c.bootstrapServer
    <3>1. d = IF c.bootstrapServer THEN [c EXCEPT !.state = "BOOTSTRAPPING", !.bs = "ongoing"]
              ELSE [c EXCEPT !.state = "BOOTSTRAP_REQUIRED"]
      BY <2>1 DEF Advance, NeedsBootstrap
    <3>2. d = [c EXCEPT !.state = "BOOTSTRAP_REQUIRED"]
      BY <2>1, <3>1
    <3> QED BY <1>2, <3>2 DEF Context
  <2>2. CASE c.state = "BOOTSTRAPPING" /\ c.bs = "failed"
    <3>1. d = c
      BY <2>2 DEF Advance, NeedsBootstrap
    <3> QED BY <2>2, <3>1
  <2> QED BY <1>4, <2>1, <2>2 DEF Returns503
<1> HIDE DEF d
<1>5. d.srv \in {c.srv, start.srv}
  BY <1>3
<1>6. \A s \in Servers :
        /\ SameFlags(c.srv[s], d.srv[s])
        /\ \/ d.srv[s].status = c.srv[s].status
           \/ c.srv[s].status \in Unstarted /\ d.srv[s].status = "REG_HOLD_OFF"
  BY <1>1, <1>5 DEF SameFlags
<1>7. OrderIn(c) => OrderIn(d)
  BY <1>1, <1>5 DEF OrderIn
<1> QED BY <1>3, <1>4, <1>6, <1>7 DEF d, start

\* registration_step on one server: what it is sent decides its flags.
LEMMA StepEffect ==
  ASSUME NEW c, GoodContext(c), NEW refused
  PROVE  LET d == registration_step(c, refused)
         IN  /\ d.state = c.state
             /\ \A s \in Servers :
                  LET r == c.srv[s]
                      x == d.srv[s]
                  IN  \/ /\ ~Registers(r, s, refused) /\ ~Updates(r)
                         /\ x.status = r.status /\ SameFlags(r, x)
                      \/ /\ Registers(r, s, refused) /\ x.status = "REG_PENDING"
                         /\ x.want = r.want /\ x.overlap = (ReqsOf(s) # {})
                      \/ /\ ~Registers(r, s, refused) /\ Updates(r)
                         /\ x.status = "REG_UPDATE_PENDING"
                         /\ x.want = (r.want /\ Carries(r) = 0)
                         /\ x.overlap = (ReqsOf(s) # {} \/ (r.overlap /\ Carries(r) = 0))
             /\ OrderIn(c) => OrderIn(d)
<1> DEFINE d == registration_step(c, refused)
<1>1. c \in Context /\ \A s \in Servers : Good(c.srv[s]) /\ c.srv[s] \in Server
  BY DEF GoodContext, Good
<1>2. d.state = c.state /\ \A s \in Servers : d.srv[s] = StepServer(c.srv[s], s, refused)
  BY <1>1 DEF registration_step, Context
<1> HIDE DEF d
<1>3. ASSUME NEW s \in Servers
      PROVE  LET r == c.srv[s]
                 x == d.srv[s]
             IN  \/ /\ ~Registers(r, s, refused) /\ ~Updates(r)
                    /\ x.status = r.status /\ SameFlags(r, x)
                 \/ /\ Registers(r, s, refused) /\ x.status = "REG_PENDING"
                    /\ x.want = r.want /\ x.overlap = (ReqsOf(s) # {})
                 \/ /\ ~Registers(r, s, refused) /\ Updates(r)
                    /\ x.status = "REG_UPDATE_PENDING"
                    /\ x.want = (r.want /\ Carries(r) = 0)
                    /\ x.overlap = (ReqsOf(s) # {} \/ (r.overlap /\ Carries(r) = 0))
  <2> DEFINE r == c.srv[s]
             x == d.srv[s]
  <2>1. Good(r) /\ r \in Server /\ x = StepServer(r, s, refused)
    BY <1>1, <1>2
  <2> HIDE DEF r, x
  <2>2. CASE Registers(r, s, refused)
    <3> DEFINE y == prv_register(r)
               o == ReqsOf(s) # {}
    <3>1. y \in Server
      BY <2>1, <2>2, RegisterGood DEF Registers, Good
    <3>2. y.status = "REG_PENDING" /\ y.want = r.want
      BY <2>1 DEF prv_register, Server
    <3> HIDE DEF y
    <3>3. x = [y EXCEPT !.overlap = o]
      BY <2>1, <2>2 DEF StepServer, y
    <3> HIDE DEF o
    <3>4. x.status = y.status /\ x.want = y.want /\ x.overlap = o
      BY <3>1, <3>3 DEF Server
    <3> QED BY <2>2, <3>2, <3>4 DEF r, x, o
  <2>3. CASE ~Registers(r, s, refused) /\ Updates(r)
    <3> DEFINE y == prv_updateRegistration(r)
               w == r.want /\ Carries(r) = 0
               o == ReqsOf(s) # {} \/ (y.overlap /\ Carries(r) = 0)
    <3>1. y = [r EXCEPT !.status = "REG_UPDATE_PENDING", !.want = w]
      BY <2>1 DEF prv_updateRegistration, Server
    <3>2. w \in BOOLEAN /\ o \in BOOLEAN
      OBVIOUS
    <3>3. x = [y EXCEPT !.overlap = o]
      BY <2>1, <2>3 DEF StepServer
    <3> HIDE DEF w, y
    <3>4. y \in Server /\ y.status = "REG_UPDATE_PENDING" /\ y.want = w
          /\ y.overlap = r.overlap
      BY <2>1, <3>1, <3>2 DEF Server, RegStatus
    <3>5. o = (ReqsOf(s) # {} \/ (r.overlap /\ Carries(r) = 0))
      BY <3>4
    <3> HIDE DEF o
    <3>6. x.status = "REG_UPDATE_PENDING" /\ x.want = w /\ x.overlap = o
      BY <3>3, <3>4 DEF Server
    <3> QED BY <2>3, <3>5, <3>6 DEF r, x, w
  <2>4. CASE ~Registers(r, s, refused) /\ ~Updates(r)
    <3>1. x \in {r, [r EXCEPT !.open = FALSE]}
      BY <2>1, <2>4 DEF StepServer
    <3>2. x.status = r.status /\ SameFlags(r, x)
      BY <2>1, <3>1 DEF Server, SameFlags
    <3> QED BY <2>4, <3>2 DEF r, x
  <2> QED BY <2>2, <2>3, <2>4
<1>4. OrderIn(c) => OrderIn(d)
  <2>1. ASSUME NEW s \in Servers
        PROVE  \/ d.srv[s].status = c.srv[s].status
               \/ c.srv[s].status \notin Unstarted /\ d.srv[s].status # "DEREGISTERED"
    BY <1>3 DEF Registers, Updates, UpdateNeeded, Unstarted
  <2> QED BY <2>1, OrderStays
<1> QED BY <1>2, <1>3, <1>4 DEF d

----------------------------------------------------------------------------
(***************************************************************************)
(* The order of the registrations, and updates that were asked for.        *)
(***************************************************************************)
\* Nothing is deregistered, and the order is kept.
Orderly(c) == OrderIn(c) /\ \A s \in Servers : c.srv[s].status # "DEREG_PENDING"

\* Every update that is needed or asked for is one with the object list.
Honoured(r) == /\ r.status # "REG_UPDATE_NEEDED"
               /\ r.want => r.status = "REG_FULL_UPDATE_NEEDED"
AllHonoured(c) == \A s \in Servers : Honoured(c.srv[s])

BothKept(c, d) == (Orderly(c) => Orderly(d)) /\ (AllHonoured(c) => AllHonoured(d))

LEMMA SameKept ==
  ASSUME NEW c, NEW d, d.srv = c.srv PROVE BothKept(c, d)
BY DEF BothKept, Orderly, OrderIn, AllHonoured

LEMMA KeptTransitive ==
  ASSUME NEW c, NEW d, NEW e, BothKept(c, d), BothKept(d, e) PROVE BothKept(c, e)
BY DEF BothKept

LEMMA AdvanceKept ==
  ASSUME NEW c, GoodContext(c) PROVE BothKept(c, Advance(c))
<1> DEFINE d == Advance(c)
<1>1. /\ \A s \in Servers :
           /\ SameFlags(c.srv[s], d.srv[s])
           /\ \/ d.srv[s].status = c.srv[s].status
              \/ c.srv[s].status \in Unstarted /\ d.srv[s].status = "REG_HOLD_OFF"
      /\ OrderIn(c) => OrderIn(d)
  BY AdvanceEffect
<1> HIDE DEF d
<1>2. AllHonoured(c) => AllHonoured(d)
  BY <1>1 DEF AllHonoured, Honoured, SameFlags, Unstarted
<1>3. Orderly(c) => Orderly(d)
  BY <1>1 DEF Orderly
<1> QED BY <1>2, <1>3 DEF BothKept, d

LEMMA EndKept ==
  ASSUME NEW c, NEW d, NEW req \in Request, NEW code, Ended(c, d, req, code)
  PROVE  BothKept(c, d)
<1>1. req.kind \in Kinds /\ req.srv \in Servers
  BY DEF Request, Kinds
<1>2. ASSUME NEW t \in Servers
      PROVE  \/ d.srv[t].status = c.srv[t].status
             \/ /\ c.srv[t].status \in Unstarted \cup Waiting
                /\ d.srv[t].status \in {"REGISTERED", "REG_HOLD_OFF"} \cup Unstarted
  <2>1. EndedFor(c, d, req, code, t)
    BY DEF Ended
  <2>2. /\ WaitsFor(req.kind) \in Waiting
        /\ Outcomes(req.kind) \subseteq {"REGISTERED", "REG_HOLD_OFF"} \cup Unstarted
    BY <1>1, OutcomesKnown DEF Waiting, Kinds, Unstarted
  <2> QED BY <2>1, <2>2 DEF EndedFor, Unstarted
<1>3. AllHonoured(c) => AllHonoured(d)
  <2> SUFFICES ASSUME AllHonoured(c), NEW t \in Servers PROVE Honoured(d.srv[t])
    BY DEF AllHonoured
  <2>1. Honoured(c.srv[t]) /\ SameFlags(c.srv[t], d.srv[t])
    BY DEF AllHonoured, Ended
  <2>2. "REG_FULL_UPDATE_NEEDED" \notin Unstarted \cup Waiting
    BY WaitingStatuses DEF Unstarted
  <2> QED BY <1>2, <2>1, <2>2 DEF Honoured, SameFlags, Unstarted
<1>4. Orderly(c) => Orderly(d)
  BY <1>1, <1>2 DEF Orderly, Ended, Unstarted
<1> QED BY <1>3, <1>4 DEF BothKept

LEMMA UpdateKept ==
  ASSUME NEW c, GoodContext(c), NEW id, NEW withObjects \in BOOLEAN
  PROVE  LET d == lwm2m_update_registration(c, id, withObjects)
         IN  /\ Orderly(c) => Orderly(d)
             /\ withObjects => BothKept(c, d)
<1> DEFINE d == lwm2m_update_registration(c, id, withObjects)
<1>1. /\ \A s \in Servers :
           /\ \/ d.srv[s] = c.srv[s]
              \/ /\ c.srv[s].status \in Registered \cup UpdateNeeded
                 /\ d.srv[s].status \in UpdateNeeded
           /\ withObjects /\ c.srv[s].status # "REG_UPDATE_NEEDED" =>
                d.srv[s] = c.srv[s] \/ d.srv[s].status = "REG_FULL_UPDATE_NEEDED"
      /\ OrderIn(c) => OrderIn(d)
  BY UpdateEffect
<1> HIDE DEF d
<1>2. Orderly(c) => Orderly(d)
  BY <1>1 DEF Orderly, UpdateNeeded
<1>3. withObjects /\ AllHonoured(c) => AllHonoured(d)
  BY <1>1 DEF AllHonoured, Honoured
<1> QED BY <1>2, <1>3 DEF BothKept, d

LEMMA StepKept ==
  ASSUME NEW c, GoodContext(c), NEW refused, version \in 1..MaxVersion
  PROVE  BothKept(c, registration_step(c, refused))
<1> DEFINE d == registration_step(c, refused)
<1>1. /\ \A s \in Servers :
           LET r == c.srv[s]
               x == d.srv[s]
           IN  \/ /\ ~Registers(r, s, refused) /\ ~Updates(r)
                  /\ x.status = r.status /\ SameFlags(r, x)
               \/ /\ Registers(r, s, refused) /\ x.status = "REG_PENDING"
                  /\ x.want = r.want /\ x.overlap = (ReqsOf(s) # {})
               \/ /\ ~Registers(r, s, refused) /\ Updates(r)
                  /\ x.status = "REG_UPDATE_PENDING"
                  /\ x.want = (r.want /\ Carries(r) = 0)
                  /\ x.overlap = (ReqsOf(s) # {} \/ (r.overlap /\ Carries(r) = 0))
      /\ OrderIn(c) => OrderIn(d)
  BY StepEffect
<1> HIDE DEF d
<1>2. Orderly(c) => Orderly(d)
  BY <1>1 DEF Orderly
<1>3. ASSUME AllHonoured(c), NEW s \in Servers PROVE Honoured(d.srv[s])
  <2>1. Honoured(c.srv[s])
    BY <1>3 DEF AllHonoured
  <2>2. c.srv[s].status = "REG_FULL_UPDATE_NEEDED" => Carries(c.srv[s]) # 0
    BY RegistrationAssumption DEF Carries
  <2>3. Registers(c.srv[s], s, refused) => c.srv[s].status = "REG_HOLD_OFF"
    BY DEF Registers
  <2>4. CASE d.srv[s].status = c.srv[s].status /\ SameFlags(c.srv[s], d.srv[s])
    BY <2>1, <2>4 DEF Honoured, SameFlags
  <2>5. CASE /\ Registers(c.srv[s], s, refused) /\ d.srv[s].status = "REG_PENDING"
             /\ d.srv[s].want = c.srv[s].want
    BY <2>1, <2>3, <2>5 DEF Honoured
  <2>6. CASE /\ d.srv[s].status = "REG_UPDATE_PENDING"
             /\ d.srv[s].want = (c.srv[s].want /\ Carries(c.srv[s]) = 0)
    <3>1. ~d.srv[s].want
      BY <2>1, <2>2, <2>6 DEF Honoured
    <3> QED BY <2>6, <3>1 DEF Honoured
  <2> QED BY <1>1, <2>4, <2>5, <2>6
<1> QED BY <1>2, <1>3 DEF BothKept, AllHonoured, d

LEMMA InfoKept ==
  ASSUME NEW c, GoodContext(c), update_bootstrap_info(c) PROVE BothKept(c, context')
<1>1. context' \in {c, lwm2m_update_registration(c, 0, TRUE)}
  BY DEF update_bootstrap_info, sendFullObjectList
<1>2. BothKept(c, lwm2m_update_registration(c, 0, TRUE))
  BY UpdateKept
<1> QED BY <1>1, <1>2, SameKept

LEMMA SendDataKept ==
  ASSUME IInv, SendData PROVE BothKept(context, context')
<1>1. PICK expired \in SUBSET DOMAIN reqs : sendData(expired)
  BY DEF SendData
<1> DEFINE c == Advance(context)
<1>2. GoodContext(c) /\ BothKept(context, c)
  BY AdvanceGood, AdvanceKept DEF IInv
<1>3. CASE update_bootstrap_info([c EXCEPT !.state = "INITIAL"])
  <2> DEFINE d == [c EXCEPT !.state = "INITIAL"]
  <2>1. GoodContext(d) /\ d.srv = c.srv
    BY <1>2, StateAssigned DEF ClientStates, GoodContext, Context
  <2> HIDE DEF d
  <2>2. BothKept(d, context')
    BY <1>3, <2>1, InfoKept DEF d
  <2>3. BothKept(c, d)
    BY <2>1, SameKept
  <2> HIDE DEF c
  <2> QED BY <1>2, <2>2, <2>3, KeptTransitive
<1>4. CASE context' = c
  BY <1>2, <1>4
<1>5. ASSUME NEW refused, context' = registration_step(c, refused)
      PROVE  BothKept(context, context')
  <2>1. BothKept(c, context')
    BY <1>2, <1>5, StepKept DEF IInv, TypeOK
  <2> HIDE DEF c
  <2> QED BY <1>2, <2>1, KeptTransitive
<1> QED BY <1>1, <1>3, <1>4, <1>5 DEF sendData

\* Every step but a deregistration and an update that is asked for.
LEMMA OthersKept ==
  ASSUME IInv,
         \/ GiveUp \/ EndOfSendData \/ refreshObjects \/ BootstrapEnds
         \/ \E i \in DOMAIN reqs : readData(i) \/ ServerHandles(i)
         \/ \E s \in Servers : Elapse(s) \/ ServerForgets(s)
         \/ UNCHANGED vars
  PROVE  BothKept(context, context')
<1>1. GoodContext(context) /\ context \in Context /\ \A i \in DOMAIN reqs : reqs[i] \in Request
  BY DEF IInv, TypeOK, GoodContext
<1>2. ASSUME NEW i \in DOMAIN reqs, NEW code, context' = Callback(context, reqs[i], code)
      PROVE  BothKept(context, context')
  BY <1>1, <1>2, CallbackEffect, EndKept
<1>3. CASE GiveUp \/ \E i \in DOMAIN reqs : readData(i)
  BY <1>2, <1>3 DEF GiveUp, readData
<1>4. CASE EndOfSendData
  BY <1>1, <1>4, InfoKept DEF EndOfSendData
<1>5. CASE refreshObjects
  <2>1. context' \in {context, lwm2m_update_registration(context, 0, TRUE)}
    BY <1>5 DEF refreshObjects, sendFullObjectList
  <2>2. BothKept(context, lwm2m_update_registration(context, 0, TRUE))
    BY <1>1, UpdateKept
  <2> QED BY <2>1, <2>2, SameKept
<1>6. CASE BootstrapEnds
  <2>1. context'.srv = context.srv
    BY <1>1, <1>6 DEF BootstrapEnds, Context
  <2> QED BY <2>1, SameKept
<1>7. ASSUME NEW s \in Servers, Elapse(s) PROVE BothKept(context, context')
  <2> DEFINE x == [context.srv[s] EXCEPT !.due = TRUE]
             d == [context EXCEPT !.srv[s] = x]
  <2>1. context.srv[s] \in Server
    BY <1>1 DEF Context
  <2>2. /\ context' = d /\ x.status = context.srv[s].status
        /\ SameFlags(context.srv[s], x)
    BY <1>1, <1>7, <2>1 DEF Elapse, Context, Server, SameFlags
  <2> HIDE DEF x
  <2>3. /\ d.srv[s] = x
        /\ \A t \in Servers \ {s} : d.srv[t] = context.srv[t]
    BY <1>1, <2>2, AssignedEffect
  <2> HIDE DEF d
  <2>4. \A t \in Servers : d.srv[t].status = context.srv[t].status
                           /\ d.srv[t].want = context.srv[t].want
    BY <2>2, <2>3 DEF SameFlags
  <2>5. OrderIn(context) => OrderIn(d)
    BY <2>4, OrderStays
  <2> QED BY <2>2, <2>4, <2>5 DEF BothKept, Orderly, AllHonoured, Honoured
<1>8. CASE \/ \E i \in DOMAIN reqs : ServerHandles(i)
           \/ \E s \in Servers : ServerForgets(s)
           \/ UNCHANGED vars
  <2>1. context'.srv = context.srv
    BY <1>8 DEF ServerHandles, ServerForgets, vars
  <2> QED BY <2>1, SameKept
<1> QED BY <1>3, <1>4, <1>5, <1>6, <1>7, <1>8

LEMMA InitKept == Init => Orderly(context) /\ AllHonoured(context)
<1> SUFFICES ASSUME Init PROVE Orderly(context) /\ AllHonoured(context)
  OBVIOUS
<1>1. \A s \in Servers : /\ context.srv[s].status = "DEREGISTERED"
                         /\ context.srv[s].want = FALSE
  BY DEF Init
<1>2. Ordered \subseteq Servers
  BY RegistrationAssumption
<1> QED BY <1>1, <1>2 DEF Orderly, OrderIn, AllHonoured, Honoured, Unstarted

(* Ordered registration: whatever answers the servers give and in whatever *)
(* order, none is registered with or tried while one that comes before it  *)
(* was never started (registration_start starts the first one only), for   *)
(* every set of ordered servers and every priority, equal ones included,   *)
(* as long as no server is deregistered: deregistering one of them leaves  *)
(* the ones behind it registered.                                          *)
THEOREM OrderHolds ==
  ASSUME Deregisters = FALSE PROVE Spec => []OrderKept
<1>1. Init => Orderly(context)
  BY InitKept
<1>2. IInv /\ Orderly(context) /\ [Next]_vars => Orderly(context)'
  <2> SUFFICES ASSUME IInv, Orderly(context), [Next]_vars PROVE Orderly(context')
    BY DEF Orderly, OrderIn
  <2>1. CASE UpdateRegistration
    <3>1. PICK call \in ApiCalls :
            context' = lwm2m_update_registration(context, call[1], call[2])
      BY <2>1 DEF UpdateRegistration
    <3>2. call[2] \in BOOLEAN
      BY RegistrationAssumption
    <3> QED BY <3>1, <3>2, UpdateKept DEF IInv
  <2>2. \A s \in Servers : ~registration_deregister(s)
    BY DEF registration_deregister
  <2> QED BY <2>1, <2>2, SendDataKept, OthersKept DEF Next, BothKept
<1>3. Orderly(context) => OrderKept
  BY DEF Orderly, OrderIn, OrderKept, Pending, Registered, Unstarted
<1> QED BY <1>1, <1>2, <1>3, Invariance, PTL DEF Spec

\* The two steps that BothKept does not cover, for updates that were asked for.
LEMMA UpdateHonoured ==
  ASSUME IInv, AllHonoured(context), UpdateRegistration, \A call \in ApiCalls : call[2] = TRUE
  PROVE  AllHonoured(context')
<1>1. PICK call \in ApiCalls : context' = lwm2m_update_registration(context, call[1], TRUE)
  BY DEF UpdateRegistration
<1>2. BothKept(context, lwm2m_update_registration(context, call[1], TRUE))
  BY UpdateKept DEF IInv
<1> QED BY <1>1, <1>2 DEF BothKept

LEMMA DeregisterHonoured ==
  ASSUME IInv, AllHonoured(context), NEW s \in Servers, registration_deregister(s)
  PROVE  AllHonoured(context')
<1> DEFINE x == [context.srv[s] EXCEPT !.status = "DEREG_PENDING", !.want = FALSE]
<1>1. context \in Context /\ context.srv[s] \in Server
  BY DEF IInv, GoodContext, Good
<1>2. /\ context' = [context EXCEPT !.srv[s] = x]
      /\ x.status = "DEREG_PENDING" /\ x.want = FALSE
  BY <1>1 DEF registration_deregister, Context, Server
<1> HIDE DEF x
<1>3. \A t \in Servers : context'.srv[t] = IF t = s THEN x ELSE context.srv[t]
  BY <1>1, <1>2 DEF Context
<1> QED BY <1>2, <1>3 DEF AllHonoured, Honoured

(* An update with the object list that was asked for                       *)
(* (lwm2m_update_registration with withObjects) stays asked for until it   *)
(* is sent or the registration ends, whatever else happens to the server   *)
(* meanwhile, for every number of servers and requests, when every update  *)
(* is asked for with the object list, as this client does: a call for all  *)
(* servers leaves an update that is needed without the list as it is.      *)
THEOREM FullUpdates ==
  ASSUME \A call \in ApiCalls : call[2] = TRUE PROVE Spec => []FullUpdateHonoured
<1>1. Init => AllHonoured(context)
  BY InitKept
<1>2. IInv /\ AllHonoured(context) /\ [Next]_vars => AllHonoured(context)'
  <2> SUFFICES ASSUME IInv, AllHonoured(context), [Next]_vars PROVE AllHonoured(context')
    BY DEF AllHonoured, Honoured
  <2> QED
    BY UpdateHonoured, DeregisterHonoured, SendDataKept, OthersKept DEF Next, BothKept
<1>3. AllHonoured(context) => FullUpdateHonoured
  BY DEF AllHonoured, Honoured, FullUpdateHonoured
<1> QED BY <1>1, <1>2, <1>3, Invariance, PTL DEF Spec

----------------------------------------------------------------------------
(***************************************************************************)
(* The object lists the servers have. A registration or an update of       *)
(* server s that is in the list q is held there; as long as no update was  *)
(* sent over an older request there is at most one, and it is the one the  *)
(* status of the server is about.                                          *)
(***************************************************************************)
HeldBy(q, s) == {i \in DOMAIN q : q[i].srv = s /\ q[i].kind # "delete"}
Knows(m, v) == m \in {0, v}

\* m is the version server s has, v the client's; the phase is "told" once the
\* client has told the servers its list since it is ready.
Current(r, q, s, phase, m, v) ==
  ~r.overlap =>
    /\ \A i, j \in HeldBy(q, s) : i = j
    /\ \A i \in HeldBy(q, s) : q[i].kind = "register" => r.status = "REG_PENDING"
    /\ r.status = "REGISTERED" => HeldBy(q, s) = {}
    /\ phase = "told" /\ r.status = "REGISTERED" => Knows(m, v)
    /\ phase = "told" /\ r.status = "REG_UPDATE_PENDING" =>
         \A i \in HeldBy(q, s) : /\ q[i].objs \in {0, v}
                                 /\ q[i].objs = 0 \/ q[i].ans = "204" => Knows(m, v)

\* What list p holds of server s is in list q too, at places outside X.
Like(a, b) == a.kind = b.kind /\ a.objs = b.objs /\ (a.ans = "204" => b.ans = "204")
Within(p, q, s, X) ==
  \E f \in [HeldBy(p, s) -> HeldBy(q, s) \ X] :
    /\ \A k, l \in HeldBy(p, s) : f[k] = f[l] => k = l
    /\ \A k \in HeldBy(p, s) : Like(p[k], q[f[k]])

\* A server stays current: it keeps its status, or gets one in which the client
\* does not take it for registered, or its one request ended and it has the list.
LEMMA CurrentStays ==
  ASSUME NEW r, NEW x, NEW p, NEW q, NEW s, NEW X, NEW t, NEW t2,
         NEW m, NEW m2, NEW v, NEW v2,
         Current(r, q, s, t, m, v), Within(p, q, s, X), x.overlap = r.overlap,
         \/ x.status = r.status /\ (t2 = "told" => t = "told" /\ v2 = v /\ m2 \in {0, m})
         \/ /\ x.status \notin Registered
            /\ x.status = r.status \/ r.status # "REG_PENDING" \/ X \cap HeldBy(q, s) # {}
         \/ /\ x.status = "REGISTERED" /\ X \cap HeldBy(q, s) # {}
            /\ t2 = "told" /\ ~r.overlap => Knows(m2, v2)
  PROVE  Current(x, p, s, t2, m2, v2)
<1>1. SUFFICES ASSUME ~r.overlap PROVE Current(x, p, s, t2, m2, v2)
  BY DEF Current
<1>2. PICK f \in [HeldBy(p, s) -> HeldBy(q, s) \ X] :
        /\ \A k, l \in HeldBy(p, s) : f[k] = f[l] => k = l
        /\ \A k \in HeldBy(p, s) : Like(p[k], q[f[k]])
  BY DEF Within
<1>3. \A k \in HeldBy(p, s) : f[k] \in HeldBy(q, s) /\ f[k] \notin X /\ Like(p[k], q[f[k]])
  BY <1>2
<1>4. /\ \A i, j \in HeldBy(q, s) : i = j
      /\ \A i \in HeldBy(q, s) : q[i].kind = "register" => r.status = "REG_PENDING"
      /\ r.status = "REGISTERED" => HeldBy(q, s) = {}
      /\ t = "told" /\ r.status = "REGISTERED" => Knows(m, v)
      /\ t = "told" /\ r.status = "REG_UPDATE_PENDING" =>
           \A i \in HeldBy(q, s) : /\ q[i].objs \in {0, v}
                                   /\ q[i].objs = 0 \/ q[i].ans = "204" => Knows(m, v)
  BY <1>1 DEF Current
<1>5. \A k, l \in HeldBy(p, s) : k = l
  BY <1>2, <1>3, <1>4
<1>6. HeldBy(q, s) = {} \/ X \cap HeldBy(q, s) # {} => HeldBy(p, s) = {}
  BY <1>3, <1>4
<1>7. \A k \in HeldBy(p, s) : p[k].kind = "register" => r.status = "REG_PENDING"
  BY <1>3, <1>4 DEF Like
<1>8. Knows(m, v) /\ m2 \in {0, m} => Knows(m2, v)
  BY DEF Knows
<1>9. CASE x.status = r.status /\ (t2 = "told" => t = "told" /\ v2 = v /\ m2 \in {0, m})
  <2>1. x.status = "REGISTERED" => HeldBy(p, s) = {}
    BY <1>4, <1>6, <1>9
  <2>2. t2 = "told" /\ x.status = "REGISTERED" => Knows(m2, v2)
    BY <1>4, <1>8, <1>9
  <2>3. ASSUME t2 = "told", x.status = "REG_UPDATE_PENDING", NEW k \in HeldBy(p, s)
        PROVE  /\ p[k].objs \in {0, v2}
               /\ p[k].objs = 0 \/ p[k].ans = "204" => Knows(m2, v2)
    <3>1. /\ q[f[k]].objs \in {0, v}
          /\ q[f[k]].objs = 0 \/ q[f[k]].ans = "204" => Knows(m, v)
      BY <1>3, <1>4, <1>9, <2>3
    <3>2. p[k].objs = q[f[k]].objs /\ (p[k].ans = "204" => q[f[k]].ans = "204")
      BY <1>3 DEF Like
    <3> QED BY <1>8, <1>9, <2>3, <3>1, <3>2
  <2> QED BY <1>5, <1>7, <1>9, <2>1, <2>2, <2>3 DEF Current
<1>10. CASE /\ x.status \notin Registered
            /\ x.status = r.status \/ r.status # "REG_PENDING" \/ X \cap HeldBy(q, s) # {}
  <2>1. \A k \in HeldBy(p, s) : p[k].kind = "register" => x.status = "REG_PENDING"
    BY <1>6, <1>7, <1>10
  <2> QED BY <1>5, <1>10, <2>1 DEF Current, Registered
<1>11. CASE /\ x.status = "REGISTERED" /\ X \cap HeldBy(q, s) # {}
            /\ t2 = "told" /\ ~r.overlap => Knows(m2, v2)
  BY <1>1, <1>6, <1>11 DEF Current
<1> QED BY <1>9, <1>10, <1>11

\* A list with like requests at the same places.
LEMMA WithinAlike ==
  ASSUME NEW p, NEW q, NEW s, \A k \in HeldBy(p, s) : k \in HeldBy(q, s) /\ Like(p[k], q[k])
  PROVE  Within(p, q, s, {})
<1> DEFINE f == [k \in HeldBy(p, s) |-> k]
<1>1. f \in [HeldBy(p, s) -> HeldBy(q, s) \ {}]
  OBVIOUS
<1>2. \A k, l \in HeldBy(p, s) : f[k] = f[l] => k = l
  OBVIOUS
<1>3. \A k \in HeldBy(p, s) : Like(p[k], q[f[k]])
  OBVIOUS
<1> HIDE DEF f
<1> QED BY <1>1, <1>2, <1>3 DEF Within

\* Where the requests that stay were before one was taken off the list.
Before(i, k) == IF k < i THEN k ELSE k + 1

LEMMA RemovedPlaces ==
  ASSUME NEW q \in Seq(Request), NEW i \in DOMAIN q
  PROVE  /\ DOMAIN RemoveAt(q, i) = 1..(Len(q) - 1) /\ RemoveAt(q, i) \in Seq(Request)
         /\ Len(RemoveAt(q, i)) = Len(q) - 1
         /\ \A k \in DOMAIN RemoveAt(q, i) : /\ Before(i, k) \in DOMAIN q \ {i}
                                             /\ RemoveAt(q, i)[k] = q[Before(i, k)]
         /\ \A k, l \in DOMAIN RemoveAt(q, i) : Before(i, k) = Before(i, l) => k = l
<1> DEFINE n == Len(q)
           p == RemoveAt(q, i)
<1>1. n \in Nat /\ i \in 1..n /\ DOMAIN q = 1..n
  OBVIOUS
<1>2. /\ SubSeq(q, 1, i - 1) \in Seq(Request) /\ Len(SubSeq(q, 1, i - 1)) = i - 1
      /\ \A k \in 1..(i - 1) : SubSeq(q, 1, i - 1)[k] = q[k]
  BY <1>1
<1>3. /\ SubSeq(q, i + 1, n) \in Seq(Request) /\ Len(SubSeq(q, i + 1, n)) = n - i
      /\ \A k \in 1..(n - i) : SubSeq(q, i + 1, n)[k] = q[i + k]
  BY <1>1
<1>4. p = SubSeq(q, 1, i - 1) \o SubSeq(q, i + 1, n)
  BY DEF RemoveAt
<1>5. p \in Seq(Request) /\ Len(p) = n - 1 /\ DOMAIN p = 1..(n - 1)
  BY <1>1, <1>2, <1>3, <1>4
<1>6. ASSUME NEW k \in 1..(n - 1) PROVE p[k] = IF k < i THEN q[k] ELSE q[k + 1]
  <2> DEFINE u == SubSeq(q, 1, i - 1)
             w == SubSeq(q, i + 1, n)
  <2>1. u \in Seq(Request) /\ w \in Seq(Request) /\ Len(u) = i - 1 /\ Len(w) = n - i
        /\ p = u \o w
    BY <1>2, <1>3, <1>4
  <2> HIDE DEF u, w, p, n
  <2>2. CASE k < i
    <3>1. k \in 1..(i - 1)
      BY <1>1, <2>2
    <3>2. p[k] = u[k]
      BY <2>1, <3>1
    <3> QED BY <1>2, <2>2, <3>1, <3>2 DEF u
  <2>3. CASE ~(k < i)
    <3>1. k - (i - 1) \in 1..(n - i) /\ i + (k - (i - 1)) = k + 1
      BY <1>1, <2>3
    <3>2. k \in 1..(Len(u) + Len(w)) /\ ~(k <= Len(u))
      BY <1>1, <2>1, <2>3
    <3>3. (u \o w)[k] = w[k - Len(u)]
      <4>1. u \in Seq(Request) /\ w \in Seq(Request)
        BY <2>1
      <4> QED BY <3>2, <4>1
    <3> QED BY <1>3, <2>1, <2>3, <3>1, <3>3 DEF w
  <2> QED BY <2>2, <2>3
<1> HIDE DEF p, n
<1>7. ASSUME NEW k \in DOMAIN p PROVE Before(i, k) \in DOMAIN q \ {i} /\ p[k] = q[Before(i, k)]
  <2>1. p[k] = q[Before(i, k)]
    BY <1>5, <1>6 DEF Before
  <2>2. Before(i, k) \in 1..n /\ Before(i, k) # i
    BY <1>1, <1>5 DEF Before
  <2> QED BY <1>1, <2>1, <2>2
<1>8. \A k, l \in DOMAIN p : Before(i, k) = Before(i, l) => k = l
  BY <1>1, <1>5 DEF Before
<1> QED BY <1>5, <1>7, <1>8 DEF p, n

\* A request is taken off the list.
LEMMA WithinRemoved ==
  ASSUME NEW q \in Seq(Request), NEW i \in DOMAIN q, NEW s
  PROVE  Within(RemoveAt(q, i), q, s, {i})
<1> DEFINE p == RemoveAt(q, i)
           f == [k \in HeldBy(p, s) |-> Before(i, k)]
<1>1. ASSUME NEW k \in HeldBy(p, s)
      PROVE  Before(i, k) \in HeldBy(q, s) \ {i} /\ Like(p[k], q[Before(i, k)])
  <2>1. k \in DOMAIN p /\ p[k].srv = s /\ p[k].kind # "delete"
    BY DEF HeldBy
  <2>2. Before(i, k) \in DOMAIN q \ {i} /\ p[k] = q[Before(i, k)]
    BY <2>1, RemovedPlaces
  <2> QED BY <2>1, <2>2 DEF HeldBy, Like
<1>2. ASSUME NEW k \in HeldBy(p, s), NEW l \in HeldBy(p, s), Before(i, k) = Before(i, l)
      PROVE  k = l
  <2>1. k \in DOMAIN p /\ l \in DOMAIN p
    BY DEF HeldBy
  <2> QED BY <1>2, <2>1, RemovedPlaces
<1> HIDE DEF p
<1>3. f \in [HeldBy(p, s) -> HeldBy(q, s) \ {i}]
  BY <1>1
<1>4. \A k, l \in HeldBy(p, s) : f[k] = f[l] => k = l
  BY <1>2
<1>5. \A k \in HeldBy(p, s) : Like(p[k], q[f[k]])
  BY <1>1
<1> HIDE DEF f
<1> QED BY <1>3, <1>4, <1>5 DEF Within, p

\* A request is replaced by one like it at the end, not answered yet.
LEMMA WithinReplaced ==
  ASSUME NEW q \in Seq(Request), NEW i \in DOMAIN q, NEW s, NEW new \in Request,
         new.srv = q[i].srv, new.kind = q[i].kind, new.objs = q[i].objs, new.ans = "none"
  PROVE  Within(Append(RemoveAt(q, i), new), q, s, {})
<1> DEFINE p == RemoveAt(q, i)
           n == Len(p)
           p2 == Append(p, new)
           b(k) == IF k = n + 1 THEN i ELSE Before(i, k)
           f == [k \in HeldBy(p2, s) |-> b(k)]
<1>1. p \in Seq(Request) /\ n \in Nat /\ DOMAIN p = 1..n
  BY RemovedPlaces
<1>a. /\ \A k \in DOMAIN p : Before(i, k) \in DOMAIN q \ {i} /\ p[k] = q[Before(i, k)]
      /\ \A k, l \in DOMAIN p : Before(i, k) = Before(i, l) => k = l
  BY RemovedPlaces
<1> HIDE DEF p
<1>2. /\ DOMAIN p2 = 1..(n + 1) /\ p2[n + 1] = new
      /\ \A k \in DOMAIN p : p2[k] = p[k]
  BY <1>1
<1> HIDE DEF p2, n
<1>b. \A k \in DOMAIN p2 : k # n + 1 => k \in DOMAIN p
  BY <1>1, <1>2
<1>3. ASSUME NEW k \in HeldBy(p2, s) PROVE b(k) \in HeldBy(q, s) /\ Like(p2[k], q[b(k)])
  <2>1. k \in DOMAIN p2 /\ p2[k].srv = s /\ p2[k].kind # "delete"
    BY DEF HeldBy
  <2>2. CASE k = n + 1
    BY <1>2, <2>1, <2>2 DEF HeldBy, Like
  <2>3. CASE k # n + 1
    <3>1. p2[k] = q[Before(i, k)] /\ Before(i, k) \in DOMAIN q
      BY <1>a, <1>b, <1>2, <2>1, <2>3
    <3> QED BY <2>1, <2>3, <3>1 DEF HeldBy, Like
  <2> QED BY <2>2, <2>3
<1>4. ASSUME NEW k \in HeldBy(p2, s), NEW l \in HeldBy(p2, s), b(k) = b(l) PROVE k = l
  <2>1. k \in DOMAIN p2 /\ l \in DOMAIN p2
    BY DEF HeldBy
  <2> QED BY <1>4, <2>1, <1>a, <1>b
<1> HIDE DEF b
<1>5. f \in [HeldBy(p2, s) -> HeldBy(q, s) \ {}]
  BY <1>3
<1>6. \A k, l \in HeldBy(p2, s) : f[k] = f[l] => k = l
  BY <1>4
<1>7. \A k \in HeldBy(p2, s) : Like(p2[k], q[f[k]])
  BY <1>3
<1> HIDE DEF f
<1> QED BY <1>5, <1>6, <1>7 DEF Within, p2, p

----------------------------------------------------------------------------
(* registration_step sends each server at most one request.                *)

LEMMA SameInterval ==
  ASSUME NEW a \in Nat, NEW b \in Nat, 1..a = 1..b PROVE a = b
<1>1. (a # 0 => a \in 1..b) /\ (b # 0 => b \in 1..a)
  BY a # 0 => a \in 1..a, b # 0 => b \in 1..b
<1> QED BY <1>1

LEMMA ListedOnce ==
  ASSUME NEW T \in SUBSET Servers, NEW q \in InListOrder(T)
  PROVE  /\ Cardinality(T) \in Nat /\ DOMAIN q = 1..Cardinality(T)
         /\ \A i \in DOMAIN q : q[i] \in T
         /\ \A i, j \in DOMAIN q : q[i] = q[j] => i = j
<1> DEFINE n == Cardinality(T)
<1>1. n \in Nat
  BY RegistrationAssumption, FS_Subset, FS_CardinalityType
<1>2. q \in [1..n -> T] /\ \A i, j \in DOMAIN q : i < j => q[i] < q[j]
  BY DEF InListOrder
<1> HIDE DEF n
<1>3. ASSUME NEW i \in 1..n, NEW j \in 1..n, q[i] = q[j] PROVE i = j
  <2>1. q[i] \in Nat /\ q[j] \in Nat
    BY <1>2, RegistrationAssumption
  <2>2. ~(i < j) /\ ~(j < i)
    BY <1>2, <1>3, <2>1
  <2> QED BY <1>1, <2>2
<1> QED BY <1>1, <1>2, <1>3 DEF n

\* A server stays current when registration_step sends it a request or none.
LEMMA StepCurrent ==
  ASSUME NEW c, GoodContext(c), reqs \in Seq(Request), version \in 1..MaxVersion,
         NEW s \in Servers, Honoured(c.srv[s]), NEW t, NEW m, NEW expired,
         Current(c.srv[s], reqs, s, t, m, version), NEW refused,
         NEW q \in InListOrder({u \in Servers : \/ Registers(c.srv[u], u, refused)
                                               \/ Updates(c.srv[u])}),
         NEW p, p = [i \in DOMAIN reqs |-> [reqs[i] EXCEPT !.over = i \in expired]]
                    \o NewRequests(c, refused, q)
  PROVE  Current(registration_step(c, refused).srv[s], p, s, t, m, version)
<1> DEFINE T == {u \in Servers : Registers(c.srv[u], u, refused) \/ Updates(c.srv[u])}
           marked == [i \in DOMAIN reqs |-> [reqs[i] EXCEPT !.over = i \in expired]]
           new == NewRequests(c, refused, q)
           n == Len(reqs)
           l == Cardinality(T)
           r == c.srv[s]
           x == registration_step(c, refused).srv[s]
<1>1. n \in Nat /\ DOMAIN reqs = 1..n
  OBVIOUS
<1>2. /\ l \in Nat /\ DOMAIN q = 1..l
      /\ \A i \in DOMAIN q : q[i] \in T
      /\ \A i, j \in DOMAIN q : q[i] = q[j] => i = j
  BY ListedOnce
<1>3. ASSUME NEW i \in DOMAIN reqs
      PROVE  /\ marked[i] \in Request /\ marked[i].srv = reqs[i].srv
             /\ marked[i].kind = reqs[i].kind /\ marked[i].objs = reqs[i].objs
             /\ marked[i].ans = reqs[i].ans
  <2>1. reqs[i] \in Request /\ (i \in expired) \in BOOLEAN
    OBVIOUS
  <2> QED BY <2>1 DEF Request
<1>4. marked \in Seq(Request) /\ Len(marked) = n
  <2>1. marked \in [1..n -> Request]
    BY <1>1, <1>3
  <2> QED BY <1>1, <2>1
<1>5. new \in Seq(Request) /\ Len(new) = l
  <2>1. new \in Seq(Request)
    BY RequestsAdded
  <2>2. DOMAIN new = DOMAIN q
    BY DEF NewRequests
  <2>3. DOMAIN new = 1..l
    BY <1>2, <2>2
  <2> HIDE DEF new, l
  <2>4. DOMAIN new = 1..Len(new) /\ Len(new) \in Nat
    BY <2>1
  <2>5. Len(new) = l
    BY ONLY <1>2, <2>3, <2>4, SameInterval
  <2> QED BY <2>1, <2>5
<1>6. ASSUME NEW i \in DOMAIN q
      PROVE  /\ new[i].srv = q[i] /\ new[i].ans = "none" /\ new[i].objs = Carries(c.srv[q[i]])
             /\ new[i].kind = IF Registers(c.srv[q[i]], q[i], refused) THEN "register" ELSE "update"
  BY DEF NewRequests
<1>7. p = marked \o new
  OBVIOUS
<1>8. \/ /\ ~Registers(r, s, refused) /\ ~Updates(r)
         /\ x.status = r.status /\ SameFlags(r, x)
      \/ /\ Registers(r, s, refused) /\ x.status = "REG_PENDING"
         /\ x.want = r.want /\ x.overlap = (ReqsOf(s) # {})
      \/ /\ ~Registers(r, s, refused) /\ Updates(r)
         /\ x.status = "REG_UPDATE_PENDING"
         /\ x.want = (r.want /\ Carries(r) = 0)
         /\ x.overlap = (ReqsOf(s) # {} \/ (r.overlap /\ Carries(r) = 0))
  BY StepEffect
<1>9. s \in T <=> (Registers(r, s, refused) \/ Updates(r))
  OBVIOUS
<1> HIDE DEF marked, new, n, l, x, T
<1>10. ASSUME NEW k \in DOMAIN p
       PROVE  \/ k \in DOMAIN reqs /\ p[k] = marked[k]
              \/ \E j \in DOMAIN q : k = n + j /\ p[k] = new[j]
  <2>1. k \in 1..(n + l) /\ k \in Int
    BY <1>1, <1>2, <1>4, <1>5, <1>7
  <2>2. CASE k <= n
    <3>1. k \in 1..n
      BY <1>1, <2>1, <2>2
    <3>2. (marked \o new)[k] = marked[k]
      BY <1>4, <1>5, <3>1
    <3> QED BY <1>1, <1>7, <3>1, <3>2
  <2>3. CASE ~(k <= n)
    <3>1. k - n \in 1..l /\ k = n + (k - n)
      BY <1>1, <1>2, <2>1, <2>3
    <3>2. (marked \o new)[k] = new[k - n]
      <4>1. /\ marked \in Seq(Request) /\ new \in Seq(Request)
            /\ k \in 1..(Len(marked) + Len(new)) /\ ~(k <= Len(marked))
        BY <1>4, <1>5, <2>1, <2>3
      <4>2. (marked \o new)[k] = new[k - Len(marked)]
        BY <4>1
      <4> QED BY <1>4, <4>2
    <3> QED BY <1>2, <1>7, <3>1, <3>2
  <2> QED BY <2>2, <2>3
<1>11. CASE s \notin T
  <2>1. ASSUME NEW k \in HeldBy(p, s)
        PROVE  k \in HeldBy(reqs, s) /\ Like(p[k], reqs[k])
    <3>1. k \in DOMAIN p /\ p[k].srv = s /\ p[k].kind # "delete"
      BY DEF HeldBy
    <3>2. \A j \in DOMAIN q : p[k] # new[j]
      BY ONLY <1>2, <1>6, <1>11, <3>1
    <3>3. k \in DOMAIN reqs /\ p[k] = marked[k]
      BY <1>10, <3>1, <3>2
    <3> QED BY <1>3, <3>1, <3>3 DEF HeldBy, Like
  <2>2. Within(p, reqs, s, {})
    BY <2>1, WithinAlike
  <2>3. x.status = r.status /\ x.overlap = r.overlap
    BY <1>8, <1>9, <1>11 DEF SameFlags
  <2>4. Current(r, reqs, s, t, m, version)
    OBVIOUS
  <2> HIDE DEF r
  <2>5. Current(x, p, s, t, m, version)
    BY ONLY <2>2, <2>3, <2>4, CurrentStays
  <2> QED BY <2>5 DEF x
<1>12. CASE s \in T
  <2> SUFFICES ASSUME ~x.overlap PROVE Current(x, p, s, t, m, version)
    BY DEF Current, x
  <2>1. ReqsOf(s) = {} /\ x.status \in {"REG_PENDING", "REG_UPDATE_PENDING"}
    BY <1>8, <1>9, <1>12
  <2>2. ASSUME NEW k \in HeldBy(p, s)
        PROVE  \E j \in DOMAIN q : k = n + j /\ p[k] = new[j] /\ q[j] = s
    <3>1. k \in DOMAIN p /\ p[k].srv = s
      BY DEF HeldBy
    <3>2. ~(k \in DOMAIN reqs /\ p[k] = marked[k])
      BY <1>3, <2>1, <3>1 DEF ReqsOf
    <3>3. PICK j \in DOMAIN q : k = n + j /\ p[k] = new[j]
      BY <1>10, <3>1, <3>2
    <3> QED BY <1>6, <3>1, <3>3
  <2>3. \A i, j \in HeldBy(p, s) : i = j
    BY ONLY <1>2, <2>2
  <2>4. \A k \in HeldBy(p, s) :
          /\ p[k].kind = IF Registers(r, s, refused) THEN "register" ELSE "update"
          /\ p[k].objs = Carries(r) /\ p[k].ans = "none"
    BY ONLY <1>6, <2>2
  <2>5. \A k \in HeldBy(p, s) : p[k].kind = "register" => x.status = "REG_PENDING"
    BY <1>8, <2>4
  <2>6. Carries(r) \in {0, version}
    BY DEF Carries
  <2>7. ASSUME t = "told", x.status = "REG_UPDATE_PENDING", Carries(r) = 0 PROVE Knows(m, version)
    <3>1. Updates(r) /\ ~r.overlap
      BY <1>8, <1>9, <1>12, <2>7
    <3>2. r.status # "REG_FULL_UPDATE_NEEDED"
      BY <2>7, RegistrationAssumption DEF Carries
    <3>3. r.status = "REGISTERED"
      BY <3>1, <3>2 DEF Updates, UpdateNeeded, Honoured
    <3> QED BY <2>7, <3>1, <3>3 DEF Current
  <2> QED BY <2>1, <2>3, <2>4, <2>5, <2>6, <2>7 DEF Current
<1> QED BY <1>11, <1>12

----------------------------------------------------------------------------
(* The invariant: what the event loop remembers of the client's state, and *)
(* every server current.                                                   *)
Phase(c, before) == IF before = "READY" /\ c.state = "READY" THEN "told" ELSE "untold"

\* A client that is ready registers with no server.
NoneRegistering(c) ==
  c.state = "READY" => \A s \in Servers : c.srv[s].status \notin Pending

\* previousState is the state, except in the step in which the client gets ready.
StateFollowed(c, before, busy) ==
  /\ ~busy /\ c.state \in {"REGISTERING", "READY"} => before = c.state
  /\ busy /\ c.state = "READY" => before \in {"REGISTERING", "READY"}

AllCurrent(c, q, before, known, v) ==
  \A s \in Servers : Current(c.srv[s], q, s, Phase(c, before), known[s], v)

LInv == /\ NoneRegistering(context)
        /\ StateFollowed(context, prev, stepping)
        /\ AllCurrent(context, reqs, prev, remote, version)

\* LInv in the next state.
LNext == /\ NoneRegistering(context')
         /\ StateFollowed(context', prev', stepping')
         /\ AllCurrent(context', reqs', prev', remote', version')

LEMMA WithinItself == ASSUME NEW q, NEW s PROVE Within(q, q, s, {})
<1>1. \A k \in HeldBy(q, s) : k \in HeldBy(q, s) /\ Like(q[k], q[k])
  BY DEF Like
<1> QED BY <1>1, WithinAlike

\* A request ended: it is off the list, or replaced by a smaller one.
LEMMA EndCurrent ==
  ASSUME IInv, LInv, NEW i \in DOMAIN reqs, NEW code,
         context' = Callback(context, reqs[i], code),
         code = "204" => reqs[i].ans = "204",
         UNCHANGED <<prev, version, remote, stepping>>,
         \/ reqs' = RemoveAt(reqs, i)
         \/ /\ code = "413"
            /\ \A s \in Servers : Within(reqs', reqs, s, {})
  PROVE  LNext
<1> DEFINE req == reqs[i]
           u == req.srv
<1>1. reqs \in Seq(Request) /\ req \in Request /\ req.kind \in Kinds /\ u \in Servers
      /\ GoodContext(context)
  <2>1. reqs \in Seq(Request) /\ req \in Request /\ GoodContext(context)
    BY DEF IInv, TypeOK
  <2> HIDE DEF req
  <2> QED BY <2>1 DEF Request, Kinds
<1>2. Ended(context, context', req, code)
  BY <1>1, CallbackEffect
<1>3. context'.state \in {context.state, "BOOTSTRAP_REQUIRED"}
  BY <1>2 DEF Ended
<1>4. StateFollowed(context', prev', stepping')
  BY <1>3 DEF LInv, StateFollowed
<1>5. Phase(context', prev') = "told" => Phase(context, prev) = "told" /\ context.state = "READY"
  BY <1>3 DEF Phase
<1>6. ASSUME NEW s \in Servers
      PROVE  EndedFor(context, context', req, code, s)
             /\ context'.srv[s].overlap = context.srv[s].overlap
  BY <1>2 DEF Ended, SameFlags
<1>7. NoneRegistering(context')
  <2> SUFFICES ASSUME context'.state = "READY", NEW s \in Servers
               PROVE  context'.srv[s].status \notin Pending
    BY DEF NoneRegistering
  <2>1. context.srv[s].status \notin Pending /\ context.srv[u].status \notin Pending
    BY <1>1, <1>3 DEF LInv, NoneRegistering
  <2>2. "REG_PENDING" \in Pending /\ \A k \in {"update", "delete"} : Outcomes(k) \cap Pending = {}
    BY OutcomesKnown DEF Pending
  <2>3. CASE context'.srv[s].status = context.srv[s].status
    BY <2>1, <2>3
  <2>4. CASE context.srv[u].status = WaitsFor(req.kind)
             /\ context'.srv[s].status \in Outcomes(req.kind)
    <3>1. req.kind # "register"
      BY <2>1, <2>2, <2>4, WaitingStatuses
    <3> QED BY <1>1, <2>2, <2>4, <3>1 DEF Kinds
  <2> QED BY <1>6, <2>1, <2>2, <2>3, <2>4 DEF EndedFor
<1>8. ASSUME NEW s \in Servers
      PROVE  Current(context'.srv[s], reqs', s, Phase(context', prev'), remote'[s], version')
  <2> DEFINE r == context.srv[s]
             x == context'.srv[s]
             t == Phase(context, prev)
             t2 == Phase(context', prev')
             X == IF reqs' = RemoveAt(reqs, i) THEN {i} ELSE {}
  <2>1. Current(r, reqs, s, t, remote[s], version)
    BY DEF LInv, AllCurrent
  <2>2. Within(reqs', reqs, s, X)
    BY <1>1, WithinRemoved
  <2>3. x.overlap = r.overlap /\ remote'[s] = remote[s] /\ version' = version
    BY <1>6
  <2>4. s = u /\ req.kind # "delete" => i \in HeldBy(reqs, s)
    BY DEF HeldBy
  <2>5. code # "413" => i \in X
    OBVIOUS
  <2>6. t2 = "told" => t = "told" /\ r.status \notin Pending
    BY <1>5 DEF LInv, NoneRegistering
  <2> HIDE DEF r, x, t, t2, X
  <2>7. CASE x.status = r.status
    BY <2>1, <2>2, <2>3, <2>6, <2>7, CurrentStays DEF x, t2
  <2>8. CASE r.status \in Unstarted /\ x.status \in {"REG_HOLD_OFF", "REG_FAILED"}
    <3>1. x.status \notin Registered /\ r.status # "REG_PENDING"
      BY <2>8 DEF Registered, Unstarted
    <3> QED BY <2>1, <2>2, <2>3, <3>1, CurrentStays DEF x, t2
  <2>9. CASE /\ s = u /\ r.status = WaitsFor(req.kind) /\ x.status \in Outcomes(req.kind)
             /\ req.kind # "delete" => code # "413"
             /\ req.kind = "update" /\ x.status = "REGISTERED" => code = "204"
    <3>1. CASE req.kind = "delete"
      <4>1. x.status \notin Registered /\ r.status # "REG_PENDING"
        BY <2>9, <3>1, WaitingStatuses, OutcomesKnown DEF Registered
      <4> QED BY <2>1, <2>2, <2>3, <4>1, CurrentStays DEF x, t2
    <3>2. CASE req.kind # "delete"
      <4>1. i \in X \cap HeldBy(reqs, s)
        BY <2>4, <2>5, <2>9, <3>2
      <4>2. x.status = "REGISTERED" \/ x.status \notin Registered
        BY <1>1, <2>9, <3>2, OutcomesKnown DEF Kinds, Registered
      <4>3. ASSUME x.status = "REGISTERED", t2 = "told", ~r.overlap
            PROVE  Knows(remote[s], version)
        <5>1. r.status # "REG_PENDING" /\ t = "told"
          BY <2>6, <4>3 DEF Pending
        <5>2. req.kind = "update" /\ r.status = "REG_UPDATE_PENDING"
          BY <1>1, <2>9, <3>2, <5>1, WaitingStatuses DEF Kinds
        <5>3. reqs[i].ans = "204"
          BY <2>9, <4>3, <5>2
        <5> QED BY <2>1, <4>1, <4>3, <5>1, <5>2, <5>3 DEF Current
      <4>4. CASE x.status \notin Registered
        BY <2>1, <2>2, <2>3, <4>1, <4>4, CurrentStays DEF x, t2
      <4>5. CASE x.status = "REGISTERED"
        BY <2>1, <2>2, <2>3, <4>1, <4>3, <4>5, CurrentStays DEF x, t2
      <4> QED BY <4>2, <4>4, <4>5
    <3> QED BY <3>1, <3>2
  <2> QED BY <1>6, <2>7, <2>8, <2>9 DEF EndedFor, r, x
<1> QED BY <1>4, <1>7, <1>8 DEF LNext, AllCurrent

LEMMA GiveUpCurrent ==
  ASSUME IInv, LInv, GiveUp PROVE LNext
<1>1. PICK i \in DOMAIN reqs : /\ context' = Callback(context, reqs[i], "timeout")
                               /\ reqs' = RemoveAt(reqs, i)
  BY DEF GiveUp
<1>2. UNCHANGED <<prev, version, remote, stepping>>
  BY DEF GiveUp
<1> QED BY <1>1, <1>2, EndCurrent

LEMMA ReadDataCurrent ==
  ASSUME IInv, LInv, NEW i \in DOMAIN reqs, readData(i) PROVE LNext
<1> DEFINE req == reqs[i]
<1>1. reqs \in Seq(Request) /\ req \in Request
  BY DEF IInv, TypeOK
<1>2. context' = Callback(context, req, req.ans) /\ UNCHANGED <<prev, version, remote, stepping>>
  BY DEF readData
<1>3. CASE reqs' = RemoveAt(reqs, i)
  BY <1>2, <1>3, EndCurrent
<1>4. ASSUME req.ans = "413", NEW asked \in 0..MaxBlock,
             reqs' = Append(RemoveAt(reqs, i), [req EXCEPT !.blk = Smaller(req.blk, asked),
                                                           !.ans = "none"])
      PROVE  LNext
  <2> DEFINE b == Smaller(req.blk, asked)
             new == [req EXCEPT !.blk = b, !.ans = "none"]
  <2>1. b \in 0..MaxBlock
    BY <1>1, RegistrationAssumption DEF Smaller, Request
  <2> HIDE DEF b
  <2>2. /\ new \in Request /\ new.srv = req.srv /\ new.kind = req.kind /\ new.objs = req.objs
        /\ new.ans = "none"
    BY <1>1, <2>1 DEF Request
  <2>3. reqs' = Append(RemoveAt(reqs, i), new)
    BY <1>4 DEF b
  <2> HIDE DEF new
  <2>4. \A s \in Servers : Within(reqs', reqs, s, {})
    BY <1>1, <2>2, <2>3, WithinReplaced
  <2> QED BY <1>2, <1>4, <2>4, EndCurrent
<1> QED BY <1>3, <1>4 DEF readData

\* A step that leaves the list alone, and the loop's state, and takes no server
\* for registered that was not before.
LEMMA QuietCurrent ==
  ASSUME LInv, UNCHANGED <<reqs, prev, version, remote, stepping>>,
         context'.state = context.state,
         \A s \in Servers :
           /\ context'.srv[s].overlap = context.srv[s].overlap
           /\ \/ context'.srv[s].status = context.srv[s].status
              \/ /\ context'.srv[s].status \notin Registered \cup Pending
                 /\ context.srv[s].status # "REG_PENDING"
  PROVE  LNext
<1>1. NoneRegistering(context') /\ StateFollowed(context', prev', stepping')
  BY DEF LInv, NoneRegistering, StateFollowed
<1>2. Phase(context', prev') = Phase(context, prev)
  BY DEF Phase
<1>3. ASSUME NEW s \in Servers
      PROVE  Current(context'.srv[s], reqs', s, Phase(context', prev'), remote'[s], version')
  <2> DEFINE r == context.srv[s]
             x == context'.srv[s]
             t == Phase(context, prev)
  <2>1. /\ Current(r, reqs, s, t, remote[s], version) /\ Within(reqs, reqs, s, {})
        /\ x.overlap = r.overlap
        /\ \/ x.status = r.status
           \/ x.status \notin Registered /\ r.status # "REG_PENDING"
    BY WithinItself DEF LInv, AllCurrent
  <2>2. UNCHANGED <<reqs, remote, version>>
    OBVIOUS
  <2> HIDE DEF r, x, t
  <2>3. Current(x, reqs, s, t, remote[s], version)
    BY ONLY <2>1, CurrentStays
  <2> QED BY <1>2, <2>2, <2>3 DEF x, t
<1> QED BY <1>1, <1>3 DEF LNext, AllCurrent

LEMMA SendDataCurrent ==
  ASSUME IInv, LInv, AllHonoured(context), SendData PROVE LNext
<1>1. PICK expired \in SUBSET DOMAIN reqs : sendData(expired)
  BY DEF SendData
<1> DEFINE c == Advance(context)
<1>2. /\ GoodContext(c) /\ AllHonoured(c)
  BY AdvanceGood, AdvanceKept DEF IInv, BothKept
<1>3. UNCHANGED <<version, remote>> /\ ~stepping
  BY <1>1 DEF sendData
<1>4. /\ reqs \in Seq(Request) /\ version \in 1..MaxVersion /\ c \in Context
      /\ GoodContext(context)
  BY <1>2 DEF IInv, TypeOK, GoodContext
<1>5. /\ \/ c = context
         \/ c.srv = context.srv /\ c.state \in {"BOOTSTRAPPING", "BOOTSTRAP_REQUIRED"}
         \/ c.srv = registration_start(context, TRUE).srv /\ c.state = "REGISTERING"
         \/ /\ c.srv = context.srv /\ context.state = "REGISTERING" /\ c.state = "READY"
            /\ registration_getStatus(context) = "REGISTERED"
      /\ Returns503(context) => /\ c.srv = context.srv
                                /\ c.state \in {"BOOTSTRAPPING", "BOOTSTRAP_REQUIRED"}
      /\ \A s \in Servers :
           /\ SameFlags(context.srv[s], c.srv[s])
           /\ \/ c.srv[s].status = context.srv[s].status
              \/ /\ context.srv[s].status \in Unstarted
                 /\ c.srv[s].status = "REG_HOLD_OFF"
  BY <1>4, AdvanceEffect
<1> HIDE DEF c
<1>6. c.state = "READY" => \/ c = context /\ prev = "READY"
                           \/ context.state = "REGISTERING" /\ prev = "REGISTERING"
  BY <1>3, <1>5 DEF LInv, StateFollowed
<1>7. NoneRegistering(c)
  <2> SUFFICES ASSUME c.state = "READY" PROVE \A s \in Servers : c.srv[s].status \notin Pending
    BY DEF NoneRegistering
  <2>1. CASE c = context
    BY <2>1 DEF LInv, NoneRegistering
  <2>2. CASE c.srv = context.srv /\ registration_getStatus(context) = "REGISTERED"
    BY <2>2 DEF registration_getStatus
  <2> QED BY <1>5, <2>1, <2>2
<1>8. ASSUME NEW s \in Servers, NEW t2, t2 = "told" => Phase(c, prev) = "told"
      PROVE  Current(c.srv[s], reqs, s, t2, remote[s], version)
  <2> DEFINE r == context.srv[s]
             x == c.srv[s]
             t == Phase(context, prev)
  <2>1. /\ Current(r, reqs, s, t, remote[s], version) /\ Within(reqs, reqs, s, {})
        /\ x.overlap = r.overlap
    BY <1>5, WithinItself DEF LInv, AllCurrent, SameFlags
  <2>2. t2 = "told" => t = "told"
    BY <1>6, <1>8 DEF Phase
  <2>3. \/ x.status = r.status
        \/ x.status \notin Registered /\ r.status # "REG_PENDING"
    BY <1>5 DEF Unstarted, Registered
  <2> HIDE DEF r, x, t
  <2>4. Current(x, reqs, s, t2, remote[s], version)
    BY ONLY <2>1, <2>2, <2>3, CurrentStays
  <2> QED BY <2>4 DEF x
<1>9. ASSUME Returns503(context), context'.srv = c.srv, UNCHANGED <<reqs, stepping>>,
             context'.state \in {"INITIAL", "BOOTSTRAPPING", "BOOTSTRAP_REQUIRED"}
      PROVE  LNext
  <2>1. Phase(context', prev') = "untold"
    BY <1>9 DEF Phase
  <2>2. NoneRegistering(context') /\ StateFollowed(context', prev', stepping')
    BY <1>3, <1>9 DEF NoneRegistering, StateFollowed
  <2>3. \A s \in Servers : Current(c.srv[s], reqs, s, "untold", remote[s], version)
    BY <1>8
  <2> QED BY <1>3, <1>9, <2>1, <2>2, <2>3 DEF LNext, AllCurrent
<1>10. CASE /\ Returns503(context) /\ prev = "BOOTSTRAPPING"
            /\ update_bootstrap_info([c EXCEPT !.state = "INITIAL"])
            /\ UNCHANGED <<reqs, stepping>>
  <2>1. /\ [c EXCEPT !.state = "INITIAL"].srv = c.srv
        /\ [c EXCEPT !.state = "INITIAL"].state = "INITIAL"
    BY <1>4 DEF Context
  <2>2. context' = [c EXCEPT !.state = "INITIAL"]
    BY <1>10 DEF update_bootstrap_info
  <2> QED BY <1>9, <1>10, <2>1, <2>2
<1>11. CASE /\ Returns503(context) /\ context' = c
            /\ UNCHANGED <<reqs, prev, stepping>>
  BY <1>5, <1>9, <1>11
<1>12. ASSUME stepping' = TRUE, UNCHANGED prev, NEW refused,
              NEW q \in InListOrder({s \in Servers : \/ Registers(c.srv[s], s, refused)
                                                    \/ Updates(c.srv[s])}),
              reqs' = [i \in DOMAIN reqs |-> [reqs[i] EXCEPT !.over = i \in expired]]
                      \o NewRequests(c, refused, q),
              context' = registration_step(c, refused)
       PROVE  LNext
  <2>1. /\ context'.state = c.state
        /\ \A s \in Servers :
             \/ context'.srv[s].status = c.srv[s].status
             \/ context'.srv[s].status = "REG_UPDATE_PENDING"
             \/ c.srv[s].status = "REG_HOLD_OFF"
    BY <1>2, <1>12, StepEffect DEF Registers
  <2>2. NoneRegistering(context')
    BY <1>7, <2>1 DEF NoneRegistering, Pending
  <2>3. StateFollowed(context', prev', stepping')
    BY <1>6, <1>12, <2>1 DEF StateFollowed
  <2>4. Phase(context', prev') = Phase(c, prev)
    BY <1>12, <2>1 DEF Phase
  <2>5. ASSUME NEW s \in Servers
        PROVE  Current(context'.srv[s], reqs', s, Phase(c, prev), remote[s], version)
    <3>1. Current(c.srv[s], reqs, s, Phase(c, prev), remote[s], version)
      BY <1>8
    <3>2. Honoured(c.srv[s])
      BY <1>2 DEF AllHonoured
    <3> QED BY <1>2, <1>4, <1>12, <3>1, <3>2, StepCurrent
  <2> QED BY <1>3, <2>2, <2>3, <2>4, <2>5 DEF LNext, AllCurrent
<1> QED BY <1>1, <1>10, <1>11, <1>12 DEF sendData, c

\* After an update for all servers with the object list none is taken for current.
LEMMA AllAskedCurrent ==
  ASSUME IInv, LInv, AllHonoured(context), UNCHANGED reqs,
         context' = lwm2m_update_registration(context, 0, TRUE)
  PROVE  /\ NoneRegistering(context') /\ context'.state = context.state
         /\ AllCurrent(context', reqs', prev', remote', version')
<1>1. /\ context'.state = context.state
      /\ \A s \in Servers :
           /\ context'.srv[s].overlap = context.srv[s].overlap
           /\ \/ context'.srv[s] = context.srv[s]
              \/ /\ context.srv[s].status \in Registered \cup UpdateNeeded
                 /\ context'.srv[s].status \in UpdateNeeded
           /\ context'.srv[s].status \notin Registered
  BY UpdateEffect DEF IInv
<1>2. NoneRegistering(context')
  BY <1>1 DEF LInv, NoneRegistering, Pending, UpdateNeeded
<1>3. ASSUME NEW s \in Servers
      PROVE  Current(context'.srv[s], reqs, s, Phase(context', prev'), remote'[s], version')
  <2> DEFINE r == context.srv[s]
             x == context'.srv[s]
             t == Phase(context, prev)
             t2 == Phase(context', prev')
  <2>1. /\ Current(r, reqs, s, t, remote[s], version) /\ Within(reqs, reqs, s, {})
        /\ x.overlap = r.overlap /\ x.status \notin Registered
        /\ x.status = r.status \/ r.status # "REG_PENDING"
    BY <1>1, WithinItself DEF LInv, AllCurrent, Registered, UpdateNeeded
  <2> HIDE DEF r, x, t, t2
  <2>2. Current(x, reqs, s, t2, remote'[s], version')
    BY ONLY <2>1, CurrentStays
  <2> QED BY <2>2 DEF x, t2
<1> QED BY <1>1, <1>2, <1>3 DEF AllCurrent

LEMMA EndOfSendDataCurrent ==
  ASSUME IInv, LInv, AllHonoured(context), EndOfSendData PROVE LNext
<1>1. /\ prev' = context.state /\ stepping' = FALSE /\ stepping
      /\ UNCHANGED <<reqs, version, remote>>
  BY DEF EndOfSendData, update_bootstrap_info
<1>2. CASE prev = "REGISTERING" /\ context.state = "READY"
  <2>1. context' = lwm2m_update_registration(context, 0, TRUE)
    BY <1>2 DEF EndOfSendData, update_bootstrap_info, sendFullObjectList
  <2>2. /\ NoneRegistering(context') /\ context'.state = context.state
        /\ AllCurrent(context', reqs', prev', remote', version')
    BY <1>1, <2>1, AllAskedCurrent
  <2> QED BY <1>1, <2>2 DEF LNext, StateFollowed
<1>3. CASE ~(prev = "REGISTERING" /\ context.state = "READY")
  <2>1. context' = context
    BY <1>3 DEF EndOfSendData, update_bootstrap_info
  <2>2. Phase(context', prev') = Phase(context, prev)
    BY <1>1, <1>3, <2>1 DEF LInv, StateFollowed, Phase
  <2> QED BY <1>1, <2>1, <2>2 DEF LInv, LNext, NoneRegistering, StateFollowed, AllCurrent
<1> QED BY <1>2, <1>3

LEMMA RefreshCurrent ==
  ASSUME IInv, LInv, AllHonoured(context), refreshObjects PROVE LNext
<1>1. UNCHANGED <<reqs, prev, remote, stepping>>
  BY DEF refreshObjects
<1>2. CASE context.state = "READY"
  <2>1. context' = lwm2m_update_registration(context, 0, TRUE)
    BY <1>2 DEF refreshObjects, sendFullObjectList
  <2>2. /\ NoneRegistering(context') /\ context'.state = context.state
        /\ AllCurrent(context', reqs', prev', remote', version')
    BY <1>1, <2>1, AllAskedCurrent
  <2> QED BY <1>1, <2>2 DEF LInv, LNext, StateFollowed
<1>3. CASE context.state # "READY"
  <2>1. context' = context
    BY <1>3 DEF refreshObjects, sendFullObjectList
  <2>2. Phase(context', prev') = "untold"
    BY <1>3, <2>1 DEF Phase
  <2>3. ASSUME NEW s \in Servers
        PROVE  Current(context.srv[s], reqs, s, "untold", remote[s], version')
    <3> DEFINE r == context.srv[s]
               t == Phase(context, prev)
    <3>1. Current(r, reqs, s, t, remote[s], version) /\ Within(reqs, reqs, s, {})
      BY WithinItself DEF LInv, AllCurrent
    <3> HIDE DEF r, t
    <3>2. Current(r, reqs, s, "untold", remote[s], version')
      BY ONLY <3>1, CurrentStays
    <3> QED BY <3>2 DEF r
  <2> QED BY <1>1, <2>1, <2>2, <2>3 DEF LInv, LNext, NoneRegistering, StateFollowed, AllCurrent
<1> QED BY <1>2, <1>3

LEMMA ServerHandlesCurrent ==
  ASSUME IInv, LInv, NEW i \in DOMAIN reqs, ServerHandles(i) PROVE LNext
<1> DEFINE req == reqs[i]
           u == req.srv
<1>1. reqs \in Seq(Request) /\ req \in Request /\ remote \in [Servers -> 0..MaxVersion]
  BY DEF IInv, TypeOK
<1>2. u \in Servers /\ req.kind \in Kinds /\ req.objs \in 0..MaxVersion
  <2> HIDE DEF req
  <2> QED BY <1>1 DEF Request, Kinds
<1>3. UNCHANGED <<context, prev, version, stepping>> /\ req.ans = "none"
  BY DEF ServerHandles
<1>4. PICK ans, v :
        /\ reqs' = [reqs EXCEPT ![i].ans = ans] /\ remote' = [remote EXCEPT ![u] = v]
        /\ \/ ans \in {"err", "413"} /\ v = remote[u]
           \/ ans = "201" /\ req.kind = "register"
           \/ /\ ans = "204" /\ req.kind = "update"
              /\ v = IF req.objs > 0 THEN req.objs ELSE remote[u]
           \/ ans = "202" /\ req.kind = "delete" /\ v = 0
  BY DEF ServerHandles
<1>5. /\ DOMAIN reqs' = DOMAIN reqs
      /\ \A k \in DOMAIN reqs :
           /\ reqs'[k].srv = reqs[k].srv /\ reqs'[k].kind = reqs[k].kind
           /\ reqs'[k].objs = reqs[k].objs
           /\ reqs'[k].ans = IF k = i THEN ans ELSE reqs[k].ans
  <2>1. \A k \in DOMAIN reqs : reqs[k] \in Request
    BY <1>1
  <2> QED BY <1>4, <2>1 DEF Request
<1>6. \A s \in Servers : remote'[s] = IF s = u THEN v ELSE remote[s]
  BY <1>1, <1>4
<1>7. \A s : HeldBy(reqs', s) = HeldBy(reqs, s)
  BY <1>5 DEF HeldBy
<1>8. ASSUME NEW s \in Servers, ans # "204" \/ s # u PROVE Within(reqs', reqs, s, {})
  <2>1. ASSUME NEW k \in HeldBy(reqs', s)
        PROVE  k \in HeldBy(reqs, s) /\ Like(reqs'[k], reqs[k])
    <3>1. k \in HeldBy(reqs, s) /\ k \in DOMAIN reqs /\ reqs[k].srv = s
      BY <1>7, <2>1 DEF HeldBy
    <3>2. reqs'[k].ans = "204" => reqs[k].ans = "204"
      BY <1>5, <1>8, <3>1
    <3> QED BY <1>5, <3>1, <3>2 DEF Like
  <2> QED BY <2>1, WithinAlike
<1> DEFINE t == Phase(context, prev)
<1>9. ASSUME NEW s \in Servers PROVE Current(context.srv[s], reqs', s, t, remote'[s], version)
  <2> DEFINE r == context.srv[s]
  <2>1. Current(r, reqs, s, t, remote[s], version)
    BY DEF LInv, AllCurrent
  <2> HIDE DEF t
  <2>2. ASSUME Within(reqs', reqs, s, {}), remote'[s] \in {0, remote[s]}
        PROVE  Current(r, reqs', s, t, remote'[s], version)
    <3> HIDE DEF r
    <3> QED BY ONLY <2>1, <2>2, CurrentStays
  <2>3. CASE s # u \/ ans \in {"err", "413", "202"}
    <3>1. Within(reqs', reqs, s, {})
      BY <1>8, <2>3
    <3>2. remote'[s] \in {0, remote[s]}
      BY <1>4, <1>6, <2>3
    <3> QED BY <2>2, <3>1, <3>2
  <2>4. CASE s = u /\ ans = "201" /\ req.kind = "register"
    <3> SUFFICES ASSUME ~r.overlap PROVE Current(r, reqs', s, t, remote'[s], version)
      BY DEF Current
    <3>1. i \in HeldBy(reqs, s)
      BY <2>4 DEF HeldBy
    <3>2. r.status = "REG_PENDING"
      BY <2>1, <2>4, <3>1 DEF Current
    <3>3. Within(reqs', reqs, s, {}) /\ r.status \notin Registered
      BY <1>8, <2>4, <3>2 DEF Registered
    <3> HIDE DEF r
    <3> QED BY ONLY <2>1, <3>3, CurrentStays
  <2>5. CASE /\ s = u /\ ans = "204" /\ req.kind = "update"
             /\ v = IF req.objs > 0 THEN req.objs ELSE remote[u]
    <3> SUFFICES ASSUME ~r.overlap PROVE Current(r, reqs', s, t, remote'[s], version)
      BY DEF Current
    <3>1. i \in HeldBy(reqs, s) /\ i \in HeldBy(reqs', s)
      BY <1>7, <2>5 DEF HeldBy
    <3>2. /\ \A j \in HeldBy(reqs', s) : j = i
          /\ r.status # "REGISTERED"
      BY <1>7, <2>1, <3>1 DEF Current
    <3>3. reqs'[i].kind = "update" /\ reqs'[i].objs = req.objs /\ remote'[s] = v
      BY <1>5, <1>6, <2>5
    <3>4. ASSUME t = "told", r.status = "REG_UPDATE_PENDING"
          PROVE  req.objs \in {0, version} /\ Knows(v, version)
      <4>1. /\ req.objs \in {0, version}
            /\ req.objs = 0 => Knows(remote[s], version)
        BY <2>1, <3>1, <3>4 DEF Current
      <4>2. CASE req.objs > 0
        BY <1>2, <2>5, <4>1, <4>2 DEF Knows
      <4>3. CASE ~(req.objs > 0)
        <5>1. req.objs = 0 /\ v = remote[s]
          BY <1>2, <2>5, <4>3, RegistrationAssumption
        <5> QED BY <4>1, <5>1
      <4> QED BY <4>2, <4>3
    <3> HIDE DEF r, req
    <3> QED BY <3>2, <3>3, <3>4 DEF Current
  <2> QED BY <1>4, <2>3, <2>4, <2>5
<1> HIDE DEF t
<1>10. Phase(context', prev') = t
  BY <1>3 DEF t
<1> QED BY <1>3, <1>9, <1>10 DEF LInv, LNext, NoneRegistering, StateFollowed, AllCurrent

LEMMA DeregisterCurrent ==
  ASSUME IInv, LInv, NEW u \in Servers, registration_deregister(u) PROVE LNext
<1> DEFINE y == [context.srv[u] EXCEPT !.status = "DEREG_PENDING", !.want = FALSE]
           new == [srv |-> u, kind |-> "delete", objs |-> 0, blk |-> MaxBlock,
                   ans |-> "none", over |-> FALSE]
<1>1. context \in Context /\ context.srv[u] \in Server /\ reqs \in Seq(Request)
  BY DEF IInv, TypeOK, GoodContext, Good
<1>2. /\ context' = [context EXCEPT !.srv[u] = y]
      /\ y.status = "DEREG_PENDING" /\ y.overlap = context.srv[u].overlap
      /\ context.srv[u].status # "REG_PENDING"
  BY <1>1 DEF registration_deregister, Context, Server
<1> HIDE DEF y
<1>3. /\ context'.state = context.state
      /\ \A s \in Servers : context'.srv[s] = IF s = u THEN y ELSE context.srv[s]
  BY <1>1, <1>2 DEF Context
<1>4. reqs' = Append(reqs, new) /\ new.kind = "delete"
  BY DEF registration_deregister
<1> HIDE DEF new
<1>5. /\ Len(reqs) \in Nat /\ DOMAIN reqs = 1..Len(reqs) /\ DOMAIN reqs' = 1..(Len(reqs) + 1)
      /\ reqs'[Len(reqs) + 1] = new /\ \A k \in DOMAIN reqs : reqs'[k] = reqs[k]
  BY <1>1, <1>4
<1>6. ASSUME NEW s PROVE Within(reqs', reqs, s, {})
  <2>1. ASSUME NEW k \in HeldBy(reqs', s)
        PROVE  k \in HeldBy(reqs, s) /\ Like(reqs'[k], reqs[k])
    <3>1. k \in DOMAIN reqs' /\ reqs'[k].srv = s /\ reqs'[k].kind # "delete"
      BY DEF HeldBy
    <3>2. k # Len(reqs) + 1
      BY <1>4, <1>5, <3>1
    <3>3. k \in DOMAIN reqs
      BY <1>5, <3>1, <3>2
    <3> QED BY <1>5, <3>1, <3>3 DEF HeldBy, Like
  <2> QED BY <2>1, WithinAlike
<1>7. UNCHANGED <<prev, version, remote, stepping>>
  BY DEF registration_deregister
<1>8. NoneRegistering(context') /\ StateFollowed(context', prev', stepping')
  BY <1>2, <1>3, <1>7 DEF LInv, NoneRegistering, StateFollowed, Pending
<1>9. Phase(context', prev') = Phase(context, prev)
  BY <1>3, <1>7 DEF Phase
<1>10. ASSUME NEW s \in Servers
       PROVE  Current(context'.srv[s], reqs', s, Phase(context, prev), remote[s], version)
  <2> DEFINE r == context.srv[s]
             x == context'.srv[s]
             t == Phase(context, prev)
  <2>1. /\ Current(r, reqs, s, t, remote[s], version) /\ Within(reqs', reqs, s, {})
        /\ x.overlap = r.overlap
        /\ \/ x.status = r.status
           \/ x.status \notin Registered /\ r.status # "REG_PENDING"
    BY <1>2, <1>3, <1>6 DEF LInv, AllCurrent, Registered
  <2> HIDE DEF r, x, t
  <2>2. Current(x, reqs', s, t, remote[s], version)
    BY ONLY <2>1, CurrentStays
  <2> QED BY <2>2 DEF x, t
<1> QED BY <1>7, <1>8, <1>9, <1>10 DEF LNext, AllCurrent

LEMMA ServerForgetsCurrent ==
  ASSUME IInv, LInv, NEW u \in Servers, ServerForgets(u) PROVE LNext
<1>1. /\ UNCHANGED <<context, reqs, prev, version, stepping>>
      /\ \A s \in Servers : remote'[s] \in {0, remote[s]}
  BY DEF ServerForgets, IInv, TypeOK
<1>2. ASSUME NEW s \in Servers
      PROVE  Current(context.srv[s], reqs, s, Phase(context, prev), remote'[s], version)
  <2> DEFINE r == context.srv[s]
             t == Phase(context, prev)
  <2>1. /\ Current(r, reqs, s, t, remote[s], version) /\ Within(reqs, reqs, s, {})
        /\ remote'[s] \in {0, remote[s]}
    BY <1>1, WithinItself DEF LInv, AllCurrent
  <2> HIDE DEF r, t
  <2>2. Current(r, reqs, s, t, remote'[s], version)
    BY ONLY <2>1, CurrentStays
  <2> QED BY <2>2 DEF r, t
<1> QED BY <1>1, <1>2 DEF LInv, LNext, NoneRegistering, StateFollowed, AllCurrent

LEMMA OthersCurrent ==
  ASSUME IInv, LInv, AllHonoured(context),
         \/ UpdateRegistration /\ \A call \in ApiCalls : call[2] = TRUE
         \/ BootstrapEnds
         \/ \E s \in Servers : Elapse(s)
         \/ UNCHANGED vars
  PROVE  LNext
<1>1. GoodContext(context) /\ context \in Context
  BY DEF IInv, GoodContext
<1>2. CASE UpdateRegistration /\ \A call \in ApiCalls : call[2] = TRUE
  <2>1. PICK call \in ApiCalls : context' = lwm2m_update_registration(context, call[1], TRUE)
    BY <1>2 DEF UpdateRegistration
  <2>2. /\ context'.state = context.state
        /\ \A s \in Servers :
             /\ context'.srv[s].overlap = context.srv[s].overlap
             /\ context.srv[s].status # "REG_UPDATE_NEEDED" =>
                  \/ context'.srv[s] = context.srv[s]
                  \/ context'.srv[s].status = "REG_FULL_UPDATE_NEEDED"
             /\ \/ context'.srv[s] = context.srv[s]
                \/ context.srv[s].status \in Registered \cup UpdateNeeded
    BY <1>1, <2>1, UpdateEffect
  <2>3. UNCHANGED <<reqs, prev, version, remote, stepping>>
    BY <1>2 DEF UpdateRegistration
  <2>4. ASSUME NEW s \in Servers
        PROVE  \/ context'.srv[s].status = context.srv[s].status
               \/ /\ context'.srv[s].status \notin Registered \cup Pending
                  /\ context.srv[s].status # "REG_PENDING"
    BY <2>2 DEF AllHonoured, Honoured, Registered, Pending, UpdateNeeded
  <2> QED BY <2>2, <2>3, <2>4, QuietCurrent
<1>3. CASE BootstrapEnds
  <2>1. context'.srv = context.srv /\ context'.state = context.state
    BY <1>1, <1>3 DEF BootstrapEnds, Context
  <2>2. UNCHANGED <<reqs, prev, version, remote, stepping>>
    BY <1>3 DEF BootstrapEnds
  <2> QED BY <2>1, <2>2, QuietCurrent
<1>4. ASSUME NEW s \in Servers, Elapse(s) PROVE LNext
  <2> DEFINE x == [context.srv[s] EXCEPT !.due = TRUE]
             d == [context EXCEPT !.srv[s] = x]
  <2>1. context.srv[s] \in Server
    BY <1>1 DEF Context
  <2>2. /\ context' = d /\ x.status = context.srv[s].status
        /\ SameFlags(context.srv[s], x)
    BY <1>1, <1>4, <2>1 DEF Elapse, Context, Server, SameFlags
  <2> HIDE DEF x
  <2>3. /\ d.state = context.state /\ d.srv[s] = x
        /\ \A t \in Servers \ {s} : d.srv[t] = context.srv[t]
    <3>1. d.state = context.state /\ d.srv = [context.srv EXCEPT ![s] = x]
      BY ONLY <1>1 DEF Context, d
    <3>2. context.srv \in [Servers -> Server]
      BY <1>1 DEF Context
    <3> QED BY ONLY <3>1, <3>2, s \in Servers
  <2> HIDE DEF d
  <2>4. \A t \in Servers : d.srv[t].status = context.srv[t].status
                           /\ d.srv[t].overlap = context.srv[t].overlap
    BY <2>2, <2>3 DEF SameFlags
  <2>5. UNCHANGED <<reqs, prev, version, remote, stepping>>
    BY <1>4 DEF Elapse
  <2> QED BY <2>2, <2>3, <2>4, <2>5, QuietCurrent
<1>5. CASE UNCHANGED vars
  BY <1>5, QuietCurrent DEF vars
<1> QED BY <1>2, <1>3, <1>4, <1>5

(* What the client believes of its servers is so: when it is ready, a      *)
(* server that it takes for registered and that still knows the client has *)
(* the client's current object list, although the list may change during a *)
(* registration, an update or a bootstrap, requests may be refused, given  *)
(* up or split into blocks, and servers may be deregistered: for every     *)
(* number of servers, requests and versions, when every update is asked    *)
(* for with the object list. Updates sent over an older request are left   *)
(* out, as the property says.                                              *)
THEOREM ServersCurrent ==
  ASSUME \A call \in ApiCalls : call[2] = TRUE PROVE Spec => []ListCurrent
<1> DEFINE J == LInv /\ AllHonoured(context)
<1>1. Init => J
  <2> SUFFICES ASSUME Init PROVE J
    OBVIOUS
  <2>1. AllHonoured(context)
    BY InitKept
  <2>2. /\ context.state = "INITIAL" /\ prev = "INITIAL" /\ reqs = << >>
        /\ \A s \in Servers : context.srv[s].status = "DEREGISTERED"
    BY DEF Init
  <2>3. \A s \in Servers : HeldBy(reqs, s) = {}
    <3>1. DOMAIN reqs = {}
      BY <2>2
    <3> QED BY <3>1 DEF HeldBy
  <2>4. AllCurrent(context, reqs, prev, remote, version)
    BY <2>2, <2>3 DEF AllCurrent, Current
  <2> QED BY <2>1, <2>2, <2>4 DEF LInv, NoneRegistering, StateFollowed
<1>2. IInv /\ J /\ [Next]_vars => J'
  <2> SUFFICES ASSUME IInv, J, [Next]_vars PROVE J'
    OBVIOUS
  <2>1. AllHonoured(context)'
    <3>1. CASE \E s \in Servers : registration_deregister(s)
      BY <3>1, DeregisterHonoured
    <3>2. CASE UpdateRegistration
      BY <3>2, UpdateHonoured
    <3>3. CASE ~UpdateRegistration /\ ~\E s \in Servers : registration_deregister(s)
      BY <3>3, SendDataKept, OthersKept DEF Next, BothKept, AllHonoured, Honoured
    <3> QED BY <3>1, <3>2, <3>3
  <2>2. LNext
    BY SendDataCurrent, GiveUpCurrent, EndOfSendDataCurrent, ReadDataCurrent,
       ServerHandlesCurrent, RefreshCurrent, DeregisterCurrent, ServerForgetsCurrent,
       OthersCurrent DEF Next
  <2> QED BY <2>1, <2>2 DEF LInv, LNext, NoneRegistering, StateFollowed, AllCurrent, Phase
<1>3. J => ListCurrent
  <2> SUFFICES ASSUME J, NEW s \in Servers, context.state = "READY", ~stepping,
                      context.srv[s].status = "REGISTERED", ~context.srv[s].overlap,
                      remote[s] # 0
               PROVE  remote[s] = version
    BY DEF ListCurrent
  <2>1. Phase(context, prev) = "told"
    BY DEF LInv, StateFollowed, Phase
  <2> QED BY <2>1 DEF LInv, AllCurrent, Current, Knows
<1> HIDE DEF J
<1> QED BY <1>1, <1>2, <1>3, Invariance, PTL DEF Spec
====

---------------------------- MODULE Registration ----------------------------
(***************************************************************************)
(* The registration interface of the client: the per-server registration   *)
(* state machine (core/registration.c), the client state machine that      *)
(* drives it (lwm2m_step in core/liblwm2m.c) and the event loop's sendData *)
(* (lwm2mclient.c), against LwM2M servers that may refuse, forget a        *)
(* registration or stay silent, over a network that may lose.              *)
(*                                                                         *)
(* A request is one CoAP transaction, or the chain of block transactions   *)
(* that takes its place; it stays in reqs, in the order of the message     *)
(* ids, until it is answered or given up (module CoapTransaction shows     *)
(* that each of the two happens once). Timers are flags: due says that the *)
(* time stored in lwm2m_server_t.registration has come. The resources of   *)
(* the Server Object that steer registration are constants. sendData takes *)
(* several steps (one per request it gives up), in which the client does   *)
(* nothing else: it has one thread.                                        *)
(***************************************************************************)
EXTENDS Integers, Sequences, SequencesExt, FiniteSets

CONSTANTS
  Servers,       \* the servers' ids, numbers in the order of serverList
  Ordered,       \* servers with a Registration Priority Order (13)
  Priority,      \* that order, per server
  Blocking,      \* servers with Registration Failure Block (15) set
  BootstrapOn,   \* servers with Bootstrap on Registration Failure (16), the default
  Delayed,       \* servers with an Initial Registration Delay (14)
  AttemptLimit,  \* Communication Retry Count (17), 5 by default
  SequenceLimit, \* Communication Sequence Retry Count (20), 1 by default
  ApiCalls,      \* the arguments <<id, withObjects>> of lwm2m_update_registration
  Deregisters,   \* the application may deregister a server
  MaxBlock,      \* bound: block sizes below the first one used (0: none)
  TooLarge,      \* the servers may answer 4.13
  MaxVersion,    \* bound: versions of the client's object list
  MaxRequests    \* bound: requests outstanding at one server

ASSUME RegistrationAssumption ==
  /\ Servers \subseteq Nat \ {0} /\ Servers # {} /\ IsFiniteSet(Servers)
  /\ Ordered \subseteq Servers /\ Blocking \subseteq Servers
  /\ BootstrapOn \subseteq Servers /\ Delayed \subseteq Servers
  /\ Priority \in [Servers -> Nat]
  /\ AttemptLimit \in 0..254 /\ SequenceLimit \in 0..254
  /\ Deregisters \in BOOLEAN /\ TooLarge \in BOOLEAN
  /\ ApiCalls \subseteq (Servers \cup {0}) \X BOOLEAN
  /\ MaxBlock \in Nat /\ MaxVersion \in Nat \ {0} /\ MaxRequests \in Nat

VARIABLES
  context,  \* lwm2m_context_t: state, the servers, the bootstrap's progress
  reqs,     \* the listed requests to servers, oldest first
  prev,     \* previousState of lwm2mclient.c
  version,  \* version of the client's object list, from 1
  remote,   \* per server: the version it has of the list, 0 if not registered
  unreachable, \* history: the servers the last turn could not connect to
  stepping  \* sendData is inside lwm2m_step's transaction_step

vars == <<context, reqs, prev, version, remote, unreachable, stepping>>

ClientStates == {"INITIAL", "BOOTSTRAP_REQUIRED", "BOOTSTRAPPING",
                 "REGISTER_REQUIRED", "REGISTERING", "READY"}
RegStatus == {"DEREGISTERED", "REG_HOLD_OFF", "REG_PENDING", "REGISTERED", "REG_FAILED",
              "REG_UPDATE_PENDING", "REG_UPDATE_NEEDED", "REG_FULL_UPDATE_NEEDED",
              "DEREG_PENDING"}

\* lwm2m_server_t: open is sessionH # NULL, located is location # NULL. History:
\* tries (registrations sent since registration_start), want (an update with the
\* object list was asked for and not sent), overlap (an update was sent while an
\* older request was outstanding), waiting (its turn to register has not come).
Server == [status : RegStatus, attempt : Nat, sequence : Nat, due : BOOLEAN,
           open : BOOLEAN, located : BOOLEAN,
           tries : Nat, want : BOOLEAN, overlap : BOOLEAN, waiting : BOOLEAN]

\* bootstrapServer is bootstrapServerList # NULL.
Context == [state : ClientStates, bs : {"ongoing", "finished", "failed"},
            bootstrapServer : BOOLEAN, srv : [Servers -> Server]]

\* objs is the version of the object list in the payload (0: none), blk the
\* number of smaller block sizes left, ans the server's answer if it has one,
\* over that its last retransmission went unanswered and it is to be given up.
Request == [srv : Servers, kind : {"register", "update", "delete"}, objs : 0..MaxVersion,
            blk : 0..MaxBlock, ans : {"none", "201", "202", "204", "413", "err"},
            over : BOOLEAN]

ReqsOf(s) == {i \in DOMAIN reqs : reqs[i].srv = s}
Registered == {"REGISTERED", "REG_UPDATE_PENDING"}
UpdateNeeded == {"REG_UPDATE_NEEDED", "REG_FULL_UPDATE_NEEDED"}

Init ==
  /\ \E b \in BOOLEAN :
       context = [state |-> "INITIAL", bs |-> "ongoing", bootstrapServer |-> b,
                  srv |-> [s \in Servers |->
                            [status |-> "DEREGISTERED", attempt |-> 0, sequence |-> 0,
                             due |-> FALSE, open |-> FALSE, located |-> FALSE, tries |-> 0,
                             want |-> FALSE, overlap |-> FALSE, waiting |-> FALSE]]]
  /\ reqs = <<>> /\ prev = "INITIAL" /\ version = 1
  /\ remote = [s \in Servers |-> 0] /\ unreachable = {} /\ stepping = FALSE
----------------------------------------------------------------------------
(***************************************************************************)
(* registration_start: every server that is not registered (or failed, on  *)
(* a restart) starts over. Servers without an order start at once, of the  *)
(* ordered ones only the first; the first in the list if two are equal.    *)
(***************************************************************************)
First_last(S) == {s \in S : \A t \in S : Priority[s] >= Priority[t]}  \* faulty variant
First(S) ==
  {s \in S : \A t \in S : \/ Priority[s] < Priority[t]
                          \/ Priority[s] = Priority[t] /\ s <= t}

\* prv_startRegistration: hold off for the initial delay, if there is one.
prv_startRegistration(r, s) ==
  [r EXCEPT !.status = "REG_HOLD_OFF", !.due = s \notin Delayed, !.waiting = FALSE]

registration_start(c, restartFailed) ==
  LET startable == {s \in Servers : \/ c.srv[s].status = "DEREGISTERED"
                                    \/ (restartFailed /\ c.srv[s].status = "REG_FAILED")}
      starts    == (startable \ Ordered) \cup First(startable \cap Ordered)
      reset(r)  == [r EXCEPT !.attempt = 0, !.sequence = 0, !.tries = 0, !.waiting = TRUE]
  IN  [c EXCEPT !.srv =
        [s \in Servers |-> IF s \in starts THEN prv_startRegistration(reset(@[s]), s)
                           ELSE IF s \in startable THEN reset(@[s])
                           ELSE @[s]]]

(***************************************************************************)
(* The attempts of a sequence failed: the next ordered server gets its     *)
(* turn, unless this one blocks it. After the last sequence the server has *)
(* failed: the client bootstraps, or a blocking server takes the ordered   *)
(* servers that were not started with it.                                  *)
(***************************************************************************)
prv_handleRegistrationSequenceFailure(c, s) ==
  LET next == IF s \in Ordered \ Blocking /\ c.srv[s].sequence = 1
              THEN registration_start(c, FALSE) ELSE c
      failed == [next EXCEPT !.srv[s].status = "REG_FAILED"]
  IN  IF next.srv[s].sequence < SequenceLimit
      THEN [next EXCEPT !.srv[s].status = "REG_HOLD_OFF", !.srv[s].due = FALSE,
                        !.srv[s].attempt = 0]
      ELSE IF s \in BootstrapOn
      THEN [failed EXCEPT !.state = "BOOTSTRAP_REQUIRED"]
      ELSE IF s \in Ordered \cap Blocking
      THEN [failed EXCEPT !.srv =
             [t \in Servers |-> IF t \in Ordered /\ @[t].status = "DEREGISTERED"
                                THEN [@[t] EXCEPT !.status = "REG_FAILED", !.waiting = FALSE]
                                ELSE @[t]]]
      ELSE failed

\* Faulty variant: one attempt too many.
prv_handleRegistrationAttemptFailure_late(c, s) ==
  IF c.srv[s].attempt > AttemptLimit
  THEN prv_handleRegistrationSequenceFailure(c, s)
  ELSE [c EXCEPT !.srv[s].status = "REG_HOLD_OFF", !.srv[s].due = FALSE]

\* Another attempt after a pause, or the end of the sequence.
prv_handleRegistrationAttemptFailure(c, s) ==
  IF c.srv[s].attempt >= AttemptLimit
  THEN prv_handleRegistrationSequenceFailure(c, s)
  ELSE [c EXCEPT !.srv[s].status = "REG_HOLD_OFF", !.srv[s].due = FALSE]

\* Faulty variant: a registration that was given up leaves the status alone.
prv_handleRegistrationReply_silent(c, s, code) ==
  IF c.srv[s].status # "REG_PENDING" \/ code \in {"413", "timeout"} THEN c
  ELSE IF code # "201" THEN prv_handleRegistrationAttemptFailure(c, s)
  ELSE [c EXCEPT !.srv[s].status = "REGISTERED", !.srv[s].located = TRUE, !.srv[s].due = FALSE]

\* The callbacks of the three requests. They look at the server's status, not at
\* which request it was that ended; code is "timeout" when it was given up. A 4.13
\* leaves the status alone: the request is to be sent again in smaller blocks (a
\* 4.13 to a later block than the first is a refusal like any other, "err").
prv_handleRegistrationReply(c, s, code) ==
  LET done == [c EXCEPT !.srv[s].status = "REGISTERED", !.srv[s].located = TRUE,
                        !.srv[s].due = FALSE]
  IN  IF c.srv[s].status # "REG_PENDING" \/ code = "413" THEN c
      ELSE IF code # "201" THEN prv_handleRegistrationAttemptFailure(c, s)
      ELSE IF s \in Ordered /\ (c.srv[s].sequence = 1 \/ s \notin Blocking)
      THEN registration_start(done, FALSE)
      ELSE done

\* Faulty variant: an update that was given up leaves the status alone.
prv_handleRegistrationUpdateReply_silent(c, s, code) ==
  IF c.srv[s].status # "REG_UPDATE_PENDING" \/ code \in {"413", "timeout"} THEN c
  ELSE [c EXCEPT !.srv[s].status = IF code = "204" THEN "REGISTERED" ELSE "REG_FAILED",
                 !.srv[s].due = FALSE]

prv_handleRegistrationUpdateReply(c, s, code) ==
  IF c.srv[s].status # "REG_UPDATE_PENDING" \/ code = "413" THEN c
  ELSE [c EXCEPT !.srv[s].status = IF code = "204" THEN "REGISTERED" ELSE "REG_FAILED",
                 !.srv[s].due = FALSE]

prv_handleDeregistrationReply(c, s) ==
  IF c.srv[s].status # "DEREG_PENDING" THEN c
  ELSE [c EXCEPT !.srv[s].status = "DEREGISTERED"]

Callback(c, req, code) ==
  CASE req.kind = "register" -> prv_handleRegistrationReply(c, req.srv, code)
    [] req.kind = "update"   -> prv_handleRegistrationUpdateReply(c, req.srv, code)
    [] req.kind = "delete"   -> prv_handleDeregistrationReply(c, req.srv)
----------------------------------------------------------------------------
(***************************************************************************)
(* lwm2m_update_registration. A call for one server turns a needed update  *)
(* into a full one; a call for all (id 0) leaves servers whose update is   *)
(* already needed as they are.                                             *)
(***************************************************************************)
Needed(withObjects) == IF withObjects THEN "REG_FULL_UPDATE_NEEDED" ELSE "REG_UPDATE_NEEDED"

Asked(r, withObjects, status) == [r EXCEPT !.want = @ \/ withObjects, !.status = status]

\* Faulty variant: the call for all servers skips a server whose update is pending.
lwm2m_update_registration_idle(c, id, withObjects) ==
  [c EXCEPT !.srv = [s \in Servers |->
    IF id \notin {0, s} \/ @[s].status \notin Registered \cup UpdateNeeded THEN @[s]
    ELSE Asked(@[s], withObjects,
               IF @[s].status = "REGISTERED" THEN Needed(withObjects) ELSE @[s].status)]]

lwm2m_update_registration(c, id, withObjects) ==
  [c EXCEPT !.srv = [s \in Servers |->
    IF id \notin {0, s} \/ @[s].status \notin Registered \cup UpdateNeeded THEN @[s]
    ELSE Asked(@[s], withObjects,
               IF @[s].status \in Registered \/ (id # 0 /\ withObjects)
               THEN Needed(withObjects) ELSE @[s].status)]]

\* Removing and adding an object tells the servers when the client is ready.
sendFullObjectList(c) ==
  IF c.state = "READY" THEN lwm2m_update_registration(c, 0, TRUE) ELSE c
----------------------------------------------------------------------------
(***************************************************************************)
(* lwm2m_step: the client state machine, then registration_step, then      *)
(* transaction_step.                                                       *)
(***************************************************************************)
Pending == {"REG_HOLD_OFF", "REG_PENDING"}

registration_getStatus(c) ==
  IF \E s \in Servers : c.srv[s].status \in Pending THEN "REG_PENDING"
  ELSE IF \E s \in Servers : c.srv[s].status \in Registered \cup UpdateNeeded \cup {"DEREG_PENDING"}
  THEN "REGISTERED"
  ELSE "REG_FAILED"

NeedsBootstrap(c) ==
  \/ c.state = "BOOTSTRAP_REQUIRED"
  \/ c.state \in {"REGISTERING", "READY"} /\ registration_getStatus(c) = "REG_FAILED"

\* lwm2m_step gives up early: no bootstrap server, or the bootstrap failed.
Returns503(c) == \/ NeedsBootstrap(c) /\ ~c.bootstrapServer
                 \/ c.state = "BOOTSTRAPPING" /\ c.bs = "failed"

\* The switch over contextP->state, the goto next_step included.
Advance(c) ==
  CASE NeedsBootstrap(c) ->
         IF c.bootstrapServer THEN [c EXCEPT !.state = "BOOTSTRAPPING", !.bs = "ongoing"]
         ELSE [c EXCEPT !.state = "BOOTSTRAP_REQUIRED"]
    [] \/ c.state \in {"INITIAL", "REGISTER_REQUIRED"}
       \/ c.state = "BOOTSTRAPPING" /\ c.bs = "finished" ->
         [registration_start(c, TRUE) EXCEPT !.state = "REGISTERING"]
    [] c.state = "REGISTERING" /\ registration_getStatus(c) = "REGISTERED" ->
         [c EXCEPT !.state = "READY"]
    [] OTHER -> c

\* What registration_step sends a server. A registration needs a session; in
\* refused are the servers to which none could be opened.
Registers(r, s, refused) == r.status = "REG_HOLD_OFF" /\ r.due /\ s \notin refused
Updates(r) == (r.status = "REGISTERED" /\ r.due) \/ r.status \in UpdateNeeded

Carries(r) == IF r.status \in {"REG_HOLD_OFF", "REG_FULL_UPDATE_NEEDED"} THEN version ELSE 0

prv_register(r) ==
  [r EXCEPT !.status = "REG_PENDING", !.open = TRUE, !.attempt = @ + 1, !.tries = @ + 1,
            !.sequence = IF r.attempt = 0 THEN @ + 1 ELSE @]

prv_updateRegistration(r) ==
  [r EXCEPT !.status = "REG_UPDATE_PENDING", !.want = @ /\ Carries(r) = 0]

StepServer(r, s, refused) ==
  IF Registers(r, s, refused) THEN [prv_register(r) EXCEPT !.overlap = ReqsOf(s) # {}]
  ELSE IF Updates(r)
  THEN [prv_updateRegistration(r) EXCEPT !.overlap = ReqsOf(s) # {} \/ (@ /\ Carries(r) = 0)]
  ELSE IF r.status = "REG_FAILED" THEN [r EXCEPT !.open = FALSE]
  ELSE r

registration_step(c, refused) ==
  [c EXCEPT !.srv = [s \in Servers |-> StepServer(@[s], s, refused)]]

\* The requests registration_step appends to the list, to the servers in q.
NewRequests(c, refused, q) ==
  [i \in DOMAIN q |->
    [srv |-> q[i],
     kind |-> IF Registers(c.srv[q[i]], q[i], refused) THEN "register" ELSE "update",
     objs |-> Carries(c.srv[q[i]]), blk |-> MaxBlock, ans |-> "none", over |-> FALSE]]

\* The servers of S in the order of the list.
InListOrder(S) == {q \in [1..Cardinality(S) -> S] : \A i, j \in DOMAIN q : i < j => q[i] < q[j]}

\* The sessions registration_step would have to open.
Connecting(c) == {s \in Servers : /\ c.srv[s].status = "REG_HOLD_OFF" /\ c.srv[s].due
                                  /\ ~c.srv[s].open}

\* Faulty variant: the state before the turn is not kept.
update_bootstrap_info_forgets(c) ==
  /\ prev' = "INITIAL"
  /\ context' = IF prev = "REGISTERING" /\ c.state = "READY"
                THEN sendFullObjectList(c) ELSE c

\* Faulty variant: the object list is not sent after registering.
update_bootstrap_info_silent(c) == prev' = c.state /\ context' = c

\* update_bootstrap_info: tell the servers the object list once registered.
update_bootstrap_info(c) ==
  /\ prev' = c.state
  /\ context' = IF prev = "REGISTERING" /\ c.state = "READY"
                THEN sendFullObjectList(c) ELSE c

(***************************************************************************)
(* sendData, one turn of the event loop: lwm2m_step runs the client state  *)
(* machine and registration_step, then transaction_step gives up the       *)
(* requests in expired. When lwm2m_step fails the client restores its      *)
(* objects and starts over if it was bootstrapping, and does nothing more  *)
(* otherwise.                                                              *)
(***************************************************************************)
sendData(expired) ==
  LET c == Advance(context)
  IN  /\ ~stepping
      /\ \/ /\ Returns503(context) /\ prev = "BOOTSTRAPPING" /\ expired = {}
            /\ update_bootstrap_info([c EXCEPT !.state = "INITIAL"])
            /\ unreachable' = {}
            /\ UNCHANGED <<reqs, stepping>>
         \/ /\ Returns503(context) /\ prev # "BOOTSTRAPPING" /\ expired = {}
            /\ context' = c /\ unreachable' = {}
            /\ UNCHANGED <<reqs, prev, stepping>>
         \/ /\ ~Returns503(context) /\ stepping' = TRUE
            /\ \E refused \in SUBSET Connecting(c) :
                 /\ unreachable' = refused
                 /\ \E q \in InListOrder({s \in Servers : \/ Registers(c.srv[s], s, refused)
                                                        \/ Updates(c.srv[s])}) :
                      reqs' = [i \in DOMAIN reqs |-> [reqs[i] EXCEPT !.over = i \in expired]]
                              \o NewRequests(c, refused, q)
                 /\ context' = registration_step(c, refused)
            /\ UNCHANGED prev
      /\ UNCHANGED <<version, remote>>

SendData == \E expired \in SUBSET DOMAIN reqs : sendData(expired)

\* transaction_step gives up a request, in the order of the list.
GiveUp ==
  /\ stepping
  /\ \E i \in DOMAIN reqs :
       /\ reqs[i].over /\ \A j \in 1..(i - 1) : ~reqs[j].over
       /\ context' = Callback(context, reqs[i], "timeout")
       /\ reqs' = RemoveAt(reqs, i)
  /\ UNCHANGED <<prev, version, remote, unreachable, stepping>>

\* The rest of sendData after lwm2m_step.
EndOfSendData ==
  /\ stepping /\ \A i \in DOMAIN reqs : ~reqs[i].over
  /\ stepping' = FALSE
  /\ update_bootstrap_info(context)
  /\ UNCHANGED <<reqs, version, remote, unreachable>>
----------------------------------------------------------------------------
(***************************************************************************)
(* readData: the answer to request i is delivered (lwm2m_handle_packet).   *)
(* On 4.13 the request is replaced by one with the block size the server   *)
(* asks for, or half of it when it is the current size; when that is not   *)
(* smaller there is no new request (prv_retry_block1).                     *)
(***************************************************************************)
Smaller(blk, asked) == IF asked = blk /\ asked > 0 THEN asked - 1 ELSE asked

readData(i) ==
  LET req == reqs[i] IN
  /\ ~stepping /\ req.ans # "none"
  /\ context' = Callback(context, req, req.ans)
  /\ \/ /\ req.ans = "413"
        /\ \E asked \in 0..MaxBlock :
             /\ Smaller(req.blk, asked) < req.blk
             /\ reqs' = Append(RemoveAt(reqs, i), [req EXCEPT !.blk = Smaller(req.blk, asked),
                                                               !.ans = "none"])
     \/ /\ req.ans = "413"
        /\ \E asked \in 0..MaxBlock : Smaller(req.blk, asked) >= req.blk
        /\ reqs' = RemoveAt(reqs, i)
     \/ /\ req.ans # "413"
        /\ reqs' = RemoveAt(reqs, i)
  /\ UNCHANGED <<prev, version, remote, unreachable, stepping>>

\* refreshObjects finds that the number of snaps changed.
refreshObjects ==
  /\ ~stepping /\ version < MaxVersion
  /\ \A s \in Servers : Cardinality(ReqsOf(s)) < MaxRequests
  /\ version' = version + 1
  /\ context' = sendFullObjectList(context)
  /\ UNCHANGED <<reqs, prev, remote, unreachable, stepping>>

\* An application or a server's request asks for a registration update.
UpdateRegistration ==
  /\ ~stepping /\ \A s \in Servers : Cardinality(ReqsOf(s)) < MaxRequests
  /\ \E call \in ApiCalls : context' = lwm2m_update_registration(context, call[1], call[2])
  /\ UNCHANGED <<reqs, prev, version, remote, unreachable, stepping>>

registration_deregister(s) ==
  /\ ~stepping /\ Deregisters /\ Cardinality(ReqsOf(s)) < MaxRequests
  /\ context.srv[s].located
  /\ context.srv[s].status \notin {"DEREGISTERED", "REG_PENDING", "DEREG_PENDING", "REG_FAILED"}
  /\ context' = [context EXCEPT !.srv[s].status = "DEREG_PENDING", !.srv[s].want = FALSE]
  /\ reqs' = Append(reqs, [srv |-> s, kind |-> "delete", objs |-> 0, blk |-> MaxBlock,
                           ans |-> "none", over |-> FALSE])
  /\ UNCHANGED <<prev, version, remote, unreachable, stepping>>

\* The hold-off time or the time of the next update has come.
Elapse(s) ==
  /\ context.srv[s].status \in {"REG_HOLD_OFF", "REGISTERED"} /\ ~context.srv[s].due
  /\ Cardinality(ReqsOf(s)) < MaxRequests
  /\ context' = [context EXCEPT !.srv[s].due = TRUE]
  /\ UNCHANGED <<reqs, prev, version, remote, unreachable, stepping>>

\* The bootstrap ends, either way (bootstrap.c times out by itself).
BootstrapEnds ==
  /\ context.state = "BOOTSTRAPPING" /\ context.bs = "ongoing"
  /\ \E bs \in {"finished", "failed"} : context' = [context EXCEPT !.bs = bs]
  /\ UNCHANGED <<reqs, prev, version, remote, unreachable, stepping>>
----------------------------------------------------------------------------
(* The servers: a request is handled once (the message id tells copies     *)
(* apart), and may be refused whatever it is. What a server does during a  *)
(* turn of sendData it may as well do just before or after it.             *)
ServerHandles(i) ==
  LET req  == reqs[i]
      s    == req.srv
      effect(ans, v) == /\ reqs' = [reqs EXCEPT ![i].ans = ans]
                        /\ remote' = [remote EXCEPT ![s] = v]
  IN  /\ ~stepping /\ req.ans = "none"
      /\ \/ effect("err", remote[s])
         \/ TooLarge /\ req.objs > 0 /\ effect("413", remote[s])
         \/ req.kind = "register" /\ effect("201", req.objs)
         \/ /\ req.kind = "update" /\ remote[s] > 0
            /\ effect("204", IF req.objs > 0 THEN req.objs ELSE remote[s])
         \/ req.kind = "delete" /\ effect("202", 0)
      /\ UNCHANGED <<context, prev, version, unreachable, stepping>>

\* The registration runs out, or the server restarts.
ServerForgets(s) ==
  /\ ~stepping /\ remote[s] > 0
  /\ remote' = [remote EXCEPT ![s] = 0]
  /\ UNCHANGED <<context, reqs, prev, version, unreachable, stepping>>
----------------------------------------------------------------------------
Next ==
  \/ SendData \/ GiveUp \/ EndOfSendData
  \/ \E i \in DOMAIN reqs : readData(i) \/ ServerHandles(i)
  \/ refreshObjects
  \/ UpdateRegistration
  \/ \E s \in Servers : registration_deregister(s) \/ Elapse(s) \/ ServerForgets(s)
  \/ BootstrapEnds

Spec == Init /\ [][Next]_vars

\* The event loop goes round for ever, time passes, the bootstrap times out, and
\* the oldest request ends (EveryRequestEnds of CoapTransaction) as long as
\* lwm2m_step gets as far as transaction_step: strong fairness, because it can
\* end in each turn of the loop but not in between. No server promises anything.
Fairness ==
  /\ WF_vars(SendData) /\ WF_vars(GiveUp) /\ WF_vars(EndOfSendData) /\ WF_vars(BootstrapEnds)
  /\ SF_vars(reqs # <<>> /\ sendData({1}))
  /\ \A s \in Servers : WF_vars(Elapse(s))
FairSpec == Spec /\ Fairness
----------------------------------------------------------------------------
(* Type invariant of the context, the request list and the history.        *)
TypeOK ==
  /\ context \in Context
  /\ reqs \in Seq(Request)
  /\ prev \in ClientStates
  /\ version \in 1..MaxVersion
  /\ remote \in [Servers -> 0..MaxVersion]
  /\ unreachable \subseteq Servers
  /\ stepping \in BOOLEAN

AtLeastOne(n) == IF n = 0 THEN 1 ELSE n

(* Between two starts of a server's registration, no more registrations    *)
(* are sent to it than the attempts of a sequence times the sequences that *)
(* the Server Object allows, whatever mix of refusals, timeouts, restarts  *)
(* of other servers and late answers happens.                              *)
TriesBounded ==
  \A s \in Servers : context.srv[s].tries <= AtLeastOne(AttemptLimit) * AtLeastOne(SequenceLimit)

(* A server whose status says that a registration, an update or a          *)
(* deregistration is pending has such a request outstanding: nothing else  *)
(* can move it out of that status (registration_step ignores it). This is  *)
(* how registration_getStatus explains STATE_REG_PENDING, "at least one    *)
(* registration is still pending".                                         *)
PendingHasRequest ==
  \A s \in Servers :
    LET outstanding(k) == \E i \in ReqsOf(s) : reqs[i].kind = k
    IN  /\ context.srv[s].status = "REG_PENDING" => outstanding("register")
        /\ context.srv[s].status = "REG_UPDATE_PENDING" => outstanding("update")
        /\ context.srv[s].status = "DEREG_PENDING" => outstanding("delete")

(* An update with the object list that was asked for stays asked for until *)
(* it is sent (lwm2m_update_registration, withObjects true), unless the    *)
(* registration itself comes to an end.                                    *)
FullUpdateHonoured ==
  \A s \in Servers : context.srv[s].want => context.srv[s].status = "REG_FULL_UPDATE_NEEDED"

(* What the client believes is so: when it is ready, a server it takes for *)
(* registered and that still knows the client has the client's current     *)
(* object list, although the list may change during a registration, an     *)
(* update or a bootstrap. Updates sent while an older request was          *)
(* outstanding are left out: their answers can be taken for one another.   *)
ListCurrent ==
  \A s \in Servers :
    /\ context.state = "READY" /\ ~stepping /\ context.srv[s].status = "REGISTERED"
    /\ ~context.srv[s].overlap /\ remote[s] # 0
    => remote[s] = version

(* Ordered registration: a server is not registered with, or tried, while  *)
(* one that comes before it was never started.                             *)
OrderKept ==
  \A s, t \in Ordered :
    Priority[s] < Priority[t] /\ context.srv[t].status \in Pending \cup Registered
      => context.srv[s].status # "DEREGISTERED"

(* Once the client is ready, no server is left waiting for its turn: the   *)
(* comments in registration.c announce that it will "Find the next ordered *)
(* registration to start". Not checked: registration_start(true) resets    *)
(* failed ordered servers, which no later call considers.                  *)
NoneWaiting == context.state = "READY" => \A s \in Servers : ~context.srv[s].waiting

(* Registering ends: with every server the client is registered or has     *)
(* given up, and it moves on, even if no server ever answers. A server     *)
(* that cannot be connected to counts as no attempt (prv_register returns  *)
(* before attempt and status change), so the client goes on for as long as *)
(* every connection to one server fails, and for no longer.                *)
Reachable == \A s \in Servers : []<>(s \notin unreachable)
RegisteringEnds ==
  Reachable => ((context.state = "REGISTERING") ~> (context.state # "REGISTERING"))

(* lwm2m_step is to "perform any required pending operation": requests go  *)
(* on ending, one after the other, for as long as any is outstanding,      *)
(* through failed registrations and bootstraps. Only a client that needs a *)
(* bootstrap and has no bootstrap server stands still, with its requests:  *)
(* lwm2m_step then returns before transaction_step for ever.               *)
Stranded == context.state = "BOOTSTRAP_REQUIRED" /\ ~context.bootstrapServer
RequestsEnd == []<>(reqs = <<>> \/ Stranded) \/ []<><<Len(reqs') < Len(reqs)>>_vars
============================================================================

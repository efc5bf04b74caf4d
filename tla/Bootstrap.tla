----------------------------- MODULE Bootstrap -----------------------------
(***************************************************************************)
(* Bootstrap on the client: core/bootstrap.c (LWM2M_CLIENT_MODE), the list *)
(* of servers that object_getServers and prv_refreshServerList make of the *)
(* Security and Server Objects, the state machine of lwm2m_step, and the   *)
(* backup and the rollback of the accounts in src/lwm2mclient.c.           *)
(*                                                                         *)
(* A server is known by the id of its Security Object instance. An account *)
(* is what matters of such an instance: whether it is of a bootstrap       *)
(* server and its Short Server ID, 0 standing for an invalid one. An       *)
(* instance of the Server Object is known by its Short Server ID. How a    *)
(* server registers is the subject of Registration: here its status is     *)
(* changed by actions of the environment. left is the field registration   *)
(* minus the current time, 0 when it is due.                               *)
(*                                                                         *)
(* A bootstrap server that is deleted takes its pending request with it;   *)
(* in the code the transaction stays and its callback is given a freed     *)
(* server.                                                                 *)
(***************************************************************************)
EXTENDS Integers, Sequences, FiniteSetsExt, Functions

CONSTANTS
  Ids,              \* instance ids of the Security Object, from 0 on
  ShortIds,         \* Short Server IDs, valid ones
  FirstSec,         \* the Security Object at the start
  FirstSrv,         \* the Server Object at the start
  Commands,         \* what a bootstrap server may send
  BootstrapOnFailure, \* Short Server IDs whose failing asks for a bootstrap
  HoldOff,          \* the Client Hold Off Time
  ExchangeLifetime, \* COAP_EXCHANGE_LIFETIME
  MaxCommands,      \* bound: commands sent in all
  MaxRequests       \* bound: bootstrap requests of a server at a time

Account == [boot : BOOLEAN, sid : ShortIds \cup {0}]

IsPartial(f, S, T) == DOMAIN f \subseteq S /\ \A x \in DOMAIN f : f[x] \in T

ASSUME BootstrapAssumption ==
  /\ Ids \subseteq Nat /\ ShortIds \subseteq Nat \ {0}
  /\ \A i \in Ids : 0..i \subseteq Ids
  /\ IsPartial(FirstSec, Ids, Account) /\ FirstSrv \subseteq ShortIds
  /\ HoldOff \in Nat /\ ExchangeLifetime \in Nat \ {0}
  /\ MaxCommands \in Nat /\ MaxRequests \in Nat

\* What a command carries is what it needs.
ASSUME CommandAssumption ==
  \A m \in Commands :
    /\ m.accounts \in
         Seq([id : Ids, boot : BOOLEAN, sid : ShortIds \cup {0}, fails : BOOLEAN])
    /\ m.op = "put_security" => m.id \in Ids /\ Len(m.accounts) = 1
    /\ m.op = "put_server" => m.id \in ShortIds

VARIABLES
  cx,     \* the context and the application's data, see TypeOK
  sent,   \* commands sent so far
  undone, \* history: a bootstrap was undone after it had been accepted
  interrupted \* history: whether a bootstrap was ever interrupted, see Interrupts

vars == <<cx, sent, undone, interrupted>>

BsStatus == {"DEREGISTERED", "HOLD_OFF", "INITIATED", "PENDING", "FINISHING",
             "FINISHED", "FAILING", "FAILED"}

NewBootstrapServer ==
  [status |-> "DEREGISTERED", left |-> 0, session |-> FALSE, dirty |-> FALSE]

NewServer(sid) == [sid |-> sid, status |-> "DEREGISTERED", dirty |-> FALSE]

----------------------------------------------------------------------------
(***************************************************************************)
(* object_getServers: every instance of the Security Object that is not    *)
(* listed is read, in the order of the ids. The first that has no valid    *)
(* Short Server ID ends the reading; what was added before stays.          *)
(***************************************************************************)
Unlisted(c) == DOMAIN c.sec \ (DOMAIN c.bs \cup DOMAIN c.servers)

Invalid(c) == {i \in Unlisted(c) : ~c.sec[i].boot /\ c.sec[i].sid = 0}

\* prv_findServerInstance: whether the Server Object has the Short Server ID.
prv_findServerInstance(c, sid) == sid \in c.srv

object_getServers(c) ==
  LET read == {i \in Unlisted(c) : \A j \in Invalid(c) : i < j}
      boot == {i \in read : c.sec[i].boot}
      reg  == {i \in read : ~c.sec[i].boot /\ prv_findServerInstance(c, c.sec[i].sid)}
  IN  [c EXCEPT
         !.bs = [i \in DOMAIN @ \cup boot |->
                   IF i \in boot THEN NewBootstrapServer ELSE @[i]],
         !.servers = [i \in DOMAIN @ \cup reg |->
                        IF i \in reg THEN NewServer(c.sec[i].sid) ELSE @[i]]]

\* prv_refreshServerList, up to the result of object_getServers.
prv_refreshServerList(c) ==
  LET keep == {i \in DOMAIN c.bs : ~c.bs[i].dirty}
  IN  object_getServers(
        [c EXCEPT !.bs = [i \in keep |-> [c.bs[i] EXCEPT !.status = "DEREGISTERED"]],
                  !.req = [i \in Ids |-> IF i \in keep THEN c.req[i] ELSE 0],
                  !.servers = Restrict(@, {i \in DOMAIN @ : ~@[i].dirty})])

----------------------------------------------------------------------------
(***************************************************************************)
(* up is what a turn meets: the peers that can be reached, and what keeps  *)
(* it from asking for a bootstrap: a query that is too long for its        *)
(* buffer, or a transaction that cannot be made (transaction_send, which   *)
(* is not seen to fail, is left out).                                      *)
(***************************************************************************)
\* lwm2m_connect_server: needs the account, and a peer that can be reached.
lwm2m_connect_server(c, i, up) == i \in DOMAIN c.sec /\ i \in up.peers

bootstrap_start(c, up) ==
  [c EXCEPT !.bs = [i \in DOMAIN c.bs |->
     [c.bs[i] EXCEPT !.status = "DEREGISTERED",
                     !.session = @ \/ lwm2m_connect_server(c, i, up)]]]

\* Whether server i has a session, or gets one.
Connects(c, i, up) == c.bs[i].session \/ lwm2m_connect_server(c, i, up)

\* Whether bootstrap_step sends the request of server i.
Requests(c, i, up) ==
  /\ c.bs[i].status = "HOLD_OFF" /\ c.bs[i].left = 0
  /\ Connects(c, i, up) /\ up.obstacle = "none"

prv_requestBootstrap(c, i, up) ==
  CASE up.obstacle = "query" -> [c.bs[i] EXCEPT !.status = "FAILING"]
    [] ~Connects(c, i, up) /\ up.obstacle # "query" -> [c.bs[i] EXCEPT !.status = "FAILED"]
    [] OTHER -> [c.bs[i] EXCEPT !.session = TRUE,
                                !.status = IF up.obstacle = "none" THEN "INITIATED" ELSE "FAILING"]

\* A fault: the session of a server that has finished stays open.
StepServer_open(c, i, up) ==
  LET b == c.bs[i]
  IN  CASE b.status = "DEREGISTERED" -> [b EXCEPT !.status = "HOLD_OFF", !.left = HoldOff]
        [] b.status = "HOLD_OFF" /\ b.left = 0 -> prv_requestBootstrap(c, i, up)
        [] b.status = "PENDING" /\ b.left = 0 -> [b EXCEPT !.status = "FAILING"]
        [] b.status = "FINISHING" -> [b EXCEPT !.status = "FINISHED"]
        [] b.status = "FAILING" -> [b EXCEPT !.status = "FAILED", !.session = FALSE]
        [] OTHER -> b

\* A fault: a pending bootstrap is never given up.
StepServer_patient(c, i, up) ==
  LET b == c.bs[i]
  IN  CASE b.status = "DEREGISTERED" -> [b EXCEPT !.status = "HOLD_OFF", !.left = HoldOff]
        [] b.status = "HOLD_OFF" /\ b.left = 0 -> prv_requestBootstrap(c, i, up)
        [] b.status = "FINISHING" -> [b EXCEPT !.status = "FINISHED", !.session = FALSE]
        [] b.status = "FAILING" -> [b EXCEPT !.status = "FAILED", !.session = FALSE]
        [] OTHER -> b

\* bootstrap_step, for one server.
StepServer(c, i, up) ==
  LET b == c.bs[i]
  IN  CASE b.status = "DEREGISTERED" -> [b EXCEPT !.status = "HOLD_OFF", !.left = HoldOff]
        [] b.status = "HOLD_OFF" /\ b.left = 0 -> prv_requestBootstrap(c, i, up)
        [] b.status = "PENDING" /\ b.left = 0 -> [b EXCEPT !.status = "FAILING"]
        [] b.status = "FINISHING" -> [b EXCEPT !.status = "FINISHED", !.session = FALSE]
        [] b.status = "FAILING" -> [b EXCEPT !.status = "FAILED", !.session = FALSE]
        [] OTHER -> b

bootstrap_step(c, up) ==
  [c EXCEPT !.bs = [i \in DOMAIN c.bs |-> StepServer(c, i, up)],
            !.req = [i \in Ids |-> IF i \in DOMAIN c.bs /\ Requests(c, i, up)
                                   THEN @[i] + 1 ELSE @[i]]]

bootstrap_getStatus(c) ==
  LET is(S) == \E i \in DOMAIN c.bs : c.bs[i].status \in S
  IN  IF is({"HOLD_OFF", "INITIATED", "PENDING", "FINISHING", "FAILING"})
      THEN "PENDING"
      ELSE IF is({"FINISHED"}) THEN "FINISHED" ELSE "FAILED"

----------------------------------------------------------------------------
(***************************************************************************)
(* The state machine of lwm2m_step, as [c, ok]: ok is FALSE when it        *)
(* returns an error. The states INITIAL and REGISTER_REQUIRED are left in  *)
(* the same call (goto next_step), unless an error is returned.            *)
(***************************************************************************)
Done(c)   == [c |-> c, ok |-> TRUE]
Failed(c) == [c |-> c, ok |-> FALSE]

\* STATE_BOOTSTRAP_REQUIRED
StepRequired(c, up) ==
  IF DOMAIN c.bs = {} THEN Failed([c EXCEPT !.state = "BOOTSTRAP_REQUIRED"])
  ELSE Done([bootstrap_step(bootstrap_start(c, up), up)
               EXCEPT !.state = "BOOTSTRAPPING"])

registration_start(c) ==
  [c EXCEPT !.servers = [i \in DOMAIN @ |->
     IF @[i].status \in {"DEREGISTERED", "REG_FAILED"}
     THEN [@[i] EXCEPT !.status = "REG_PENDING"] ELSE @[i]]]

\* STATE_INITIAL
StepInitial(c, up) ==
  LET r == prv_refreshServerList(c)
  IN  IF Invalid(r) # {} THEN Failed([r EXCEPT !.state = "INITIAL"])
      ELSE IF DOMAIN r.servers # {}
           THEN Done([registration_start(r) EXCEPT !.state = "REGISTERING"])
           ELSE StepRequired(r, up)

registration_getStatus(c) ==
  LET is(s) == \E i \in DOMAIN c.servers : c.servers[i].status = s
  IN  IF is("REG_PENDING") THEN "REG_PENDING"
      ELSE IF is("REGISTERED") THEN "REGISTERED" ELSE "REG_FAILED"

lwm2m_step(c, up) ==
  CASE c.state = "INITIAL" -> StepInitial(c, up)
    [] c.state = "BOOTSTRAP_REQUIRED" -> StepRequired(c, up)
    [] c.state = "BOOTSTRAPPING" ->
         CASE bootstrap_getStatus(c) = "FINISHED" -> StepInitial(c, up)
           [] bootstrap_getStatus(c) = "FAILED" -> Failed(c)
           [] OTHER -> Done(bootstrap_step(c, up))
    [] c.state = "REGISTERING" ->
         CASE registration_getStatus(c) = "REGISTERED" -> Done([c EXCEPT !.state = "READY"])
           [] registration_getStatus(c) = "REG_FAILED" -> StepRequired(c, up)
           [] OTHER -> Done(c)
    [] c.state = "READY" ->
         IF registration_getStatus(c) = "REG_FAILED" THEN StepRequired(c, up) ELSE Done(c)

\* A fault: the Server Object is not restored.
prv_restore_objects_half(c) == [c EXCEPT !.sec = c.bak.sec]

prv_restore_objects(c) == [c EXCEPT !.sec = c.bak.sec, !.srv = c.bak.srv]

prv_backup_objects(c) == [c EXCEPT !.bak = [sec |-> c.sec, srv |-> c.srv]]

\* previousState follows the state; entering BOOTSTRAPPING makes the backup.
update_bootstrap_info(c) ==
  LET d == [c EXCEPT !.prev = c.state]
  IN  IF c.prev # c.state /\ c.state = "BOOTSTRAPPING"
      THEN prv_backup_objects(d) ELSE d

\* prv_handleRegistrationSequenceFailure: the registrations of the servers in S have
\* failed for good, which may ask for a bootstrap.
RegistrationsFail(c, S) ==
  [c EXCEPT !.servers = [i \in DOMAIN @ |->
              IF i \in S THEN [@[i] EXCEPT !.status = "REG_FAILED"] ELSE @[i]],
            !.state = IF \E i \in S : c.servers[i].sid \in BootstrapOnFailure
                      THEN "BOOTSTRAP_REQUIRED" ELSE @]

\* The rest of lwm2m_step: transaction_step may give up a registration.
transaction_step(c, lost) ==
  RegistrationsFail(c, {i \in DOMAIN c.servers \cap lost :
                          c.servers[i].status = "REG_PENDING"})

\* sendData, r being what the state machine has come to: a step that fails during a
\* bootstrap rolls the accounts back.
sendData(c, r, lost) ==
  IF r.ok THEN update_bootstrap_info(transaction_step(r.c, lost))
  ELSE IF c.prev = "BOOTSTRAPPING"
       THEN update_bootstrap_info([prv_restore_objects(r.c) EXCEPT !.state = "INITIAL"])
       ELSE r.c

----------------------------------------------------------------------------
(***************************************************************************)
(* Messages of a bootstrap server i. A command is a record with fields op, *)
(* id and accounts; a write of an account with the flag fails is refused   *)
(* before it changes anything.                                             *)
(***************************************************************************)
utils_findBootstrapServer(c, i) == i \in DOMAIN c.bs /\ c.bs[i].session

\* prv_checkServerStatus: FALSE is COAP_IGNORE.
Accepts(c, i) == c.bs[i].status \in {"HOLD_OFF", "INITIATED", "DEREGISTERED", "PENDING"}

prv_checkServerStatus(c, i) ==
  IF c.bs[i].status \in {"HOLD_OFF", "INITIATED"}
  THEN [c EXCEPT !.bs[i].status = "PENDING"]
  ELSE [c EXCEPT !.bs[i].left = ExchangeLifetime]

\* A fault: only bootstrap servers are tagged.
prv_tagServer_boot(c, i) ==
  IF i \in DOMAIN c.bs THEN [c EXCEPT !.bs[i].dirty = TRUE] ELSE c

prv_tagServer(c, i) ==
  IF i \in DOMAIN c.bs THEN [c EXCEPT !.bs[i].dirty = TRUE]
  ELSE IF i \in DOMAIN c.servers THEN [c EXCEPT !.servers[i].dirty = TRUE] ELSE c

prv_tagAllServer(c, own) ==
  [c EXCEPT !.bs = [j \in DOMAIN c.bs |->
                      [c.bs[j] EXCEPT !.dirty = c.bs[j].dirty \/ j # own]],
            !.servers = [j \in DOMAIN c.servers |->
                           [c.servers[j] EXCEPT !.dirty = TRUE]]]

Refuse(c) == [c |-> c, done |-> FALSE]
Accept(c) == [c |-> c, done |-> TRUE]

object_isInstanceNew(c, id) == id \notin DOMAIN c.sec

prv_security_write(c, id, a) ==
  IF a.fails THEN Refuse(c)
  ELSE Accept([c EXCEPT !.sec = [j \in DOMAIN @ \cup {id} |->
                 IF j = id THEN [boot |-> a.boot, sid |-> a.sid] ELSE @[j]]])

\* An instance whose values are refused is deleted again.
prv_security_create(c, id, a) == prv_security_write(c, id, a)

prv_security_delete(c, id) == [c EXCEPT !.sec = Restrict(@, DOMAIN @ \ {id})]

prv_server_create(c, sid) == [c EXCEPT !.srv = @ \cup {sid}]
prv_server_delete(c, sid) == [c EXCEPT !.srv = @ \ {sid}]

\* Writing an instance that exists tags its server.
WriteTagged(c, id, a) ==
  LET r == prv_security_write(c, id, a)
  IN  IF r.done THEN Accept(prv_tagServer(r.c, id)) ELSE r

\* A PUT of the Security Object instance id: it is created or replaced.
PutSecurity(c, id, a) ==
  IF object_isInstanceNew(c, id) THEN prv_security_create(c, id, a)
  ELSE WriteTagged(c, id, a)

\* lwm2m_list_newId: the lowest id that is not in use.
lwm2m_list_newId(c) == Min(Ids \ DOMAIN c.sec)

\* A new instance gets the next free id, not the id in the message.
object_createInstance(c, a) == prv_security_create(c, lwm2m_list_newId(c), a)

\* One instance of a PUT of the whole Security Object; an error ends the PUT.
PutInstance(r, a) ==
  IF ~r.done THEN r
  ELSE IF object_isInstanceNew(r.c, a.id) THEN object_createInstance(r.c, a)
       ELSE WriteTagged(r.c, a.id, a)

\* A PUT of the whole Security Object: done[k] is what k instances have come to.
PutInstances(c, accounts) ==
  LET done[k \in 0..Len(accounts)] ==
        IF k = 0 THEN Accept(c) ELSE PutInstance(done[k - 1], accounts[k])
  IN  IF accounts = <<>> THEN Refuse(c) ELSE done[Len(accounts)]

\* A fault: the bootstrap server's own account is deleted with the others.
DeleteAccounts_own(c, i) == prv_tagAllServer([c EXCEPT !.sec = <<>>], i)

\* All instances of the Security Object but the one of server i.
DeleteAccounts(c, i) ==
  prv_tagAllServer([c EXCEPT !.sec = Restrict(@, DOMAIN @ \cap {i})], i)

\* What a command does, and whether it does it.
Perform(c, i, m) ==
  CASE m.op = "put_security" -> PutSecurity(c, m.id, m.accounts[1])
    [] m.op = "put_accounts" -> PutInstances(c, m.accounts)
    [] m.op = "put_server" -> Accept(prv_server_create(c, m.id))
    [] m.op = "delete_security" ->
         IF object_isInstanceNew(c, m.id) THEN Refuse(c)
         ELSE Accept(prv_tagServer(prv_security_delete(c, m.id), m.id))
    [] m.op = "delete_accounts" -> Accept(DeleteAccounts(c, i))
    [] m.op = "delete_server" ->
         IF m.id \notin c.srv THEN Refuse(c) ELSE Accept(prv_server_delete(c, m.id))
    [] m.op = "delete_servers" -> Accept([c EXCEPT !.srv = {}])
    [] OTHER -> Refuse(c)  \* GET and POST: nothing is changed

\* The result of a command. One that is done makes a server pending that was not: it
\* has begun a bootstrap.
bootstrap_handleCommand(c, i, m) ==
  LET r == Perform(prv_checkServerStatus(c, i), i, m)
  IN  IF r.done /\ r.c.bs[i].status # "PENDING"
      THEN [r.c EXCEPT !.bs[i].status = "PENDING", !.state = "BOOTSTRAPPING"]
      ELSE r.c

bootstrap_handleDeleteAll(c, i) == [DeleteAccounts(c, i) EXCEPT !.srv = {}]

bootstrap_handleFinish(c, i) ==
  IF c.bs[i].status = "PENDING" /\ Invalid(c) = {}
  THEN [c EXCEPT !.bs[i].status = "FINISHING"] ELSE c

\* prv_handleBootstrapReply: answer is the code, or none after the last retry.
prv_handleBootstrapReply(c, i, answer) ==
  IF c.bs[i].status # "INITIATED" THEN c
  ELSE IF answer = "2.04"
       THEN [c EXCEPT !.bs[i] = [@ EXCEPT !.status = "PENDING", !.left = ExchangeLifetime]]
       ELSE [c EXCEPT !.bs[i].status = "FAILING"]

----------------------------------------------------------------------------
Init ==
  /\ cx = [state |-> "INITIAL", prev |-> "INITIAL", sec |-> FirstSec, srv |-> FirstSrv,
           bak |-> [sec |-> FirstSec, srv |-> FirstSrv], bs |-> <<>>, servers |-> <<>>,
           req |-> [i \in Ids |-> 0]]
  /\ sent = 0
  /\ undone = FALSE
  /\ interrupted = "never"

\* prv_refreshServerList cannot read the accounts of a finished bootstrap.
Undoes(c) ==
  /\ c.state = "BOOTSTRAPPING" /\ bootstrap_getStatus(c) = "FINISHED"
  /\ Invalid(prv_refreshServerList(c)) # {}

\* Bootstrap servers whose session may be opened, and servers whose registration is
\* under way: its transaction may be given up.
Sessionless == {i \in DOMAIN cx.sec : cx.sec[i].boot /\ (i \in DOMAIN cx.bs => ~cx.bs[i].session)}
Registering == {i \in DOMAIN cx.servers : cx.servers[i].status = "REG_PENDING"}

(***************************************************************************)
(* A turn interrupts the bootstrap that it begins, or that is going on,    *)
(* when a registration is given up in it that asks for a bootstrap: it     *)
(* ends in BOOTSTRAP_REQUIRED, which update_bootstrap_info takes for the   *)
(* end of the bootstrap, and the next one takes its backup of accounts     *)
(* that may be half edited. interrupted is "now" until the turn after it.  *)
(***************************************************************************)
Interrupts(r, lost) ==
  r.ok /\ r.c.state = "BOOTSTRAPPING" /\ transaction_step(r.c, lost).state # "BOOTSTRAPPING"

\* Obstacles are only met by a turn in which a bootstrap may be asked for.
Obstacles ==
  {"none"} \cup
  (IF \E i \in DOMAIN cx.bs : cx.bs[i].status = "HOLD_OFF" THEN {"query", "transaction"} ELSE {})

Send ==
  /\ UNCHANGED sent
  /\ undone' = (undone \/ Undoes(cx))
  /\ \E r \in {lwm2m_step(cx, up) : up \in [peers : SUBSET Sessionless, obstacle : Obstacles]},
        lost \in SUBSET Registering :
       /\ \A i \in Ids : r.c.req[i] <= MaxRequests
       /\ cx' = sendData(cx, r, lost)
       /\ interrupted' = IF Interrupts(r, lost) THEN "now"
                         ELSE IF interrupted = "never" THEN "never" ELSE "before"

Receives(i) ==
  /\ sent < MaxCommands /\ sent' = sent + 1 /\ UNCHANGED <<undone, interrupted>>
  /\ utils_findBootstrapServer(cx, i)

Command(i) ==
  /\ Receives(i)
  /\ IF Accepts(cx, i) THEN \E m \in Commands : cx' = bootstrap_handleCommand(cx, i, m)
     ELSE UNCHANGED cx

DeleteAll(i) ==
  /\ Receives(i)
  /\ IF Accepts(cx, i) THEN cx' = bootstrap_handleDeleteAll(prv_checkServerStatus(cx, i), i)
     ELSE UNCHANGED cx

FinishMessage(i) ==
  /\ Receives(i)
  /\ cx' = bootstrap_handleFinish(cx, i)

\* The answer to a bootstrap request, or its end without one.
Reply(i) ==
  /\ cx.req[i] > 0
  /\ \E answer \in {"2.04", "4.00", "none"} :
       cx' = [prv_handleBootstrapReply(cx, i, answer) EXCEPT !.req[i] = @ - 1]
  /\ UNCHANGED <<sent, undone, interrupted>>

\* A registration succeeds, is lost and tried again, or is refused for good.
Registers(i) ==
  /\ i \in DOMAIN cx.servers
  /\ LET s == cx.servers[i]
     IN  \/ s.status = "REG_PENDING" /\ cx' = [cx EXCEPT !.servers[i].status = "REGISTERED"]
         \/ s.status = "REGISTERED" /\ cx' = [cx EXCEPT !.servers[i].status = "REG_PENDING"]
         \/ s.status = "REG_PENDING" /\ cx' = RegistrationsFail(cx, {i})
  /\ UNCHANGED <<sent, undone, interrupted>>

Tick ==
  /\ cx' = [cx EXCEPT !.bs = [i \in DOMAIN cx.bs |->
               LET left == cx.bs[i].left
               IN  [cx.bs[i] EXCEPT !.left = IF left > 0 THEN left - 1 ELSE 0]]]
  /\ UNCHANGED <<sent, undone, interrupted>>

Next ==
  \/ Send
  \/ Tick
  \/ \E i \in Ids : Command(i) \/ DeleteAll(i) \/ FinishMessage(i) \/ Reply(i) \/ Registers(i)

(***************************************************************************)
(* The main loop calls sendData again and again, time passes, and a        *)
(* transaction ends, by an answer or after its last retransmission.        *)
(***************************************************************************)
Fairness ==
  /\ WF_vars(Send)
  /\ WF_vars(Tick)
  /\ \A i \in Ids : WF_vars(Reply(i))

Spec == Init /\ [][Next]_vars /\ Fairness

----------------------------------------------------------------------------
\* The type of the state.
TypeOK ==
  /\ cx.state \in {"INITIAL", "BOOTSTRAP_REQUIRED", "BOOTSTRAPPING", "REGISTERING", "READY"}
  /\ cx.prev \in {"INITIAL", "BOOTSTRAP_REQUIRED", "BOOTSTRAPPING", "REGISTERING", "READY"}
  /\ IsPartial(cx.sec, Ids, Account) /\ IsPartial(cx.bak.sec, Ids, Account)
  /\ cx.srv \subseteq ShortIds /\ cx.bak.srv \subseteq ShortIds
  /\ IsPartial(cx.bs, Ids, [status : BsStatus, left : 0 .. ExchangeLifetime + HoldOff,
                            session : BOOLEAN, dirty : BOOLEAN])
  /\ IsPartial(cx.servers, Ids, [sid : ShortIds, dirty : BOOLEAN,
         status : {"DEREGISTERED", "REG_PENDING", "REGISTERED", "REG_FAILED"}])
  /\ cx.req \in [Ids -> 0 .. MaxRequests]
  /\ sent \in 0 .. MaxCommands /\ undone \in BOOLEAN
  /\ interrupted \in {"never", "now", "before"}

(***************************************************************************)
(* Bootstrapping edits the accounts in a transaction: the refinement       *)
(* mapping takes the backup for the accounts that are committed.           *)
(***************************************************************************)
Now == [sec |-> cx.sec, srv |-> cx.srv]
Open == cx.prev = "BOOTSTRAPPING"

\* Every account can be read by object_getServers.
Readable(accounts) ==
  \A i \in DOMAIN accounts.sec : accounts.sec[i].boot \/ accounts.sec[i].sid # 0

\* There is a bootstrap server, or a server with its two instances.
HasServer(accounts) ==
  \E i \in DOMAIN accounts.sec : accounts.sec[i].boot \/ accounts.sec[i].sid \in accounts.srv

\* A server that is listed, and not marked to be read again, has its account: the
\* client never registers by an account that was replaced or deleted. The rollback
\* of a failed bootstrap is to "restart the old servers".
OldServersRestarted ==
  \A i \in DOMAIN cx.servers :
    ~cx.servers[i].dirty =>
      i \in DOMAIN cx.sec /\ ~cx.sec[i].boot /\ cx.sec[i].sid = cx.servers[i].sid

\* The same of all servers: each one listed, and not to be read again, is of its account.
ListFollows ==
  /\ OldServersRestarted
  /\ \A i \in DOMAIN cx.bs : ~cx.bs[i].dirty => i \in DOMAIN cx.sec /\ cx.sec[i].boot

Store == INSTANCE AccountStore WITH
  Usable <- Readable,
  Sufficient <- HasServer,
  committed <- IF Open THEN cx.bak ELSE Now,
  draft <- Now,
  open <- Open,
  finished <- Open /\ \E i \in DOMAIN cx.bs : cx.bs[i].status = "FINISHED",
  listed <- ListFollows,
  interrupted <- interrupted = "now"

\* Bootstrapping implements the account store: the accounts change only while
\* a bootstrap is open, new ones are kept only if a bootstrap server was accepted
\* as finished and left accounts that can all be read, although it is only then that
\* prv_refreshServerList reads them, and only those of servers it does not list; and
\* otherwise all of the old ones are restored (prv_backup_objects and
\* prv_restore_objects in sendData, which then is to "restore previous object"). A
\* bootstrap that is interrupted keeps its accounts as they are, for good.
AccountsTransactional == Store!ASpec

\* A bootstrap that "succeeded" (bootstrap_getStatus on STATE_BS_FINISHED, "bootstrap
\* done") is not undone: once bootstrap_handleFinish has accepted it and nothing is
\* pending, the accounts it wrote stay as they are. Not checked: the account of a
\* listed server is only looked at after that server has been dropped.
SuccessKept ==
  [][cx.state = "BOOTSTRAPPING" /\ bootstrap_getStatus(cx) = "FINISHED" => Now' = Now]_vars

\* OldServersRestarted holds until a bootstrap is undone that had been accepted as finished: through
\* all writes, deletions, failures and their rollbacks the list of servers follows the
\* accounts (prv_tagServer, prv_tagAllServer, prv_refreshServerList).
ServersMatchAccounts == ~undone => OldServersRestarted

\* No bootstrap server has a session unless the client is bootstrapping, or is about to
\* start again, a registration having failed that asks for it: otherwise it can change no
\* account (bootstrap_step closes the session in every end).
SessionsClosed ==
  (\E i \in DOMAIN cx.bs : cx.bs[i].session) =>
    \/ cx.state = "BOOTSTRAPPING"
    \/ cx.state = "BOOTSTRAP_REQUIRED" /\ (Open \/ interrupted = "now")

\* Deleting all accounts leaves a client that can be bootstrapped: while a
\* bootstrap server is listed and not rewritten, its own account is there, as
\* long as no bootstrap is interrupted, and none adds a bootstrap server and fails.
BootstrapAccountKept ==
  interrupted = "never" => \A i \in DOMAIN cx.bs : ~cx.bs[i].dirty => i \in DOMAIN cx.sec

\* A bootstrap that has begun ends, by finishing or by failing, even if the
\* bootstrap server falls silent (COAP_EXCHANGE_LIFETIME in bootstrap_step).
BootstrapEnds == cx.state = "BOOTSTRAPPING" ~> cx.state # "BOOTSTRAPPING"
=============================================================================

---------------------------- MODULE LwM2mServer ----------------------------
(***************************************************************************)
(* The LwM2M server of the library (LWM2M_SERVER_MODE): the registrations  *)
(* of core/registration.c, the observations of core/observe.c and the      *)
(* device management calls of core/management.c, with the devices they     *)
(* talk to.                                                                *)
(*                                                                         *)
(* A path is a sequence <<object>>, <<object, instance>> or <<object,      *)
(* instance, resource>>. The objects of a client are the set of the paths  *)
(* its registration lists. A device is known by its endpoint name and has  *)
(* one session, so a name stands for the session as well. A user call is   *)
(* known by its number, which stands for the user data it hands over.      *)
(*                                                                         *)
(* A registration's serial number is a history variable: it tells the      *)
(* observations made under the present registration of a device from the   *)
(* ones an earlier registration left, and is 0 once another device, whose  *)
(* registration was at the same place before, has updated it. A request    *)
(* to a device is delivered at most once, and requests may overtake each   *)
(* other; that each is sent again until it is answered or given up is the  *)
(* subject of CoapTransaction. A block-wise message counts as one: of an   *)
(* answer the user is handed every block, and nothing else changes before  *)
(* the last (observe.c:949 and 1099).                                      *)
(***************************************************************************)
EXTENDS Lists, SequencesExt, FiniteSetsExt, Functions

CONSTANTS
  Devices,      \* endpoint names
  Paths,        \* what the user observes or manages
  FirstObjects, \* the paths a device has at the start
  Operations,   \* what the user asks for besides observing, see OperationSent
  InOrder,      \* whether a device's answers and notifications arrive in the order it sent them
  MaxCalls,     \* bound: calls of the user
  MaxTrans,     \* bound: requests under way at a time
  MaxSerial     \* bound: registrations

ASSUME ServerAssumption ==
  /\ MaxCalls \in Nat /\ MaxTrans \in Nat /\ MaxSerial \in Nat
  /\ InOrder \in BOOLEAN
  /\ \A o \in Operations :
       o.op \in {"read", "discover", "write", "execute", "create", "delete", "attributes"}

NoLoc == -1   \* a device that is not registered, as far as it knows

VARIABLES
  clients,   \* clientList: internalID -> the client's record
  trans,     \* the requests under way; the ones a device has answered, in its order, come
             \* in the order of their answers
  dev,       \* the devices: location, objects and what they watch
  calls,     \* user calls so far
  serial,    \* history: registrations so far
  freed,     \* history: the user data the user was told to free
  answered,  \* history: the calls that failed at once or whose callback was called
  misplaced, \* history: the calls answered with a Location-Path that is not of the object
  untold,    \* history: <<device, path>> whose watch ended or changed untold
  crashed    \* the server used a null pointer or one it had freed

vars == <<clients, trans, dev, calls, serial, freed, answered, misplaced, untold, crashed>>

Status == {"REGISTERED", "REG_PENDING", "DEREG_PENDING"}

\* The function f with the value v at x.
Put(f, x, v) == [y \in DOMAIN f \cup {x} |-> IF y = x THEN v ELSE f[y]]

\* The object or instance that a path lies in.
Target(p) == SubSeq(p, 1, Min({2, Len(p)}))

\* lwm2m_list_newId: the lowest id that is not in the list.
lwm2m_list_newId(ids) == Min({n \in 0..Cardinality(ids) : n \notin ids})

(***************************************************************************)
(* The lists of observations: sorted by id, and nothing keeps an id from   *)
(* being there twice. A node that is added goes before the nodes of its    *)
(* id, but not before the head.                                            *)
(***************************************************************************)
lwm2m_list_add(s, node) ==
  IF s # <<>> /\ s[1].id > node.id THEN <<node>> \o s
  ELSE InsertAt(s, Min({j \in 2..Len(s) : s[j].id >= node.id} \cup {Len(s) + 1}), node)

lwm2m_list_find(s, id) == SelectInSeq(s, LAMBDA o : o.id = id)

lwm2m_list_remove(s, id) == RemoveFirstMatch(s, LAMBDA o : o.id = id)

----------------------------------------------------------------------------
(***************************************************************************)
(* Registrations. prv_getClientByName finds the record of a name;          *)
(* registration_handleRequest writes it anew or adds one. The observations *)
(* of a record that is reused stay, and so does its observation counter.   *)
(***************************************************************************)
prv_getClientByName(name) == {i \in DOMAIN clients : clients[i].name = name}

registration_freeClient(i) == clients' = Restrict(clients, DOMAIN clients \ {i})

\* The record a Register from d makes, in the place of old.
Registered(d, old) ==
  [old EXCEPT !.name = d, !.session = d, !.objects = dev[d].objects, !.serial = serial + 1]

NewClient(d) ==
  [name |-> d, session |-> d, objects |-> {}, serial |-> 0, observationId |-> 0, obs |-> <<>>]

\* utils_findClient: the first record of a session.
utils_findClient(session) ==
  {i \in DOMAIN clients :
     /\ clients[i].session = session
     /\ \A j \in DOMAIN clients : clients[j].session = session => i <= j}

(***************************************************************************)
(* A Register that comes in blocks is put together at the first record of  *)
(* its session, or at a new one without a name (packet.c). That record is  *)
(* reset if the name is not known, and freed if it is, also when it is the *)
(* record found by the name, which is then used.                           *)
(***************************************************************************)
handleRegister(d, blocks) ==
  LET found == prv_getClientByName(d)
      same == IF blocks THEN utils_findClient(d) ELSE {}
      id == IF found # {} THEN CHOOSE i \in found : TRUE
            ELSE IF same # {} THEN CHOOSE i \in same : TRUE
            ELSE lwm2m_list_newId(DOMAIN clients)
      left == IF found # {} THEN Restrict(clients, DOMAIN clients \ same) ELSE clients
      old == IF id \in DOMAIN left THEN left[id] ELSE NewClient(d)
  IN  IF id \in found \cap same
      THEN crashed' = TRUE /\ UNCHANGED <<clients, serial, dev>>
      ELSE /\ clients' = Put(left, id, Registered(d, old))
           /\ serial' = serial + 1
           /\ dev' = [dev EXCEPT ![d].loc = id]
           /\ UNCHANGED crashed

\* Whether a full Update ends an observation: its object or instance is gone.
Ended(o, objects) == Target(o.uri) \notin objects

\* observe_remove on the k-th observation; valid if the id leads to that node.
observe_remove(obs, k) == lwm2m_list_remove(obs, obs[k].id)

Removable(obs, k) == lwm2m_list_find(obs, obs[k].id) = k

handleUpdate(d, i, full) ==
  LET obs  == clients[i].obs
      gone == {k \in DOMAIN obs : full /\ Ended(obs[k], dev[d].objects)}
  IN  /\ clients' = [clients EXCEPT
           ![i].session = d,
           ![i].serial = IF clients[i].name = d THEN @ ELSE 0,
           ![i].objects = IF full THEN dev[d].objects ELSE @,
           ![i].obs = Keep(obs, DOMAIN obs \ gone)]
      /\ freed' = freed \cup {obs[k].data : k \in gone}
      /\ crashed' = \E k \in gone : \E j \in 1..(k - 1) :
                      obs[j].id = obs[k].id /\ j \notin gone

----------------------------------------------------------------------------
(***************************************************************************)
(* Requests. A transaction keeps the client's id, not its record, and is   *)
(* addressed to the session the record had when it was made.               *)
(***************************************************************************)
transaction_new(kind, i, uri, obs) ==
  [kind |-> kind, client |-> i, to |-> clients[i].session, uri |-> uri, obs |-> obs,
   serial |-> clients[i].serial, call |-> calls + 1, code |-> "none"]

\* The place of the first observation of a path, 0 if there is none.
prv_findObservationByURI(i, uri) ==
  SelectInSeq(clients[i].obs, LAMBDA o : o.uri = uri)

\* A fault: the counter follows the number of the observations.
NextId_count(c) == Len(c.obs) + 1

\* The id of a new observation: ++clientP->observationId.
NextId(c) == c.observationId + 1

\* No request is sent; the value that is returned tells the user.
Refused == answered' = answered \cup {calls + 1} /\ UNCHANGED trans

prv_lwm2m_observe(i, uri) ==
  LET id == NextId(clients[i])
      old == prv_findObservationByURI(i, uri)
  IN  IF lwm2m_list_find(clients[i].obs, id) # 0   \* refused, but the counter has moved on
      THEN clients' = [clients EXCEPT ![i].observationId = id] /\ Refused
      ELSE /\ trans' = Append(trans, transaction_new("observe", i, uri, id))
           /\ clients' = [clients EXCEPT
                ![i].observationId = id,
                ![i].obs = [k \in DOMAIN @ |->
                   IF k = old THEN [@[k] EXCEPT !.status = "REG_PENDING"] ELSE @[k]]]
           /\ UNCHANGED answered

prv_lwm2m_observe_cancel(i, uri) ==
  LET k == prv_findObservationByURI(i, uri)
      obs == clients[i].obs
  IN  /\ k # 0
      /\ IF obs[k].status = "REGISTERED"
         THEN /\ trans' = Append(trans, transaction_new("cancel", i, uri, obs[k].id))
              /\ clients' = [clients EXCEPT ![i].obs[k].status = "DEREG_PENDING"]
              /\ UNCHANGED <<answered, crashed>>
         ELSE /\ clients' = [clients EXCEPT ![i].obs = observe_remove(obs, k)]
              /\ crashed' = ~Removable(obs, k)
              /\ Refused

\* Which URIs the calls of management.c take, and their other conditions.
Numeric == {"gt", "lt", "st"}

lwm2m_dm_write_attributes(o) ==
  /\ o.set \cap o.clear = {}
  /\ o.set \cap Numeric # {} => Len(o.uri) = 3
  /\ Numeric \subseteq o.set => o.lt + 2 * o.st < o.gt

OperationSent(o) ==
  CASE o.op \in {"read", "discover"} -> TRUE
    [] o.op = "write"      -> Len(o.uri) >= 2
    [] o.op = "execute"    -> Len(o.uri) = 3
    [] o.op = "create"     -> Len(o.uri) = 1
    [] o.op = "delete"     -> Len(o.uri) = 2
    [] o.op = "attributes" -> lwm2m_dm_write_attributes(o)

prv_makeOperation(i, o) ==
  /\ OperationSent(o)
  /\ trans' = Append(trans, transaction_new(o.op, i, o.uri, 0))
  /\ UNCHANGED <<clients, answered>>

----------------------------------------------------------------------------
(***************************************************************************)
(* Answers. message is the code of the answer, "none" when the request was *)
(* given up. A 2.05 to an observe that is "plain" has no Observe option:   *)
(* the callback reports it as an error (4.05), as the codes above 4.00.    *)
(***************************************************************************)
Called(t) == answered' = answered \cup {t.call}

\* A fault: the new observation keeps the id of the old one.
Observed_id(t, obs, k) ==
  [id |-> IF k = 0 THEN t.obs ELSE obs[k].id, uri |-> t.uri,
   status |-> "REGISTERED", serial |-> t.serial, data |-> t.call]

\* The observation that a 2.05 makes, k being the place of the one there was.
Observed(t, obs, k) ==
  [id |-> t.obs, uri |-> t.uri, status |-> "REGISTERED", serial |-> t.serial, data |-> t.call]

\* A fault: a client that is not found ends the callback at once.
prv_obsRequestCallback_silent(t, message) ==
  /\ IF t.client \notin DOMAIN clients THEN UNCHANGED answered ELSE Called(t)
  /\ UNCHANGED <<clients, freed, crashed>>

\* A fault: the observation there was stays in the list.
prv_obsRequestCallback_keeps(t, message) ==
  /\ Called(t) /\ UNCHANGED <<freed, crashed>>
  /\ IF t.client \in DOMAIN clients /\ message = "2.05"
     THEN clients' = [clients EXCEPT ![t.client].obs = lwm2m_list_add(@, Observed(t, @, 0))]
     ELSE UNCHANGED clients

prv_obsRequestCallback(t, message) ==
  /\ Called(t)
  /\ IF t.client \notin DOMAIN clients
     THEN UNCHANGED <<clients, freed, crashed>>
     ELSE LET obs == clients[t.client].obs
              k == prv_findObservationByURI(t.client, t.uri)
              rest == IF k = 0 THEN obs ELSE lwm2m_list_remove(obs, obs[k].id)
          IN  IF message # "2.05" \/ (k # 0 /\ obs[k].status = "DEREG_PENDING")
              THEN UNCHANGED <<clients, freed, crashed>>
              ELSE /\ clients' = [clients EXCEPT ![t.client].obs =
                                    lwm2m_list_add(rest, Observed(t, obs, k))]
                   /\ freed' = IF k = 0 THEN freed ELSE freed \cup {t.call}
                   /\ crashed' = (k # 0 /\ ~Removable(obs, k))

prv_obsCancelRequestCallback(t, message) ==
  /\ Called(t) /\ UNCHANGED freed
  /\ IF t.client \notin DOMAIN clients \/ message # "2.05"
     THEN UNCHANGED <<clients, crashed>>
     ELSE LET obs == clients[t.client].obs
              k == prv_findObservationByURI(t.client, t.uri)
          IN  IF k = 0
              THEN crashed' = TRUE /\ UNCHANGED clients
              ELSE /\ clients' = [clients EXCEPT ![t.client].obs = observe_remove(obs, k)]
                   /\ crashed' = ~Removable(obs, k)

\* prv_resultCallback of management.c: a 2.01 whose Location-Path cannot be read, is no
\* URI or is not of an instance of the object ends the request without a call.
prv_resultCallback(t, message) ==
  /\ IF message = "2.01 misplaced" THEN UNCHANGED answered ELSE Called(t)
  /\ UNCHANGED <<clients, freed, crashed>>

Callback(t, message) ==
  CASE t.kind = "observe" -> prv_obsRequestCallback(t, message)
    [] t.kind = "cancel"  -> prv_obsCancelRequestCallback(t, message)
    [] OTHER              -> prv_resultCallback(t, message)

----------------------------------------------------------------------------
(***************************************************************************)
(* The devices. A device answers an observation of something it has with   *)
(* 2.05 and remembers the token: the client's id and the observation's. It *)
(* may also answer without watching, then without the option Observe, and  *)
(* place what it creates outside of the object.                            *)
(***************************************************************************)
Token(t) == [client |-> t.client, obs |-> t.obs, serial |-> t.serial]

\* What device d may become on request t, and its answer.
Handled(d, t) ==
  LET has == Target(t.uri) \in dev[d].objects
      watch(w) == [dev[d] EXCEPT !.watch = w]
      gone == [dev[d] EXCEPT !.objects = @ \ {t.uri},
                             !.watch = Restrict(@, {p \in DOMAIN @ : Target(p) # t.uri})]
      new == {p \in FirstObjects : Len(p) = 2 /\ p[1] = t.uri[1]} \ dev[d].objects
      more == [dev[d] EXCEPT !.objects = @ \cup {CHOOSE p \in new : TRUE}]
  IN  CASE t.kind = "create" ->
             IF new = {} THEN {<<dev[d], "4.00">>} ELSE {more} \X {"2.01", "2.01 misplaced"}
        [] t.kind # "create" /\ ~has -> {<<dev[d], "4.04">>}
        [] t.kind = "observe" /\ has ->
             {<<watch(Put(dev[d].watch, t.uri, Token(t))), "2.05">>, <<dev[d], "2.05 plain">>}
        [] t.kind = "cancel" /\ has ->
             {<<watch(Restrict(dev[d].watch, DOMAIN dev[d].watch \ {t.uri})), "2.05">>}
        [] t.kind = "delete" /\ has -> {<<gone, "2.02">>}
        [] OTHER -> {<<dev[d], "2.04">>}

----------------------------------------------------------------------------
Init ==
  /\ clients = <<>> /\ trans = <<>> /\ calls = 0 /\ serial = 0
  /\ freed = {} /\ answered = {} /\ misplaced = {} /\ untold = {} /\ crashed = FALSE
  /\ dev = [d \in Devices |-> [loc |-> NoLoc, objects |-> FirstObjects, watch |-> <<>>]]

\* A device that is not registered registers.
Register(d, blocks) ==
  /\ serial < MaxSerial
  /\ dev[d].loc = NoLoc
  /\ handleRegister(d, blocks)
  /\ UNCHANGED <<trans, calls, freed, answered, misplaced, untold>>

\* A device updates its registration; on 4.04 it has to register again.
Update(d, full) ==
  /\ dev[d].loc # NoLoc
  /\ IF dev[d].loc \in DOMAIN clients
     THEN handleUpdate(d, dev[d].loc, full) /\ UNCHANGED dev
     ELSE dev' = [dev EXCEPT ![d].loc = NoLoc] /\ UNCHANGED <<clients, freed, crashed>>
  /\ UNCHANGED <<trans, calls, serial, answered, misplaced, untold>>

Deregister(d) ==
  /\ dev[d].loc # NoLoc
  /\ registration_freeClient(dev[d].loc)
  /\ dev' = [dev EXCEPT ![d].loc = NoLoc]
  /\ UNCHANGED <<trans, calls, serial, freed, answered, misplaced, untold, crashed>>

\* The device restarts: it watches nothing and does not know that it registered.
Restart(d) ==
  /\ dev[d].loc # NoLoc
  /\ dev' = [dev EXCEPT ![d].loc = NoLoc, ![d].watch = <<>>]
  /\ UNCHANGED <<clients, trans, calls, serial, freed, answered, misplaced, untold, crashed>>

\* lwm2m_step, its registration_step: the clients whose lifetime is over are freed. A
\* device says with a Register or an Update how long it lives, so any of them may be.
Step ==
  \E over \in SUBSET DOMAIN clients :
    /\ over # {}
    /\ clients' = Restrict(clients, DOMAIN clients \ over)
    /\ UNCHANGED <<trans, dev, calls, serial, freed, answered, misplaced, untold, crashed>>

\* The user's calls; of those that are refused only the ones that leave a trace.
Observe(i, uri) ==
  /\ calls < MaxCalls /\ Len(trans) < MaxTrans
  /\ prv_lwm2m_observe(i, uri)
  /\ calls' = calls + 1
  /\ UNCHANGED <<dev, serial, freed, misplaced, untold, crashed>>

Cancel(i, uri) ==
  /\ calls < MaxCalls /\ Len(trans) < MaxTrans
  /\ prv_lwm2m_observe_cancel(i, uri)
  /\ calls' = calls + 1
  /\ UNCHANGED <<dev, serial, freed, misplaced, untold>>

Manage(i, o) ==
  /\ calls < MaxCalls /\ Len(trans) < MaxTrans
  /\ prv_makeOperation(i, o)
  /\ calls' = calls + 1
  /\ UNCHANGED <<dev, serial, freed, misplaced, untold, crashed>>

\* Device d has begun or ended to watch u on request t.
Done(t, d, u) == t.to = d /\ t.uri = u /\ t.code = "2.05" /\ t.kind \in {"observe", "cancel"}

\* A request of a later registration about the same path has reached the device before t.
Overtaken(t) ==
  \/ t.uri \in DOMAIN dev[t.to].watch /\ dev[t.to].watch[t.uri].serial > t.serial
  \/ \E k \in DOMAIN trans : Done(trans[k], t.to, t.uri) /\ trans[k].serial > t.serial

\* The watches of a device that request t ends or changes without telling the user
\* who observes: an instance is deleted; t is about another client's record, which the
\* device had updated and with it made its own session the one of that record; or t is
\* of a registration before the one the device watches under.
Untold(t) ==
  {<<t.to, p>> : p \in IF t.kind = "delete" THEN DOMAIN dev[t.to].watch
                       ELSE IF t.kind \in {"observe", "cancel"} /\ (t.serial = 0 \/ Overtaken(t))
                       THEN {t.uri} ELSE {}}

\* A request reaches its device, which answers it.
Deliver(k) ==
  LET t == trans[k]
  IN  /\ t.code = "none"
      /\ \E handled \in Handled(t.to, t) :
           /\ dev' = [dev EXCEPT ![t.to] = handled[1]]
           /\ trans' = Append(RemoveAt(trans, k), [t EXCEPT !.code = handled[2]])
      /\ untold' = untold \cup Untold(t)
      /\ UNCHANGED <<clients, calls, serial, freed, answered, misplaced, crashed>>

\* The answer arrives, or the request is given up.
Finish(k, message) ==
  /\ Callback(trans[k], message)
  /\ trans' = RemoveAt(trans, k)
  /\ UNCHANGED <<dev, calls, serial>>

Respond(k) ==
  /\ trans[k].code # "none"
  /\ InOrder => \A j \in 1..(k - 1) : trans[j].to = trans[k].to => trans[j].code = "none"
  /\ Finish(k, trans[k].code)
  /\ misplaced' = IF trans[k].code = "2.01 misplaced" THEN misplaced \cup {trans[k].call}
                  ELSE misplaced
  /\ UNCHANGED untold

Timeout(k) ==
  /\ Finish(k, "none")
  /\ untold' = IF trans[k].code = "none" THEN untold
               ELSE untold \cup {<<trans[k].to, trans[k].uri>>}
  /\ UNCHANGED misplaced

(***************************************************************************)
(* observe_handleNotify: a notification whose client is listed but whose   *)
(* observation is not is answered by a reset, on which the device stops.   *)
(***************************************************************************)
Unknown(token) ==
  token.client \in DOMAIN clients /\ lwm2m_list_find(clients[token.client].obs, token.obs) = 0

observe_handleNotify(d, uri) ==
  /\ InOrder => \A k \in DOMAIN trans : trans[k].to = d => trans[k].code = "none"
  /\ Unknown(dev[d].watch[uri])
  /\ dev' = [dev EXCEPT ![d].watch = Restrict(@, DOMAIN @ \ {uri})]
  /\ UNCHANGED <<clients, trans, calls, serial, freed, answered, misplaced, untold, crashed>>

Next ==
  /\ ~crashed
  /\ \/ \E d \in Devices :
          \/ \E blocks \in BOOLEAN : Register(d, blocks)
          \/ Deregister(d) \/ Restart(d)
          \/ \E full \in BOOLEAN : Update(d, full)
          \/ \E uri \in DOMAIN dev[d].watch : observe_handleNotify(d, uri)
     \/ Step
     \/ \E i \in DOMAIN clients :
          \/ \E uri \in Paths : Observe(i, uri) \/ Cancel(i, uri)
          \/ \E o \in Operations : Manage(i, o)
     \/ \E k \in DOMAIN trans : Deliver(k) \/ Respond(k) \/ Timeout(k)

Spec == Init /\ [][Next]_vars

----------------------------------------------------------------------------
(***************************************************************************)
(* The records of clients, requests, devices and histories have their      *)
(* shape, and a client is listed under the lowest ids.                     *)
(***************************************************************************)
Observations ==
  [id : 1..MaxCalls, uri : Paths, status : Status, serial : 0..MaxSerial, data : 1..MaxCalls]

TypeOK ==
  /\ \A i \in DOMAIN clients :
       /\ i \in 0..(Cardinality(Devices) - 1)
       /\ clients[i].name \in Devices /\ clients[i].session \in Devices
       /\ clients[i].objects \subseteq FirstObjects
       /\ clients[i].observationId \in 0..MaxCalls
       /\ Range(clients[i].obs) \subseteq Observations
  /\ \A k \in DOMAIN trans : trans[k].to \in Devices
  /\ \A d \in Devices : dev[d].loc \in Nat \cup {NoLoc}
  /\ freed \cup answered \cup misplaced \subseteq 1..calls /\ crashed \in BOOLEAN

(***************************************************************************)
(* A client has one observation of a path, however often the user observes *)
(* it and in whatever order the answers come: a second one would be        *)
(* notified too and could not be cancelled. What a wild pointer does is    *)
(* left out, see PointersValid.                                            *)
(***************************************************************************)
OneObservationPerPath ==
  ~crashed => \A i \in DOMAIN clients : \A m, n \in DOMAIN clients[i].obs :
    clients[i].obs[m].uri = clients[i].obs[n].uri => m = n

(***************************************************************************)
(* A notification goes to the callback of the path it is about, as long as *)
(* the device's token and the observation it finds are of one registration *)
(* (0 is none: another device had updated the record of the client).       *)
(* observe_handleNotify looks at the two ids only, and the ids of another  *)
(* registration may be the same.                                           *)
(***************************************************************************)
NotifiedRight ==
  \A d \in Devices : \A uri \in DOMAIN dev[d].watch :
    LET token == dev[d].watch[uri]
        obs == clients[token.client].obs
        k == lwm2m_list_find(obs, token.obs)
    IN  /\ token.serial # 0 /\ token.client \in DOMAIN clients
        /\ k # 0 /\ obs[k].serial = token.serial
        => obs[k].uri = uri

(***************************************************************************)
(* The server and the device agree about what is observed: of an           *)
(* observation that is REGISTERED, when no request about its path is under *)
(* way, the device watches the path with the observation's token. Left out *)
(* is what the server cannot know: a path that was deleted on the device,  *)
(* one whose last answer was lost, and one that was asked for through the  *)
(* record of another client or under an earlier registration and late, see *)
(* Untold.                                                                 *)
(***************************************************************************)
InForce(i, n) ==
  LET o == clients[i].obs[n] c == clients[i]
  IN  /\ o.status = "REGISTERED" /\ o.serial = c.serial
      /\ c.serial # 0 /\ dev[c.name].loc = i
      /\ Target(o.uri) \in dev[c.name].objects
      /\ <<c.name, o.uri>> \notin untold
      /\ \A k \in DOMAIN trans : trans[k].uri # o.uri

ObservationAgrees ==
  ~crashed => \A i \in DOMAIN clients : \A n \in DOMAIN clients[i].obs :
    InForce(i, n) =>
      LET o == clients[i].obs[n]
          watch == dev[clients[i].name].watch
      IN  o.uri \in DOMAIN watch /\ watch[o.uri].client = i /\ watch[o.uri].obs = o.id

(***************************************************************************)
(* No call is forgotten: its request is under way or the user was told how *)
(* it ended, also when the client deregistered, expired or registered anew *)
(* in the meantime. The exception is a device that places what it creates  *)
(* outside of the object: prv_resultCallback does not tell the user of its *)
(* answer.                                                                 *)
(***************************************************************************)
NoCallForgotten ==
  \A n \in 1..calls \ misplaced : n \in answered \/ \E k \in DOMAIN trans : trans[k].call = n

(***************************************************************************)
(* The user data of an observation is not freed while it is listed. The    *)
(* code reports the end of the previous observation with the user data of  *)
(* the new one, so this does not hold when a path is observed again.       *)
(***************************************************************************)
FreedUnused ==
  \A i \in DOMAIN clients : \A n \in DOMAIN clients[i].obs :
    clients[i].obs[n].data \notin freed

(***************************************************************************)
(* A cancelled observation is still listed when the answer comes, the node *)
(* that is removed is the one that is freed, and a Register's record is    *)
(* still listed when it is written. The first fails when the user cancels  *)
(* again or the client's Update ends the observation before the answer,    *)
(* the second when an earlier registration's id is in use, the third when  *)
(* a device that is registered registers in blocks (registration.c:1857).  *)
(***************************************************************************)
PointersValid == ~crashed
============================================================================

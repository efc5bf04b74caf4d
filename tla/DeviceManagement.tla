-------------------------- MODULE DeviceManagement --------------------------
(***************************************************************************)
(* Device management on the client: dm_handleRequest and the object_*      *)
(* operations it calls on the objects of module Objects, the information   *)
(* the core keeps about a server beside the Server object, and the object  *)
(* list that registration updates carry to the servers.                    *)
(*                                                                         *)
(* A request is [method, uri, format, wrap, data]: uri is the sequence of  *)
(* ids given, format "none", "text" or "tlv" (no content type, text, or    *)
(* any other), data the resources in the payload and wrap the id of the    *)
(* object instance they are wrapped in, or Whole. A request that observes  *)
(* and one that writes attributes are in module Observe.                   *)
(***************************************************************************)
EXTENDS Objects

CONSTANTS
  Servers,         \* short ids of the servers listed, all registered
  FirstObjects,    \* the objects at start
  Requests,        \* the requests a server may make
  Changes,         \* [uri, data]: values the application changes itself
  Updates,         \* servers the application asks to update without the objects
  MaxInstances,    \* bound on the instances of an object
  MaxChanges,      \* bound on the requests and changes that have an effect
  MaxCarried       \* bound on the updates on their way to a server

VARIABLES
  context,   \* objectList, and of each listed server its status, lifetime and binding
  told,      \* for each server, the instances it was last told of
  carried,   \* for each server, the object lists of the updates on their way, <<>> if without
  unsynced,  \* history: Server instances whose values the core was not told, or told
             \* and then told those of another instance with the same short id
  changes    \* how often a request or the application changed something

Methods == {"GET", "DISCOVER", "POST", "PUT", "DELETE"}

\* A list of resource instances.
IsEntries(sub) ==
  Len(sub) \in Nat /\ DOMAIN sub = 1..Len(sub) /\ \A n \in DOMAIN sub : sub[n].id \in Nat

\* A list of resources, the binding of a Server instance being its letters.
IsData(o, data) ==
  /\ Len(data) \in Nat /\ DOMAIN data = 1..Len(data)
  /\ \A k \in DOMAIN data :
       /\ data[k].id \in Nat /\ data[k].multi \in BOOLEAN
       /\ data[k].multi => IsEntries(data[k].sub)
       /\ o = Server /\ data[k].id = 7 => data[k].val = Junk \/ data[k].val \in Seq(STRING)

\* A Server instance as the object keeps it.
IsServerInstance(v) ==
  /\ ServerMandatory \subseteq DOMAIN v
  /\ v[0] \in 0..MaxUint16 /\ v[1] \in 0..MaxUint32
  /\ v[7] \in Seq(STRING) /\ Len(v[7]) <= 3
  /\ \A r \in DOMAIN v \cap ServerOptional : v[r] \in 0..MaxInt

\* An access control instance has its list.
IsAclInstance(v) == 2 \in DOMAIN v /\ v[2] \in Seq([id : Nat, val : 0..MaxUint16])

IsFcn(f) == f = [x \in DOMAIN f |-> f[x]]

ASSUME RequestsAssumption ==
  /\ \A q \in Requests : /\ q.uri \in Seq(Nat) /\ Len(q.uri) \in 1..4
                         /\ q.method \in Methods /\ IsData(q.uri[1], q.data)
  /\ \A h \in Changes : /\ h.uri \in Seq(Nat) /\ Len(h.uri) > 1
                        /\ IsData(h.uri[1], <<h.data>>)

\* Each listed server has one account, the instance with its short id.
ASSUME ObjectsAssumption ==
  /\ IsFcn(FirstObjects) /\ Server \in DOMAIN FirstObjects /\ DOMAIN FirstObjects \subseteq ObjectIds
  /\ \A o \in DOMAIN FirstObjects :
       /\ IsFcn(FirstObjects[o]) /\ \A i \in DOMAIN FirstObjects[o] : IsFcn(FirstObjects[o][i])
       /\ o \notin Creatable => DOMAIN FirstObjects[o] = {0}
       /\ o = Acl => \A i \in DOMAIN FirstObjects[o] : IsAclInstance(FirstObjects[o][i])
  /\ \A i \in DOMAIN FirstObjects[Server] :
       /\ IsServerInstance(FirstObjects[Server][i])
       /\ \A j \in DOMAIN FirstObjects[Server] :
            FirstObjects[Server][i][0] = FirstObjects[Server][j][0] => i = j
  /\ Servers \subseteq {FirstObjects[Server][i][0] : i \in DOMAIN FirstObjects[Server]} \ {0}
  /\ Updates \subseteq Servers /\ MaxInstances \in Nat /\ MaxChanges \in Nat /\ MaxCarried \in Nat

vars == <<context, told, carried, unsynced, changes>>

Known == {"U", "Q", "S", "T", "N"}
Instances(c) == {p \in ObjectIds \X (0..MaxInstances) :
                   p[1] \in DOMAIN c.objectList /\ p[2] \in DOMAIN c.objectList[p[1]]}
Res(uri) == IF Len(uri) < 3 THEN Whole ELSE uri[3]
ResInst(uri) == IF Len(uri) < 4 THEN Whole ELSE uri[4]
Answer(c, code) == [c |-> c, code |-> code]
----------------------------------------------------------------------------
\* The letters of the binding, none (BINDING_UNKNOWN) when one of them is not known.
utils_stringToBinding(b) == IF Range(b) \subseteq Known THEN Range(b) ELSE {}

\* The lifetime is taken before the binding is looked at.
prv_getMandatoryInfo(c, v, s) ==
  [c EXCEPT !.lifetime[s] = v[1], !.binding[s] = utils_stringToBinding(v[7])]

\* The instance's short id picks the server whose information is refreshed.
prv_updateServerInfo(c, i) ==
  LET v == c.objectList[Server][i]
  IN  IF v[0] \in Servers THEN prv_getMandatoryInfo(c, v, v[0]) ELSE c

\* A fault: a server whose update is on its way is left alone.
lwm2m_update_registration_registered(c) ==
  [c EXCEPT !.status = [s \in Servers |->
     IF @[s] = "REGISTERED" THEN "REG_FULL_UPDATE_NEEDED" ELSE @[s]]]

\* Called for all servers (id 0) with the objects.
lwm2m_update_registration(c) ==
  [c EXCEPT !.status = [s \in Servers |->
     IF @[s] \in {"REGISTERED", "REG_UPDATE_PENDING"} THEN "REG_FULL_UPDATE_NEEDED" ELSE @[s]]]

object_readData(c, uri) ==
  IF uri[1] \notin DOMAIN c.objectList THEN "4.04"
  ELSE LET list == c.objectList[uri[1]]
       IN  IF Len(uri) = 1
           THEN IF \A i \in DOMAIN list : readFunc(uri[1], list[i], Whole, Whole) = "2.05"
                THEN "2.05" ELSE "4.04"
           ELSE IF uri[2] \notin DOMAIN list THEN "4.04"
           ELSE readFunc(uri[1], list[uri[2]], Res(uri), ResInst(uri))

object_discover(c, uri) ==
  IF uri[1] \notin DOMAIN c.objectList THEN "4.04"
  ELSE IF uri[1] \notin Discoverable THEN "5.01"
  ELSE IF Len(uri) = 1 THEN "2.05"
  ELSE IF uri[2] \notin DOMAIN c.objectList[uri[1]] THEN "4.04"
  ELSE discoverFunc(uri[1], c.objectList[uri[1]][uri[2]], Res(uri))

WriteType(uri, partial) ==
  IF partial \/ Len(uri) = 4 THEN "PARTIAL_UPDATE"
  ELSE IF Len(uri) = 3 THEN "REPLACE_RESOURCES" ELSE "REPLACE_INSTANCE"

\* A write to a resource instance becomes a write of the resource with that instance.
Payload(uri, data) ==
  IF Len(uri) < 4 THEN data
  ELSE <<[id |-> uri[3], multi |-> TRUE, val |-> Junk,
          sub |-> [k \in DOMAIN data |-> [id |-> data[k].id, val |-> data[k].val]]]>>

\* A fault: the core is told when resources were written, not a whole instance.
object_write_resources(c, uri, data, partial) ==
  LET o == uri[1]
      Told(d, code) ==
        Answer(IF code = "2.04" /\ o = Server /\ Len(uri) > 2 THEN prv_updateServerInfo(d, uri[2]) ELSE d, code)
      Written(w) == Told([c EXCEPT !.objectList[o] = w.list], w.code)
  IN  IF o \notin DOMAIN c.objectList THEN Answer(c, "4.04")
      ELSE IF o \notin Writable THEN Answer(c, "4.05")
      ELSE IF data = <<>> THEN Answer(c, "4.06")
      ELSE Written(writeFunc(o, c.objectList[o], uri[2], Payload(uri, data),
                             WriteType(uri, partial)))

object_write(c, uri, data, partial) ==
  LET o == uri[1]
      Told(d, code) ==
        Answer(IF code = "2.04" /\ o = Server THEN prv_updateServerInfo(d, uri[2]) ELSE d, code)
      Written(w) == Told([c EXCEPT !.objectList[o] = w.list], w.code)
  IN  IF o \notin DOMAIN c.objectList THEN Answer(c, "4.04")
      ELSE IF o \notin Writable THEN Answer(c, "4.05")
      ELSE IF data = <<>> THEN Answer(c, "4.06")
      ELSE Written(writeFunc(o, c.objectList[o], uri[2], Payload(uri, data),
                             WriteType(uri, partial)))

object_execute(c, uri, payload) ==
  LET o == uri[1]
      Executed(a) == Answer([c EXCEPT !.objectList[o][uri[2]] = a.inst], a.code)
  IN  IF o \notin DOMAIN c.objectList THEN Answer(c, "4.04")
      ELSE IF o \notin Executable THEN Answer(c, "4.05")
      ELSE IF uri[2] \notin DOMAIN c.objectList[o] THEN Answer(c, "4.04")
      ELSE Executed(executeFunc(o, c.objectList[o][uri[2]], uri[3], payload))

lwm2m_list_newId(list) ==
  CHOOSE i \in 0..Cardinality(DOMAIN list) : i \notin DOMAIN list /\ \A j \in 0..(i - 1) : j \in DOMAIN list

\* An instance id that comes with the payload must be new, else the lowest free one is taken.
object_create(c, o, wrap, data) ==
  LET Created(a) == Answer([c EXCEPT !.objectList[o] = a.list], a.code)
      CreateAs(list, i) == IF i \in DOMAIN list THEN Answer(c, "4.06")
                           ELSE Created(createFunc(o, list, i, data))
  IN  IF data = <<>> THEN Answer(c, "4.00")
      ELSE IF o \notin DOMAIN c.objectList THEN Answer(c, "4.04")
      ELSE IF o \notin Creatable THEN Answer(c, "4.05")
      ELSE CreateAs(c.objectList[o],
                    IF wrap = Whole THEN lwm2m_list_newId(c.objectList[o]) ELSE wrap)

\* What was observed on the instance is cleared with it (module Observe).
object_delete(c, uri) ==
  LET o == uri[1]
      Deleted(a) == Answer([c EXCEPT !.objectList[o] = a.list], a.code)
  IN  IF o \notin DOMAIN c.objectList THEN Answer(c, "4.04")
      ELSE IF o \notin Creatable THEN Answer(c, "4.05")
      ELSE Deleted(deleteFunc(c.objectList[o], uri[2]))
----------------------------------------------------------------------------
(***************************************************************************)
(* dm_handleRequest: the answer and the context after it. A GET that       *)
(* accepts the link format only is a discovery.                            *)
(***************************************************************************)
UpdateOn(code, a) == IF a.code = code THEN Answer(lwm2m_update_registration(a.c), code) ELSE a

Post(c, q) ==
  IF Len(q.uri) = 1 THEN UpdateOn("2.01", object_create(c, q.uri[1], q.wrap, q.data))
  ELSE IF q.format \in {"none", "text"}
  THEN IF Len(q.uri) # 3 THEN Answer(c, "4.00") ELSE object_execute(c, q.uri, q.data # <<>>)
  ELSE object_write(c, q.uri, q.data, TRUE)

PutRequest(c, q) ==
  IF Len(q.uri) = 1 THEN Answer(c, "4.00") ELSE object_write(c, q.uri, q.data, FALSE)

Delete(c, q) ==
  IF Len(q.uri) # 2 THEN Answer(c, "4.00") ELSE UpdateOn("2.02", object_delete(c, q.uri))

dm_handleRequest(c, q) ==
  CASE q.uri[1] = 0 -> Answer(c, "4.01")
    [] q.uri[1] # 0 /\ q.method = "GET" -> Answer(c, object_readData(c, q.uri))
    [] q.uri[1] # 0 /\ q.method = "DISCOVER" -> Answer(c, object_discover(c, q.uri))
    [] q.uri[1] # 0 /\ q.method = "POST" -> Post(c, q)
    [] q.uri[1] # 0 /\ q.method = "PUT" -> PutRequest(c, q)
    [] q.uri[1] # 0 /\ q.method = "DELETE" -> Delete(c, q)
----------------------------------------------------------------------------
Account(s) == LET list == FirstObjects[Server] IN list[CHOOSE i \in DOMAIN list : list[i][0] = s]

Init ==
  /\ context = [objectList |-> FirstObjects,
                status |-> [s \in Servers |-> "REGISTERED"],
                lifetime |-> [s \in Servers |-> Account(s)[1]],
                binding |-> [s \in Servers |-> utils_stringToBinding(Account(s)[7])]]
  /\ told = [s \in Servers |-> Instances(context)]
  /\ carried = [s \in Servers |-> <<>>]
  /\ unsynced = {}
  /\ changes = 0

ServerInstances(c) == DOMAIN c.objectList[Server]

\* Server instances that are new or differ.
Differing(c, d) ==
  {i \in ServerInstances(d) :
     i \notin ServerInstances(c) \/ c.objectList[Server][i] # d.objectList[Server][i]}

\* The core is told of a successful object_write on the Server object.
Tells(q, code) ==
  /\ q.uri[1] = Server /\ Len(q.uri) > 1 /\ code = "2.04"
  /\ q.method = "PUT" \/ (q.method = "POST" /\ q.format \notin {"none", "text"})

\* The other instances with the short id of instance i.
Twins(c, i) ==
  {j \in ServerInstances(c) \ {i} : c.objectList[Server][j][0] = c.objectList[Server][i][0]}

Counted == changes' = IF context' = context THEN changes ELSE changes + 1

Request(q) ==
  \E a \in {dm_handleRequest(context, q)} :
    /\ changes < MaxChanges \/ a.c = context
    /\ \A o \in DOMAIN a.c.objectList : Cardinality(DOMAIN a.c.objectList[o]) <= MaxInstances
    /\ context' = a.c
    /\ unsynced' = IF Tells(q, a.code) THEN (unsynced \cup Twins(a.c, q.uri[2])) \ {q.uri[2]}
                   ELSE (unsynced \cup Differing(context, a.c)) \cap ServerInstances(a.c)
    /\ Counted
    /\ UNCHANGED <<told, carried>>

\* The application changes a value with the object's write, or device_change when
\* that is not allowed; no registration update and no news to the core.
handle_value_changed(h) ==
  LET o == h.uri[1]
      Changed(w) == IF w.code = "4.05" /\ o = Device
                    THEN [w.list EXCEPT ![h.uri[2]] = device_change(@, h.data).inst] ELSE w.list
  IN  /\ changes < MaxChanges
      /\ o \in Writable \cap DOMAIN context.objectList
      /\ context' = [context EXCEPT !.objectList[o] =
           Changed(writeFunc(o, context.objectList[o], h.uri[2], <<h.data>>, "PARTIAL_UPDATE"))]
      /\ unsynced' = unsynced \cup Differing(context, context')
      /\ Counted
      /\ UNCHANGED <<told, carried>>

\* The client's command to update the registration at one server, without the objects.
prv_update(s) ==
  /\ context' = [context EXCEPT !.status[s] =
                   IF @ \in {"REGISTERED", "REG_UPDATE_PENDING"} THEN "REG_UPDATE_NEEDED" ELSE @]
  /\ UNCHANGED <<told, carried, unsynced, changes>>

\* registration_step sends the update that is needed, with the objects or without.
prv_updateRegistration(s) ==
  /\ context.status[s] \in {"REG_UPDATE_NEEDED", "REG_FULL_UPDATE_NEEDED"}
  /\ Len(carried[s]) < MaxCarried
  /\ carried' = [carried EXCEPT ![s] = Append(@,
                   IF context.status[s] = "REG_FULL_UPDATE_NEEDED" THEN <<Instances(context)>>
                   ELSE <<>>)]
  /\ context' = [context EXCEPT !.status[s] = "REG_UPDATE_PENDING"]
  /\ UNCHANGED <<told, unsynced, changes>>

\* The server takes the update and its answer 2.04 is handled; it only counts while
\* the update is pending.
prv_handleRegistrationUpdateReply(s) ==
  /\ carried[s] # <<>>
  /\ told' = [told EXCEPT ![s] = IF Head(carried[s]) = <<>> THEN @ ELSE Head(carried[s])[1]]
  /\ carried' = [carried EXCEPT ![s] = Tail(@)]
  /\ context' = [context EXCEPT !.status[s] = IF @ = "REG_UPDATE_PENDING" THEN "REGISTERED" ELSE @]
  /\ UNCHANGED <<unsynced, changes>>

Next ==
  \/ \E q \in Requests : Request(q)
  \/ \E h \in Changes : handle_value_changed(h)
  \/ \E s \in Updates : prv_update(s)
  \/ \E s \in Servers : prv_updateRegistration(s)
  \/ \E s \in Servers : prv_handleRegistrationUpdateReply(s)

Spec == Init /\ [][Next]_vars
----------------------------------------------------------------------------
(***************************************************************************)
(* Properties.                                                             *)
(***************************************************************************)
(* The objects keep the instances their constructors allow, a listed       *)
(* server stays registered, and the information of the core is of its type.*)
TypeOK ==
  /\ DOMAIN context.objectList = DOMAIN FirstObjects
  /\ \A o \in DOMAIN FirstObjects \ Creatable : DOMAIN context.objectList[o] = {0}
  /\ \A i \in ServerInstances(context) : IsServerInstance(context.objectList[Server][i])
  /\ Acl \in DOMAIN FirstObjects =>
       \A i \in DOMAIN context.objectList[Acl] : IsAclInstance(context.objectList[Acl][i])
  /\ context.status \in [Servers -> {"REGISTERED", "REG_UPDATE_NEEDED", "REG_FULL_UPDATE_NEEDED",
                                     "REG_UPDATE_PENDING"}]
  /\ context.lifetime \in [Servers -> 0..MaxUint32]
  /\ context.binding \in [Servers -> SUBSET Known]
  /\ unsynced \subseteq ServerInstances(context) /\ changes \in 0..MaxChanges

\* The object list the server has once the updates on their way arrived.
Advertised(s) ==
  LET full == {k \in DOMAIN carried[s] : carried[s][k] # <<>>}
  IN  IF full = {} THEN told[s] ELSE carried[s][Max(full)][1]

(* Creating and deleting instances is announced to every server: unless a  *)
(* full update is still needed, an instance that exists is in the object   *)
(* list the server has or is about to get, however requests, updates and   *)
(* their answers interleave (dm_handleRequest, lwm2m_update_registration). *)
(* Servers that are also updated without the objects are left out: see     *)
(* ObjectListSent.                                                         *)
InstancesAdvertised ==
  \A s \in Servers \ Updates :
    context.status[s] # "REG_FULL_UPDATE_NEEDED" => Instances(context) \subseteq Advertised(s)

(* "If withObjects is true, the registration update contains the object    *)
(* list", says the header of lwm2m_update_registration: so it should be    *)
(* for every server, whatever update was already needed. Not checked: the  *)
(* code drops the list of a server that already needs an update without it.*)
ObjectListSent ==
  \A s \in Servers :
    context.status[s] # "REG_FULL_UPDATE_NEEDED" => Instances(context) \subseteq Advertised(s)

(* The core works with the lifetime and binding of the Server object: they *)
(* agree for each listed server, whatever was written, replaced or renamed,*)
(* unless the instance was changed in a way the core is not told of (a     *)
(* refused write, a creation, the application), or another instance with   *)
(* the same short id was written after it (unsynced).                      *)
CoreInSync ==
  \A i \in ServerInstances(context) \ unsynced :
    LET v == context.objectList[Server][i]
    IN  v[0] \in Servers => /\ context.lifetime[v[0]] = v[1]
                            /\ context.binding[v[0]] = utils_stringToBinding(v[7])

(* "Server object has been written to, and this needs to be reflected in   *)
(* the core": what the comment in object_write says of every write. Not    *)
(* checked: a write that fails halfway is not reflected.                   *)
ServerWriteReflected ==
  \A i \in ServerInstances(context) :
    LET v == context.objectList[Server][i]
    IN  v[0] \in Servers => context.lifetime[v[0]] = v[1]

(* The lists the callbacks make up agree with what they read one by one,   *)
(* after any creation, replacement or write: reading a whole instance or   *)
(* object never fails on a resource that is not there, and Discover lists  *)
(* each resource that can be read or executed, and none that is not found; *)
(* discovering one resource agrees with the list.                          *)
ReadsAgree ==
  /\ \A o \in DOMAIN context.objectList :
       /\ object_readData(context, <<o>>) = "2.05"
       /\ \A i \in DOMAIN context.objectList[o] : object_readData(context, <<o, i>>) = "2.05"
  /\ \A o \in {Server, Device} \cap DOMAIN context.objectList :
       \A i \in DOMAIN context.objectList[o] :
         \A r \in 0..21 :
           LET listed == r \in Discovered(o, context.objectList[o][i])
           IN  /\ listed <=> object_readData(context, <<o, i, r>>) # "4.04"
               /\ listed <=> object_discover(context, <<o, i, r>>) = "2.05"

Failed(code) == code \notin {"2.01", "2.02", "2.04", "2.05"}
Replaces(q) == q.method = "PUT" /\ Len(q.uri) = 2

(* A request that is refused leaves no trace, in any state: a creation     *)
(* whose resources are refused halfway leaves no instance, and a write of  *)
(* one resource leaves it as it was, an access control list included whose *)
(* last entry is bad. Writes of several resources and replacements of a    *)
(* whole instance are applied up to the first refused one, and left out.   *)
RefusedLeavesNoTrace ==
  \A q \in Requests :
    \A a \in {dm_handleRequest(context, q)} :
      Failed(a.code) /\ (Len(q.data) <= 1 \/ Len(q.uri) = 1) /\ ~Replaces(q) => a.c = context

ValueOf(c, uri) == c.objectList[uri[1]][uri[2]][uri[3]]
Wrote(q, a) == q.method \in {"PUT", "POST"} /\ q.format = "tlv" /\ Len(q.uri) > 1 /\ a.code = "2.04"

\* The last of the resources with the same id.
IsLast(list, k) == \A j \in DOMAIN list : list[j].id = list[k].id => j <= k

\* Each resource instance of sub is found, with a value that sub has for it.
ReadsEntries(list, sub) ==
  \A n \in DOMAIN sub :
    \E j \in DOMAIN sub : sub[j].id = sub[n].id /\ ReadEntry(list, sub[n].id) = sub[j].val

(* A value that was written and can be read is the value written, the last *)
(* one when a resource comes more than once, whether it came alone, with   *)
(* others, in a replaced instance or in a resource instance. Of a resource *)
(* instance that comes more than once it is one of them (lwm2m_list_add    *)
(* keeps both; which is found depends on where they are). The binding is   *)
(* left out: letters the client does not know are dropped without error.   *)
WrittenIsRead ==
  \A q \in Requests :
    \A a \in {dm_handleRequest(context, q)}, p \in {Payload(q.uri, q.data)} :
        Wrote(q, a) =>
          \A k \in DOMAIN p :
            LET uri == <<q.uri[1], q.uri[2], p[k].id>>
                sub == p[k].sub
            IN  p[k].id # 7 /\ IsLast(p, k) /\ object_readData(a.c, uri) = "2.05" =>
                  IF p[k].multi
                  THEN ReadsEntries(ValueOf(a.c, uri), sub)
                  ELSE ValueOf(a.c, uri) = p[k].val
=============================================================================

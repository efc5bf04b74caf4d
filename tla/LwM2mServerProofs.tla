------------------------- MODULE LwM2mServerProofs -------------------------
(***************************************************************************)
(* Proofs about LwM2mServer, for any devices, paths and operations and any *)
(* number of calls, requests under way and registrations: no call is       *)
(* forgotten, a client has one observation of a path, a notification goes  *)
(* to the callback of its path, and, when a device's answers and           *)
(* notifications stay in order, server and device agree about what is      *)
(* observed.                                                               *)
(***************************************************************************)
EXTENDS LwM2mServer, ListLemmas

\* A request under way has the fields transaction_new gives it.
IsRequest(t) ==
  t = [kind |-> t.kind, client |-> t.client, to |-> t.to, uri |-> t.uri, obs |-> t.obs,
       serial |-> t.serial, call |-> t.call, code |-> t.code]

IsRequestList(s) == (\E S : s \in Seq(S)) /\ \A k \in DOMAIN s : IsRequest(s[k])

\* The call n was answered, or s has a request of it.
Accounted(n, told, s) == n \in told \/ \E k \in DOMAIN s : s[k].call = n

(***************************************************************************)
(* The inductive invariant. The shape of the requests is what lets a step  *)
(* that appends, moves or removes one leave the calls of the others.       *)
(***************************************************************************)
IInv ==
  /\ calls \in Nat
  /\ IsRequestList(trans)
  /\ \A n \in 1..calls : Accounted(n, answered \cup misplaced, trans)

\* A request that is appended is found at the end, and the others where they were.
LEMMA AppendRequest ==
  ASSUME NEW s, IsRequestList(s), NEW t, IsRequest(t)
  PROVE  /\ IsRequestList(Append(s, t))
         /\ \A n : Accounted(n, {}, s) => Accounted(n, {}, Append(s, t))
         /\ Accounted(t.call, {}, Append(s, t))
<1>1. PICK S : s \in Seq(S)
  BY DEF IsRequestList
<1> DEFINE T == S \cup {t}
<1>2. s \in Seq(T) /\ t \in T
  BY <1>1
<1>3. /\ Append(s, t) \in Seq(T)
      /\ Len(s) \in Nat /\ DOMAIN s = 1..Len(s)
      /\ DOMAIN Append(s, t) = 1..(Len(s) + 1)
      /\ \A i \in 1..Len(s) : Append(s, t)[i] = s[i]
      /\ Append(s, t)[Len(s) + 1] = t
  BY <1>2, AppendProperties, LenProperties
<1>4. \A k \in DOMAIN Append(s, t) : k \in DOMAIN s \/ k = Len(s) + 1
  BY <1>3
<1>5. IsRequestList(Append(s, t))
  BY <1>3, <1>4 DEF IsRequestList
<1>6. Len(s) + 1 \in DOMAIN Append(s, t) /\ DOMAIN s \subseteq DOMAIN Append(s, t)
  BY <1>3
<1> QED
  BY <1>3, <1>5, <1>6 DEF Accounted

\* When a request leaves the list, only its own call is no longer under way.
LEMMA RemoveRequest ==
  ASSUME NEW s, IsRequestList(s), NEW k \in DOMAIN s
  PROVE  /\ IsRequestList(RemoveAt(s, k))
         /\ \A n : Accounted(n, {}, s) => Accounted(n, {s[k].call}, RemoveAt(s, k))
<1> DEFINE r == RemoveAt(s, k)
<1>1. PICK S : s \in Seq(S)
  BY DEF IsRequestList
<1>2. /\ r \in Seq(S)
      /\ \A j \in DOMAIN r : /\ j \in DOMAIN s /\ j + 1 \in DOMAIN s
                            /\ r[j] = IF j < k THEN s[j] ELSE s[j + 1]
  BY <1>1, RemoveAtElements
<1>3. \A j \in DOMAIN s : j # k => \E i \in DOMAIN r : r[i] = s[j]
  BY <1>1, RemoveAtKeeps
<1> HIDE DEF r
<1>4. IsRequestList(r)
  BY <1>2 DEF IsRequestList
<1>5. ASSUME NEW n, Accounted(n, {}, s) PROVE Accounted(n, {s[k].call}, r)
  BY <1>3, <1>5 DEF Accounted
<1> QED
  BY <1>4, <1>5 DEF r

\* The answer of a device changes the code and the place of its request only.
LEMMA MoveRequest ==
  ASSUME NEW s, IsRequestList(s), NEW k \in DOMAIN s, NEW c
  PROVE  LET r == Append(RemoveAt(s, k), [s[k] EXCEPT !.code = c])
         IN  /\ IsRequestList(r)
             /\ \A n : Accounted(n, {}, s) => Accounted(n, {}, r)
<1> DEFINE u == [s[k] EXCEPT !.code = c]
           q == RemoveAt(s, k)
<1>1. IsRequest(s[k])
  BY DEF IsRequestList
<1>2. u.call = s[k].call /\ IsRequest(u)
  BY <1>1 DEF IsRequest
<1>3. IsRequestList(q) /\ \A n : Accounted(n, {}, s) => Accounted(n, {s[k].call}, q)
  BY RemoveRequest
<1> HIDE DEF u, q
<1>4. /\ IsRequestList(Append(q, u))
      /\ \A n : Accounted(n, {}, q) => Accounted(n, {}, Append(q, u))
      /\ Accounted(u.call, {}, Append(q, u))
  BY <1>2, <1>3, AppendRequest
<1>5. ASSUME NEW n, Accounted(n, {}, s) PROVE Accounted(n, {}, Append(q, u))
  BY <1>2, <1>3, <1>4, <1>5 DEF Accounted
<1> QED
  BY <1>4, <1>5 DEF u, q

\* A call of the user puts its request on the list or is answered at once.
LEMMA CallIInv ==
  ASSUME IInv, NEW t, IsRequest(t), t.call = calls + 1, calls' = calls + 1,
         misplaced' = misplaced,
         \/ trans' = Append(trans, t) /\ answered' = answered
         \/ trans' = trans /\ answered' = answered \cup {calls + 1}
  PROVE  IInv'
<1>1. calls \in Nat /\ IsRequestList(trans) /\ calls + 1 \in Nat
  BY DEF IInv
<1>2. ASSUME NEW n \in 1..(calls + 1) PROVE n \in 1..calls \/ n = calls + 1
  BY <1>1
<1>3. CASE trans' = Append(trans, t) /\ answered' = answered
  <2>1. IsRequestList(trans')
    BY <1>1, <1>3, AppendRequest
  <2>2. ASSUME NEW n \in 1..calls PROVE Accounted(n, (answered \cup misplaced)', trans')
    <3>1. Accounted(n, answered \cup misplaced, trans)
      BY DEF IInv
    <3>2. Accounted(n, {}, trans) => Accounted(n, {}, Append(trans, t))
      BY <1>1, AppendRequest
    <3> QED BY <1>3, <3>1, <3>2 DEF Accounted
  <2>3. Accounted(calls + 1, {}, Append(trans, t))
    BY <1>1, AppendRequest
  <2>4. Accounted(calls + 1, (answered \cup misplaced)', trans')
    BY <1>3, <2>3 DEF Accounted
  <2> QED BY <1>1, <1>2, <2>1, <2>2, <2>4 DEF IInv
<1>4. CASE trans' = trans /\ answered' = answered \cup {calls + 1}
  <2>1. ASSUME NEW n \in 1..(calls + 1) PROVE Accounted(n, (answered \cup misplaced)', trans')
    BY <1>2, <1>4 DEF IInv, Accounted
  <2> QED BY <1>1, <1>4, <2>1 DEF IInv
<1> QED BY <1>3, <1>4

\* What does not concern the user's calls leaves the invariant alone.
LEMMA OtherIInv == IInv /\ UNCHANGED <<calls, trans, answered, misplaced>> => IInv'
BY DEF IInv

\* transaction_new makes a request of the next call.
LEMMA NewRequest ==
  ASSUME NEW kind, NEW i, NEW uri, NEW obs
  PROVE  LET t == transaction_new(kind, i, uri, obs)
         IN  IsRequest(t) /\ t.call = calls + 1
BY DEF transaction_new, IsRequest

\* The user's calls.
LEMMA UserIInv ==
  ASSUME IInv, NEW i, NEW uri, NEW o,
         Observe(i, uri) \/ Cancel(i, uri) \/ Manage(i, o)
  PROVE  IInv'
<1>1. calls' = calls + 1 /\ misplaced' = misplaced
  BY DEF Observe, Cancel, Manage
<1>2. PICK kind, path, obs :
        \/ trans' = Append(trans, transaction_new(kind, i, path, obs)) /\ answered' = answered
        \/ trans' = trans /\ answered' = answered \cup {calls + 1}
  <2>1. CASE Observe(i, uri)
    BY <2>1 DEF Observe, prv_lwm2m_observe, Refused
  <2>2. CASE Cancel(i, uri)
    BY <2>2 DEF Cancel, prv_lwm2m_observe_cancel, Refused
  <2>3. CASE Manage(i, o)
    BY <2>3 DEF Manage, prv_makeOperation
  <2> QED BY <2>1, <2>2, <2>3
<1> QED BY <1>1, <1>2, NewRequest, CallIInv

\* A request reaches its device.
LEMMA DeliverIInv ==
  ASSUME IInv, NEW k \in DOMAIN trans, Deliver(k)
  PROVE  IInv'
<1>1. PICK c : trans' = Append(RemoveAt(trans, k), [trans[k] EXCEPT !.code = c])
  BY DEF Deliver
<1>2. calls' = calls /\ answered' = answered /\ misplaced' = misplaced
  BY DEF Deliver
<1>3. /\ IsRequestList(trans')
      /\ \A n : Accounted(n, {}, trans) => Accounted(n, {}, trans')
  BY <1>1, MoveRequest DEF IInv
<1> QED BY <1>2, <1>3 DEF IInv, Accounted

\* An answer, or the end of the retransmissions, is told to the user, but for the place
\* of a new instance that is not in its object.
LEMMA FinishIInv ==
  ASSUME IInv, NEW k \in DOMAIN trans, NEW message, Finish(k, message),
         misplaced \subseteq misplaced',
         message # "2.01 misplaced" \/ trans[k].call \in misplaced'
  PROVE  IInv'
<1>1. Callback(trans[k], message)
  BY DEF Finish
<1>2. \/ answered' = answered \cup {trans[k].call}
      \/ message = "2.01 misplaced" /\ answered' = answered
  BY <1>1 DEF Callback, prv_obsRequestCallback, prv_obsCancelRequestCallback,
              prv_resultCallback, Called
<1>3. trans' = RemoveAt(trans, k) /\ calls' = calls
  BY DEF Finish
<1>4. /\ IsRequestList(trans')
      /\ \A n : Accounted(n, {}, trans) => Accounted(n, {trans[k].call}, trans')
  BY <1>3, RemoveRequest DEF IInv
<1>5. /\ answered \cup misplaced \subseteq (answered \cup misplaced)'
      /\ trans[k].call \in (answered \cup misplaced)'
  BY <1>2
<1>6. ASSUME NEW n \in 1..calls PROVE Accounted(n, (answered \cup misplaced)', trans')
  BY <1>4, <1>5 DEF IInv, Accounted
<1> QED BY <1>3, <1>4, <1>6 DEF IInv

\* At the start there are no calls.
LEMMA InitIInv == Init => IInv
<1> SUFFICES ASSUME Init PROVE IInv
  OBVIOUS
<1>1. calls = 0 /\ trans = <<>>
  BY DEF Init
<1>2. trans \in Seq({}) /\ DOMAIN trans = {}
  BY <1>1
<1> QED BY <1>1, <1>2 DEF IInv, IsRequestList

\* Every step preserves the inductive invariant.
LEMMA NextIInv == IInv /\ [Next]_vars => IInv'
<1> SUFFICES ASSUME IInv, [Next]_vars PROVE IInv'
  OBVIOUS
<1>1. ASSUME NEW d \in Devices,
             \/ \E blocks \in BOOLEAN : Register(d, blocks)
             \/ Deregister(d) \/ Restart(d)
             \/ \E full \in BOOLEAN : Update(d, full)
             \/ \E uri \in DOMAIN dev[d].watch : observe_handleNotify(d, uri)
      PROVE  UNCHANGED <<calls, trans, answered, misplaced>>
  BY <1>1 DEF Register, Deregister, Restart, Update, handleUpdate, observe_handleNotify
<1>2. CASE Step
  BY <1>2, OtherIInv DEF Step
<1>3. ASSUME NEW i \in DOMAIN clients,
             \/ \E uri \in Paths : Observe(i, uri) \/ Cancel(i, uri)
             \/ \E o \in Operations : Manage(i, o)
      PROVE  IInv'
  BY <1>3, UserIInv
<1>4. ASSUME NEW k \in DOMAIN trans, Deliver(k) \/ Respond(k) \/ Timeout(k)
      PROVE  IInv'
  <2>1. CASE Deliver(k)
    BY <2>1, DeliverIInv
  <2>2. CASE Respond(k)
    BY <2>2, FinishIInv DEF Respond
  <2>3. CASE Timeout(k)
    BY <2>3, FinishIInv DEF Timeout
  <2> QED BY <1>4, <2>1, <2>2, <2>3
<1>5. CASE UNCHANGED vars
  BY <1>5, OtherIInv DEF vars
<1> QED
  BY <1>1, <1>2, <1>3, <1>4, <1>5, OtherIInv DEF Next

(* Whatever the devices do, and whether or not messages arrive in order,   *)
(* every call of lwm2m_observe, lwm2m_observe_cancel and the lwm2m_dm      *)
(* functions has its request under way or was answered, but for a          *)
(* lwm2m_dm_create whose device answers with a Location-Path that is not   *)
(* of the object.                                                          *)
THEOREM CallsAnswered == Spec => []NoCallForgotten
<1>1. IInv => NoCallForgotten
  BY DEF IInv, Accounted, NoCallForgotten
<1> QED BY <1>1, InitIInv, NextIInv, PTL DEF Spec
----------------------------------------------------------------------------
(***************************************************************************)
(* The lists of observations. Whatever a step does to one, the nodes of    *)
(* the new list are nodes of the old one, each once, and perhaps one more. *)
(***************************************************************************)
IsObservation(o) ==
  o = [id |-> o.id, uri |-> o.uri, status |-> o.status, serial |-> o.serial, data |-> o.data]

IsObsList(s) == (\E S : s \in Seq(S)) /\ \A k \in DOMAIN s : IsObservation(s[k])

\* The node p, which may have lost the status REGISTERED.
Same(o, p) ==
  /\ o.id = p.id /\ o.uri = p.uri /\ o.serial = p.serial
  /\ o.status = "REGISTERED" => p.status = "REGISTERED"

\* At the positions D of r are nodes of s, from the positions in K, each once.
Part(r, D, s, K) ==
  \E f \in [D -> K] :
    /\ \A j \in D : Same(r[j], s[f[j]])
    /\ \A i, j \in D : f[i] = f[j] => i = j

\* r has the nodes of s at the positions in K.
Fewer(r, s, K) == IsObsList(r) /\ Part(r, DOMAIN r, s, K)

\* r has node and the nodes of s at the positions in K.
More(r, s, K, node) ==
  /\ IsObsList(r)
  /\ \E p \in DOMAIN r : Same(r[p], node) /\ Part(r, DOMAIN r \ {p}, s, K)

\* The list is what it was.
LEMMA SameList ==
  ASSUME NEW s, IsObsList(s)
  PROVE  Fewer(s, s, DOMAIN s)
<1> DEFINE f == [j \in DOMAIN s |-> j]
<1>1. f \in [DOMAIN s -> DOMAIN s] /\ \A j \in DOMAIN s : f[j] = j
  OBVIOUS
<1> HIDE DEF f
<1> QED
  BY <1>1 DEF Fewer, Part, Same

\* list_find returns the place of the first node of an id, and removing takes it out.
LEMMA FindRemove ==
  ASSUME NEW s, IsObsList(s), NEW id
  PROVE  LET k == lwm2m_list_find(s, id)
             r == lwm2m_list_remove(s, id)
         IN  /\ k # 0 => k \in DOMAIN s /\ s[k].id = id
             /\ k = 0 => r = s /\ \A j \in DOMAIN s : s[j].id # id
             /\ Fewer(r, s, DOMAIN s \ {k})
<1> DEFINE hits == {i \in 1..Len(s) : s[i].id = id}
           k == IF hits # {} THEN Min(hits) ELSE 0
           r == IF hits # {} THEN RemoveAt(s, k) ELSE s
<1>1. lwm2m_list_find(s, id) = k
  BY DEF lwm2m_list_find, SelectInSeq
<1>2. lwm2m_list_remove(s, id) = r
  <2>1. (\E i \in 1..Len(s) : s[i].id = id) <=> hits # {}
    OBVIOUS
  <2> QED
    BY <2>1 DEF lwm2m_list_remove, RemoveFirstMatch, SelectInSeq
<1>3. PICK S : s \in Seq(S)
  BY DEF IsObsList
<1>4. Len(s) \in Nat /\ DOMAIN s = 1..Len(s)
  BY <1>3
<1>5. /\ k \in Nat
      /\ k = 0 => hits = {}
      /\ k # 0 => k \in hits
  BY <1>4, FirstHit
<1>6. CASE hits = {}
  <2>1. k = 0 /\ r = s /\ \A j \in DOMAIN s : s[j].id # id
    BY <1>4, <1>6
  <2>2. DOMAIN s \ {0} = DOMAIN s
    BY <1>4
  <2> QED
    BY <1>1, <1>2, <2>1, <2>2, SameList
<1>7. CASE hits # {}
  <2>1. k \in hits /\ k # 0 /\ k \in DOMAIN s /\ s[k].id = id
    BY <1>4, <1>5, <1>7
  <2> HIDE DEF k
  <2>2. r = RemoveAt(s, k)
    BY <1>7
  <2> HIDE DEF r, hits
  <2>3. /\ r \in Seq(S) /\ Len(r) = Len(s) - 1
        /\ \A j \in DOMAIN r : /\ j \in DOMAIN s /\ j + 1 \in DOMAIN s
                              /\ r[j] = IF j < k THEN s[j] ELSE s[j + 1]
    BY <1>3, <2>1, <2>2, RemoveAtElements
  <2> DEFINE f == [j \in DOMAIN r |-> IF j < k THEN j ELSE j + 1]
  <2>4. \A j \in DOMAIN r : j \in Nat /\ k \in Nat
    BY <1>4, <2>1, <2>3
  <2>5. f \in [DOMAIN r -> DOMAIN s \ {k}]
    BY <2>3, <2>4
  <2>6. \A j \in DOMAIN r : f[j] = (IF j < k THEN j ELSE j + 1) /\ r[j] = s[f[j]]
    BY <2>3
  <2>7. \A i, j \in DOMAIN r : f[i] = f[j] => i = j
    BY <2>4
  <2> HIDE DEF f
  <2>8. \A j \in DOMAIN r : IsObservation(r[j])
    BY <2>5, <2>6 DEF IsObsList
  <2>9. Fewer(r, s, DOMAIN s \ {k})
    BY <2>3, <2>5, <2>6, <2>7, <2>8 DEF Fewer, Part, Same, IsObsList
  <2> QED
    BY <1>1, <1>2, <2>1, <2>9
<1> QED
  BY <1>6, <1>7

\* The place of a node that is searched by its path.
LEMMA FindByUri ==
  ASSUME NEW i, IsObsList(clients[i].obs), NEW uri
  PROVE  LET k == prv_findObservationByURI(i, uri)
             s == clients[i].obs
         IN  /\ k # 0 => k \in DOMAIN s /\ s[k].uri = uri
             /\ k = 0 => \A j \in DOMAIN s : s[j].uri # uri
<1> DEFINE s == clients[i].obs
           hits == {j \in 1..Len(s) : s[j].uri = uri}
           k == IF hits # {} THEN Min(hits) ELSE 0
<1>1. prv_findObservationByURI(i, uri) = k
  BY DEF prv_findObservationByURI, SelectInSeq
<1>2. Len(s) \in Nat /\ DOMAIN s = 1..Len(s)
  BY DEF IsObsList
<1>3. /\ k = 0 => hits = {}
      /\ k # 0 => k \in hits
  BY <1>2, FirstHit
<1> QED
  BY <1>1, <1>2, <1>3

\* Adding a node keeps the ones that are there.
LEMMA AddNode ==
  ASSUME NEW s, IsObsList(s), NEW node, IsObservation(node)
  PROVE  More(lwm2m_list_add(s, node), s, DOMAIN s, node)
<1> DEFINE r == lwm2m_list_add(s, node)
<1>1. PICK S : s \in Seq(S)
  BY DEF IsObsList
<1> DEFINE T == S \cup {node}
<1>2. s \in Seq(T) /\ node \in T /\ Len(s) \in Nat /\ DOMAIN s = 1..Len(s)
  BY <1>1
<1> HIDE DEF T
<1>3. \E p \in 1..(Len(s) + 1) :
        /\ r \in Seq(T) /\ Len(r) = Len(s) + 1 /\ r[p] = node
        /\ \A j \in 1..(Len(s) + 1) :
             /\ j < p => j \in DOMAIN s /\ r[j] = s[j]
             /\ j > p => j - 1 \in DOMAIN s /\ r[j] = s[j - 1]
  <2>1. CASE s # <<>> /\ s[1].id > node.id
    <3>1. r = <<node>> \o s
      BY <2>1 DEF lwm2m_list_add
    <3>2. /\ r \in Seq(T) /\ Len(r) = Len(s) + 1 /\ r[1] = node
          /\ \A j \in 2..(Len(s) + 1) : j - 1 \in 1..Len(s) /\ r[j] = s[j - 1]
      BY <1>2, <3>1, ConsElements
    <3> HIDE DEF r
    <3>3. \A j \in 1..(Len(s) + 1) : ~(j < 1) /\ (j > 1 => j \in 2..(Len(s) + 1))
      BY <1>2
    <3>4. 1 \in 1..(Len(s) + 1)
      BY <1>2
    <3> QED
      BY <1>2, <3>2, <3>3, <3>4
  <2>2. CASE ~(s # <<>> /\ s[1].id > node.id)
    <3> DEFINE at == {j \in 2..Len(s) : s[j].id >= node.id} \cup {Len(s) + 1}
               p == Min(at)
    <3>1. r = InsertAt(s, p, node)
      BY <2>2 DEF lwm2m_list_add
    <3>2. at \in SUBSET Nat /\ at # {} /\ at \in SUBSET (1..(Len(s) + 1))
      BY <1>2
    <3>3. p \in at
      BY <3>2, MinOfNats
    <3>4. p \in 1..(Len(s) + 1)
      BY <3>2, <3>3
    <3> HIDE DEF p, r, at
    <3>5. s \in Seq(T) /\ node \in T
      BY <1>2
    <3>6. /\ InsertAt(s, p, node) \in Seq(T) /\ Len(InsertAt(s, p, node)) = Len(s) + 1
          /\ InsertAt(s, p, node)[p] = node
          /\ \A j \in 1..(Len(s) + 1) :
               /\ j < p => j \in DOMAIN s /\ InsertAt(s, p, node)[j] = s[j]
               /\ j > p => j - 1 \in DOMAIN s /\ InsertAt(s, p, node)[j] = s[j - 1]
      BY ONLY <3>4, <3>5, InsertAtElements
    <3> QED
      BY <3>1, <3>4, <3>6
  <2> QED
    BY <2>1, <2>2
<1> HIDE DEF r
<1>4. PICK p \in 1..(Len(s) + 1) :
        /\ r \in Seq(T) /\ Len(r) = Len(s) + 1 /\ r[p] = node
        /\ \A j \in 1..(Len(s) + 1) :
             /\ j < p => j \in DOMAIN s /\ r[j] = s[j]
             /\ j > p => j - 1 \in DOMAIN s /\ r[j] = s[j - 1]
  BY <1>3
<1>5. DOMAIN r = 1..(Len(s) + 1) /\ p \in Nat /\ \A j \in DOMAIN r : j \in Nat
  BY <1>2, <1>4
<1> DEFINE f == [j \in DOMAIN r \ {p} |-> IF j < p THEN j ELSE j - 1]
<1>6. f \in [DOMAIN r \ {p} -> DOMAIN s]
  BY <1>4, <1>5
<1>7. \A j \in DOMAIN r \ {p} : f[j] = (IF j < p THEN j ELSE j - 1) /\ r[j] = s[f[j]]
  BY <1>4, <1>5
<1>8. \A i, j \in DOMAIN r \ {p} : f[i] = f[j] => i = j
  BY <1>5
<1> HIDE DEF f
<1>9. \A j \in DOMAIN r : IsObservation(r[j])
  BY <1>4, <1>6, <1>7 DEF IsObsList
<1>10. IsObsList(r)
  BY <1>4, <1>9 DEF IsObsList
<1>11. Part(r, DOMAIN r \ {p}, s, DOMAIN s)
  BY <1>6, <1>7, <1>8 DEF Part, Same
<1> QED
  BY <1>4, <1>5, <1>10, <1>11 DEF More, Same, r

\* What an Update leaves is a part of the list.
LEMMA KeepPart ==
  ASSUME NEW s, IsObsList(s), NEW K \in SUBSET (DOMAIN s)
  PROVE  Fewer(Keep(s, K), s, K)
<1> DEFINE r == Keep(s, K)
<1>1. PICK S : s \in Seq(S)
  BY DEF IsObsList
<1>2. /\ r \in Seq(S)
      /\ \A j \in DOMAIN r : Nth(K, j) \in K /\ r[j] = s[Nth(K, j)]
      /\ \A i, j \in DOMAIN r : i < j => Nth(K, i) < Nth(K, j)
  BY <1>1, KeepElements
<1>3. \A k \in K : k \in Nat
  BY <1>1
<1>4. \A i \in DOMAIN r : i \in Nat
  BY <1>2
<1> HIDE DEF r
<1> DEFINE f == [j \in DOMAIN r |-> Nth(K, j)]
<1>5. f \in [DOMAIN r -> K] /\ \A j \in DOMAIN r : f[j] = Nth(K, j)
  BY <1>2
<1> HIDE DEF f
<1>6. ASSUME NEW i \in DOMAIN r, NEW j \in DOMAIN r, f[i] = f[j]
      PROVE  i = j
  <2>1. f[i] \in Nat /\ i \in Nat /\ j \in Nat
    BY <1>3, <1>4, <1>5
  <2>2. ~(f[i] < f[j]) /\ ~(f[j] < f[i])
    BY <1>6, <2>1
  <2> QED
    BY <1>2, <1>5, <2>1, <2>2
<1>7. \A j \in DOMAIN r : IsObservation(r[j])
  BY <1>2 DEF IsObsList
<1>8. \A j \in DOMAIN r : Same(r[j], s[f[j]])
  BY <1>2, <1>5 DEF Same
<1>9. Fewer(r, s, K)
  BY <1>2, <1>5, <1>6, <1>7, <1>8 DEF Fewer, Part, IsObsList
<1> QED
  BY <1>9 DEF r

\* A part of a part is a part.
LEMMA PartOfFewer ==
  ASSUME NEW s, NEW K, NEW q, Fewer(q, s, K), NEW r, NEW D, Part(r, D, q, DOMAIN q)
  PROVE  Part(r, D, s, K)
<1>1. PICK f \in [DOMAIN q -> K] :
        /\ \A j \in DOMAIN q : Same(q[j], s[f[j]])
        /\ \A i, j \in DOMAIN q : f[i] = f[j] => i = j
  BY DEF Fewer, Part
<1>2. PICK g \in [D -> DOMAIN q] :
        /\ \A j \in D : Same(r[j], q[g[j]])
        /\ \A i, j \in D : g[i] = g[j] => i = j
  BY DEF Part
<1> DEFINE h == [j \in D |-> f[g[j]]]
<1>3. h \in [D -> K] /\ \A j \in D : h[j] = f[g[j]] /\ g[j] \in DOMAIN q
  BY <1>1, <1>2
<1> HIDE DEF h
<1>4. \A i, j \in D : h[i] = h[j] => i = j
  BY <1>1, <1>2, <1>3
<1>5. \A j \in D : Same(r[j], s[h[j]])
  BY <1>1, <1>2, <1>3 DEF Same
<1> QED
  BY <1>3, <1>4, <1>5 DEF Part

\* A list with the same nodes, whatever became of their status.
LEMMA SameNodes ==
  ASSUME NEW s, IsObsList(s), NEW r, NEW S, r \in Seq(S), DOMAIN r = DOMAIN s,
         \A k \in DOMAIN s : IsObservation(r[k]) /\ Same(r[k], s[k])
  PROVE  Fewer(r, s, DOMAIN s)
<1> DEFINE f == [j \in DOMAIN r |-> j]
<1>1. f \in [DOMAIN r -> DOMAIN s] /\ \A j \in DOMAIN r : f[j] = j
  OBVIOUS
<1> HIDE DEF f
<1>2. Part(r, DOMAIN r, s, DOMAIN s)
  BY <1>1 DEF Part
<1>3. IsObsList(r)
  BY DEF IsObsList
<1> QED
  BY <1>2, <1>3 DEF Fewer

\* A status that is changed in a list.
LEMMA SetStatus ==
  ASSUME NEW s, IsObsList(s), NEW k, NEW r, NEW st, st # "REGISTERED",
         r = [j \in DOMAIN s |-> IF j = k THEN [s[j] EXCEPT !.status = st] ELSE s[j]]
  PROVE  Fewer(r, s, DOMAIN s)
<1>1. PICK S : s \in Seq(S)
  BY DEF IsObsList
<1> DEFINE T == S \cup {[s[j] EXCEPT !.status = st] : j \in DOMAIN s}
<1>2. \A j \in DOMAIN s : s[j] \in T /\ [s[j] EXCEPT !.status = st] \in T
  BY <1>1
<1> HIDE DEF T
<1>3. Len(s) \in Nat /\ DOMAIN s = 1..Len(s)
  BY <1>1
<1>4. r \in Seq(T) /\ DOMAIN r = DOMAIN s
  <2>1. \A j \in 1..Len(s) : r[j] \in T
    BY <1>2, <1>3
  <2>2. r \in [1..Len(s) -> T]
    BY <1>3, <2>1
  <2> QED
    BY <1>3, <2>2
<1>5. ASSUME NEW j \in DOMAIN s
      PROVE  IsObservation(r[j]) /\ Same(r[j], s[j])
  <2>1. IsObservation(s[j])
    BY DEF IsObsList
  <2> DEFINE u == [s[j] EXCEPT !.status = st]
  <2>2. IsObservation(u) /\ Same(u, s[j])
    BY <2>1 DEF IsObservation, Same
  <2>3. r[j] = u \/ r[j] = s[j]
    OBVIOUS
  <2>4. Same(s[j], s[j])
    BY DEF Same
  <2> QED
    BY <2>1, <2>2, <2>3, <2>4
<1> QED
  BY <1>4, <1>5, SameNodes
----------------------------------------------------------------------------
(***************************************************************************)
(* A client's paths are distinct. A part of a list has distinct paths, and *)
(* so has a part to which a node with a path of its own is added.          *)
(***************************************************************************)
Distinct(s) == \A m, n \in DOMAIN s : s[m].uri = s[n].uri => m = n

\* A part of a list with distinct paths has distinct paths.
LEMMA FewerDistinct ==
  ASSUME NEW s, NEW K \in SUBSET (DOMAIN s), NEW r, Fewer(r, s, K), Distinct(s)
  PROVE  Distinct(r)
<1>1. PICK f \in [DOMAIN r -> K] :
        /\ \A j \in DOMAIN r : Same(r[j], s[f[j]])
        /\ \A i, j \in DOMAIN r : f[i] = f[j] => i = j
  BY DEF Fewer, Part
<1> QED
  BY <1>1 DEF Distinct, Same

\* And so has a part with a node of another path.
LEMMA MoreDistinct ==
  ASSUME NEW s, NEW K \in SUBSET (DOMAIN s), NEW node, NEW r, More(r, s, K, node),
         Distinct(s), \A k \in K : s[k].uri # node.uri
  PROVE  Distinct(r)
<1>1. PICK p \in DOMAIN r : Same(r[p], node) /\ Part(r, DOMAIN r \ {p}, s, K)
  BY DEF More
<1>2. PICK f \in [DOMAIN r \ {p} -> K] :
        /\ \A j \in DOMAIN r \ {p} : Same(r[j], s[f[j]])
        /\ \A i, j \in DOMAIN r \ {p} : f[i] = f[j] => i = j
  BY <1>1 DEF Part
<1>3. \A j \in DOMAIN r \ {p} : r[j].uri # node.uri
  BY <1>2 DEF Same
<1>4. r[p].uri = node.uri
  BY <1>1 DEF Same
<1>5. \A i, j \in DOMAIN r \ {p} : r[i].uri = r[j].uri => i = j
  BY <1>2 DEF Distinct, Same
<1> QED
  BY <1>3, <1>4, <1>5 DEF Distinct
----------------------------------------------------------------------------
(***************************************************************************)
(* A name of an observation is the client's id, the observation's id and   *)
(* the registration it was made under. Names are in the lists, in requests *)
(* that are under way and in the devices' tokens.                          *)
(***************************************************************************)
Listed(cs, i, n, r, u) ==
  /\ i \in DOMAIN cs
  /\ \E k \in DOMAIN cs[i].obs :
       cs[i].obs[k].id = n /\ cs[i].obs[k].serial = r /\ cs[i].obs[k].uri = u

Names(t, i, n, r, u) ==
  t.kind = "observe" /\ t.client = i /\ t.obs = n /\ t.serial = r /\ t.uri = u

Asked(ts, i, n, r, u) == \E k \in DOMAIN ts : Names(ts[k], i, n, r, u)

Watched(ds, i, n, r, u) ==
  \E d \in Devices :
    /\ u \in DOMAIN ds[d].watch
    /\ ds[d].watch[u].client = i /\ ds[d].watch[u].obs = n /\ ds[d].watch[u].serial = r

Named(cs, ts, ds, i, n, r, u) ==
  Listed(cs, i, n, r, u) \/ Asked(ts, i, n, r, u) \/ Watched(ds, i, n, r, u)

(***************************************************************************)
(* The numbers of a name are not ahead of the counters, and a name that is *)
(* of a registration stands for one path.                                  *)
(***************************************************************************)
Counted(cs, top, i, n, r) ==
  /\ n \in Nat /\ r \in Nat /\ r <= top
  /\ i \in DOMAIN cs /\ cs[i].serial = r /\ r # 0 => n <= cs[i].observationId

KeyInv(cs, ts, ds, top) ==
  /\ \A i, n, r, u : Named(cs, ts, ds, i, n, r, u) => Counted(cs, top, i, n, r)
  /\ \A i, n, r, u, v :
       Named(cs, ts, ds, i, n, r, u) /\ Named(cs, ts, ds, i, n, r, v) /\ r # 0 => u = v

IsClient(c) ==
  /\ {"name", "session", "serial", "observationId", "obs"} \subseteq DOMAIN c
  /\ c.serial \in Nat /\ c.observationId \in Nat /\ IsObsList(c.obs)

IsDevice(v) == {"loc", "objects", "watch"} \subseteq DOMAIN v

ClientsInv(cs, top) == \A i \in DOMAIN cs : IsClient(cs[i]) /\ cs[i].serial <= top

DevicesInv(ds) == DOMAIN ds = Devices /\ \A d \in Devices : IsDevice(ds[d])

NameInv ==
  /\ IInv
  /\ serial \in Nat /\ ClientsInv(clients, serial) /\ DevicesInv(dev)
  /\ KeyInv(clients, trans, dev, serial)

\* The serial number of a client is kept, new, or 0.
Numbered(cs1, cs, top) ==
  \A i \in DOMAIN cs1 :
    \/ cs1[i].serial = 0 \/ cs1[i].serial > top
    \/ /\ i \in DOMAIN cs /\ cs1[i].serial = cs[i].serial
       /\ cs1[i].observationId >= cs[i].observationId

\* The clients and their lists are a part of what they were.
Kept(cs1, cs) ==
  \A i \in DOMAIN cs1 :
    \/ i \in DOMAIN cs /\ Fewer(cs1[i].obs, cs[i].obs, DOMAIN cs[i].obs)
    \/ i \notin DOMAIN cs /\ cs1[i].obs = <<>>

\* When no name is new the invariant of the names holds on.
LEMMA KeysLess ==
  ASSUME NEW cs, NEW ts, NEW ds, NEW top \in Nat, KeyInv(cs, ts, ds, top), ClientsInv(cs, top),
         NEW cs1, NEW ts1, NEW ds1, NEW top1 \in Nat, ClientsInv(cs1, top1), top <= top1,
         Numbered(cs1, cs, top),
         \A i, n, r, u : Named(cs1, ts1, ds1, i, n, r, u) => Named(cs, ts, ds, i, n, r, u)
  PROVE  KeyInv(cs1, ts1, ds1, top1)
<1>1. ASSUME NEW i, NEW n, NEW r, NEW u, Named(cs1, ts1, ds1, i, n, r, u)
      PROVE  Counted(cs1, top1, i, n, r)
  <2>1. Counted(cs, top, i, n, r)
    BY <1>1 DEF KeyInv
  <2>2. n \in Nat /\ r \in Nat /\ r <= top1 /\ r <= top
    BY <2>1 DEF Counted
  <2>3. ASSUME i \in DOMAIN cs1, cs1[i].serial = r, r # 0
        PROVE  n <= cs1[i].observationId
    <3>1. i \in DOMAIN cs /\ cs1[i].serial = cs[i].serial
          /\ cs1[i].observationId >= cs[i].observationId
      BY <2>2, <2>3 DEF Numbered
    <3>2. n <= cs[i].observationId
      BY <2>1, <2>3, <3>1 DEF Counted
    <3>3. cs1[i].observationId \in Nat /\ cs[i].observationId \in Nat
      BY <2>3, <3>1 DEF ClientsInv, IsClient
    <3> QED
      BY <2>2, <3>1, <3>2, <3>3
  <2> QED
    BY <2>2, <2>3 DEF Counted
<1>2. ASSUME NEW i, NEW n, NEW r, NEW u, NEW v, r # 0,
             Named(cs1, ts1, ds1, i, n, r, u), Named(cs1, ts1, ds1, i, n, r, v)
      PROVE  u = v
  <2>1. Named(cs, ts, ds, i, n, r, u) /\ Named(cs, ts, ds, i, n, r, v)
    BY <1>2
  <2> QED
    BY <1>2, <2>1 DEF KeyInv
<1> QED
  BY <1>1, <1>2 DEF KeyInv

\* The counter of client c moves on.
CountsOn(cs1, cs, c) ==
  /\ DOMAIN cs1 = DOMAIN cs
  /\ \A i \in DOMAIN cs :
       /\ cs1[i].serial = cs[i].serial
       /\ cs1[i].observationId = cs[i].observationId + (IF i = c THEN 1 ELSE 0)

\* The name that client c gives next.
NextName(cs, c, path, i, n, r, u) ==
  i = c /\ n = cs[c].observationId + 1 /\ r = cs[c].serial /\ u = path

\* The same for a step of lwm2m_observe, which makes a name with the next id.
LEMMA KeysMore ==
  ASSUME NEW cs, NEW ts, NEW ds, NEW top \in Nat, KeyInv(cs, ts, ds, top), ClientsInv(cs, top),
         NEW cs1, NEW ts1, NEW ds1, ClientsInv(cs1, top), NEW c \in DOMAIN cs, NEW path,
         CountsOn(cs1, cs, c),
         \A i, n, r, u : Named(cs1, ts1, ds1, i, n, r, u) =>
           Named(cs, ts, ds, i, n, r, u) \/ NextName(cs, c, path, i, n, r, u)
  PROVE  KeyInv(cs1, ts1, ds1, top)
<1>0. /\ cs[c].observationId \in Nat /\ cs[c].serial \in Nat /\ cs[c].serial <= top
      /\ \A i \in DOMAIN cs : cs[i].observationId \in Nat
  BY DEF ClientsInv, IsClient
<1>1. ASSUME NEW i, NEW n, NEW r, NEW u, Named(cs1, ts1, ds1, i, n, r, u)
      PROVE  Counted(cs1, top, i, n, r)
  <2>1. CASE Named(cs, ts, ds, i, n, r, u)
    <3>1. Counted(cs, top, i, n, r)
      BY <2>1 DEF KeyInv
    <3>2. ASSUME i \in DOMAIN cs1, cs1[i].serial = r, r # 0
          PROVE  n <= cs1[i].observationId
      <4>1. n <= cs[i].observationId /\ n \in Nat /\ cs[i].observationId \in Nat
        BY <1>0, <3>1, <3>2 DEF Counted, CountsOn
      <4>2. cs1[i].observationId = cs[i].observationId + (IF i = c THEN 1 ELSE 0)
        BY <3>2 DEF CountsOn
      <4> QED
        BY <4>1, <4>2
    <3> QED
      BY <3>1, <3>2 DEF Counted
  <2>2. CASE NextName(cs, c, path, i, n, r, u)
    <3>1. cs1[c].observationId = cs[c].observationId + 1
      BY DEF CountsOn
    <3> QED
      BY <1>0, <2>2, <3>1 DEF Counted, NextName
  <2> QED
    BY <1>1, <2>1, <2>2
<1>2. ASSUME NEW i, NEW n, NEW r, NEW u, NEW v, r # 0,
             Named(cs1, ts1, ds1, i, n, r, u), Named(cs1, ts1, ds1, i, n, r, v)
      PROVE  u = v
  <2>1. ASSUME NEW w, Named(cs, ts, ds, i, n, r, w), i = c, n = cs[c].observationId + 1,
               r = cs[c].serial
        PROVE  FALSE
    <3>1. Counted(cs, top, i, n, r)
      BY <2>1 DEF KeyInv
    <3>2. n <= cs[c].observationId
      BY <1>2, <2>1, <3>1 DEF Counted
    <3> QED
      BY <1>0, <2>1, <3>2
  <2>2. CASE Named(cs, ts, ds, i, n, r, u) /\ Named(cs, ts, ds, i, n, r, v)
    BY <1>2, <2>2 DEF KeyInv
  <2> QED
    BY <1>2, <2>1, <2>2 DEF NextName
<1> QED
  BY <1>1, <1>2 DEF KeyInv
----------------------------------------------------------------------------
(***************************************************************************)
(* The steps. All but the answer to an observation leave a part of the     *)
(* clients and their lists, Fine; a client that is changed counts on.      *)
(***************************************************************************)
Fine(cs1, cs, top1, top) ==
  ClientsInv(cs1, top1) /\ Numbered(cs1, cs, top) /\ Kept(cs1, cs)

\* A client whose list is a part of what it was, of the same registration or of none.
Lesser(c1, c) ==
  /\ IsClient(c1) /\ Fewer(c1.obs, c.obs, DOMAIN c.obs)
  /\ c1.name = c.name /\ c1.observationId >= c.observationId
  /\ c1.serial # 0 => c1.serial = c.serial /\ c1.session \in {c.session, c.name}

LessClients(cs1, cs) == \A i \in DOMAIN cs1 : i \in DOMAIN cs /\ Lesser(cs1[i], cs[i])

\* The list of a new client is a part of any list.
LEMMA EmptyList == IsObsList(<<>>) /\ \A s, K : Fewer(<<>>, s, K)
<1>1. IsObsList(<<>>)
  <2>1. <<>> \in Seq({}) /\ DOMAIN <<>> = {}
    OBVIOUS
  <2> QED
    BY <2>1 DEF IsObsList
<1>2. ASSUME NEW s, NEW K
      PROVE  Part(<<>>, DOMAIN <<>>, s, K)
  <2> DEFINE f == [j \in {} |-> j]
  <2>1. f \in [{} -> K] /\ DOMAIN <<>> = {}
    OBVIOUS
  <2> HIDE DEF f
  <2> QED
    BY <2>1 DEF Part
<1> QED
  BY <1>1, <1>2 DEF Fewer

\* Each client that is left is a lesser one.
LEMMA LesserFine ==
  ASSUME NEW cs, NEW top \in Nat, ClientsInv(cs, top), NEW cs1, LessClients(cs1, cs)
  PROVE  Fine(cs1, cs, top, top)
<1>1. \A i \in DOMAIN cs1 : cs1[i].serial \in Nat /\ cs1[i].serial <= top
  BY DEF ClientsInv, LessClients, Lesser, IsClient
<1> QED
  BY <1>1 DEF Fine, ClientsInv, Numbered, Kept, LessClients, Lesser

\* A client is lesser than itself.
LEMMA SameClient ==
  ASSUME NEW c, IsClient(c)
  PROVE  Lesser(c, c)
<1>1. IsObsList(c.obs) /\ c.observationId \in Nat
  BY DEF IsClient
<1>2. c.observationId >= c.observationId /\ Fewer(c.obs, c.obs, DOMAIN c.obs)
  BY <1>1, SameList
<1> QED
  BY <1>2 DEF Lesser

\* One client becomes a lesser one.
LEMMA OneLesser ==
  ASSUME NEW cs, NEW top \in Nat, ClientsInv(cs, top), NEW i \in DOMAIN cs,
         NEW c, Lesser(c, cs[i]), NEW cs1, cs1 = [cs EXCEPT ![i] = c]
  PROVE  LessClients(cs1, cs)
<1>1. DOMAIN cs1 = DOMAIN cs /\ \A j \in DOMAIN cs : cs1[j] = IF j = i THEN c ELSE cs[j]
  OBVIOUS
<1>2. \A j \in DOMAIN cs : IsClient(cs[j])
  BY DEF ClientsInv
<1>3. \A j \in DOMAIN cs : Lesser(cs1[j], cs[j])
  BY <1>1, <1>2, SameClient
<1> QED
  BY <1>1, <1>3 DEF LessClients

\* A client's list is replaced by a part of it.
LEMMA ListLesser ==
  ASSUME NEW c, IsClient(c), NEW r, Fewer(r, c.obs, DOMAIN c.obs)
  PROVE  Lesser([c EXCEPT !.obs = r], c)
<1>1. IsObsList(r)
  BY DEF Fewer
<1> DEFINE u == [c EXCEPT !.obs = r]
<1>2. DOMAIN u = DOMAIN c
  OBVIOUS
<1>3. /\ u.serial = c.serial /\ u.observationId = c.observationId /\ u.obs = r
      /\ u.name = c.name /\ u.session = c.session
  BY DEF IsClient
<1>4. c.observationId \in Nat /\ c.serial \in Nat
  BY DEF IsClient
<1>5. IsClient(u)
  BY <1>1, <1>2, <1>3, <1>4 DEF IsClient
<1> HIDE DEF u
<1>6. Lesser(u, c)
  BY <1>3, <1>4, <1>5 DEF Lesser
<1> QED
  BY <1>6 DEF u

\* A position of a list that observe_remove takes out.
LEMMA RemoveFewer ==
  ASSUME NEW s, IsObsList(s), NEW k
  PROVE  Fewer(observe_remove(s, k), s, DOMAIN s)
<1> DEFINE id == s[k].id
           r == lwm2m_list_remove(s, id)
<1>1. Fewer(r, s, DOMAIN s \ {lwm2m_list_find(s, id)})
  BY FindRemove
<1>2. ASSUME NEW K \in SUBSET (DOMAIN s), Fewer(r, s, K)
      PROVE  Fewer(r, s, DOMAIN s)
  <2>1. PICK f \in [DOMAIN r -> K] :
          /\ \A j \in DOMAIN r : Same(r[j], s[f[j]])
          /\ \A i, j \in DOMAIN r : f[i] = f[j] => i = j
    BY <1>2 DEF Fewer, Part
  <2>2. f \in [DOMAIN r -> DOMAIN s]
    BY <2>1
  <2> HIDE DEF r
  <2> QED
    BY <1>2, <2>1, <2>2 DEF Fewer, Part
<1>3. Fewer(r, s, DOMAIN s)
  BY <1>1, <1>2
<1> QED
  BY <1>3 DEF observe_remove

\* The record that a registration makes is in the place of the one of its name, or of a
\* record without the name, or new; other records may be freed.
LEMMA RegisterResult ==
  ASSUME NEW d, NEW blocks, handleRegister(d, blocks)
  PROVE  \/ UNCHANGED <<clients, serial, dev>>
         \/ \E D \in SUBSET (DOMAIN clients) : \E id, old :
              /\ clients' = Put(Restrict(clients, D), id, Registered(d, old))
              /\ old = IF id \in D THEN clients[id] ELSE NewClient(d)
              /\ serial' = serial + 1 /\ dev' = [dev EXCEPT ![d].loc = id]
              /\ \/ id \in prv_getClientByName(d)
                 \/ /\ prv_getClientByName(d) = {}
                    /\ id \in DOMAIN clients \/ id = lwm2m_list_newId(DOMAIN clients)
<1> DEFINE found == prv_getClientByName(d)
           same == IF blocks THEN utils_findClient(d) ELSE {}
           id == IF found # {} THEN CHOOSE i \in found : TRUE
                 ELSE IF same # {} THEN CHOOSE i \in same : TRUE
                 ELSE lwm2m_list_newId(DOMAIN clients)
           D == IF found # {} THEN DOMAIN clients \ same ELSE DOMAIN clients
           left == IF found # {} THEN Restrict(clients, DOMAIN clients \ same) ELSE clients
           old == IF id \in DOMAIN left THEN left[id] ELSE NewClient(d)
<1>1. CASE id \in found \cap same
  BY <1>1 DEF handleRegister
<1>2. CASE id \notin found \cap same
  <2>1. /\ clients' = Put(left, id, Registered(d, old)) /\ serial' = serial + 1
        /\ dev' = [dev EXCEPT ![d].loc = id]
    BY <1>2 DEF handleRegister
  <2>2. DOMAIN left = D /\ \A i \in D : left[i] = clients[i]
    BY DEF Restrict
  <2>3. D \in SUBSET (DOMAIN clients)
    OBVIOUS
  <2>4. same \subseteq DOMAIN clients
    BY DEF utils_findClient
  <2>5. \/ id \in found
        \/ found = {} /\ (id \in DOMAIN clients \/ id = lwm2m_list_newId(DOMAIN clients))
    BY <2>4
  <2> HIDE DEF id, found, same, D
  <2>6. old = IF id \in D THEN clients[id] ELSE NewClient(d)
    BY <2>2
  <2> HIDE DEF old, left
  <2>7. Put(left, id, Registered(d, old)) = Put(Restrict(clients, D), id, Registered(d, old))
    BY <2>2 DEF Put, Restrict
  <2> QED
    BY <2>1, <2>3, <2>5, <2>6, <2>7 DEF found
<1> QED
  BY <1>1, <1>2

\* A registration: a record of a higher number, in the place of the old one or of none.
LEMMA RegisterFine ==
  ASSUME NameInv, NEW d, NEW blocks, handleRegister(d, blocks),
         ~UNCHANGED <<clients, serial, dev>>
  PROVE  Fine(clients', clients, serial', serial) /\ serial' \in Nat /\ serial <= serial'
<1>0. PICK D, id, old :
        /\ D \in SUBSET (DOMAIN clients)
        /\ clients' = Put(Restrict(clients, D), id, Registered(d, old))
        /\ old = IF id \in D THEN clients[id] ELSE NewClient(d)
        /\ serial' = serial + 1
  BY RegisterResult
<1> DEFINE left == Restrict(clients, D)
           rec == Registered(d, old)
<1>1. clients' = Put(left, id, rec) /\ serial' = serial + 1
  BY <1>0
<1>2. serial \in Nat /\ serial + 1 \in Nat /\ serial <= serial + 1 /\ serial + 1 > serial
  BY DEF NameInv
<1>3. ClientsInv(clients, serial)
  BY DEF NameInv
<1>4. DOMAIN left = D /\ \A i \in D : left[i] = clients[i]
  BY DEF Restrict
<1> HIDE DEF left
<1>5. /\ IsClient(old) /\ IsObsList(old.obs)
      /\ old.obs = IF id \in D THEN clients[id].obs ELSE <<>>
  <2>1. CASE id \in D
    BY <1>0, <1>3, <2>1 DEF ClientsInv, IsClient
  <2>2. CASE id \notin D
    BY <1>0, <2>2, EmptyList DEF NewClient, IsClient
  <2> QED
    BY <2>1, <2>2
<1>6. /\ rec.serial = serial + 1 /\ rec.obs = old.obs
      /\ rec.observationId = old.observationId /\ DOMAIN rec = DOMAIN old
  BY <1>5 DEF Registered, IsClient
<1>7. IsClient(rec) /\ rec.serial = serial + 1 /\ rec.obs = old.obs
  BY <1>2, <1>5, <1>6 DEF IsClient
<1>8. id \in DOMAIN clients => Fewer(rec.obs, clients[id].obs, DOMAIN clients[id].obs)
  <2>1. CASE id \notin D
    BY <1>5, <1>7, <2>1, EmptyList
  <2>2. CASE id \in D
    BY <1>5, <1>7, <2>2, SameList
  <2> QED
    BY <2>1, <2>2
<1>9. id \notin DOMAIN clients => rec.obs = <<>>
  BY <1>0, <1>5, <1>7
<1> HIDE DEF rec
<1>10. /\ DOMAIN clients' = D \cup {id}
       /\ \A j \in DOMAIN clients' :
            IF j = id THEN clients'[j] = rec ELSE j \in DOMAIN clients /\ clients'[j] = clients[j]
  BY <1>0, <1>1, <1>4 DEF Put
<1>11. ASSUME NEW j \in DOMAIN clients'
       PROVE  /\ IsClient(clients'[j]) /\ clients'[j].serial <= serial'
              /\ \/ clients'[j].serial > serial
                 \/ /\ j \in DOMAIN clients /\ clients'[j].serial = clients[j].serial
                    /\ clients'[j].observationId >= clients[j].observationId
              /\ \/ j \in DOMAIN clients /\ Fewer(clients'[j].obs, clients[j].obs, DOMAIN clients[j].obs)
                 \/ j \notin DOMAIN clients /\ clients'[j].obs = <<>>
  <2>1. CASE j = id
    <3>1. clients'[j] = rec
      BY <1>10, <2>1
    <3> QED
      BY <1>1, <1>2, <1>7, <1>8, <1>9, <2>1, <3>1
  <2>2. CASE j # id
    <3>1. clients'[j] = clients[j] /\ j \in DOMAIN clients /\ IsClient(clients[j])
      BY <1>3, <1>10, <2>2 DEF ClientsInv
    <3>2. /\ IsObsList(clients[j].obs) /\ clients[j].serial \in Nat
          /\ clients[j].observationId \in Nat /\ clients[j].serial <= serial
      BY <1>3, <3>1 DEF ClientsInv, IsClient
    <3>3. clients[j].serial <= serial + 1 /\ clients[j].observationId >= clients[j].observationId
      BY <1>2, <3>2
    <3> QED
      BY <1>1, <3>1, <3>2, <3>3, SameList
  <2> QED
    BY <2>1, <2>2
<1> QED
  BY <1>1, <1>2, <1>11 DEF Fine, ClientsInv, Numbered, Kept

\* An Update takes observations out of a record, or makes it one of no registration.
LEMMA UpdateLess ==
  ASSUME NameInv, NEW d, NEW full, NEW i \in DOMAIN clients, handleUpdate(d, i, full)
  PROVE  LessClients(clients', clients)
<1> DEFINE obs == clients[i].obs
           gone == {k \in DOMAIN obs : full /\ Ended(obs[k], dev[d].objects)}
           left == Keep(obs, DOMAIN obs \ gone)
           c == clients[i]
           top == IF c.name = d THEN c.serial ELSE 0
           objects == IF full THEN dev[d].objects ELSE c.objects
           c1 == [c EXCEPT !.session = d, !.serial = top, !.objects = objects, !.obs = left]
<1>1. clients' = [clients EXCEPT ![i] = c1]
  BY DEF handleUpdate
<1>2. IsClient(c) /\ IsObsList(obs) /\ c.serial \in Nat /\ c.observationId \in Nat
  BY DEF NameInv, ClientsInv, IsClient
<1>3. Fewer(left, obs, DOMAIN obs \ gone)
  BY <1>2, KeepPart
<1>4. Fewer(left, obs, DOMAIN obs) /\ IsObsList(left)
  <2>1. PICK f \in [DOMAIN left -> DOMAIN obs \ gone] :
          /\ \A j \in DOMAIN left : Same(left[j], obs[f[j]])
          /\ \A k, j \in DOMAIN left : f[k] = f[j] => k = j
    BY <1>3 DEF Fewer, Part
  <2>2. f \in [DOMAIN left -> DOMAIN obs]
    BY <2>1
  <2> QED
    BY <1>3, <2>1, <2>2 DEF Fewer, Part
<1> HIDE DEF left, gone
<1>5. top # 0 => top = c.serial /\ d = c.name
  OBVIOUS
<1> HIDE DEF top, objects, c
<1>6. /\ c1.name = c.name /\ c1.session = d /\ c1.serial = top /\ c1.observationId = c.observationId /\ c1.obs = left
      /\ DOMAIN c1 = DOMAIN c
  BY <1>2 DEF IsClient, c1
<1> HIDE DEF c1
<1>7. c1.serial \in Nat /\ c1.observationId \in Nat
  BY <1>2, <1>5, <1>6
<1>8. IsClient(c1)
  BY <1>2, <1>4, <1>6, <1>7 DEF IsClient
<1>9. Lesser(c1, c)
  <2>1. c.obs = obs
    BY DEF c
  <2>2. Fewer(c1.obs, c.obs, DOMAIN c.obs)
    BY <1>4, <1>6, <2>1
  <2>3. c1.observationId >= c.observationId
    BY <1>2, <1>6
  <2> QED
    BY <1>5, <1>6, <1>8, <2>2, <2>3 DEF Lesser
<1> QED
  BY <1>1, <1>9, OneLesser DEF NameInv, c

\* Clients that leave.
LEMMA LeaveLess ==
  ASSUME NameInv, NEW D \in SUBSET (DOMAIN clients), clients' = Restrict(clients, D)
  PROVE  LessClients(clients', clients)
<1>1. DOMAIN clients' = D /\ \A i \in D : clients'[i] = clients[i]
  BY DEF Restrict
<1>2. \A i \in D : Lesser(clients'[i], clients[i])
  BY <1>1, SameClient DEF NameInv, ClientsInv
<1> QED
  BY <1>1, <1>2 DEF LessClients

----------------------------------------------------------------------------
\* A name in the lists that are left was in the lists.
LEMMA KeptListed ==
  ASSUME NEW cs, NEW cs1, Kept(cs1, cs), NEW i, NEW n, NEW r, NEW u, Listed(cs1, i, n, r, u)
  PROVE  Listed(cs, i, n, r, u)
<1>1. i \in DOMAIN cs1
  BY DEF Listed
<1>2. PICK k \in DOMAIN cs1[i].obs :
        cs1[i].obs[k].id = n /\ cs1[i].obs[k].serial = r /\ cs1[i].obs[k].uri = u
  BY DEF Listed
<1>3. DOMAIN <<>> = {}
  OBVIOUS
<1>4. i \in DOMAIN cs /\ Fewer(cs1[i].obs, cs[i].obs, DOMAIN cs[i].obs)
  BY <1>1, <1>2, <1>3 DEF Kept
<1>5. PICK j \in DOMAIN cs[i].obs : Same(cs1[i].obs[k], cs[i].obs[j])
  BY <1>2, <1>4 DEF Fewer, Part
<1> QED
  BY <1>2, <1>4, <1>5 DEF Listed, Same

\* Paths that were distinct are distinct in the lists that are left.
LEMMA KeptDistinct ==
  ASSUME NEW cs, NEW cs1, Kept(cs1, cs), \A i \in DOMAIN cs : Distinct(cs[i].obs),
         NEW i \in DOMAIN cs1
  PROVE  Distinct(cs1[i].obs)
<1>1. CASE i \in DOMAIN cs /\ Fewer(cs1[i].obs, cs[i].obs, DOMAIN cs[i].obs)
  BY <1>1, FewerDistinct
<1>2. CASE i \notin DOMAIN cs /\ cs1[i].obs = <<>>
  <2>1. DOMAIN <<>> = {}
    OBVIOUS
  <2> QED
    BY <1>2, <2>1 DEF Distinct
<1> QED
  BY <1>1, <1>2 DEF Kept

\* The names of the requests when one is added.
LEMMA AskedAppend ==
  ASSUME NEW s, IsRequestList(s), NEW t, NEW i, NEW n, NEW r, NEW u,
         Asked(Append(s, t), i, n, r, u)
  PROVE  Asked(s, i, n, r, u) \/ Names(t, i, n, r, u)
<1>1. PICK S : s \in Seq(S)
  BY DEF IsRequestList
<1>2. s \in Seq(S \cup {t}) /\ t \in S \cup {t}
  BY <1>1
<1>3. /\ Len(s) \in Nat /\ DOMAIN s = 1..Len(s)
      /\ DOMAIN Append(s, t) = 1..(Len(s) + 1)
      /\ \A j \in 1..Len(s) : Append(s, t)[j] = s[j]
      /\ Append(s, t)[Len(s) + 1] = t
  BY <1>2, AppendProperties, LenProperties
<1>4. PICK k \in DOMAIN Append(s, t) : Names(Append(s, t)[k], i, n, r, u)
  BY DEF Asked
<1>5. k \in DOMAIN s \/ k = Len(s) + 1
  BY <1>3
<1> QED
  BY <1>3, <1>4, <1>5 DEF Asked

\* A request that leaves is not a new name.
LEMMA AskedLess ==
  ASSUME NEW s, IsRequestList(s), NEW k \in DOMAIN s, NEW i, NEW n, NEW r, NEW u,
         Asked(RemoveAt(s, k), i, n, r, u)
  PROVE  Asked(s, i, n, r, u)
<1> DEFINE q == RemoveAt(s, k)
<1>1. PICK S : s \in Seq(S)
  BY DEF IsRequestList
<1>2. \A j \in DOMAIN q : \E m \in DOMAIN s : q[j] = s[m]
  BY <1>1, RemoveAtElements
<1>3. Asked(q, i, n, r, u)
  OBVIOUS
<1> HIDE DEF q
<1> QED
  BY <1>2, <1>3 DEF Asked

\* Nor is the answer of a device, which stands at the end.
LEMMA AskedCode ==
  ASSUME NEW s, IsRequestList(s), NEW k \in DOMAIN s, NEW c, NEW i, NEW n, NEW r, NEW u,
         Asked(Append(RemoveAt(s, k), [s[k] EXCEPT !.code = c]), i, n, r, u)
  PROVE  Asked(s, i, n, r, u)
<1> DEFINE v == [s[k] EXCEPT !.code = c]
           q == RemoveAt(s, k)
<1>1. IsRequest(s[k])
  BY DEF IsRequestList
<1>2. v.kind = s[k].kind /\ v.client = s[k].client /\ v.obs = s[k].obs
      /\ v.serial = s[k].serial /\ v.uri = s[k].uri
  BY <1>1 DEF IsRequest
<1>3. IsRequestList(q)
  BY RemoveRequest
<1>4. Asked(Append(q, v), i, n, r, u)
  OBVIOUS
<1> HIDE DEF v
<1>5. Asked(q, i, n, r, u) \/ Names(v, i, n, r, u)
  BY <1>3, <1>4, AskedAppend
<1> QED
  BY <1>2, <1>5, AskedLess DEF Asked, Names

\* The devices' tokens when one device changes.
LEMMA OneDevice ==
  ASSUME NEW ds, DevicesInv(ds), NEW d, NEW v, IsDevice(v), NEW ds1, ds1 = [ds EXCEPT ![d] = v]
  PROVE  /\ DevicesInv(ds1)
         /\ \A i, n, r, u : Watched(ds1, i, n, r, u) =>
              \/ Watched(ds, i, n, r, u)
              \/ /\ d \in Devices /\ u \in DOMAIN v.watch
                 /\ v.watch[u].client = i /\ v.watch[u].obs = n /\ v.watch[u].serial = r
<1>1. DOMAIN ds = Devices
  BY DEF DevicesInv
<1>2. DOMAIN ds1 = Devices /\ \A e \in Devices : ds1[e] = IF e = d THEN v ELSE ds[e]
  BY <1>1
<1> QED
  BY <1>2 DEF DevicesInv, Watched

\* A device whose tokens are some of those it had.
LEMMA FewerTokens ==
  ASSUME NEW ds, DevicesInv(ds), NEW d \in Devices, NEW v, IsDevice(v),
         DOMAIN v.watch \subseteq DOMAIN ds[d].watch,
         \A u \in DOMAIN v.watch : v.watch[u] = ds[d].watch[u],
         NEW ds1, ds1 = [ds EXCEPT ![d] = v]
  PROVE  DevicesInv(ds1) /\ \A i, n, r, u : Watched(ds1, i, n, r, u) => Watched(ds, i, n, r, u)
<1>1. DOMAIN ds = Devices
  BY DEF DevicesInv
<1>2. DOMAIN ds1 = Devices /\ \A e \in Devices : ds1[e] = IF e = d THEN v ELSE ds[e]
  BY <1>1
<1>3. DevicesInv(ds1)
  BY <1>2 DEF DevicesInv
<1>4. ASSUME NEW i, NEW n, NEW r, NEW u, Watched(ds1, i, n, r, u)
      PROVE  Watched(ds, i, n, r, u)
  BY <1>2, <1>4 DEF Watched
<1> QED
  BY <1>3, <1>4

\* What device d watches when it has become v on request t and answered with c.
Watches(d, t, v, c) ==
  /\ IsDevice(v) /\ v.loc = dev[d].loc
  /\ \A u \in DOMAIN v.watch :
       \/ u \in DOMAIN dev[d].watch /\ v.watch[u] = dev[d].watch[u]
       \/ t.kind = "observe" /\ u = t.uri /\ v.watch[u] = Token(t)
  /\ c = "2.05" /\ t.kind = "observe" =>
       t.uri \in DOMAIN v.watch /\ v.watch[t.uri] = Token(t)
  /\ \A u \in DOMAIN dev[d].watch :
       \/ u \in DOMAIN v.watch /\ v.watch[u] = dev[d].watch[u]
       \/ t.kind \in {"observe", "cancel"} /\ u = t.uri /\ c = "2.05"
       \/ t.kind = "delete"

LEMMA HandledWatch ==
  ASSUME DevicesInv(dev), NEW d \in Devices, NEW t, NEW h \in Handled(d, t)
  PROVE  Watches(d, t, h[1], h[2])
<1> DEFINE w == dev[d].watch
           has == Target(t.uri) \in dev[d].objects
<1>1. IsDevice(dev[d])
  BY DEF DevicesInv
<1>2. CASE h[1] = dev[d] /\ h[2] # "2.05"
  BY <1>1, <1>2 DEF Watches
<1>3. CASE t.kind = "observe"
  <2> DEFINE x == Put(w, t.uri, Token(t))
             v == [dev[d] EXCEPT !.watch = x]
  <2>1. h \in IF has THEN {<<v, "2.05">>, <<dev[d], "2.05 plain">>} ELSE {<<dev[d], "4.04">>}
    BY <1>3 DEF Handled
  <2>2. /\ DOMAIN x = DOMAIN w \cup {t.uri}
        /\ \A u \in DOMAIN x : x[u] = IF u = t.uri THEN Token(t) ELSE w[u]
    BY DEF Put
  <2> HIDE DEF x
  <2>3. IsDevice(v) /\ v.watch = x /\ v.loc = dev[d].loc
    BY <1>1 DEF IsDevice
  <2> HIDE DEF v, has
  <2>4. Watches(d, t, v, "2.05")
    BY <1>3, <2>2, <2>3 DEF Watches
  <2>5. \/ h[1] = v /\ h[2] = "2.05"
        \/ h[1] = dev[d] /\ h[2] # "2.05"
    <3>1. \/ h = <<v, "2.05">>
          \/ h = <<dev[d], "2.05 plain">>
          \/ h = <<dev[d], "4.04">>
      BY <2>1
    <3>2. CASE h = <<v, "2.05">>
      BY <3>2
    <3>3. CASE h = <<dev[d], "2.05 plain">>
      <4>1. h[2] = "2.05 plain" /\ h[1] = dev[d]
        BY <3>3
      <4> QED
        BY <4>1
    <3>4. CASE h = <<dev[d], "4.04">>
      BY <3>4
    <3> QED
      BY <3>1, <3>2, <3>3, <3>4
  <2> QED
    BY <1>2, <2>4, <2>5
<1>4. CASE t.kind = "cancel"
  <2> DEFINE x == Restrict(w, DOMAIN w \ {t.uri})
             v == [dev[d] EXCEPT !.watch = x]
  <2>1. h \in IF has THEN {<<v, "2.05">>} ELSE {<<dev[d], "4.04">>}
    BY <1>4 DEF Handled
  <2>2. DOMAIN x = DOMAIN w \ {t.uri} /\ \A u \in DOMAIN x : x[u] = w[u]
    BY DEF Restrict
  <2> HIDE DEF x
  <2>3. IsDevice(v) /\ v.watch = x /\ v.loc = dev[d].loc
    BY <1>1 DEF IsDevice
  <2> HIDE DEF v, has
  <2>4. Watches(d, t, v, "2.05")
    BY <1>4, <2>2, <2>3 DEF Watches
  <2> QED
    BY <1>2, <2>1, <2>4
<1>5. CASE t.kind = "delete"
  <2> DEFINE x == Restrict(w, {p \in DOMAIN w : Target(p) # t.uri})
             left == dev[d].objects \ {t.uri}
             v == [dev[d] EXCEPT !.objects = left, !.watch = x]
  <2>1. h \in IF has THEN {<<v, "2.02">>} ELSE {<<dev[d], "4.04">>}
    BY <1>5 DEF Handled
  <2>2. DOMAIN x \subseteq DOMAIN w /\ \A u \in DOMAIN x : x[u] = w[u]
    BY DEF Restrict
  <2> HIDE DEF x, left
  <2>3. IsDevice(v) /\ v.watch = x /\ v.loc = dev[d].loc
    BY <1>1 DEF IsDevice
  <2> HIDE DEF v, has
  <2>4. Watches(d, t, v, "2.02")
    BY <1>5, <2>2, <2>3 DEF Watches
  <2> QED
    BY <1>2, <2>1, <2>4
<1>6. CASE t.kind = "create"
  <2> DEFINE new == {p \in FirstObjects : Len(p) = 2 /\ p[1] = t.uri[1]} \ dev[d].objects
             more == dev[d].objects \cup {CHOOSE p \in new : TRUE}
             v == [dev[d] EXCEPT !.objects = more]
  <2>1. h \in IF new = {} THEN {<<dev[d], "4.00">>} ELSE {v} \X {"2.01", "2.01 misplaced"}
    BY <1>6 DEF Handled
  <2> HIDE DEF more, new
  <2>2. IsDevice(v) /\ v.watch = w /\ v.loc = dev[d].loc
    BY <1>1 DEF IsDevice
  <2> HIDE DEF v
  <2>3. \A c \in {"2.01", "2.01 misplaced"} : Watches(d, t, v, c)
    BY <1>6, <2>2 DEF Watches
  <2>4. \/ h[1] = v /\ h[2] \in {"2.01", "2.01 misplaced"}
        \/ h[1] = dev[d] /\ h[2] # "2.05"
    <3>1. CASE new = {}
      <4>1. h = <<dev[d], "4.00">>
        BY <2>1, <3>1
      <4> QED
        BY <4>1
    <3>2. CASE new # {}
      <4>1. h \in {v} \X {"2.01", "2.01 misplaced"}
        BY <2>1, <3>2
      <4> QED
        BY <4>1
    <3> QED
      BY <3>1, <3>2
  <2> QED
    BY <1>2, <2>3, <2>4
<1>7. CASE t.kind \notin {"observe", "cancel", "delete", "create"}
  <2>1. h \in {<<dev[d], "2.04">>, <<dev[d], "4.04">>}
    BY <1>7 DEF Handled
  <2> QED
    BY <1>2, <2>1
<1> QED
  BY <1>3, <1>4, <1>5, <1>6, <1>7
----------------------------------------------------------------------------
(***************************************************************************)
(* The invariant of the names holds on when the clients that are left are  *)
(* fine and neither a request nor a token has a new name.                  *)
(***************************************************************************)
LEMMA FineNames ==
  ASSUME NameInv, IInv', Fine(clients', clients, serial', serial), serial' \in Nat,
         serial <= serial', DevicesInv(dev'),
         \A i, n, r, u : Asked(trans', i, n, r, u) => Asked(trans, i, n, r, u),
         \A i, n, r, u : Watched(dev', i, n, r, u) =>
           Watched(dev, i, n, r, u) \/ Asked(trans, i, n, r, u)
  PROVE  NameInv'
<1>1. /\ serial \in Nat /\ ClientsInv(clients, serial)
      /\ KeyInv(clients, trans, dev, serial)
  BY DEF NameInv
<1>2. /\ ClientsInv(clients', serial') /\ Numbered(clients', clients, serial)
      /\ Kept(clients', clients)
  BY DEF Fine
<1>3. ASSUME NEW i, NEW n, NEW r, NEW u, Named(clients', trans', dev', i, n, r, u)
      PROVE  Named(clients, trans, dev, i, n, r, u)
  BY <1>2, <1>3, KeptListed DEF Named
<1>4. KeyInv(clients', trans', dev', serial')
  BY <1>1, <1>2, <1>3, KeysLess
<1> QED
  BY <1>2, <1>4 DEF NameInv

\* Nothing that the invariant is about has changed.
LEMMA SameFine == NameInv => Fine(clients, clients, serial, serial)
<1> SUFFICES ASSUME NameInv PROVE Fine(clients, clients, serial, serial)
  OBVIOUS
<1>1. serial \in Nat /\ ClientsInv(clients, serial)
  BY DEF NameInv
<1>2. LessClients(clients, clients)
  BY <1>1, SameClient DEF ClientsInv, LessClients
<1> QED
  BY <1>1, <1>2, LesserFine

\* The requests of the devices.
LEMMA DeviceStep ==
  ASSUME NameInv, IInv', NEW d \in Devices,
         \/ \E blocks \in BOOLEAN : Register(d, blocks)
         \/ Deregister(d) \/ Restart(d)
         \/ \E full \in BOOLEAN : Update(d, full)
         \/ \E uri \in DOMAIN dev[d].watch : observe_handleNotify(d, uri)
  PROVE  NameInv' /\ (crashed' \/ Kept(clients', clients))
<1>1. /\ serial \in Nat /\ ClientsInv(clients, serial) /\ DevicesInv(dev) /\ IsDevice(dev[d])
  BY DEF NameInv, DevicesInv
<1>2. trans' = trans
  BY DEF Register, Deregister, Restart, Update, observe_handleNotify
<1>3. ASSUME NEW l, dev' = [dev EXCEPT ![d].loc = l]
      PROVE  DevicesInv(dev') /\ \A i, n, r, u : Watched(dev', i, n, r, u) => Watched(dev, i, n, r, u)
  <2> DEFINE v == [dev[d] EXCEPT !.loc = l]
  <2>1. IsDevice(v) /\ v.watch = dev[d].watch
    BY <1>1 DEF IsDevice
  <2>2. dev' = [dev EXCEPT ![d] = v]
    BY <1>3
  <2> HIDE DEF v
  <2> QED
    BY <1>1, <2>1, <2>2, FewerTokens
<1>4. DevicesInv(dev') /\ \A i, n, r, u : Watched(dev', i, n, r, u) => Watched(dev, i, n, r, u)
  <2>1. ASSUME NEW blocks, Register(d, blocks)
        PROVE  DevicesInv(dev') /\ \A i, n, r, u : Watched(dev', i, n, r, u) => Watched(dev, i, n, r, u)
    <3>1. dev' = dev \/ \E l : dev' = [dev EXCEPT ![d].loc = l]
      BY <2>1, RegisterResult DEF Register
    <3> QED
      BY <1>1, <1>3, <3>1
  <2>2. CASE Deregister(d)
    <3>1. dev' = [dev EXCEPT ![d].loc = NoLoc]
      BY <2>2 DEF Deregister
    <3> QED
      BY <1>3, <3>1
  <2>3. CASE Restart(d)
    <3> DEFINE v == [dev[d] EXCEPT !.loc = NoLoc, !.watch = <<>>]
    <3>1. IsDevice(v) /\ v.watch = <<>> /\ DOMAIN <<>> = {}
      BY <1>1 DEF IsDevice
    <3>2. dev' = [dev EXCEPT ![d] = v]
      BY <2>3 DEF Restart
    <3> HIDE DEF v
    <3>3. DOMAIN v.watch \subseteq DOMAIN dev[d].watch
          /\ \A u \in DOMAIN v.watch : v.watch[u] = dev[d].watch[u]
      BY <3>1
    <3> QED
      BY <1>1, <3>1, <3>2, <3>3, FewerTokens
  <2>4. ASSUME NEW full \in BOOLEAN, Update(d, full)
        PROVE  DevicesInv(dev') /\ \A i, n, r, u : Watched(dev', i, n, r, u) => Watched(dev, i, n, r, u)
    <3>1. dev' = dev \/ dev' = [dev EXCEPT ![d].loc = NoLoc]
      BY <2>4 DEF Update
    <3> QED
      BY <1>1, <1>3, <3>1
  <2>5. ASSUME NEW uri \in DOMAIN dev[d].watch, observe_handleNotify(d, uri)
        PROVE  DevicesInv(dev') /\ \A i, n, r, u : Watched(dev', i, n, r, u) => Watched(dev, i, n, r, u)
    <3> DEFINE w == dev[d].watch
               x == Restrict(w, DOMAIN w \ {uri})
               v == [dev[d] EXCEPT !.watch = x]
    <3>1. dev' = [dev EXCEPT ![d] = v]
      BY <2>5 DEF observe_handleNotify
    <3>2. DOMAIN x \subseteq DOMAIN w /\ \A u \in DOMAIN x : x[u] = w[u]
      BY DEF Restrict
    <3> HIDE DEF x
    <3>3. IsDevice(v) /\ v.watch = x
      BY <1>1 DEF IsDevice
    <3> HIDE DEF v
    <3>4. DOMAIN v.watch \subseteq DOMAIN dev[d].watch
          /\ \A u \in DOMAIN v.watch : v.watch[u] = dev[d].watch[u]
      BY <3>2, <3>3
    <3> QED
      BY <1>1, <3>1, <3>3, <3>4, FewerTokens
  <2> QED
    BY <2>1, <2>2, <2>3, <2>4, <2>5
<1>5. Fine(clients', clients, serial', serial) /\ serial' \in Nat /\ serial <= serial'
  <2>1. ASSUME NEW blocks, Register(d, blocks)
        PROVE  Fine(clients', clients, serial', serial) /\ serial' \in Nat /\ serial <= serial'
    <3>1. handleRegister(d, blocks)
      BY <2>1 DEF Register
    <3>2. CASE UNCHANGED <<clients, serial, dev>>
      BY <1>1, <3>2, SameFine
    <3> QED
      BY <3>1, <3>2, RegisterFine
  <2>2. CASE Deregister(d)
    <3> DEFINE D == DOMAIN clients \ {dev[d].loc}
    <3>1. clients' = Restrict(clients, D) /\ serial' = serial
      BY <2>2 DEF Deregister, registration_freeClient
    <3>2. D \in SUBSET (DOMAIN clients)
      OBVIOUS
    <3> HIDE DEF D
    <3> QED
      BY <1>1, <3>1, <3>2, LeaveLess, LesserFine
  <2>3. CASE Restart(d)
    BY <1>1, <2>3, SameFine DEF Restart
  <2>4. ASSUME NEW full \in BOOLEAN, Update(d, full)
        PROVE  Fine(clients', clients, serial, serial) /\ serial' = serial
    <3>1. CASE dev[d].loc \in DOMAIN clients
      BY <1>1, <2>4, <3>1, UpdateLess, LesserFine DEF Update
    <3>2. CASE dev[d].loc \notin DOMAIN clients
      BY <2>4, <3>2, SameFine DEF Update
    <3> QED
      BY <3>1, <3>2
  <2>5. ASSUME NEW uri \in DOMAIN dev[d].watch, observe_handleNotify(d, uri)
        PROVE  Fine(clients', clients, serial, serial) /\ serial' = serial
    BY <2>5, SameFine DEF observe_handleNotify
  <2> QED
    BY <1>1, <2>1, <2>2, <2>3, <2>4, <2>5
<1>6. \A i, n, r, u : Asked(trans', i, n, r, u) => Asked(trans, i, n, r, u)
  BY <1>2
<1> QED
  BY <1>4, <1>5, <1>6, FineNames DEF Fine

\* The step of the registrations leaves a part of the clients.
LEMMA TimeLess ==
  ASSUME NameInv, Step
  PROVE  LessClients(clients', clients)
<1>1. PICK over \in SUBSET DOMAIN clients : clients' = Restrict(clients, DOMAIN clients \ over)
  BY DEF Step
<1> DEFINE D == DOMAIN clients \ over
<1>2. clients' = Restrict(clients, D) /\ D \in SUBSET (DOMAIN clients)
  BY <1>1
<1> HIDE DEF D
<1> QED
  BY <1>2, LeaveLess

\* The names hold on when registrations end.
LEMMA TimeStep ==
  ASSUME NameInv, IInv', Step
  PROVE  NameInv' /\ (crashed' \/ Kept(clients', clients))
<1>1. trans' = trans /\ dev' = dev /\ serial' = serial
  BY DEF Step
<1>2. serial \in Nat /\ DevicesInv(dev) /\ ClientsInv(clients, serial)
  BY DEF NameInv
<1>3. Fine(clients', clients, serial, serial)
  BY <1>2, TimeLess, LesserFine
<1> QED
  BY <1>1, <1>2, <1>3, FineNames DEF Fine
----------------------------------------------------------------------------
\* lwm2m_observe: the counter moves on, and a request gets the next id.
LEMMA ObserveClients ==
  ASSUME NameInv, NEW i \in DOMAIN clients, NEW uri, prv_lwm2m_observe(i, uri)
  PROVE  /\ ClientsInv(clients', serial) /\ Kept(clients', clients)
         /\ LessClients(clients', clients) /\ CountsOn(clients', clients, i)
         /\ \/ trans' = trans
            \/ trans' = Append(trans, transaction_new("observe", i, uri, clients[i].observationId + 1))
<1> DEFINE c == clients[i]
           id == c.observationId + 1
           old == prv_findObservationByURI(i, uri)
           obs == c.obs
           asked == [k \in DOMAIN obs |->
                       IF k = old THEN [obs[k] EXCEPT !.status = "REG_PENDING"] ELSE obs[k]]
           c1 == [c EXCEPT !.observationId = id]
           c2 == [c EXCEPT !.observationId = id, !.obs = asked]
<1>1. /\ serial \in Nat /\ ClientsInv(clients, serial)
      /\ \A j \in DOMAIN clients : /\ IsClient(clients[j]) /\ clients[j].observationId \in Nat
                                   /\ IsObsList(clients[j].obs)
  BY DEF NameInv, ClientsInv, IsClient
<1>2. \/ clients' = [clients EXCEPT ![i] = c1] /\ trans' = trans
      \/ /\ clients' = [clients EXCEPT ![i] = c2]
         /\ trans' = Append(trans, transaction_new("observe", i, uri, id))
  BY DEF prv_lwm2m_observe, NextId, Refused
<1>3. Fewer(asked, obs, DOMAIN obs) /\ IsObsList(asked)
  BY <1>1, SetStatus DEF Fewer
<1>4. Fewer(obs, obs, DOMAIN obs)
  BY <1>1, SameList
<1> HIDE DEF asked, old
<1>5. /\ DOMAIN c1 = DOMAIN c /\ c1.observationId = id /\ c1.serial = c.serial /\ c1.obs = obs
      /\ DOMAIN c2 = DOMAIN c /\ c2.observationId = id /\ c2.serial = c.serial /\ c2.obs = asked
      /\ c1.name = c.name /\ c1.session = c.session
      /\ c2.name = c.name /\ c2.session = c.session
  BY <1>1 DEF IsClient
<1>6. c.observationId \in Nat /\ id \in Nat /\ id = c.observationId + 1 /\ id >= c.observationId
  BY <1>1
<1> HIDE DEF c1, c2, id
<1>7. /\ IsClient(c1) /\ Lesser(c1, c)
      /\ IsClient(c2) /\ Lesser(c2, c)
  BY <1>1, <1>3, <1>4, <1>5, <1>6 DEF IsClient, Lesser
<1>8. PICK c3 \in {c1, c2} : clients' = [clients EXCEPT ![i] = c3]
  BY <1>2
<1>9. Lesser(c3, c) /\ c3.serial = c.serial /\ c3.observationId = c.observationId + 1
  BY <1>5, <1>6, <1>7
<1>10. LessClients(clients', clients) /\ Fine(clients', clients, serial, serial)
  BY <1>1, <1>8, <1>9, OneLesser, LesserFine
<1>11. /\ DOMAIN clients' = DOMAIN clients
       /\ \A j \in DOMAIN clients : clients'[j] = IF j = i THEN c3 ELSE clients[j]
  BY <1>8
<1>12. ASSUME NEW j \in DOMAIN clients
       PROVE  /\ clients'[j].serial = clients[j].serial
              /\ clients'[j].observationId = clients[j].observationId + (IF j = i THEN 1 ELSE 0)
  BY <1>1, <1>9, <1>11
<1>13. ClientsInv(clients', serial) /\ Kept(clients', clients)
  BY <1>10 DEF Fine
<1>14. \/ trans' = trans
       \/ trans' = Append(trans, transaction_new("observe", i, uri, c.observationId + 1))
  BY <1>2, <1>6
<1> QED
  BY <1>10, <1>11, <1>12, <1>13, <1>14 DEF CountsOn

\* The names hold on when the user observes a path, with the next id as a new name.
LEMMA ObserveStep ==
  ASSUME NameInv, IInv', NEW i \in DOMAIN clients, NEW uri, Observe(i, uri)
  PROVE  NameInv' /\ (crashed' \/ Kept(clients', clients))
<1> DEFINE id == clients[i].observationId + 1
           t == transaction_new("observe", i, uri, id)
<1>1. prv_lwm2m_observe(i, uri) /\ dev' = dev /\ serial' = serial
  BY DEF Observe
<1>2. trans' = trans \/ trans' = Append(trans, t)
  BY <1>1, ObserveClients
<1>3. ClientsInv(clients', serial) /\ Kept(clients', clients) /\ CountsOn(clients', clients, i)
  BY <1>1, ObserveClients
<1>4. /\ t.kind = "observe" /\ t.client = i /\ t.uri = uri /\ t.obs = id
      /\ t.serial = clients[i].serial
  BY DEF transaction_new
<1> HIDE DEF t
<1>5. ASSUME NEW j, NEW n, NEW r, NEW u, Named(clients', trans', dev', j, n, r, u)
      PROVE  Named(clients, trans, dev, j, n, r, u) \/ NextName(clients, i, uri, j, n, r, u)
  <2>1. CASE Listed(clients', j, n, r, u)
    BY <1>3, <2>1, KeptListed DEF Named
  <2>2. CASE Watched(dev', j, n, r, u)
    BY <1>1, <2>2 DEF Named
  <2>3. CASE Asked(trans', j, n, r, u)
    <3>1. CASE trans' = trans
      BY <2>3, <3>1 DEF Named
    <3>2. CASE trans' = Append(trans, t)
      <4>1. IsRequestList(trans)
        BY DEF NameInv, IInv
      <4>2. Asked(Append(trans, t), j, n, r, u)
        BY <2>3, <3>2
      <4>3. Asked(trans, j, n, r, u) \/ Names(t, j, n, r, u)
        BY <4>1, <4>2, AskedAppend
      <4> QED
        BY <1>4, <4>3 DEF Named, Names, NextName
    <3> QED
      BY <1>2, <3>1, <3>2
  <2> QED
    BY <1>5, <2>1, <2>2, <2>3 DEF Named
<1>6. serial \in Nat /\ ClientsInv(clients, serial) /\ KeyInv(clients, trans, dev, serial)
  BY DEF NameInv
<1>7. KeyInv(clients', trans', dev', serial)
  BY <1>5, <1>6, <1>3, KeysMore
<1> QED
  BY <1>1, <1>7, <1>3 DEF NameInv

\* lwm2m_observe_cancel: a status is changed, or a node is removed.
LEMMA CancelClients ==
  ASSUME NameInv, NEW i \in DOMAIN clients, NEW uri, prv_lwm2m_observe_cancel(i, uri)
  PROVE  /\ LessClients(clients', clients)
         /\ \/ trans' = trans
            \/ \E n : trans' = Append(trans, transaction_new("cancel", i, uri, n))
<1> DEFINE c == clients[i]
           obs == c.obs
           k == prv_findObservationByURI(i, uri)
           t == transaction_new("cancel", i, uri, obs[k].id)
           marked == [j \in DOMAIN obs |->
                        IF j = k THEN [obs[j] EXCEPT !.status = "DEREG_PENDING"] ELSE obs[j]]
           less == observe_remove(obs, k)
<1>1. \/ /\ clients' = [clients EXCEPT ![i].obs[k].status = "DEREG_PENDING"]
         /\ trans' = Append(trans, t)
      \/ clients' = [clients EXCEPT ![i].obs = less] /\ trans' = trans
  BY DEF prv_lwm2m_observe_cancel, Refused
<1>2. serial \in Nat /\ ClientsInv(clients, serial) /\ IsClient(c) /\ IsObsList(obs)
  BY DEF NameInv, ClientsInv, IsClient
<1>3. [clients EXCEPT ![i].obs[k].status = "DEREG_PENDING"] = [clients EXCEPT ![i].obs = marked]
  <2>1. [obs EXCEPT ![k].status = "DEREG_PENDING"] = marked
    OBVIOUS
  <2> QED BY <2>1
<1>4. Fewer(marked, obs, DOMAIN obs) /\ Fewer(less, obs, DOMAIN obs)
  BY <1>2, SetStatus, RemoveFewer
<1> HIDE DEF marked, less
<1>5. PICK r \in {marked, less} : clients' = [clients EXCEPT ![i].obs = r]
  BY <1>1, <1>3
<1> DEFINE c1 == [c EXCEPT !.obs = r]
<1>6. Lesser(c1, c)
  BY <1>2, <1>4, <1>5, ListLesser
<1>7. clients' = [clients EXCEPT ![i] = c1]
  BY <1>5
<1> HIDE DEF c1
<1>8. LessClients(clients', clients)
  BY <1>2, <1>6, <1>7, OneLesser
<1> QED
  BY <1>1, <1>8

\* A cancel makes no new name.
LEMMA CancelStep ==
  ASSUME NameInv, IInv', NEW i \in DOMAIN clients, NEW uri, Cancel(i, uri)
  PROVE  NameInv' /\ (crashed' \/ Kept(clients', clients))
<1>1. prv_lwm2m_observe_cancel(i, uri) /\ dev' = dev /\ serial' = serial
  BY DEF Cancel
<1>2. serial \in Nat /\ ClientsInv(clients, serial) /\ DevicesInv(dev) /\ IsRequestList(trans)
  BY DEF NameInv, IInv
<1>3. Fine(clients', clients, serial, serial)
  BY <1>1, <1>2, CancelClients, LesserFine
<1>4. ASSUME NEW j, NEW n, NEW q, NEW u, Asked(trans', j, n, q, u)
      PROVE  Asked(trans, j, n, q, u)
  <2>1. CASE trans' = trans
    BY <1>4, <2>1
  <2>2. ASSUME NEW id, trans' = Append(trans, transaction_new("cancel", i, uri, id))
        PROVE  Asked(trans, j, n, q, u)
    <3> DEFINE t == transaction_new("cancel", i, uri, id)
    <3>1. ~Names(t, j, n, q, u)
      BY DEF transaction_new, Names
    <3>2. Asked(Append(trans, t), j, n, q, u)
      BY <1>4, <2>2
    <3> HIDE DEF t
    <3> QED
      BY <1>2, <3>1, <3>2, AskedAppend
  <2> QED
    BY <1>1, <2>1, <2>2, CancelClients
<1> QED
  BY <1>1, <1>2, <1>3, <1>4, FineNames DEF Fine

\* The calls of management.c.
LEMMA ManageStep ==
  ASSUME NameInv, IInv', NEW i, NEW o \in Operations, Manage(i, o)
  PROVE  NameInv' /\ (crashed' \/ Kept(clients', clients))
<1> DEFINE t == transaction_new(o.op, i, o.uri, 0)
<1>1. clients' = clients /\ dev' = dev /\ serial' = serial /\ trans' = Append(trans, t)
  BY DEF Manage, prv_makeOperation
<1>2. t.kind # "observe"
  BY ServerAssumption DEF transaction_new
<1> HIDE DEF t
<1>3. IsRequestList(trans) /\ serial \in Nat /\ DevicesInv(dev)
  BY DEF NameInv, IInv
<1>4. ASSUME NEW j, NEW n, NEW q, NEW u, Asked(trans', j, n, q, u)
      PROVE  Asked(trans, j, n, q, u)
  <2>1. Asked(Append(trans, t), j, n, q, u)
    BY <1>1, <1>4
  <2>2. ~Names(t, j, n, q, u)
    BY <1>2 DEF Names
  <2> QED
    BY <1>3, <2>1, <2>2, AskedAppend
<1>5. Fine(clients, clients, serial, serial)
  BY SameFine
<1> QED
  BY <1>1, <1>3, <1>4, <1>5, FineNames DEF Fine
----------------------------------------------------------------------------
\* A request reaches its device, which may take up its name in a token.
LEMMA DeliverStep ==
  ASSUME NameInv, IInv', NEW k \in DOMAIN trans, Deliver(k)
  PROVE  NameInv' /\ (crashed' \/ Kept(clients', clients))
<1> DEFINE t == trans[k]
<1>0. PICK h \in Handled(t.to, t) :
        /\ dev' = [dev EXCEPT ![t.to] = h[1]]
        /\ trans' = Append(RemoveAt(trans, k), [t EXCEPT !.code = h[2]])
  BY DEF Deliver
<1> DEFINE v == h[1]
<1>1. /\ clients' = clients /\ serial' = serial
      /\ dev' = [dev EXCEPT ![t.to] = v]
      /\ trans' = Append(RemoveAt(trans, k), [t EXCEPT !.code = h[2]])
  BY <1>0 DEF Deliver
<1>2. serial \in Nat /\ DevicesInv(dev) /\ IsRequestList(trans)
  BY DEF NameInv, IInv
<1>3. Fine(clients, clients, serial, serial)
  BY SameFine
<1>4. ASSUME NEW i, NEW n, NEW r, NEW u, Asked(trans', i, n, r, u)
      PROVE  Asked(trans, i, n, r, u)
  BY <1>1, <1>2, <1>4, AskedCode
<1>5. DevicesInv(dev') /\ \A i, n, r, u : Watched(dev', i, n, r, u) =>
        Watched(dev, i, n, r, u) \/ Asked(trans, i, n, r, u)
  <2>1. CASE t.to \notin Devices
    <3>1. DOMAIN dev = Devices
      BY <1>2 DEF DevicesInv
    <3>2. DOMAIN dev' = Devices /\ \A d \in Devices : dev'[d] = dev[d]
      BY <1>1, <2>1, <3>1
    <3> QED
      BY <1>2, <3>2 DEF DevicesInv, Watched
  <2>2. CASE t.to \in Devices
    <3> DEFINE w == dev[t.to].watch
    <3>1. /\ IsDevice(v)
          /\ \A u \in DOMAIN v.watch :
               \/ u \in DOMAIN w /\ v.watch[u] = w[u]
               \/ t.kind = "observe" /\ u = t.uri /\ v.watch[u] = Token(t)
      BY <1>2, <2>2, HandledWatch DEF Watches
    <3> HIDE DEF v
    <3>2. DOMAIN dev = Devices
      BY <1>2 DEF DevicesInv
    <3>3. DOMAIN dev' = Devices /\ \A d \in Devices : dev'[d] = IF d = t.to THEN v ELSE dev[d]
      BY <1>1, <3>2
    <3>4. DevicesInv(dev')
      BY <1>2, <3>1, <3>3 DEF DevicesInv
    <3>5. ASSUME NEW i, NEW n, NEW r, NEW u, Watched(dev', i, n, r, u)
          PROVE  Watched(dev, i, n, r, u) \/ Asked(trans, i, n, r, u)
      <4>1. PICK d \in Devices :
              /\ u \in DOMAIN dev'[d].watch
              /\ dev'[d].watch[u].client = i /\ dev'[d].watch[u].obs = n
              /\ dev'[d].watch[u].serial = r
        BY <3>5 DEF Watched
      <4>2. CASE d # t.to
        BY <3>3, <4>1, <4>2 DEF Watched
      <4>3. CASE d = t.to
        <5>1. /\ u \in DOMAIN v.watch
              /\ v.watch[u].client = i /\ v.watch[u].obs = n /\ v.watch[u].serial = r
          BY <3>3, <4>1, <4>3
        <5>2. CASE u \in DOMAIN w /\ v.watch[u] = w[u]
          BY <2>2, <5>1, <5>2 DEF Watched
        <5>3. CASE t.kind = "observe" /\ u = t.uri /\ v.watch[u] = Token(t)
          <6>1. Names(t, i, n, r, u)
            BY <5>1, <5>3 DEF Token, Names
          <6> QED
            BY <6>1 DEF Asked
        <5> QED
          BY <3>1, <5>1, <5>2, <5>3
      <4> QED
        BY <4>2, <4>3
    <3> QED
      BY <3>4, <3>5
  <2> QED
    BY <2>1, <2>2
<1> HIDE DEF v
<1>6. NameInv'
  <2>1. Fine(clients', clients, serial', serial) /\ serial' \in Nat /\ serial <= serial'
    BY <1>1, <1>2, <1>3
  <2> QED
    BY <1>4, <1>5, <2>1, FineNames
<1> QED
  BY <1>1, <1>3, <1>6 DEF Fine

\* The list of a client when an observation is answered with 2.05.
LEMMA AnsweredList ==
  ASSUME NameInv, NEW t, t.client \in DOMAIN clients
  PROVE  LET obs == clients[t.client].obs
             k == prv_findObservationByURI(t.client, t.uri)
             node == Observed(t, obs, k)
             rest == IF k = 0 THEN obs ELSE lwm2m_list_remove(obs, obs[k].id)
             r == lwm2m_list_add(rest, node)
         IN  /\ node.id = t.obs /\ node.uri = t.uri /\ node.serial = t.serial
             /\ More(r, obs, DOMAIN obs, node)
             /\ (k = 0 \/ Removable(obs, k)) /\ Distinct(obs) => Distinct(r)
<1> DEFINE obs == clients[t.client].obs
           k == prv_findObservationByURI(t.client, t.uri)
           node == Observed(t, obs, k)
           rest == IF k = 0 THEN obs ELSE lwm2m_list_remove(obs, obs[k].id)
           r == lwm2m_list_add(rest, node)
           f == lwm2m_list_find(obs, obs[k].id)
           K == IF k = 0 THEN DOMAIN obs ELSE DOMAIN obs \ {f}
<1>1. IsObsList(obs)
  BY DEF NameInv, ClientsInv, IsClient
<1>2. /\ k # 0 => k \in DOMAIN obs /\ obs[k].uri = t.uri
      /\ k = 0 => \A j \in DOMAIN obs : obs[j].uri # t.uri
  BY <1>1, FindByUri
<1>3. IsObservation(node) /\ node.id = t.obs /\ node.uri = t.uri /\ node.serial = t.serial
  BY DEF Observed, IsObservation
<1>4. Fewer(rest, obs, K)
  <2>1. CASE k = 0
    BY <1>1, <2>1, SameList
  <2>2. CASE k # 0
    <3>1. Fewer(lwm2m_list_remove(obs, obs[k].id), obs, DOMAIN obs \ {f})
      BY <1>1, FindRemove
    <3> QED
      BY <2>2, <3>1
  <2> QED
    BY <2>1, <2>2
<1>5. K \in SUBSET (DOMAIN obs) /\ ((k = 0 \/ Removable(obs, k)) /\ k # 0 => K = DOMAIN obs \ {k})
  BY DEF Removable
<1>6. ASSUME k = 0
      PROVE  K = DOMAIN obs
  BY <1>6
<1> HIDE DEF rest, node, K, f, k
<1>7. IsObsList(rest)
  BY <1>4 DEF Fewer
<1>8. More(r, rest, DOMAIN rest, node)
  BY <1>3, <1>7, AddNode
<1> HIDE DEF r
<1>9. More(r, obs, K, node)
  BY <1>4, <1>8, PartOfFewer DEF More
<1>10. More(r, obs, DOMAIN obs, node)
  <2>1. PICK p \in DOMAIN r : Same(r[p], node) /\ Part(r, DOMAIN r \ {p}, obs, K)
    BY <1>9 DEF More
  <2>2. PICK g \in [DOMAIN r \ {p} -> K] :
          /\ \A j \in DOMAIN r \ {p} : Same(r[j], obs[g[j]])
          /\ \A i, j \in DOMAIN r \ {p} : g[i] = g[j] => i = j
    BY <2>1 DEF Part
  <2>3. g \in [DOMAIN r \ {p} -> DOMAIN obs]
    BY <1>5, <2>2
  <2>4. Part(r, DOMAIN r \ {p}, obs, DOMAIN obs)
    BY <2>2, <2>3 DEF Part
  <2> QED
    BY <1>9, <2>1, <2>4 DEF More
<1>11. ASSUME k = 0 \/ Removable(obs, k), Distinct(obs)
       PROVE  Distinct(r)
  <2>1. \A j \in K : obs[j].uri # t.uri
    <3>1. CASE k = 0
      BY <1>2, <1>6, <3>1
    <3>2. CASE k # 0
      BY <1>2, <1>5, <1>11, <3>2 DEF Distinct
    <3> QED
      BY <3>1, <3>2
  <2> QED
    BY <1>3, <1>5, <1>9, <1>11, <2>1, MoreDistinct
<1> QED
  BY <1>3, <1>10, <1>11 DEF r, rest, node, k

\* The answer of a device, or the end of the retransmissions.
LEMMA FinishStep ==
  ASSUME NameInv, IInv', NEW k \in DOMAIN trans, NEW message, Finish(k, message)
  PROVE  /\ NameInv'
         /\ (\A i \in DOMAIN clients : Distinct(clients[i].obs)) /\ ~crashed'
            => \A i \in DOMAIN clients' : Distinct(clients'[i].obs)
<1> DEFINE t == trans[k]
           i == t.client
           obs == clients[i].obs
           o == prv_findObservationByURI(i, t.uri)
           node == Observed(t, obs, o)
           rest == IF o = 0 THEN obs ELSE lwm2m_list_remove(obs, obs[o].id)
           added == lwm2m_list_add(rest, node)
           less == observe_remove(obs, o)
<1>1. /\ Callback(t, message) /\ dev' = dev /\ serial' = serial
      /\ trans' = RemoveAt(trans, k)
  BY DEF Finish
<1>2. /\ serial \in Nat /\ ClientsInv(clients, serial) /\ DevicesInv(dev)
      /\ IsRequestList(trans) /\ KeyInv(clients, trans, dev, serial)
  BY DEF NameInv, IInv
<1>3. \A j, n, r, u : Asked(trans', j, n, r, u) => Asked(trans, j, n, r, u)
  BY <1>1, <1>2, AskedLess
<1>4. ASSUME Fine(clients', clients, serial, serial)
      PROVE  /\ NameInv'
             /\ (\A j \in DOMAIN clients : Distinct(clients[j].obs))
                => \A j \in DOMAIN clients' : Distinct(clients'[j].obs)
  <2>1. NameInv'
    BY <1>1, <1>2, <1>3, <1>4, FineNames
  <2>2. Kept(clients', clients)
    BY <1>4 DEF Fine
  <2> QED
    BY <2>1, <2>2, KeptDistinct
<1>5. \/ clients' = clients
      \/ i \in DOMAIN clients /\ clients' = [clients EXCEPT ![i].obs = less]
      \/ /\ t.kind = "observe" /\ i \in DOMAIN clients
         /\ clients' = [clients EXCEPT ![i].obs = added]
         /\ crashed' = (o # 0 /\ ~Removable(obs, o))
  <2>1. CASE t.kind = "observe"
    <3>1. prv_obsRequestCallback(t, message)
      BY <1>1, <2>1 DEF Callback
    <3>2. CASE i \notin DOMAIN clients
      BY <3>1, <3>2 DEF prv_obsRequestCallback
    <3>3. CASE i \in DOMAIN clients /\ (message # "2.05" \/ (o # 0 /\ obs[o].status = "DEREG_PENDING"))
      BY <3>1, <3>3 DEF prv_obsRequestCallback
    <3>4. CASE i \in DOMAIN clients /\ ~(message # "2.05" \/ (o # 0 /\ obs[o].status = "DEREG_PENDING"))
      <4>1. clients' = [clients EXCEPT ![i].obs = lwm2m_list_add(rest, Observed(t, @, o))]
            /\ crashed' = (o # 0 /\ ~Removable(obs, o))
        BY <3>1, <3>4 DEF prv_obsRequestCallback
      <4> QED
        BY <2>1, <3>4, <4>1
    <3> QED
      BY <3>2, <3>3, <3>4
  <2>2. CASE t.kind = "cancel"
    BY <1>1, <2>2 DEF Callback, prv_obsCancelRequestCallback
  <2>3. CASE t.kind \notin {"observe", "cancel"}
    BY <1>1, <2>3 DEF Callback, prv_resultCallback
  <2> QED
    BY <2>1, <2>2, <2>3
<1>6. CASE clients' = clients
  BY <1>4, <1>6, SameFine
<1>7. CASE i \in DOMAIN clients /\ clients' = [clients EXCEPT ![i].obs = less]
  <2> DEFINE c1 == [clients[i] EXCEPT !.obs = less]
  <2>1. IsClient(clients[i]) /\ IsObsList(obs)
    BY <1>2, <1>7 DEF ClientsInv, IsClient
  <2>2. Fewer(less, obs, DOMAIN obs)
    BY <2>1, RemoveFewer
  <2> HIDE DEF less
  <2>3. Lesser(c1, clients[i])
    BY <2>1, <2>2, ListLesser
  <2>4. clients' = [clients EXCEPT ![i] = c1]
    BY <1>7
  <2> HIDE DEF c1
  <2>5. Fine(clients', clients, serial, serial)
    BY <1>2, <1>7, <2>3, <2>4, OneLesser, LesserFine
  <2> QED
    BY <1>4, <2>5
<1>8. CASE /\ t.kind = "observe" /\ i \in DOMAIN clients
           /\ clients' = [clients EXCEPT ![i].obs = added]
           /\ crashed' = (o # 0 /\ ~Removable(obs, o))
  <2>1. /\ node.id = t.obs /\ node.uri = t.uri /\ node.serial = t.serial
        /\ More(added, obs, DOMAIN obs, node)
        /\ (o = 0 \/ Removable(obs, o)) /\ Distinct(obs) => Distinct(added)
    BY <1>8, AnsweredList
  <2> HIDE DEF node, added, o
  <2>2. /\ DOMAIN clients' = DOMAIN clients
        /\ \A j \in DOMAIN clients : j # i => clients'[j] = clients[j]
    BY <1>8
  <2>3. IsClient(clients[i]) /\ i \in DOMAIN clients
    BY <1>2, <1>8 DEF ClientsInv
  <2>4. /\ clients'[i].obs = added /\ clients'[i].serial = clients[i].serial
        /\ clients'[i].observationId = clients[i].observationId
        /\ DOMAIN clients'[i] = DOMAIN clients[i]
    BY <1>8, <2>3 DEF IsClient
  <2>5. IsClient(clients'[i])
    BY <2>1, <2>3, <2>4 DEF IsClient, More
  <2>6. ClientsInv(clients', serial)
    BY <1>2, <2>2, <2>3, <2>4, <2>5 DEF ClientsInv
  <2>7. Numbered(clients', clients, serial)
    <3>1. \A j \in DOMAIN clients : clients[j].observationId \in Nat
      BY <1>2 DEF ClientsInv, IsClient
    <3>2. \A j \in DOMAIN clients : clients[j].observationId >= clients[j].observationId
      BY <3>1
    <3> QED
      BY <2>2, <2>4, <3>2 DEF Numbered
  <2>8. ASSUME NEW j, NEW n, NEW r, NEW u, Listed(clients', j, n, r, u)
        PROVE  Listed(clients, j, n, r, u) \/ Asked(trans, j, n, r, u)
    <3>1. PICK m \in DOMAIN clients'[j].obs :
            /\ clients'[j].obs[m].id = n /\ clients'[j].obs[m].serial = r
            /\ clients'[j].obs[m].uri = u
      BY <2>8 DEF Listed
    <3>2. CASE j # i
      BY <2>2, <2>8, <3>2 DEF Listed
    <3>3. CASE j = i
      <4>1. /\ m \in DOMAIN added
            /\ added[m].id = n /\ added[m].serial = r /\ added[m].uri = u
        BY <2>4, <3>1, <3>3
      <4>2. PICK p \in DOMAIN added : Same(added[p], node) /\ Part(added, DOMAIN added \ {p}, obs, DOMAIN obs)
        BY <2>1 DEF More
      <4>3. CASE m = p
        <5>1. n = t.obs /\ r = t.serial /\ u = t.uri
          BY <2>1, <4>1, <4>2, <4>3 DEF Same
        <5> QED
          BY <1>8, <3>3, <5>1 DEF Asked, Names
      <4>4. CASE m # p
        <5>1. PICK q \in DOMAIN obs : Same(added[m], obs[q])
          BY <4>1, <4>2, <4>4 DEF Part
        <5> QED
          BY <2>3, <3>3, <4>1, <5>1 DEF Listed, Same
      <4> QED
        BY <4>3, <4>4
    <3> QED
      BY <3>2, <3>3
  <2>9. ASSUME NEW j, NEW n, NEW r, NEW u, Named(clients', trans', dev', j, n, r, u)
        PROVE  Named(clients, trans, dev, j, n, r, u)
    BY <1>1, <1>3, <2>8, <2>9 DEF Named
  <2>10. KeyInv(clients', trans', dev', serial)
    <3>1. serial <= serial
      BY <1>2
    <3> QED
      BY <1>2, <2>6, <2>7, <2>9, <3>1, KeysLess
  <2>11. NameInv'
    BY <1>1, <1>2, <2>6, <2>10 DEF NameInv
  <2>12. ASSUME \A j \in DOMAIN clients : Distinct(clients[j].obs), ~crashed', NEW j \in DOMAIN clients'
         PROVE  Distinct(clients'[j].obs)
    <3>1. CASE j = i
      BY <1>8, <2>1, <2>3, <2>4, <2>12, <3>1
    <3>2. CASE j # i
      BY <2>2, <2>12, <3>2
    <3> QED
      BY <3>1, <3>2
  <2> QED
    BY <2>11, <2>12
<1> QED
  BY <1>5, <1>6, <1>7, <1>8
----------------------------------------------------------------------------
(***************************************************************************)
(* The inductive invariant of the observations: names stand for one path,  *)
(* and the paths of a client are distinct as long as no pointer was wild.  *)
(***************************************************************************)
ObservationInv ==
  NameInv /\ (~crashed => \A i \in DOMAIN clients : Distinct(clients[i].obs))

\* At the start nothing has a name.
LEMMA InitObservationInv == Init => ObservationInv
<1> SUFFICES ASSUME Init PROVE ObservationInv
  OBVIOUS
<1>1. IInv
  BY InitIInv
<1>2. DOMAIN clients = {} /\ DOMAIN trans = {} /\ serial = 0
  BY DEF Init
<1>3. DevicesInv(dev) /\ \A d \in Devices : DOMAIN dev[d].watch = {}
  <2>1. DOMAIN <<>> = {}
    OBVIOUS
  <2> QED
    BY <2>1 DEF Init, DevicesInv, IsDevice
<1>4. \A i, n, r, u : ~Named(clients, trans, dev, i, n, r, u)
  BY <1>2, <1>3 DEF Named, Listed, Asked, Watched
<1>5. ClientsInv(clients, serial) /\ KeyInv(clients, trans, dev, serial)
  BY <1>2, <1>4 DEF ClientsInv, KeyInv
<1> QED
  BY <1>1, <1>2, <1>3, <1>5 DEF ObservationInv, NameInv

\* Every step preserves the invariant of the observations.
LEMMA NextObservationInv == ObservationInv /\ [Next]_vars => ObservationInv'
<1> SUFFICES ASSUME ObservationInv, [Next]_vars PROVE ObservationInv'
  OBVIOUS
<1>1. NameInv /\ IInv
  BY DEF ObservationInv, NameInv
<1>2. IInv'
  BY <1>1, NextIInv
<1>3. ASSUME NameInv', crashed' \/ Kept(clients', clients), ~crashed
      PROVE  ObservationInv'
  BY <1>3, KeptDistinct DEF ObservationInv
<1>4. CASE Next
  <2>1. ~crashed
    BY <1>4 DEF Next
  <2>2. ASSUME NEW d \in Devices,
               \/ \E blocks \in BOOLEAN : Register(d, blocks)
               \/ Deregister(d) \/ Restart(d)
               \/ \E full \in BOOLEAN : Update(d, full)
               \/ \E uri \in DOMAIN dev[d].watch : observe_handleNotify(d, uri)
        PROVE  NameInv' /\ (crashed' \/ Kept(clients', clients))
    BY <1>1, <1>2, <2>2, DeviceStep
  <2>3. CASE Step
    BY <1>1, <1>2, <1>3, <2>1, <2>3, TimeStep
  <2>4. ASSUME NEW i \in DOMAIN clients,
               \/ \E uri \in Paths : Observe(i, uri) \/ Cancel(i, uri)
               \/ \E o \in Operations : Manage(i, o)
        PROVE  NameInv' /\ (crashed' \/ Kept(clients', clients))
    BY <1>1, <1>2, <2>4, ObserveStep, CancelStep, ManageStep
  <2>5. ASSUME NEW k \in DOMAIN trans, Deliver(k)
        PROVE  NameInv' /\ (crashed' \/ Kept(clients', clients))
    BY <1>1, <1>2, <2>5, DeliverStep
  <2>6. ASSUME NEW k \in DOMAIN trans, Respond(k) \/ Timeout(k)
        PROVE  ObservationInv'
    <3>1. PICK message : Finish(k, message)
      BY <2>6 DEF Respond, Timeout
    <3>2. \A i \in DOMAIN clients : Distinct(clients[i].obs)
      BY <2>1 DEF ObservationInv
    <3>3. NameInv' /\ (~crashed' => \A i \in DOMAIN clients' : Distinct(clients'[i].obs))
      BY <1>1, <1>2, <3>1, <3>2, FinishStep
    <3> QED
      BY <3>3 DEF ObservationInv
  <2> QED
    BY <1>3, <1>4, <2>1, <2>2, <2>3, <2>4, <2>5, <2>6 DEF Next
<1>5. CASE UNCHANGED vars
  <2>1. NameInv'
    BY <1>1, <1>2, <1>5 DEF NameInv, vars
  <2> QED
    BY <1>5, <2>1 DEF ObservationInv, vars
<1> QED
  BY <1>4, <1>5

(* However often a path is observed and in whatever order the answers of   *)
(* the devices arrive, prv_obsRequestCallback and the removals leave each  *)
(* client one observation of a path, as long as no pointer was wild.       *)
THEOREM OnePerPath == Spec => []OneObservationPerPath
<1>1. ObservationInv => OneObservationPerPath
  BY DEF ObservationInv, Distinct, OneObservationPerPath
<1> QED
  BY <1>1, InitObservationInv, NextObservationInv, PTL DEF Spec

(* The two ids that observe_handleNotify looks at name one path among the  *)
(* observations of one registration: the counter of prv_lwm2m_observe is   *)
(* never set back while the registration lasts.                            *)
THEOREM RightNotified == Spec => []NotifiedRight
<1>1. ObservationInv => NotifiedRight
  <2> SUFFICES ASSUME ObservationInv, NEW d \in Devices, NEW uri \in DOMAIN dev[d].watch
               PROVE  LET token == dev[d].watch[uri]
                          obs == clients[token.client].obs
                          k == lwm2m_list_find(obs, token.obs)
                      IN  /\ token.serial # 0 /\ token.client \in DOMAIN clients
                          /\ k # 0 /\ obs[k].serial = token.serial
                          => obs[k].uri = uri
    BY DEF NotifiedRight
  <2> DEFINE token == dev[d].watch[uri]
             obs == clients[token.client].obs
             k == lwm2m_list_find(obs, token.obs)
  <2> SUFFICES ASSUME token.serial # 0, token.client \in DOMAIN clients, k # 0,
                      obs[k].serial = token.serial
               PROVE  obs[k].uri = uri
    OBVIOUS
  <2>1. ClientsInv(clients, serial) /\ KeyInv(clients, trans, dev, serial)
    BY DEF ObservationInv, NameInv
  <2>2. IsObsList(obs)
    BY <2>1 DEF ClientsInv, IsClient
  <2>3. k \in DOMAIN obs /\ obs[k].id = token.obs
    BY <2>2, FindRemove
  <2> HIDE DEF k
  <2>4. Named(clients, trans, dev, token.client, token.obs, token.serial, uri)
    BY DEF Named, Watched
  <2>5. Named(clients, trans, dev, token.client, token.obs, token.serial, obs[k].uri)
    BY <2>3 DEF Named, Listed
  <2> QED
    BY <2>1, <2>4, <2>5 DEF KeyInv
<1> QED
  BY <1>1, InitObservationInv, NextObservationInv, PTL DEF Spec
----------------------------------------------------------------------------
(***************************************************************************)
(* What keeps the server and the devices in agreement when the answers and *)
(* notifications of a device stay in order. Client i has a current         *)
(* registration r of device d when r is the number of its record and d     *)
(* believes that it is registered there.                                   *)
(***************************************************************************)
Current(cs, ds, i, r, d) ==
  /\ d \in Devices /\ i \in DOMAIN cs
  /\ cs[i].name = d /\ cs[i].serial = r /\ r # 0 /\ ds[d].loc = i

\* No two records are of one name or of one registration.
RecordsInv(cs) ==
  /\ IsFiniteSet(DOMAIN cs) /\ DOMAIN cs \subseteq Nat
  /\ \A i, j \in DOMAIN cs :
       \/ i = j
       \/ cs[i].name # cs[j].name /\ (cs[i].serial # 0 => cs[i].serial # cs[j].serial)
  /\ \A i \in DOMAIN cs : /\ cs[i].name \in Devices
                          /\ cs[i].serial # 0 => cs[i].session = cs[i].name

\* A request that was made under a registration is of its client and to its device.
MadeInv(cs, ts, top) ==
  \A k \in DOMAIN ts :
    /\ ts[k].serial \in Nat /\ ts[k].serial <= top
    /\ \A j \in DOMAIN cs : cs[j].serial = ts[k].serial /\ ts[k].serial # 0 =>
         ts[k].client = j /\ ts[k].to = cs[j].name

\* The answered requests about a path that is not marked are in the order of their
\* registrations.
OrderInv(ts, un) ==
  \A j, k \in DOMAIN ts : \A d, u :
    j < k /\ Done(ts[j], d, u) /\ Done(ts[k], d, u) /\ <<d, u>> \notin un =>
      ts[j].serial <= ts[k].serial

\* No request is of a later registration than the current one, and while an answer of an
\* earlier one is to come nothing of its path is observed under the current one.
EarlierInv(cs, ts, ds, un) ==
  \A i, r, d : Current(cs, ds, i, r, d) =>
    \A k \in DOMAIN ts :
      /\ ts[k].to = d => ts[k].serial <= r
      /\ \A n \in DOMAIN cs[i].obs :
           LET o == cs[i].obs[n]
           IN  /\ o.status = "REGISTERED" /\ o.serial = r
               /\ Done(ts[k], d, o.uri) /\ <<d, o.uri>> \notin un
               => ts[k].serial = r

(***************************************************************************)
(* The last of the answered requests about a path tells what the device    *)
(* watches; a request of no registration has marked the path.              *)
(***************************************************************************)
TakenInv(cs, ts, ds, un) ==
  \A k \in DOMAIN ts :
    LET t == ts[k]
    IN  /\ Done(t, t.to, t.uri) /\ t.serial = 0 => <<t.to, t.uri>> \in un
        /\ /\ t.kind = "observe" /\ t.code = "2.05" /\ <<t.to, t.uri>> \notin un
           /\ Current(cs, ds, t.client, t.serial, t.to)
           /\ \A j \in DOMAIN ts : j > k => ~Done(ts[j], t.to, t.uri)
           => t.uri \in DOMAIN ds[t.to].watch /\ ds[t.to].watch[t.uri] = Token(t)

\* The token by which the device watches what node o of client i observes.
IsToken(w, i, r, o) == w.client = i /\ w.serial = r /\ w.obs = o.id

\* When there is none, what the server has as REGISTERED is what the device watches.
AgreeInv(cs, ts, ds, un) ==
  \A i, r, d : Current(cs, ds, i, r, d) =>
    \A n \in DOMAIN cs[i].obs :
      LET o == cs[i].obs[n]
      IN  /\ o.status = "REGISTERED" /\ o.serial = r /\ <<d, o.uri>> \notin un
          /\ \A k \in DOMAIN ts : ~Done(ts[k], d, o.uri)
          => o.uri \in DOMAIN ds[d].watch /\ IsToken(ds[d].watch[o.uri], i, r, o)

Agreement(cs, ts, ds, un) ==
  /\ OrderInv(ts, un) /\ EarlierInv(cs, ts, ds, un)
  /\ TakenInv(cs, ts, ds, un) /\ AgreeInv(cs, ts, ds, un)

\* A current registration of the clients that are left was one before.
LEMMA LessCurrent ==
  ASSUME NEW cs, NEW cs1, LessClients(cs1, cs), NEW ds, NEW i, NEW r, NEW d,
         Current(cs1, ds, i, r, d)
  PROVE  Current(cs, ds, i, r, d)
BY DEF Current, LessClients, Lesser

\* The records that are left are of distinct names and registrations.
LEMMA LessRecords ==
  ASSUME NEW cs, RecordsInv(cs), NEW cs1, LessClients(cs1, cs)
  PROVE  RecordsInv(cs1)
<1>1. DOMAIN cs1 \subseteq DOMAIN cs
  BY DEF LessClients
<1>2. IsFiniteSet(DOMAIN cs1) /\ DOMAIN cs1 \subseteq Nat
  BY <1>1, FS_Subset DEF RecordsInv
<1>3. \A i \in DOMAIN cs1 : /\ cs1[i].name = cs[i].name
                            /\ cs1[i].serial # 0 => cs1[i].serial = cs[i].serial
                                                    /\ cs1[i].session \in {cs[i].session, cs[i].name}
  BY DEF LessClients, Lesser
<1>4. ASSUME NEW i \in DOMAIN cs1, NEW j \in DOMAIN cs1, i # j
      PROVE  cs1[i].name # cs1[j].name /\ (cs1[i].serial # 0 => cs1[i].serial # cs1[j].serial)
  <2>1. cs[i].name # cs[j].name /\ (cs[i].serial # 0 => cs[i].serial # cs[j].serial)
    BY <1>1, <1>4 DEF RecordsInv
  <2> QED
    BY <1>3, <2>1
<1>5. ASSUME NEW i \in DOMAIN cs1
      PROVE  cs1[i].name \in Devices /\ (cs1[i].serial # 0 => cs1[i].session = cs1[i].name)
  BY <1>1, <1>3 DEF RecordsInv
<1> QED
  BY <1>2, <1>4, <1>5 DEF RecordsInv

\* The requests are still of the clients that are left.
LEMMA LessMade ==
  ASSUME NEW cs, NEW ts, NEW top, MadeInv(cs, ts, top), NEW cs1, LessClients(cs1, cs)
  PROVE  MadeInv(cs1, ts, top)
<1>1. \A i \in DOMAIN cs1 : /\ i \in DOMAIN cs /\ cs1[i].name = cs[i].name
                            /\ cs1[i].serial # 0 => cs1[i].serial = cs[i].serial
  BY DEF LessClients, Lesser
<1> QED
  BY <1>1 DEF MadeInv

\* A node of a client that is left was in the client's list.
LEMMA LessNode ==
  ASSUME NEW cs, NEW cs1, LessClients(cs1, cs), NEW i \in DOMAIN cs1, NEW n \in DOMAIN cs1[i].obs
  PROVE  i \in DOMAIN cs /\ \E m \in DOMAIN cs[i].obs : Same(cs1[i].obs[n], cs[i].obs[m])
BY DEF LessClients, Lesser, Fewer, Part

\* Clients that become less, and devices of current registrations that keep their tokens.
LEMMA LessAgreement ==
  ASSUME NEW cs, NEW ts, NEW ds, NEW un, Agreement(cs, ts, ds, un),
         NEW cs1, LessClients(cs1, cs), NEW ds1,
         \A i, r, d : Current(cs1, ds1, i, r, d) =>
           Current(cs, ds, i, r, d) /\ ds1[d].watch = ds[d].watch
  PROVE  Agreement(cs1, ts, ds1, un)
<1>1. EarlierInv(cs1, ts, ds1, un)
  <2> SUFFICES ASSUME NEW i, NEW r, NEW d, Current(cs1, ds1, i, r, d), NEW k \in DOMAIN ts
               PROVE  /\ ts[k].to = d => ts[k].serial <= r
                      /\ \A n \in DOMAIN cs1[i].obs :
                           LET o == cs1[i].obs[n]
                           IN  /\ o.status = "REGISTERED" /\ o.serial = r
                               /\ Done(ts[k], d, o.uri) /\ <<d, o.uri>> \notin un
                               => ts[k].serial = r
    BY DEF EarlierInv
  <2>1. Current(cs, ds, i, r, d) /\ EarlierInv(cs, ts, ds, un) /\ i \in DOMAIN cs1
    BY DEF Agreement, Current
  <2>2. ASSUME NEW n \in DOMAIN cs1[i].obs,
               cs1[i].obs[n].status = "REGISTERED", cs1[i].obs[n].serial = r,
               Done(ts[k], d, cs1[i].obs[n].uri), <<d, cs1[i].obs[n].uri>> \notin un
        PROVE  ts[k].serial = r
    <3>1. PICK m \in DOMAIN cs[i].obs : Same(cs1[i].obs[n], cs[i].obs[m])
      BY <2>1, LessNode
    <3>2. /\ cs[i].obs[m].status = "REGISTERED" /\ cs[i].obs[m].serial = r
          /\ cs[i].obs[m].uri = cs1[i].obs[n].uri
      BY <2>2, <3>1 DEF Same
    <3> QED
      BY <2>1, <2>2, <3>2 DEF EarlierInv
  <2> QED
    BY <2>1, <2>2 DEF EarlierInv
<1>2. OrderInv(ts, un)
  BY DEF Agreement
<1>3. TakenInv(cs1, ts, ds1, un)
  <2> SUFFICES ASSUME NEW k \in DOMAIN ts
               PROVE  LET t == ts[k]
                      IN  /\ Done(t, t.to, t.uri) /\ t.serial = 0 => <<t.to, t.uri>> \in un
                          /\ /\ t.kind = "observe" /\ t.code = "2.05" /\ <<t.to, t.uri>> \notin un
                             /\ Current(cs1, ds1, t.client, t.serial, t.to)
                             /\ \A j \in DOMAIN ts : j > k => ~Done(ts[j], t.to, t.uri)
                             => t.uri \in DOMAIN ds1[t.to].watch /\ ds1[t.to].watch[t.uri] = Token(t)
    BY DEF TakenInv
  <2>1. TakenInv(cs, ts, ds, un)
    BY DEF Agreement
  <2> QED
    BY <2>1 DEF TakenInv
<1>4. AgreeInv(cs1, ts, ds1, un)
  <2> SUFFICES ASSUME NEW i, NEW r, NEW d, Current(cs1, ds1, i, r, d),
                      NEW n \in DOMAIN cs1[i].obs,
                      cs1[i].obs[n].status = "REGISTERED", cs1[i].obs[n].serial = r,
                      <<d, cs1[i].obs[n].uri>> \notin un,
                      \A k \in DOMAIN ts : ~Done(ts[k], d, cs1[i].obs[n].uri)
               PROVE  /\ cs1[i].obs[n].uri \in DOMAIN ds1[d].watch
                      /\ IsToken(ds1[d].watch[cs1[i].obs[n].uri], i, r, cs1[i].obs[n])
    BY DEF AgreeInv
  <2>1. i \in DOMAIN cs1 /\ Current(cs, ds, i, r, d) /\ ds1[d].watch = ds[d].watch
    BY DEF Current
  <2>2. PICK m \in DOMAIN cs[i].obs : Same(cs1[i].obs[n], cs[i].obs[m])
    BY <2>1, LessNode
  <2>3. /\ cs[i].obs[m].status = "REGISTERED" /\ cs[i].obs[m].serial = r
        /\ cs[i].obs[m].uri = cs1[i].obs[n].uri /\ cs[i].obs[m].id = cs1[i].obs[n].id
    BY <2>2 DEF Same
  <2>4. AgreeInv(cs, ts, ds, un)
    BY DEF Agreement
  <2>5. /\ cs[i].obs[m].uri \in DOMAIN ds[d].watch
        /\ IsToken(ds[d].watch[cs[i].obs[m].uri], i, r, cs[i].obs[m])
    BY <2>1, <2>3, <2>4 DEF AgreeInv
  <2> QED
    BY <2>1, <2>3, <2>5 DEF IsToken
<1> QED
  BY <1>1, <1>2, <1>3, <1>4 DEF Agreement

\* A request that has not reached its device is added.
LEMMA AppendAgreement ==
  ASSUME NEW cs, NEW ts, IsRequestList(ts), NEW ds, NEW un, Agreement(cs, ts, ds, un),
         RecordsInv(cs), NEW top, ClientsInv(cs, top), MadeInv(cs, ts, top),
         NEW i \in DOMAIN cs, NEW t, t.code = "none", t.client = i,
         t.serial = cs[i].serial, t.to = cs[i].session
  PROVE  MadeInv(cs, Append(ts, t), top) /\ Agreement(cs, Append(ts, t), ds, un)
<1> DEFINE q == Append(ts, t)
           N == Len(ts) + 1
<1>1. PICK S : ts \in Seq(S)
  BY DEF IsRequestList
<1>2. ts \in Seq(S \cup {t}) /\ t \in S \cup {t}
  BY <1>1
<1>3. /\ Len(ts) \in Nat /\ DOMAIN ts = 1..Len(ts) /\ DOMAIN q = 1..N
      /\ \A k \in 1..Len(ts) : q[k] = ts[k]
      /\ q[N] = t
  BY <1>2, AppendProperties, LenProperties
<1> HIDE DEF q
<1>4. /\ \A k \in DOMAIN ts : k \in DOMAIN q /\ q[k] = ts[k] /\ k < N
      /\ \A k \in DOMAIN q : k \in DOMAIN ts \/ k = N
      /\ N \in DOMAIN q /\ q[N] = t
  <2>1. \A k \in 1..Len(ts) : k \in 1..N /\ k < N
    BY <1>3
  <2>2. \A k \in 1..N : k \in 1..Len(ts) \/ k = N
    BY <1>3
  <2>3. N \in 1..N
    BY <1>3
  <2> QED
    BY <1>3, <2>1, <2>2, <2>3
<1>5. \A k \in DOMAIN ts : ~(N < k)
  BY <1>3
<1>6. ~(N < N)
  BY <1>3
<1> HIDE DEF N
<1>7. ASSUME NEW j \in DOMAIN cs, NEW d, d \in Devices, cs[j].name = d, cs[j].serial # 0,
             t.to = d, t.serial # 0
      PROVE  t.serial = cs[j].serial
  <2>1. cs[i].session = cs[i].name
    BY <1>7 DEF RecordsInv
  <2>2. i = j
    <3>1. cs[i].name = cs[j].name
      BY <1>7, <2>1
    <3> QED
      BY ONLY <3>1, RecordsInv(cs), i \in DOMAIN cs, j \in DOMAIN cs DEF RecordsInv
  <2> QED
    BY <2>2
<1>8. MadeInv(cs, q, top)
  <2>1. t.serial \in Nat /\ t.serial <= top
    BY DEF ClientsInv, IsClient
  <2>2. \A j \in DOMAIN cs : cs[j].serial = t.serial /\ t.serial # 0 => i = j /\ t.to = cs[j].name
    BY DEF RecordsInv
  <2> QED
    BY <1>4, <2>1, <2>2 DEF MadeInv
<1>9. EarlierInv(cs, q, ds, un)
  <2> SUFFICES ASSUME NEW c, NEW r, NEW d, Current(cs, ds, c, r, d), NEW k \in DOMAIN q
               PROVE  /\ q[k].to = d => q[k].serial <= r
                      /\ \A n \in DOMAIN cs[c].obs :
                           LET o == cs[c].obs[n]
                           IN  /\ o.status = "REGISTERED" /\ o.serial = r
                               /\ Done(q[k], d, o.uri) /\ <<d, o.uri>> \notin un
                               => q[k].serial = r
    BY DEF EarlierInv
  <2>1. CASE k = N
    <3>1. t.to = d => t.serial \in {0, r}
      BY <1>7 DEF Current
    <3>2. r \in Nat
      BY DEF Current, ClientsInv, IsClient
    <3> QED
      BY <1>4, <2>1, <3>1, <3>2 DEF Done
  <2>2. CASE k \in DOMAIN ts
    BY <1>4, <2>2 DEF Agreement, EarlierInv
  <2> QED
    BY <1>4, <2>1, <2>2
<1>10. OrderInv(q, un)
  <2> SUFFICES ASSUME NEW j \in DOMAIN q, NEW k \in DOMAIN q, NEW d, NEW u, j < k,
                      Done(q[j], d, u), Done(q[k], d, u), <<d, u>> \notin un
               PROVE  q[j].serial <= q[k].serial
    BY DEF OrderInv
  <2>1. k \in DOMAIN ts /\ j \in DOMAIN ts
    BY <1>4 DEF Done
  <2> QED
    BY <1>4, <2>1 DEF Agreement, OrderInv
<1>11. \A d, u : ~Done(t, d, u)
  BY DEF Done
<1>12. TakenInv(cs, q, ds, un)
  <2> SUFFICES ASSUME NEW k \in DOMAIN q
               PROVE  LET p == q[k]
                      IN  /\ Done(p, p.to, p.uri) /\ p.serial = 0 => <<p.to, p.uri>> \in un
                          /\ /\ p.kind = "observe" /\ p.code = "2.05" /\ <<p.to, p.uri>> \notin un
                             /\ Current(cs, ds, p.client, p.serial, p.to)
                             /\ \A j \in DOMAIN q : j > k => ~Done(q[j], p.to, p.uri)
                             => p.uri \in DOMAIN ds[p.to].watch /\ ds[p.to].watch[p.uri] = Token(p)
    BY DEF TakenInv
  <2>1. CASE k = N
    BY <1>4, <1>11, <2>1
  <2>2. CASE k \in DOMAIN ts
    <3>1. TakenInv(cs, ts, ds, un)
      BY DEF Agreement
    <3>2. q[k] = ts[k] /\ \A j \in DOMAIN ts : j \in DOMAIN q /\ q[j] = ts[j]
      BY <1>4, <2>2
    <3> QED
      BY <2>2, <3>1, <3>2 DEF TakenInv
  <2> QED
    BY <1>4, <2>1, <2>2
<1>13. AgreeInv(cs, q, ds, un)
  <2>1. AgreeInv(cs, ts, ds, un)
    BY DEF Agreement
  <2>2. \A d, u : (\A k \in DOMAIN q : ~Done(q[k], d, u)) => \A k \in DOMAIN ts : ~Done(ts[k], d, u)
    BY <1>4
  <2> QED
    BY <2>1, <2>2 DEF AgreeInv
<1> QED
  BY <1>8, <1>9, <1>10, <1>12, <1>13 DEF Agreement, q

\* The id of a new client is a number that no client has.
LEMMA NewId ==
  ASSUME NEW ids, IsFiniteSet(ids), ids \subseteq Nat
  PROVE  lwm2m_list_newId(ids) \in Nat /\ lwm2m_list_newId(ids) \notin ids
<1> DEFINE N == Cardinality(ids)
           T == {n \in 0..N : n \notin ids}
<1>1. N \in Nat
  BY FS_CardinalityType
<1>2. T # {}
  <2> SUFFICES ASSUME T = {} PROVE FALSE
    OBVIOUS
  <2>1. 0..N \subseteq ids
    OBVIOUS
  <2>2. Cardinality(0..N) <= Cardinality(ids)
    BY <2>1, FS_Subset
  <2>3. Cardinality(0..N) = N - 0 + 1
    BY <1>1, FS_Interval
  <2> QED
    BY <1>1, <2>2, <2>3
<1>3. T \in SUBSET Nat
  BY <1>1
<1>4. Min(T) \in T
  BY <1>2, <1>3, MinOfNats
<1> QED
  BY <1>3, <1>4 DEF lwm2m_list_newId

(***************************************************************************)
(* A registration: the record of the device, or a new one, has a number    *)
(* that nothing was made under.                                            *)
(***************************************************************************)
LEMMA RegisterAgreement ==
  ASSUME NameInv, RecordsInv(clients), MadeInv(clients, trans, serial), NEW d \in Devices,
         NEW blocks, handleRegister(d, blocks), ~UNCHANGED <<clients, serial, dev>>
  PROVE  /\ RecordsInv(clients') /\ MadeInv(clients', trans, serial')
         /\ \A un : Agreement(clients, trans, dev, un) => Agreement(clients', trans, dev', un)
<1>0. PICK D, id, old :
        /\ D \in SUBSET (DOMAIN clients)
        /\ clients' = Put(Restrict(clients, D), id, Registered(d, old))
        /\ old = IF id \in D THEN clients[id] ELSE NewClient(d)
        /\ serial' = serial + 1 /\ dev' = [dev EXCEPT ![d].loc = id]
        /\ \/ id \in prv_getClientByName(d)
           \/ /\ prv_getClientByName(d) = {}
              /\ id \in DOMAIN clients \/ id = lwm2m_list_newId(DOMAIN clients)
  BY RegisterResult
<1> DEFINE left == Restrict(clients, D)
           rec == Registered(d, old)
           top == serial + 1
<1>1. /\ clients' = Put(left, id, rec) /\ serial' = top
      /\ dev' = [dev EXCEPT ![d].loc = id]
  BY <1>0
<1>2. /\ serial \in Nat /\ top \in Nat /\ serial <= top /\ top # 0 /\ ~(top <= serial)
      /\ ClientsInv(clients, serial) /\ DevicesInv(dev)
      /\ KeyInv(clients, trans, dev, serial)
      /\ \A n \in Nat : n <= serial => n <= top
  BY DEF NameInv
<1>3. DOMAIN left = D /\ \A i \in D : left[i] = clients[i]
  BY DEF Restrict
<1>4. id \in Nat /\ \A i \in DOMAIN clients : i # id => clients[i].name # d
  <2>1. CASE id \in prv_getClientByName(d)
    BY <2>1 DEF RecordsInv, prv_getClientByName
  <2>2. CASE prv_getClientByName(d) = {}
    <3>1. \A i \in DOMAIN clients : clients[i].name # d
      BY <2>2 DEF prv_getClientByName
    <3>2. id \in Nat
      BY <1>0, <2>2, NewId DEF RecordsInv
    <3> QED
      BY <3>1, <3>2
  <2> QED
    BY <1>0, <2>1, <2>2
<1>5. IsClient(old) /\ (old.obs = <<>> \/ (id \in DOMAIN clients /\ old.obs = clients[id].obs))
  <2>1. CASE id \in D
    BY <1>0, <1>2, <2>1 DEF ClientsInv
  <2>2. CASE id \notin D
    <3>1. old = NewClient(d)
      BY <1>0, <2>2
    <3>2. IsClient(NewClient(d)) /\ NewClient(d).obs = <<>>
      BY EmptyList DEF NewClient, IsClient
    <3> QED
      BY <3>1, <3>2
  <2> QED
    BY <2>1, <2>2
<1> HIDE DEF left
<1>7. rec.name = d /\ rec.session = d /\ rec.serial = top /\ rec.obs = old.obs
  BY <1>5 DEF Registered, IsClient
<1> HIDE DEF rec, top
<1>8. /\ DOMAIN clients' = D \cup {id}
      /\ clients'[id] = rec
      /\ \A j \in DOMAIN clients' : j # id => j \in DOMAIN clients /\ clients'[j] = clients[j]
  BY <1>0, <1>1, <1>3 DEF Put
<1>9. \A i \in DOMAIN clients : clients[i].serial # top
  BY <1>2 DEF ClientsInv
<1>10. RecordsInv(clients')
  <2>1. IsFiniteSet(DOMAIN clients') /\ DOMAIN clients' \subseteq Nat
    <3>1. IsFiniteSet(D) /\ D \subseteq Nat
      BY <1>0, FS_Subset DEF RecordsInv
    <3> QED
      BY <1>4, <1>8, <3>1, FS_AddElement
  <2>2. ASSUME NEW i \in DOMAIN clients', NEW j \in DOMAIN clients', i # j
        PROVE  /\ clients'[i].name # clients'[j].name
               /\ clients'[i].serial # 0 => clients'[i].serial # clients'[j].serial
    <3>1. CASE i = id
      BY <1>4, <1>7, <1>8, <1>9, <2>2, <3>1
    <3>2. CASE j = id
      BY <1>4, <1>7, <1>8, <1>9, <2>2, <3>2
    <3>3. CASE i # id /\ j # id
      BY <1>8, <2>2, <3>3 DEF RecordsInv
    <3> QED
      BY <3>1, <3>2, <3>3
  <2>3. \A i \in DOMAIN clients' :
          /\ clients'[i].name \in Devices
          /\ clients'[i].serial # 0 => clients'[i].session = clients'[i].name
    BY <1>7, <1>8 DEF RecordsInv
  <2> QED
    BY <2>1, <2>2, <2>3 DEF RecordsInv
<1>11. \A k \in DOMAIN trans : trans[k].serial # top
  BY <1>2 DEF MadeInv
<1>12. MadeInv(clients', trans, serial')
  <2> SUFFICES ASSUME NEW k \in DOMAIN trans
               PROVE  /\ trans[k].serial \in Nat /\ trans[k].serial <= top
                      /\ \A j \in DOMAIN clients' :
                           clients'[j].serial = trans[k].serial /\ trans[k].serial # 0 =>
                           trans[k].client = j /\ trans[k].to = clients'[j].name
    BY <1>1 DEF MadeInv
  <2>1. trans[k].serial \in Nat /\ trans[k].serial <= top
    BY <1>2 DEF MadeInv
  <2>2. ASSUME NEW j \in DOMAIN clients', clients'[j].serial = trans[k].serial, trans[k].serial # 0
        PROVE  trans[k].client = j /\ trans[k].to = clients'[j].name
    <3>1. j # id
      BY <1>7, <1>8, <1>11, <2>2
    <3> QED
      BY <1>8, <2>2, <3>1 DEF MadeInv
  <2> QED
    BY <2>1, <2>2
\* What is current and not the new registration was current and of another device.
<1>13. ASSUME NEW i, NEW r, NEW e, Current(clients', dev', i, r, e)
       PROVE  \/ i = id /\ r = top /\ e = d
              \/ /\ Current(clients, dev, i, r, e) /\ dev'[e].watch = dev[e].watch
                 /\ i \in DOMAIN clients /\ clients'[i] = clients[i]
  <2>1. IsDevice(dev[d]) /\ DOMAIN dev = Devices
    BY <1>2 DEF DevicesInv
  <2>2. dev'[d].loc = id /\ \A f \in Devices : f # d => dev'[f] = dev[f]
    BY <1>1, <2>1 DEF IsDevice
  <2>3. CASE i = id
    BY <1>7, <1>8, <1>13, <2>3 DEF Current
  <2>4. CASE i # id
    <3>1. e # d /\ e \in Devices
      BY <1>13, <2>2, <2>4 DEF Current
    <3> QED
      BY <1>8, <1>13, <2>2, <2>4, <3>1 DEF Current
  <2> QED
    BY <2>3, <2>4
\* Nothing has the new number.
<1>14. \A n \in DOMAIN clients'[id].obs : clients'[id].obs[n].serial # top
  <2> SUFFICES ASSUME NEW n \in DOMAIN rec.obs
               PROVE  rec.obs[n].serial # top
    BY <1>8
  <2>1. DOMAIN <<>> = {}
    OBVIOUS
  <2>2. id \in DOMAIN clients /\ rec.obs = clients[id].obs
    BY <1>5, <1>7, <2>1
  <2> DEFINE o == rec.obs[n]
  <2>3. Named(clients, trans, dev, id, o.id, o.serial, o.uri)
    BY <2>2 DEF Named, Listed
  <2>4. o.serial \in Nat /\ o.serial <= serial
    BY <1>2, <2>3 DEF KeyInv, Counted
  <2> QED
    BY <1>2, <2>4
<1>15. ASSUME NEW un, Agreement(clients, trans, dev, un)
       PROVE  Agreement(clients', trans, dev', un)
  <2>0. OrderInv(trans, un)
    BY <1>15 DEF Agreement
  <2>1. EarlierInv(clients', trans, dev', un)
    <3> SUFFICES ASSUME NEW i, NEW r, NEW e, Current(clients', dev', i, r, e), NEW k \in DOMAIN trans
                 PROVE  /\ trans[k].to = e => trans[k].serial <= r
                        /\ \A n \in DOMAIN clients'[i].obs :
                             LET o == clients'[i].obs[n]
                             IN  /\ o.status = "REGISTERED" /\ o.serial = r
                                 /\ Done(trans[k], e, o.uri) /\ <<e, o.uri>> \notin un
                                 => trans[k].serial = r
      BY DEF EarlierInv
    <3>1. CASE i = id /\ r = top /\ e = d
      <4>1. trans[k].serial \in Nat /\ trans[k].serial <= serial
        BY DEF MadeInv
      <4> QED
        BY <1>2, <1>14, <3>1, <4>1
    <3>2. CASE Current(clients, dev, i, r, e) /\ clients'[i] = clients[i]
      BY <1>15, <3>2 DEF Agreement, EarlierInv
    <3> QED
      BY <1>13, <3>1, <3>2
  <2>2. TakenInv(clients', trans, dev', un)
    <3> SUFFICES ASSUME NEW k \in DOMAIN trans
                 PROVE  LET t == trans[k]
                        IN  /\ Done(t, t.to, t.uri) /\ t.serial = 0 => <<t.to, t.uri>> \in un
                            /\ /\ t.kind = "observe" /\ t.code = "2.05" /\ <<t.to, t.uri>> \notin un
                               /\ Current(clients', dev', t.client, t.serial, t.to)
                               /\ \A j \in DOMAIN trans : j > k => ~Done(trans[j], t.to, t.uri)
                               => t.uri \in DOMAIN dev'[t.to].watch /\ dev'[t.to].watch[t.uri] = Token(t)
      BY DEF TakenInv
    <3>1. TakenInv(clients, trans, dev, un)
      BY <1>15 DEF Agreement
    <3>2. trans[k].serial # top
      BY <1>11
    <3>3. Current(clients', dev', trans[k].client, trans[k].serial, trans[k].to) =>
            /\ Current(clients, dev, trans[k].client, trans[k].serial, trans[k].to)
            /\ dev'[trans[k].to].watch = dev[trans[k].to].watch
      BY <1>13, <3>2
    <3> QED
      BY <3>1, <3>3 DEF TakenInv
  <2>3. AgreeInv(clients', trans, dev', un)
    <3> SUFFICES ASSUME NEW i, NEW r, NEW e, Current(clients', dev', i, r, e),
                        NEW n \in DOMAIN clients'[i].obs,
                        clients'[i].obs[n].status = "REGISTERED", clients'[i].obs[n].serial = r,
                        <<e, clients'[i].obs[n].uri>> \notin un,
                        \A k \in DOMAIN trans : ~Done(trans[k], e, clients'[i].obs[n].uri)
                 PROVE  /\ clients'[i].obs[n].uri \in DOMAIN dev'[e].watch
                        /\ IsToken(dev'[e].watch[clients'[i].obs[n].uri], i, r, clients'[i].obs[n])
      BY DEF AgreeInv
    <3>1. ~(i = id /\ r = top)
      BY <1>14
    <3>2. /\ Current(clients, dev, i, r, e) /\ dev'[e].watch = dev[e].watch
          /\ clients'[i] = clients[i]
      BY <1>13, <3>1
    <3>3. AgreeInv(clients, trans, dev, un)
      BY <1>15 DEF Agreement
    <3> QED
      BY <3>2, <3>3 DEF AgreeInv
  <2> QED
    BY <2>0, <2>1, <2>2, <2>3 DEF Agreement
<1> QED
  BY <1>10, <1>12, <1>15

\* A notification that is answered by a reset is not of an observation in force.
LEMMA NotifyAgreement ==
  ASSUME NameInv, NEW d \in Devices, NEW uri \in DOMAIN dev[d].watch,
         observe_handleNotify(d, uri), InOrder, Agreement(clients, trans, dev, untold)
  PROVE  Agreement(clients, trans, dev', untold)
<1> DEFINE w == dev[d].watch
           x == Restrict(w, DOMAIN w \ {uri})
<1>1. IsDevice(dev[d]) /\ DOMAIN dev = Devices /\ ClientsInv(clients, serial)
  BY DEF NameInv, DevicesInv
<1>2. /\ dev' = [dev EXCEPT ![d].watch = x]
      /\ \A k \in DOMAIN trans : trans[k].to = d => trans[k].code = "none"
      /\ Unknown(w[uri])
  BY DEF observe_handleNotify
<1>3. DOMAIN x = DOMAIN w \ {uri} /\ \A u \in DOMAIN w : u # uri => u \in DOMAIN x /\ x[u] = w[u]
  BY DEF Restrict
<1> HIDE DEF x
<1>4. /\ dev'[d].watch = x /\ dev'[d].loc = dev[d].loc
      /\ \A e \in Devices : e # d => dev'[e] = dev[e]
  BY <1>1, <1>2 DEF IsDevice
<1>5. \A i, r, e : Current(clients, dev', i, r, e) => Current(clients, dev, i, r, e) /\ e \in Devices
  BY <1>4 DEF Current
<1>6. OrderInv(trans, untold) /\ EarlierInv(clients, trans, dev', untold)
  BY <1>5 DEF Agreement, EarlierInv
<1>7. TakenInv(clients, trans, dev', untold)
  <2> SUFFICES ASSUME NEW k \in DOMAIN trans
               PROVE  LET t == trans[k]
                      IN  /\ Done(t, t.to, t.uri) /\ t.serial = 0 => <<t.to, t.uri>> \in untold
                          /\ /\ t.kind = "observe" /\ t.code = "2.05" /\ <<t.to, t.uri>> \notin untold
                             /\ Current(clients, dev', t.client, t.serial, t.to)
                             /\ \A j \in DOMAIN trans : j > k => ~Done(trans[j], t.to, t.uri)
                             => t.uri \in DOMAIN dev'[t.to].watch /\ dev'[t.to].watch[t.uri] = Token(t)
    BY DEF TakenInv
  <2>1. TakenInv(clients, trans, dev, untold)
    BY DEF Agreement
  <2>2. trans[k].code = "2.05" => trans[k].to # d
    BY <1>2
  <2> QED
    BY <1>4, <1>5, <2>1, <2>2 DEF TakenInv
<1>8. AgreeInv(clients, trans, dev', untold)
  <2> SUFFICES ASSUME NEW i, NEW r, NEW e, Current(clients, dev', i, r, e),
                      NEW n \in DOMAIN clients[i].obs,
                      clients[i].obs[n].status = "REGISTERED", clients[i].obs[n].serial = r,
                      <<e, clients[i].obs[n].uri>> \notin untold,
                      \A k \in DOMAIN trans : ~Done(trans[k], e, clients[i].obs[n].uri)
               PROVE  /\ clients[i].obs[n].uri \in DOMAIN dev'[e].watch
                      /\ IsToken(dev'[e].watch[clients[i].obs[n].uri], i, r, clients[i].obs[n])
    BY DEF AgreeInv
  <2> DEFINE o == clients[i].obs[n]
  <2>1. Current(clients, dev, i, r, e) /\ e \in Devices
    BY <1>5
  <2>2. o.uri \in DOMAIN dev[e].watch /\ IsToken(dev[e].watch[o.uri], i, r, o)
    BY <2>1 DEF Agreement, AgreeInv
  <2>3. CASE e # d
    BY <1>4, <2>1, <2>2, <2>3
  <2>4. CASE e = d
    <3>1. o.uri # uri
      <4> SUFFICES ASSUME o.uri = uri PROVE FALSE
        OBVIOUS
      <4>1. w[uri].client = i /\ w[uri].obs = o.id
        BY <2>2, <2>4 DEF IsToken
      <4>2. lwm2m_list_find(clients[i].obs, o.id) = 0
        BY <1>2, <4>1 DEF Unknown
      <4>3. IsObsList(clients[i].obs)
        BY <1>1, <2>1 DEF ClientsInv, IsClient, Current
      <4> QED
        BY <4>2, <4>3, FindRemove
    <3> QED
      BY <1>3, <1>4, <2>2, <2>4, <3>1
  <2> QED
    BY <2>3, <2>4
<1> QED
  BY <1>6, <1>7, <1>8 DEF Agreement

\* The place in ts of the j-th request that is left when the k-th is gone.
Skip(k, j) == IF j < k THEN j ELSE j + 1

\* q has the requests of ts but the k-th, in their order.
Left(q, ts, k) ==
  /\ \A j \in DOMAIN q : Skip(k, j) \in DOMAIN ts \ {k} /\ q[j] = ts[Skip(k, j)]
  /\ \A n \in DOMAIN ts \ {k} : \E j \in DOMAIN q : Skip(k, j) = n
  /\ \A i, j \in DOMAIN q : i < j <=> Skip(k, i) < Skip(k, j)

\* So it is when the k-th request is taken out.
LEMMA LeftRequests ==
  ASSUME NEW ts, IsRequestList(ts), NEW k \in DOMAIN ts
  PROVE  Left(RemoveAt(ts, k), ts, k)
<1> DEFINE q == RemoveAt(ts, k)
<1>1. PICK S : ts \in Seq(S)
  BY DEF IsRequestList
<1>2. /\ Len(ts) \in Nat /\ DOMAIN ts = 1..Len(ts) /\ k \in Nat
      /\ DOMAIN q = 1..(Len(ts) - 1)
      /\ \A j \in DOMAIN q : q[j] = IF j < k THEN ts[j] ELSE ts[j + 1]
  BY <1>1, RemoveAtElements
<1> HIDE DEF q
<1>3. \A j \in DOMAIN q : Skip(k, j) \in DOMAIN ts \ {k} /\ q[j] = ts[Skip(k, j)]
  BY <1>2 DEF Skip
<1>4. \A i, j \in DOMAIN q : i < j <=> Skip(k, i) < Skip(k, j)
  BY <1>2 DEF Skip
<1>5. ASSUME NEW n \in DOMAIN ts \ {k}
      PROVE  \E j \in DOMAIN q : Skip(k, j) = n
  <2>1. CASE n < k
    <3>1. n \in DOMAIN q /\ Skip(k, n) = n
      BY <1>2, <2>1 DEF Skip
    <3> QED
      BY <3>1
  <2>2. CASE ~(n < k)
    <3>1. n - 1 \in DOMAIN q /\ Skip(k, n - 1) = n
      BY <1>2, <2>2 DEF Skip
    <3> QED
      BY <3>1
  <2> QED
    BY <2>1, <2>2
<1> QED
  BY <1>3, <1>4, <1>5 DEF Left, q

\* o is the node that the answer to request t makes in the list of client i.
Makes(t, i, o) ==
  /\ t.kind = "observe" /\ t.code = "2.05" /\ i = t.client
  /\ o.id = t.obs /\ o.uri = t.uri /\ o.serial = t.serial

\* The records are the same, and a node that was not there is the one t makes.
Answers(cs1, cs, t) ==
  /\ DOMAIN cs1 = DOMAIN cs
  /\ \A i \in DOMAIN cs :
       /\ cs1[i].name = cs[i].name /\ cs1[i].serial = cs[i].serial
       /\ cs1[i].session = cs[i].session
       /\ \A n \in DOMAIN cs1[i].obs :
            \/ \E m \in DOMAIN cs[i].obs : Same(cs1[i].obs[n], cs[i].obs[m])
            \/ Makes(t, i, cs1[i].obs[n])

\* Of the path of t only the node that t makes is REGISTERED.
Settled(cs1, t) ==
  t.client \in DOMAIN cs1 =>
    \A n \in DOMAIN cs1[t.client].obs :
      LET o == cs1[t.client].obs[n]
      IN  o.status = "REGISTERED" /\ o.uri = t.uri => t.kind = "observe" /\ o.id = t.obs

(***************************************************************************)
(* A request leaves. Nothing is new but the node it makes; if the device   *)
(* has begun or ended to watch its path on it, no other node of the path   *)
(* is REGISTERED, and no answer of the device was before it.               *)
(***************************************************************************)
LEMMA FinishAgreement ==
  ASSUME NEW cs, NEW ts, NEW ds, NEW un, NEW top, Agreement(cs, ts, ds, un), MadeInv(cs, ts, top),
         IsRequestList(ts), NEW k \in DOMAIN ts,
         NEW cs1, NEW un1, un \subseteq un1, Answers(cs1, cs, ts[k]),
         Done(ts[k], ts[k].to, ts[k].uri) /\ <<ts[k].to, ts[k].uri>> \notin un1 =>
           /\ Settled(cs1, ts[k])
           /\ \A j \in DOMAIN ts : j < k /\ ts[j].to = ts[k].to => ts[j].code = "none",
         NEW q, Left(q, ts, k)
  PROVE  MadeInv(cs1, q, top) /\ Agreement(cs1, q, ds, un1)
<1> DEFINE t == ts[k]
<1>1. k \in Nat /\ \A j \in DOMAIN ts : j \in Nat
  BY DEF IsRequestList
<1>2. Left(q, ts, k)
  OBVIOUS
<1>3. /\ \A j \in DOMAIN q : Skip(k, j) \in DOMAIN ts /\ Skip(k, j) # k /\ q[j] = ts[Skip(k, j)]
      /\ \A i, j \in DOMAIN q : i < j => Skip(k, i) < Skip(k, j)
      /\ \A n \in DOMAIN ts : n # k => \E j \in DOMAIN q : Skip(k, j) = n
  BY <1>2 DEF Left
\* No request before t has changed what its device watches.
<1>4. ASSUME NEW d, NEW u, Done(t, d, u), <<d, u>> \notin un1, NEW n \in DOMAIN ts, n < k
      PROVE  ~Done(ts[n], d, u)
  <2>1. t.to = d /\ t.uri = u
    BY <1>4 DEF Done
  <2>2. ts[n].to = d => ts[n].code = "none"
    BY <1>4, <2>1
  <2> QED
    BY <2>2 DEF Done
\* What is after a request in the new list was after it in the old one.
<1>5. ASSUME NEW j \in DOMAIN q, NEW n \in DOMAIN ts, n # k, Skip(k, j) < n
      PROVE  \E i \in DOMAIN q : j < i /\ q[i] = ts[n]
  <2>1. PICK i \in DOMAIN q : Skip(k, i) = n
    BY <1>3, <1>5
  <2>2. j < i
    BY <1>2, <1>5, <2>1 DEF Left
  <2> QED
    BY <1>3, <2>1, <2>2
<1> HIDE DEF t
<1>6. /\ OrderInv(ts, un) /\ EarlierInv(cs, ts, ds, un)
      /\ TakenInv(cs, ts, ds, un) /\ AgreeInv(cs, ts, ds, un)
  BY DEF Agreement
<1>7. ASSUME NEW i, NEW r, NEW d, Current(cs1, ds, i, r, d)
      PROVE  /\ Current(cs, ds, i, r, d) /\ i \in DOMAIN cs
             /\ t.serial = r => t.client = i /\ t.to = d
  BY <1>7 DEF Current, MadeInv, Answers, t
<1>8. MadeInv(cs1, q, top)
  BY <1>3 DEF MadeInv, Answers
<1>9. OrderInv(q, un1)
  BY <1>3, <1>6 DEF OrderInv
\* A node of the current registration whose path has a request that is done.
<1>10. ASSUME NEW i, NEW r, NEW d, Current(cs1, ds, i, r, d), NEW m \in DOMAIN cs1[i].obs,
              cs1[i].obs[m].status = "REGISTERED", cs1[i].obs[m].serial = r,
              NEW n \in DOMAIN ts, Done(ts[n], d, cs1[i].obs[m].uri),
              <<d, cs1[i].obs[m].uri>> \notin un1
       PROVE  ts[n].serial = r
  <2> DEFINE o == cs1[i].obs[m]
  <2>1. /\ Current(cs, ds, i, r, d) /\ i \in DOMAIN cs /\ <<d, o.uri>> \notin un
        /\ t.serial = r => t.client = i /\ t.to = d
    BY <1>7, <1>10
  <2>2. CASE \E p \in DOMAIN cs[i].obs : Same(o, cs[i].obs[p])
    <3>1. PICK p \in DOMAIN cs[i].obs : Same(o, cs[i].obs[p])
      BY <2>2
    <3>2. /\ cs[i].obs[p].status = "REGISTERED" /\ cs[i].obs[p].serial = r
          /\ cs[i].obs[p].uri = o.uri
      BY <1>10, <3>1 DEF Same
    <3> QED
      BY <1>6, <1>10, <2>1, <3>2 DEF EarlierInv
  <2>3. CASE Makes(t, i, o)
    <3>1. /\ t.serial = r /\ t.to = d /\ t.uri = o.uri /\ t.code = "2.05" /\ t.kind = "observe"
      BY <1>10, <2>1, <2>3 DEF Makes
    <3>2. Done(t, d, o.uri)
      BY <3>1 DEF Done
    <3>3. ~(n < k)
      BY <1>4, <1>10, <3>2
    <3>4. CASE n = k
      BY <3>1, <3>4 DEF t
    <3>5. CASE k < n
      <4>1. ts[k].serial <= ts[n].serial
        BY <1>6, <1>10, <2>1, <3>2, <3>5 DEF OrderInv, t
      <4>2. ts[n].serial <= r
        <5>1. ts[n].to = d
          BY <1>10 DEF Done
        <5> QED
          BY <1>6, <2>1, <5>1 DEF EarlierInv
      <4>3. ts[n].serial \in Nat /\ ts[k].serial \in Nat
        BY DEF MadeInv
      <4> QED
        BY <3>1, <4>1, <4>2, <4>3 DEF t
    <3> QED
      BY <1>1, <3>3, <3>4, <3>5
  <2> QED
    BY <2>1, <2>2, <2>3 DEF Answers, t
<1>11. EarlierInv(cs1, q, ds, un1)
  <2> SUFFICES ASSUME NEW i, NEW r, NEW d, Current(cs1, ds, i, r, d), NEW j \in DOMAIN q
               PROVE  /\ q[j].to = d => q[j].serial <= r
                      /\ \A m \in DOMAIN cs1[i].obs :
                           LET o == cs1[i].obs[m]
                           IN  /\ o.status = "REGISTERED" /\ o.serial = r
                               /\ Done(q[j], d, o.uri) /\ <<d, o.uri>> \notin un1
                               => q[j].serial = r
    BY DEF EarlierInv
  <2>1. Skip(k, j) \in DOMAIN ts /\ q[j] = ts[Skip(k, j)]
    BY <1>3
  <2>2. q[j].to = d => q[j].serial <= r
    BY <1>6, <1>7, <2>1 DEF EarlierInv
  <2> QED
    BY <1>10, <2>1, <2>2
<1>12. TakenInv(cs1, q, ds, un1)
  <2> SUFFICES ASSUME NEW j \in DOMAIN q
               PROVE  LET p == q[j]
                      IN  /\ Done(p, p.to, p.uri) /\ p.serial = 0 => <<p.to, p.uri>> \in un1
                          /\ /\ p.kind = "observe" /\ p.code = "2.05" /\ <<p.to, p.uri>> \notin un1
                             /\ Current(cs1, ds, p.client, p.serial, p.to)
                             /\ \A i \in DOMAIN q : i > j => ~Done(q[i], p.to, p.uri)
                             => p.uri \in DOMAIN ds[p.to].watch /\ ds[p.to].watch[p.uri] = Token(p)
    BY DEF TakenInv
  <2> DEFINE p == q[j]
             s == Skip(k, j)
  <2>1. s \in DOMAIN ts /\ p = ts[s] /\ s # k
    BY <1>3
  <2>2. Done(p, p.to, p.uri) /\ p.serial = 0 => <<p.to, p.uri>> \in un1
    BY <1>6, <2>1 DEF TakenInv
  <2>3. ASSUME p.kind = "observe", p.code = "2.05", <<p.to, p.uri>> \notin un1,
               Current(cs1, ds, p.client, p.serial, p.to),
               \A i \in DOMAIN q : i > j => ~Done(q[i], p.to, p.uri)
        PROVE  p.uri \in DOMAIN ds[p.to].watch /\ ds[p.to].watch[p.uri] = Token(p)
    <3>1. Current(cs, ds, p.client, p.serial, p.to) /\ <<p.to, p.uri>> \notin un
      BY <1>7, <2>3
    <3>2. ASSUME NEW n \in DOMAIN ts, s < n
          PROVE  ~Done(ts[n], p.to, p.uri)
      <4>1. CASE n = k
        <5>1. s < k /\ Done(ts[s], p.to, p.uri)
          BY <1>1, <2>1, <2>3, <3>2, <4>1 DEF Done
        <5> QED
          BY <1>4, <2>1, <2>3, <4>1, <5>1 DEF t
      <4>2. CASE n # k
        <5>1. PICK i \in DOMAIN q : j < i /\ q[i] = ts[n]
          BY <1>5, <3>2, <4>2
        <5> QED
          BY <2>3, <5>1
      <4> QED
        BY <4>1, <4>2
    <3> QED
      BY <1>6, <2>1, <2>3, <3>1, <3>2 DEF TakenInv
  <2> QED
    BY <2>2, <2>3
<1>13. AgreeInv(cs1, q, ds, un1)
  <2> SUFFICES ASSUME NEW i, NEW r, NEW d, Current(cs1, ds, i, r, d),
                      NEW n \in DOMAIN cs1[i].obs,
                      cs1[i].obs[n].status = "REGISTERED", cs1[i].obs[n].serial = r,
                      <<d, cs1[i].obs[n].uri>> \notin un1,
                      \A j \in DOMAIN q : ~Done(q[j], d, cs1[i].obs[n].uri)
               PROVE  /\ cs1[i].obs[n].uri \in DOMAIN ds[d].watch
                      /\ IsToken(ds[d].watch[cs1[i].obs[n].uri], i, r, cs1[i].obs[n])
    BY DEF AgreeInv
  <2> DEFINE o == cs1[i].obs[n]
  <2>1. /\ Current(cs, ds, i, r, d) /\ i \in DOMAIN cs /\ <<d, o.uri>> \notin un
        /\ t.serial = r => t.client = i /\ t.to = d
    BY <1>7
  <2>2. \A m \in DOMAIN ts : m # k => ~Done(ts[m], d, o.uri)
    <3>1. ASSUME NEW m \in DOMAIN ts, m # k
          PROVE  ~Done(ts[m], d, o.uri)
      <4>1. PICK j \in DOMAIN q : Skip(k, j) = m
        BY <1>3, <3>1
      <4>2. q[j] = ts[m]
        BY <1>3, <4>1
      <4> QED
        BY <4>2
    <3> QED
      BY <3>1
  <2>3. CASE ~Done(t, d, o.uri)
    <3>1. ~Makes(t, i, o)
      <4>1. Makes(t, i, o) => t.serial = r /\ t.uri = o.uri /\ t.code = "2.05" /\ t.kind = "observe"
        BY DEF Makes
      <4> QED
        BY <2>1, <2>3, <4>1 DEF Done
    <3>2. PICK m \in DOMAIN cs[i].obs : Same(o, cs[i].obs[m])
      BY <2>1, <3>1 DEF Answers, t
    <3>3. /\ cs[i].obs[m].status = "REGISTERED" /\ cs[i].obs[m].serial = r
          /\ cs[i].obs[m].uri = o.uri /\ cs[i].obs[m].id = o.id
      BY <3>2 DEF Same
    <3>4. \A j \in DOMAIN ts : ~Done(ts[j], d, o.uri)
      BY <2>2, <2>3 DEF t
    <3>5. /\ cs[i].obs[m].uri \in DOMAIN ds[d].watch
          /\ IsToken(ds[d].watch[cs[i].obs[m].uri], i, r, cs[i].obs[m])
      BY <1>6, <2>1, <3>3, <3>4 DEF AgreeInv
    <3> QED
      BY <3>3, <3>5 DEF IsToken
  <2>4. CASE Done(t, d, o.uri)
    <3>1. t.to = d /\ t.uri = o.uri /\ t.code = "2.05" /\ Done(t, t.to, t.uri)
      BY <2>4 DEF Done
    <3>2. t.serial = r
      BY <1>10, <2>4 DEF t
    <3>3. t.client = i /\ t.kind = "observe" /\ o.id = t.obs
      <4>1. Settled(cs1, t) /\ t.client = i
        BY <2>1, <3>1, <3>2 DEF t
      <4> QED
        BY <2>1, <3>1, <4>1 DEF Answers, Settled
    <3>4. \A j \in DOMAIN ts : j > k => ~Done(ts[j], t.to, t.uri)
      BY <1>1, <2>2, <3>1
    <3>5. t.uri \in DOMAIN ds[t.to].watch /\ ds[t.to].watch[t.uri] = Token(t)
      BY <1>6, <2>1, <3>1, <3>2, <3>3, <3>4 DEF TakenInv, t
    <3>6. Token(t).client = i /\ Token(t).serial = r /\ Token(t).obs = o.id
      BY <3>2, <3>3 DEF Token
    <3> QED
      BY <3>1, <3>5, <3>6 DEF IsToken
  <2> QED
    BY <2>3, <2>4
<1> QED
  BY <1>8, <1>9, <1>11, <1>12, <1>13 DEF Agreement

(***************************************************************************)
(* Device t.to has become v on request t and its answer a is the last. If  *)
(* its path is not marked, t is of a registration, and the device neither  *)
(* watches nor is about to answer under a later one.                       *)
(***************************************************************************)
LEMMA AnswerAgreement ==
  ASSUME DevicesInv(dev), NEW q, IsRequestList(q), NEW top, MadeInv(clients, q, top),
         Agreement(clients, q, dev, untold),
         NEW t, IsRequest(t), t.serial \in Nat, t.serial <= top,
         \A j \in DOMAIN clients : clients[j].serial = t.serial /\ t.serial # 0 =>
           t.client = j /\ t.to = clients[j].name,
         \A i, r : Current(clients, dev, i, r, t.to) => t.serial <= r /\ r \in Nat,
         NEW v, NEW c, t.to \in Devices => Watches(t.to, t, v, c),
         NEW un1, untold \subseteq un1,
         t.kind \in {"observe", "cancel"} /\ <<t.to, t.uri>> \notin un1 =>
           /\ t.serial # 0
           /\ t.uri \in DOMAIN dev[t.to].watch => ~(dev[t.to].watch[t.uri].serial > t.serial)
           /\ \A k \in DOMAIN q : Done(q[k], t.to, t.uri) => ~(q[k].serial > t.serial),
         t.kind = "delete" => \A p \in DOMAIN dev[t.to].watch : <<t.to, p>> \in un1,
         NEW ds, ds = [dev EXCEPT ![t.to] = v],
         NEW l, l = Append(q, [t EXCEPT !.code = c])
  PROVE  MadeInv(clients, l, top) /\ Agreement(clients, l, ds, un1)
<1> DEFINE a == [t EXCEPT !.code = c]
           N == Len(q) + 1
           d == t.to
           w == dev[d].watch
<1>1. /\ a.kind = t.kind /\ a.client = t.client /\ a.to = t.to /\ a.uri = t.uri
      /\ a.obs = t.obs /\ a.serial = t.serial /\ a.code = c
  BY DEF IsRequest
<1>2. PICK S : q \in Seq(S)
  BY DEF IsRequestList
<1> HIDE DEF a
<1>3. q \in Seq(S \cup {a}) /\ a \in S \cup {a}
  BY <1>2
<1>4. /\ Len(q) \in Nat /\ DOMAIN q = 1..Len(q) /\ DOMAIN l = 1..N
      /\ \A k \in 1..Len(q) : l[k] = q[k]
      /\ l[N] = a
  BY <1>3, AppendProperties, LenProperties DEF a
<1>5. /\ \A k \in DOMAIN q : k \in DOMAIN l /\ l[k] = q[k] /\ N > k /\ ~(N < k)
      /\ \A k \in DOMAIN l : k \in DOMAIN q \/ k = N
      /\ N \in DOMAIN l /\ l[N] = a /\ ~(N < N)
  <2>1. \A k \in 1..Len(q) : k \in 1..N /\ N > k /\ ~(N < k)
    BY <1>4
  <2>2. \A k \in 1..N : k \in 1..Len(q) \/ k = N
    BY <1>4
  <2>3. N \in 1..N /\ ~(N < N)
    BY <1>4
  <2> QED
    BY <1>4, <2>1, <2>2, <2>3
<1> HIDE DEF N
<1>6. /\ OrderInv(q, untold) /\ EarlierInv(clients, q, dev, untold)
      /\ TakenInv(clients, q, dev, untold) /\ AgreeInv(clients, q, dev, untold)
  BY DEF Agreement
<1>7. \A e, u : Done(a, e, u) <=>
        e = d /\ u = t.uri /\ c = "2.05" /\ t.kind \in {"observe", "cancel"}
  BY <1>1 DEF Done
<1>8. /\ \A e \in Devices : e # d => ds[e] = dev[e]
      /\ d \in Devices => ds[d] = v
  BY DEF DevicesInv
<1>9. ASSUME NEW i, NEW r, NEW e, Current(clients, ds, i, r, e)
      PROVE  Current(clients, dev, i, r, e) /\ e \in Devices
  BY <1>8, <1>9 DEF Current, Watches
\* What is watched still, unless the request was about it.
<1>10. ASSUME NEW p, d \in Devices, p \in DOMAIN w, <<d, p>> \notin un1, ~Done(a, d, p)
       PROVE  p \in DOMAIN v.watch /\ v.watch[p] = w[p]
  <2>1. Watches(d, t, v, c)
    BY <1>10
  <2>2. t.kind # "delete"
    BY <1>10
  <2>3. ~(t.kind \in {"observe", "cancel"} /\ p = t.uri /\ c = "2.05")
    BY <1>7, <1>10
  <2> QED
    BY <1>10, <2>1, <2>2, <2>3 DEF Watches
<1>11. MadeInv(clients, l, top)
  BY <1>1, <1>5 DEF MadeInv
<1>12. OrderInv(l, un1)
  <2> SUFFICES ASSUME NEW j \in DOMAIN l, NEW k \in DOMAIN l, NEW e, NEW u, j < k,
                      Done(l[j], e, u), Done(l[k], e, u), <<e, u>> \notin un1
               PROVE  l[j].serial <= l[k].serial
    BY DEF OrderInv
  <2>1. j \in DOMAIN q
    BY <1>5
  <2>2. CASE k \in DOMAIN q
    BY <1>5, <1>6, <2>1, <2>2 DEF OrderInv
  <2>3. CASE k = N
    <3>1. e = d /\ u = t.uri /\ t.kind \in {"observe", "cancel"}
      BY <1>5, <1>7, <2>3
    <3>2. ~(q[j].serial > t.serial)
      BY <1>5, <2>1, <3>1
    <3>3. q[j].serial \in Nat
      BY <2>1 DEF MadeInv
    <3> QED
      BY <1>1, <1>5, <2>1, <2>3, <3>2, <3>3
  <2> QED
    BY <1>5, <2>2, <2>3
<1>13. EarlierInv(clients, l, ds, un1)
  <2> SUFFICES ASSUME NEW i, NEW r, NEW e, Current(clients, ds, i, r, e), NEW k \in DOMAIN l
               PROVE  /\ l[k].to = e => l[k].serial <= r
                      /\ \A n \in DOMAIN clients[i].obs :
                           LET o == clients[i].obs[n]
                           IN  /\ o.status = "REGISTERED" /\ o.serial = r
                               /\ Done(l[k], e, o.uri) /\ <<e, o.uri>> \notin un1
                               => l[k].serial = r
    BY DEF EarlierInv
  <2>1. Current(clients, dev, i, r, e)
    BY <1>9
  <2>0. ASSUME NEW j \in DOMAIN q
        PROVE  /\ q[j].to = e => q[j].serial <= r
               /\ \A n \in DOMAIN clients[i].obs :
                    LET o == clients[i].obs[n]
                    IN  /\ o.status = "REGISTERED" /\ o.serial = r
                        /\ Done(q[j], e, o.uri) /\ <<e, o.uri>> \notin untold
                        => q[j].serial = r
    BY <1>6, <2>1 DEF EarlierInv
  <2>2. CASE k \in DOMAIN q
    <3>1. l[k] = q[k]
      BY <1>5, <2>2
    <3> QED
      BY <2>0, <2>2, <3>1
  <2>3. CASE k = N
    <3>1. a.to = e => a.serial <= r
      BY <1>1, <2>1
    <3>2. ASSUME NEW n \in DOMAIN clients[i].obs,
                 clients[i].obs[n].status = "REGISTERED", clients[i].obs[n].serial = r,
                 Done(a, e, clients[i].obs[n].uri), <<e, clients[i].obs[n].uri>> \notin un1
          PROVE  a.serial = r
      <4> DEFINE o == clients[i].obs[n]
      <4>1. e = d /\ o.uri = t.uri /\ t.kind \in {"observe", "cancel"}
        BY <1>7, <3>2
      <4>2. t.serial <= r /\ r \in Nat /\ <<e, o.uri>> \notin untold
        BY <2>1, <3>2, <4>1
      <4>3. CASE \E m \in DOMAIN q : Done(q[m], e, o.uri)
        <5>1. PICK m \in DOMAIN q : Done(q[m], e, o.uri)
          BY <4>3
        <5>2. q[m].serial = r
          BY <2>0, <3>2, <4>2, <5>1
        <5>3. ~(q[m].serial > t.serial)
          BY <3>2, <4>1, <5>1
        <5> QED
          BY <1>1, <4>2, <5>2, <5>3
      <4>4. CASE \A m \in DOMAIN q : ~Done(q[m], e, o.uri)
        <5>1. o.uri \in DOMAIN dev[e].watch /\ IsToken(dev[e].watch[o.uri], i, r, o)
          BY <1>6, <2>1, <3>2, <4>2, <4>4 DEF AgreeInv
        <5>2. w[t.uri].serial = r /\ ~(w[t.uri].serial > t.serial)
          BY <3>2, <4>1, <5>1 DEF IsToken
        <5> QED
          BY <1>1, <4>2, <5>2
      <4> QED
        BY <4>3, <4>4
    <3> QED
      BY <1>5, <2>3, <3>1, <3>2
  <2> QED
    BY <1>5, <2>2, <2>3
<1>14. TakenInv(clients, l, ds, un1)
  <2> SUFFICES ASSUME NEW n \in DOMAIN l
               PROVE  LET s == l[n]
                      IN  /\ Done(s, s.to, s.uri) /\ s.serial = 0 => <<s.to, s.uri>> \in un1
                          /\ /\ s.kind = "observe" /\ s.code = "2.05" /\ <<s.to, s.uri>> \notin un1
                             /\ Current(clients, ds, s.client, s.serial, s.to)
                             /\ \A j \in DOMAIN l : j > n => ~Done(l[j], s.to, s.uri)
                             => s.uri \in DOMAIN ds[s.to].watch /\ ds[s.to].watch[s.uri] = Token(s)
    BY DEF TakenInv
  <2>1. CASE n = N
    <3>1. Done(a, d, t.uri) /\ t.serial = 0 => <<d, t.uri>> \in un1
      BY <1>7
    <3>2. ASSUME t.kind = "observe", c = "2.05", d \in Devices
          PROVE  t.uri \in DOMAIN v.watch /\ v.watch[t.uri] = Token(a)
      BY <1>1, <3>2 DEF Watches, Token
    <3>3. Current(clients, ds, t.client, t.serial, d) => d \in Devices
      BY <1>9
    <3>4. l[n] = a
      BY <1>5, <2>1
    <3>5. ASSUME t.kind = "observe", c = "2.05", Current(clients, ds, t.client, t.serial, d)
          PROVE  t.uri \in DOMAIN ds[d].watch /\ ds[d].watch[t.uri] = Token(a)
      BY <1>8, <3>2, <3>3, <3>5
    <3> QED
      BY <1>1, <3>1, <3>4, <3>5
  <2>2. CASE n \in DOMAIN q
    <3> DEFINE s == q[n]
    <3>1. l[n] = s
      BY <1>5, <2>2
    <3>2. Done(s, s.to, s.uri) /\ s.serial = 0 => <<s.to, s.uri>> \in un1
      BY <1>6, <2>2 DEF TakenInv
    <3>3. ASSUME s.kind = "observe", s.code = "2.05", <<s.to, s.uri>> \notin un1,
                 Current(clients, ds, s.client, s.serial, s.to),
                 \A j \in DOMAIN l : j > n => ~Done(l[j], s.to, s.uri)
          PROVE  s.uri \in DOMAIN ds[s.to].watch /\ ds[s.to].watch[s.uri] = Token(s)
      <4>1. Current(clients, dev, s.client, s.serial, s.to) /\ s.to \in Devices
        BY <1>9, <3>3
      <4>2. \A j \in DOMAIN q : j > n => ~Done(q[j], s.to, s.uri)
        BY <1>5, <3>3
      <4>3. ~Done(a, s.to, s.uri)
        BY <1>5, <2>2, <3>3
      <4>4. s.uri \in DOMAIN dev[s.to].watch /\ dev[s.to].watch[s.uri] = Token(s)
        BY <1>6, <2>2, <3>3, <4>1, <4>2 DEF TakenInv
      <4>5. CASE s.to # d
        BY <1>8, <4>1, <4>4, <4>5
      <4>6. CASE s.to = d
        BY <1>8, <1>10, <3>3, <4>1, <4>3, <4>4, <4>6
      <4> QED
        BY <4>5, <4>6
    <3> QED
      BY <3>1, <3>2, <3>3
  <2> QED
    BY <1>5, <2>1, <2>2
<1>15. AgreeInv(clients, l, ds, un1)
  <2> SUFFICES ASSUME NEW i, NEW r, NEW e, Current(clients, ds, i, r, e),
                      NEW n \in DOMAIN clients[i].obs,
                      clients[i].obs[n].status = "REGISTERED", clients[i].obs[n].serial = r,
                      <<e, clients[i].obs[n].uri>> \notin un1,
                      \A j \in DOMAIN l : ~Done(l[j], e, clients[i].obs[n].uri)
               PROVE  /\ clients[i].obs[n].uri \in DOMAIN ds[e].watch
                      /\ IsToken(ds[e].watch[clients[i].obs[n].uri], i, r, clients[i].obs[n])
    BY DEF AgreeInv
  <2> DEFINE o == clients[i].obs[n]
  <2>1. Current(clients, dev, i, r, e) /\ e \in Devices /\ <<e, o.uri>> \notin untold
    BY <1>9
  <2>2. ~Done(a, e, o.uri) /\ \A j \in DOMAIN q : ~Done(q[j], e, o.uri)
    BY <1>5
  <2>3. o.uri \in DOMAIN dev[e].watch /\ IsToken(dev[e].watch[o.uri], i, r, o)
    BY <1>6, <2>1, <2>2 DEF AgreeInv
  <2>4. CASE e # d
    BY <1>8, <2>1, <2>3, <2>4
  <2>5. CASE e = d
    <3>1. o.uri \in DOMAIN v.watch /\ v.watch[o.uri] = w[o.uri]
      BY <1>10, <2>1, <2>2, <2>3, <2>5
    <3> QED
      BY <1>8, <2>1, <2>3, <2>5, <3>1
  <2> QED
    BY <2>4, <2>5
<1> QED
  BY <1>11, <1>12, <1>13, <1>14, <1>15 DEF Agreement

\* A request reaches its device, which answers it.
LEMMA DeliverAgreement ==
  ASSUME NameInv, MadeInv(clients, trans, serial), Agreement(clients, trans, dev, untold),
         NEW k \in DOMAIN trans, Deliver(k)
  PROVE  MadeInv(clients', trans', serial') /\ Agreement(clients', trans', dev', untold')
<1> DEFINE t == trans[k]
           q == RemoveAt(trans, k)
<1>1. PICK h \in Handled(t.to, t) :
        /\ dev' = [dev EXCEPT ![t.to] = h[1]]
        /\ trans' = Append(q, [t EXCEPT !.code = h[2]])
  BY DEF Deliver
<1>2. /\ clients' = clients /\ serial' = serial /\ t.code = "none"
      /\ untold' = untold \cup Untold(t)
  BY DEF Deliver
<1>3. /\ IsRequestList(trans) /\ DevicesInv(dev) /\ ClientsInv(clients, serial)
      /\ IsRequest(t) /\ IsRequestList(q)
  BY RemoveRequest DEF NameInv, IInv, IsRequestList
<1>4. Left(q, trans, k)
  BY <1>3, LeftRequests
<1>5. \A j \in DOMAIN q : \E n \in DOMAIN trans : q[j] = trans[n]
  BY <1>4 DEF Left
<1>6. t.to \in Devices => Watches(t.to, t, h[1], h[2])
  BY <1>3, HandledWatch
<1> HIDE DEF q, t
<1>7. MadeInv(clients, q, serial) /\ Agreement(clients, q, dev, untold)
  <2>1. Answers(clients, clients, t)
    BY DEF Answers, Same
  <2>2. ~Done(t, t.to, t.uri)
    BY <1>2 DEF Done
  <2> QED
    BY <1>3, <1>4, <2>1, <2>2, FinishAgreement DEF t
<1>8. /\ t.serial \in Nat /\ t.serial <= serial
      /\ \A j \in DOMAIN clients : clients[j].serial = t.serial /\ t.serial # 0 =>
           t.client = j /\ t.to = clients[j].name
  BY DEF MadeInv, t
<1>9. ASSUME NEW i, NEW r, Current(clients, dev, i, r, t.to)
      PROVE  t.serial <= r /\ r \in Nat
  <2>1. r \in Nat
    BY <1>3, <1>9 DEF Current, ClientsInv, IsClient
  <2>2. EarlierInv(clients, trans, dev, untold)
    BY DEF Agreement
  <2> QED
    BY <1>9, <2>1, <2>2 DEF EarlierInv, t
<1>10. ASSUME t.kind \in {"observe", "cancel"}, <<t.to, t.uri>> \notin untold'
       PROVE  /\ t.serial # 0
              /\ t.uri \in DOMAIN dev[t.to].watch => ~(dev[t.to].watch[t.uri].serial > t.serial)
              /\ \A j \in DOMAIN q : Done(q[j], t.to, t.uri) => ~(q[j].serial > t.serial)
  <2>1. t.serial # 0 /\ ~Overtaken(t)
    BY <1>2, <1>10 DEF Untold
  <2> QED
    BY <1>5, <2>1 DEF Overtaken
<1>11. t.kind = "delete" => \A p \in DOMAIN dev[t.to].watch : <<t.to, p>> \in untold'
  BY <1>2 DEF Untold
<1>12. untold \subseteq untold'
  BY <1>2
<1>13. MadeInv(clients, trans', serial) /\ Agreement(clients, trans', dev', untold')
  BY <1>1, <1>3, <1>6, <1>7, <1>8, <1>9, <1>10, <1>11, <1>12, AnswerAgreement
<1> QED
  BY <1>2, <1>13

\* A client's list when it is replaced by another one.
LEMMA ListReplaced ==
  ASSUME NameInv, NEW i \in DOMAIN clients, NEW r, clients' = [clients EXCEPT ![i].obs = r]
  PROVE  /\ DOMAIN clients' = DOMAIN clients /\ clients'[i].obs = r
         /\ \A j \in DOMAIN clients :
              /\ clients'[j].name = clients[j].name /\ clients'[j].serial = clients[j].serial
              /\ clients'[j].session = clients[j].session
              /\ j # i => clients'[j] = clients[j]
<1>1. IsClient(clients[i])
  BY DEF NameInv, ClientsInv
<1>2. clients'[i].obs = r /\ clients'[i].name = clients[i].name /\ clients'[i].serial = clients[i].serial
      /\ clients'[i].session = clients[i].session
  BY <1>1 DEF IsClient
<1>3. DOMAIN clients' = DOMAIN clients /\ \A j \in DOMAIN clients : j # i => clients'[j] = clients[j]
  OBVIOUS
<1> QED
  BY <1>2, <1>3

\* What a callback does to the records, when no pointer is wild.
LEMMA AnswerClients ==
  ASSUME NameInv, \A j \in DOMAIN clients : Distinct(clients[j].obs), NEW t, NEW message,
         message \in {t.code, "none"}, Callback(t, message), ~crashed'
  PROVE  /\ Answers(clients', clients, t)
         /\ message = "2.05" /\ t.kind \in {"observe", "cancel"} => Settled(clients', t)
<1> DEFINE i == t.client
           obs == clients[i].obs
           o == prv_findObservationByURI(i, t.uri)
           node == Observed(t, obs, o)
           rest == IF o = 0 THEN obs ELSE lwm2m_list_remove(obs, obs[o].id)
           added == lwm2m_list_add(rest, node)
           less == observe_remove(obs, o)
           Goal == /\ Answers(clients', clients, t)
                   /\ message = "2.05" /\ t.kind \in {"observe", "cancel"} => Settled(clients', t)
<1>1. \A j \in DOMAIN clients : IsClient(clients[j]) /\ IsObsList(clients[j].obs)
  BY DEF NameInv, ClientsInv, IsClient
<1>2. i \in DOMAIN clients =>
        /\ o # 0 => o \in DOMAIN obs /\ obs[o].uri = t.uri
        /\ o = 0 => \A j \in DOMAIN obs : obs[j].uri # t.uri
  BY <1>1, FindByUri
<1>3. ASSUME clients' = clients
      PROVE  Answers(clients', clients, t)
  BY <1>3 DEF Answers, Same
<1>4. CASE t.kind \notin {"observe", "cancel"}
  <2>1. clients' = clients
    BY <1>4 DEF Callback, prv_resultCallback
  <2> QED
    BY <1>3, <1>4, <2>1
<1>5. CASE t.kind \in {"observe", "cancel"} /\ (i \notin DOMAIN clients \/ message # "2.05")
  <2>1. clients' = clients
    BY <1>5 DEF Callback, prv_obsRequestCallback, prv_obsCancelRequestCallback
  <2> QED
    BY <1>3, <1>5, <2>1 DEF Settled
<1>6. CASE t.kind = "cancel" /\ i \in DOMAIN clients /\ message = "2.05"
  <2>1. prv_obsCancelRequestCallback(t, message)
    BY <1>6 DEF Callback
  <2>2. o # 0 /\ clients' = [clients EXCEPT ![i].obs = less] /\ Removable(obs, o)
    BY <1>6, <2>1 DEF prv_obsCancelRequestCallback
  <2>3. Fewer(less, obs, DOMAIN obs \ {o})
    <3>1. lwm2m_list_find(obs, obs[o].id) = o
      BY <2>2 DEF Removable
    <3>2. Fewer(lwm2m_list_remove(obs, obs[o].id), obs,
                DOMAIN obs \ {lwm2m_list_find(obs, obs[o].id)})
      BY <1>1, <1>6, FindRemove
    <3> QED
      BY <3>1, <3>2 DEF observe_remove
  <2> HIDE DEF less, o
  <2>4. \A n \in DOMAIN less : \E m \in DOMAIN obs \ {o} : Same(less[n], obs[m])
    BY <2>3 DEF Fewer, Part
  <2>5. \A n \in DOMAIN less : less[n].uri # t.uri
    BY <1>2, <1>6, <2>2, <2>4 DEF Distinct, Same
  <2>6. /\ DOMAIN clients' = DOMAIN clients /\ clients'[i].obs = less
        /\ \A j \in DOMAIN clients :
             /\ clients'[j].name = clients[j].name /\ clients'[j].serial = clients[j].serial
             /\ clients'[j].session = clients[j].session
             /\ j # i => clients'[j] = clients[j]
    BY <1>6, <2>2, ListReplaced
  <2>7. Answers(clients', clients, t)
    BY <2>4, <2>6 DEF Answers, Same
  <2>8. Settled(clients', t)
    BY <2>5, <2>6 DEF Settled
  <2> QED
    BY <2>7, <2>8
<1>7. CASE t.kind = "observe" /\ i \in DOMAIN clients /\ message = "2.05"
  <2>1. prv_obsRequestCallback(t, message)
    BY <1>7 DEF Callback
  <2>2. CASE o # 0 /\ obs[o].status = "DEREG_PENDING"
    <3>1. clients' = clients
      BY <1>7, <2>1, <2>2 DEF prv_obsRequestCallback
    <3>2. \A n \in DOMAIN obs : obs[n].uri = t.uri => n = o
      BY <1>2, <1>7, <2>2 DEF Distinct
    <3> HIDE DEF o
    <3>3. Settled(clients', t)
      BY <2>2, <3>1, <3>2 DEF Settled
    <3> QED
      BY <1>3, <3>1, <3>3
  <2>3. CASE ~(o # 0 /\ obs[o].status = "DEREG_PENDING")
    <3>1. clients' = [clients EXCEPT ![i].obs = lwm2m_list_add(rest, Observed(t, @, o))]
          /\ crashed' = (o # 0 /\ ~Removable(obs, o))
      BY <1>7, <2>1, <2>3 DEF prv_obsRequestCallback
    <3>2. clients' = [clients EXCEPT ![i].obs = added]
      BY <3>1
    <3>3. /\ node.id = t.obs /\ node.uri = t.uri /\ node.serial = t.serial
          /\ More(added, obs, DOMAIN obs, node)
          /\ (o = 0 \/ Removable(obs, o)) /\ Distinct(obs) => Distinct(added)
      BY <1>7, AnsweredList
    <3>4. Distinct(added)
      BY <1>7, <3>1, <3>3
    <3> HIDE DEF node, added, o
    <3>5. PICK p \in DOMAIN added : Same(added[p], node) /\ Part(added, DOMAIN added \ {p}, obs, DOMAIN obs)
      BY <3>3 DEF More
    <3>6. added[p].id = t.obs /\ added[p].uri = t.uri /\ added[p].serial = t.serial
      BY <3>3, <3>5 DEF Same
    <3>7. \A n \in DOMAIN added : n # p => \E m \in DOMAIN obs : Same(added[n], obs[m])
      BY <3>5 DEF Part
    <3>8. \A n \in DOMAIN added : added[n].uri = t.uri => n = p
      BY <3>4, <3>6 DEF Distinct
    <3>9. /\ DOMAIN clients' = DOMAIN clients /\ clients'[i].obs = added
          /\ \A j \in DOMAIN clients :
               /\ clients'[j].name = clients[j].name /\ clients'[j].serial = clients[j].serial
               /\ clients'[j].session = clients[j].session
               /\ j # i => clients'[j] = clients[j]
      BY <1>7, <3>2, ListReplaced
    <3>10. t.code = "2.05"
      BY <1>7
    <3>11. Makes(t, i, added[p])
      BY <1>7, <3>6, <3>10 DEF Makes
    <3>12. Answers(clients', clients, t)
      BY <3>7, <3>9, <3>11 DEF Answers, Same
    <3>13. Settled(clients', t)
      BY <1>7, <3>6, <3>8, <3>9 DEF Settled
    <3> QED
      BY <3>12, <3>13
  <2> QED
    BY <2>2, <2>3
<1> QED
  BY <1>4, <1>5, <1>6, <1>7

\* A request ends with a message. If that is not the device's answer, or if an earlier
\* answer of the device is to come, the path is marked or nothing was done about it.
LEMMA EndAgrees ==
  ASSUME NameInv, \A j \in DOMAIN clients : Distinct(clients[j].obs), RecordsInv(clients),
         MadeInv(clients, trans, serial), NEW k \in DOMAIN trans,
         NEW message \in {trans[k].code, "none"}, Finish(k, message), ~crashed',
         untold \subseteq untold',
         /\ Done(trans[k], trans[k].to, trans[k].uri)
         /\ <<trans[k].to, trans[k].uri>> \notin untold'
         => /\ message = trans[k].code
            /\ \A j \in DOMAIN trans : j < k /\ trans[j].to = trans[k].to => trans[j].code = "none"
  PROVE  /\ RecordsInv(clients')
         /\ Agreement(clients, trans, dev, untold) =>
              MadeInv(clients', trans', serial') /\ Agreement(clients', trans', dev', untold')
<1> DEFINE t == trans[k]
<1>1. /\ Callback(t, message) /\ dev' = dev /\ serial' = serial
      /\ trans' = RemoveAt(trans, k)
  BY DEF Finish
<1>2. IsRequestList(trans)
  BY DEF NameInv, IInv
<1>3. Left(trans', trans, k)
  BY <1>1, <1>2, LeftRequests
<1>4. /\ Answers(clients', clients, t)
      /\ message = "2.05" /\ t.kind \in {"observe", "cancel"} => Settled(clients', t)
  BY <1>1, AnswerClients
<1>5. Done(t, t.to, t.uri) /\ <<t.to, t.uri>> \notin untold' =>
        /\ Settled(clients', t)
        /\ \A j \in DOMAIN trans : j < k /\ trans[j].to = t.to => trans[j].code = "none"
  BY <1>4 DEF Done
<1>6. RecordsInv(clients')
  BY <1>4 DEF RecordsInv, Answers
<1>7. ASSUME Agreement(clients, trans, dev, untold)
      PROVE  MadeInv(clients', trans', serial) /\ Agreement(clients', trans', dev, untold')
  BY <1>2, <1>3, <1>4, <1>5, <1>7, FinishAgreement
<1> QED
  BY <1>1, <1>6, <1>7

\* An answer arrives, or a request is given up.
LEMMA FinishAgrees ==
  ASSUME NameInv, \A j \in DOMAIN clients : Distinct(clients[j].obs), RecordsInv(clients),
         MadeInv(clients, trans, serial), InOrder, NEW k \in DOMAIN trans,
         Respond(k) \/ Timeout(k), ~crashed'
  PROVE  /\ RecordsInv(clients')
         /\ Agreement(clients, trans, dev, untold) =>
              MadeInv(clients', trans', serial') /\ Agreement(clients', trans', dev', untold')
<1> DEFINE t == trans[k]
<1>1. \A j \in DOMAIN trans : j < k => j \in 1..(k - 1)
  BY DEF NameInv, IInv, IsRequestList
<1>2. CASE Respond(k)
  <2>1. /\ Finish(k, t.code) /\ untold' = untold
        /\ \A j \in 1..(k - 1) : trans[j].to = t.to => trans[j].code = "none"
    BY <1>2 DEF Respond
  <2>2. t.code \in {t.code, "none"}
    OBVIOUS
  <2> QED
    BY <1>1, <2>1, <2>2, EndAgrees
<1>3. CASE Timeout(k)
  <2>1. Finish(k, "none") /\ "none" \in {t.code, "none"}
    BY <1>3 DEF Timeout
  <2>2. untold' = IF t.code = "none" THEN untold ELSE untold \cup {<<t.to, t.uri>>}
    BY <1>3 DEF Timeout
  <2>3. untold \subseteq untold' /\ ~(Done(t, t.to, t.uri) /\ <<t.to, t.uri>> \notin untold')
    BY <2>2 DEF Done
  <2> QED
    BY <2>1, <2>3, EndAgrees
<1> QED
  BY <1>2, <1>3
----------------------------------------------------------------------------
(***************************************************************************)
(* The inductive invariant of the agreement.                               *)
(***************************************************************************)
Agreed ==
  /\ RecordsInv(clients) /\ MadeInv(clients, trans, serial)
  /\ Agreement(clients, trans, dev, untold)

\* Steps that only take away from the records, their lists and the registrations.
LEMMA LessAgreed ==
  ASSUME Agreed, LessClients(clients', clients), UNCHANGED <<trans, serial, untold>>,
         \A i, r, d : Current(clients', dev', i, r, d) =>
           Current(clients, dev, i, r, d) /\ dev'[d].watch = dev[d].watch
  PROVE  Agreed'
<1>1. RecordsInv(clients') /\ MadeInv(clients', trans, serial)
  BY LessRecords, LessMade DEF Agreed
<1>2. Agreement(clients', trans, dev', untold)
  BY LessAgreement DEF Agreed
<1> QED
  BY <1>1, <1>2 DEF Agreed

\* The calls of the user, which add a request or none.
LEMMA AppendAgreed ==
  ASSUME NameInv, Agreed, LessClients(clients', clients), UNCHANGED <<dev, serial, untold>>,
         NEW i \in DOMAIN clients, NEW kind, NEW uri, NEW n,
         \/ trans' = trans
         \/ trans' = Append(trans, transaction_new(kind, i, uri, n))
  PROVE  Agreed'
<1> DEFINE t == transaction_new(kind, i, uri, n)
<1>1. \A j, r, d : Current(clients', dev', j, r, d) =>
        Current(clients, dev, j, r, d) /\ dev'[d].watch = dev[d].watch
  BY LessCurrent
<1>2. CASE trans' = trans
  BY <1>1, <1>2, LessAgreed
<1>3. CASE trans' = Append(trans, t)
  <2>1. t.code = "none" /\ t.client = i /\ t.serial = clients[i].serial /\ t.to = clients[i].session
    BY DEF transaction_new
  <2> HIDE DEF t
  <2>2. IsRequestList(trans) /\ ClientsInv(clients, serial)
    BY DEF NameInv, IInv
  <2>3. MadeInv(clients, trans', serial) /\ Agreement(clients, trans', dev, untold)
    BY <1>3, <2>1, <2>2, AppendAgreement DEF Agreed
  <2>4. RecordsInv(clients') /\ MadeInv(clients', trans', serial)
    BY <2>3, LessRecords, LessMade DEF Agreed
  <2>5. Agreement(clients', trans', dev', untold)
    BY <1>1, <2>3, LessAgreement
  <2> QED
    BY <2>4, <2>5 DEF Agreed
<1> QED
  BY <1>2, <1>3

\* What a device sends.
LEMMA DeviceAgreed ==
  ASSUME NameInv, Agreed, InOrder, NEW d \in Devices,
         \/ \E blocks \in BOOLEAN : Register(d, blocks)
         \/ Deregister(d) \/ Restart(d)
         \/ \E full \in BOOLEAN : Update(d, full)
         \/ \E uri \in DOMAIN dev[d].watch : observe_handleNotify(d, uri)
  PROVE  Agreed'
<1>1. IsDevice(dev[d]) /\ DOMAIN dev = Devices /\ ClientsInv(clients, serial) /\ serial \in Nat
  BY DEF NameInv, DevicesInv
<1>2. LessClients(clients, clients)
  BY <1>1, SameClient DEF ClientsInv, LessClients
\* A device that is not registered has no current registration.
<1>3. ASSUME LessClients(clients', clients), dev'[d].loc = NoLoc,
             \A e \in Devices : e # d => dev'[e] = dev[e]
      PROVE  \A i, r, e : Current(clients', dev', i, r, e) =>
               Current(clients, dev, i, r, e) /\ dev'[e].watch = dev[e].watch
  <2> SUFFICES ASSUME NEW i, NEW r, NEW e, Current(clients', dev', i, r, e)
               PROVE  Current(clients, dev, i, r, e) /\ dev'[e].watch = dev[e].watch
    OBVIOUS
  <2>1. Current(clients, dev', i, r, e)
    BY <1>3, LessCurrent
  <2>2. i \in Nat /\ e \in Devices /\ dev'[e].loc = i
    BY <2>1 DEF Current, Agreed, RecordsInv
  <2>3. e # d
    BY <1>3, <2>2 DEF NoLoc
  <2> QED
    BY <1>3, <2>1, <2>2, <2>3 DEF Current
<1>4. CASE \E blocks \in BOOLEAN : Register(d, blocks)
  <2>1. PICK blocks \in BOOLEAN : Register(d, blocks)
    BY <1>4
  <2>2. handleRegister(d, blocks) /\ trans' = trans /\ untold' = untold
    BY <2>1 DEF Register
  <2>3. CASE UNCHANGED <<clients, serial, dev>>
    BY <2>2, <2>3 DEF Agreed
  <2>4. CASE ~UNCHANGED <<clients, serial, dev>>
    <3>1. /\ RecordsInv(clients') /\ MadeInv(clients', trans, serial')
          /\ Agreement(clients', trans, dev', untold)
      BY <2>2, <2>4, RegisterAgreement DEF Agreed
    <3> QED
      BY <2>2, <3>1 DEF Agreed
  <2> QED
    BY <2>3, <2>4
<1>5. CASE Deregister(d)
  <2> DEFINE D == DOMAIN clients \ {dev[d].loc}
  <2>1. clients' = Restrict(clients, D) /\ D \in SUBSET (DOMAIN clients)
    BY <1>5 DEF Deregister, registration_freeClient
  <2> HIDE DEF D
  <2>2. LessClients(clients', clients)
    BY <2>1, LeaveLess
  <2>3. dev' = [dev EXCEPT ![d].loc = NoLoc] /\ UNCHANGED <<trans, serial, untold>>
    BY <1>5 DEF Deregister
  <2>4. dev'[d].loc = NoLoc /\ \A e \in Devices : e # d => dev'[e] = dev[e]
    BY <1>1, <2>3 DEF IsDevice
  <2> QED
    BY <1>3, <2>2, <2>3, <2>4, LessAgreed
<1>6. CASE Restart(d)
  <2>1. /\ dev' = [dev EXCEPT ![d].loc = NoLoc, ![d].watch = <<>>]
        /\ UNCHANGED <<clients, trans, serial, untold>>
    BY <1>6 DEF Restart
  <2>2. dev'[d].loc = NoLoc /\ \A e \in Devices : e # d => dev'[e] = dev[e]
    BY <1>1, <2>1 DEF IsDevice
  <2> QED
    BY <1>2, <1>3, <2>1, <2>2, LessAgreed
<1>7. CASE \E full \in BOOLEAN : Update(d, full)
  <2>1. PICK full \in BOOLEAN : Update(d, full)
    BY <1>7
  <2>2. UNCHANGED <<trans, serial, untold>>
    BY <2>1 DEF Update
  <2>3. CASE dev[d].loc \in DOMAIN clients
    <3>1. handleUpdate(d, dev[d].loc, full) /\ dev' = dev
      BY <2>1, <2>3 DEF Update
    <3>2. LessClients(clients', clients)
      BY <2>3, <3>1, UpdateLess
    <3>3. \A i, r, e : Current(clients', dev', i, r, e) =>
            Current(clients, dev, i, r, e) /\ dev'[e].watch = dev[e].watch
      BY <3>1, <3>2, LessCurrent
    <3> QED
      BY <2>2, <3>2, <3>3, LessAgreed
  <2>4. CASE dev[d].loc \notin DOMAIN clients
    <3>1. dev' = [dev EXCEPT ![d].loc = NoLoc] /\ clients' = clients
      BY <2>1, <2>4 DEF Update
    <3>2. dev'[d].loc = NoLoc /\ \A e \in Devices : e # d => dev'[e] = dev[e]
      BY <1>1, <3>1 DEF IsDevice
    <3> QED
      BY <1>2, <1>3, <2>2, <3>1, <3>2, LessAgreed
  <2> QED
    BY <2>3, <2>4
<1>8. CASE \E uri \in DOMAIN dev[d].watch : observe_handleNotify(d, uri)
  <2>1. PICK uri \in DOMAIN dev[d].watch : observe_handleNotify(d, uri)
    BY <1>8
  <2>2. UNCHANGED <<clients, trans, serial, untold>>
    BY <2>1 DEF observe_handleNotify
  <2>3. Agreement(clients, trans, dev', untold)
    BY <2>1, NotifyAgreement DEF Agreed
  <2> QED
    BY <2>2, <2>3 DEF Agreed
<1> QED
  BY <1>4, <1>5, <1>6, <1>7, <1>8

\* The calls of the user.
LEMMA UserAgreed ==
  ASSUME NameInv, Agreed, NEW i \in DOMAIN clients, NEW uri, NEW o,
         Observe(i, uri) \/ Cancel(i, uri) \/ Manage(i, o)
  PROVE  Agreed'
<1>1. UNCHANGED <<dev, serial, untold>>
  BY DEF Observe, Cancel, Manage
<1>2. CASE Observe(i, uri)
  <2>1. /\ LessClients(clients', clients)
        /\ \/ trans' = trans
           \/ trans' = Append(trans, transaction_new("observe", i, uri, clients[i].observationId + 1))
    BY <1>2, ObserveClients DEF Observe
  <2> QED
    BY <1>1, <2>1, AppendAgreed
<1>3. CASE Cancel(i, uri)
  <2>1. /\ LessClients(clients', clients)
        /\ \/ trans' = trans
           \/ \E n : trans' = Append(trans, transaction_new("cancel", i, uri, n))
    BY <1>3, CancelClients DEF Cancel
  <2>2. PICK n : trans' = trans \/ trans' = Append(trans, transaction_new("cancel", i, uri, n))
    BY <2>1
  <2> QED
    BY <1>1, <2>1, <2>2, AppendAgreed
<1>4. CASE Manage(i, o)
  <2>1. clients' = clients /\ trans' = Append(trans, transaction_new(o.op, i, o.uri, 0))
    BY <1>4 DEF Manage, prv_makeOperation
  <2>2. LessClients(clients, clients)
    BY SameClient DEF NameInv, ClientsInv, LessClients
  <2> QED
    BY <1>1, <2>1, <2>2, AppendAgreed
<1> QED
  BY <1>2, <1>3, <1>4

\* The invariant: the parts proved before, and the agreement while no pointer was wild.
ServerInv == ObservationInv /\ (InOrder /\ ~crashed => Agreed)

\* At the start there is no current registration.
LEMMA InitServerInv == Init => ServerInv
<1> SUFFICES ASSUME Init PROVE ServerInv
  OBVIOUS
<1>1. DOMAIN clients = {} /\ DOMAIN trans = {}
  BY DEF Init
<1>2. RecordsInv(clients) /\ MadeInv(clients, trans, serial)
  BY <1>1, FS_EmptySet DEF RecordsInv, MadeInv
<1>3. \A i, r, d : ~Current(clients, dev, i, r, d)
  BY <1>1 DEF Current
<1>4. Agreement(clients, trans, dev, untold)
  BY <1>1, <1>3 DEF Agreement, OrderInv, EarlierInv, TakenInv, AgreeInv
<1> QED
  BY <1>2, <1>4, InitObservationInv DEF ServerInv, Agreed

\* Every step preserves the agreement.
LEMMA NextServerInv == ServerInv /\ [Next]_vars => ServerInv'
<1> SUFFICES ASSUME ServerInv, [Next]_vars PROVE ServerInv'
  OBVIOUS
<1>1. ObservationInv' /\ ObservationInv /\ NameInv
  BY NextObservationInv DEF ServerInv, ObservationInv
<1>2. CASE UNCHANGED vars
  BY <1>1, <1>2 DEF vars, ServerInv, Agreed
<1>3. ASSUME Next, InOrder, ~crashed'
      PROVE  Agreed'
  <2>1. Agreed /\ \A j \in DOMAIN clients : Distinct(clients[j].obs)
    BY <1>1, <1>3 DEF Next, ServerInv, ObservationInv
  <2>2. ASSUME NEW d \in Devices,
               \/ \E blocks \in BOOLEAN : Register(d, blocks)
               \/ Deregister(d) \/ Restart(d)
               \/ \E full \in BOOLEAN : Update(d, full)
               \/ \E uri \in DOMAIN dev[d].watch : observe_handleNotify(d, uri)
        PROVE  Agreed'
    BY <1>1, <1>3, <2>1, <2>2, DeviceAgreed
  <2>3. CASE Step
    <3>1. UNCHANGED <<trans, dev, serial, untold>>
      BY <2>3 DEF Step
    <3>2. LessClients(clients', clients)
      BY <1>1, <2>3, TimeLess
    <3>3. \A i, r, d : Current(clients', dev', i, r, d) =>
            Current(clients, dev, i, r, d) /\ dev'[d].watch = dev[d].watch
      BY <3>1, <3>2, LessCurrent
    <3> QED
      BY <2>1, <3>1, <3>2, <3>3, LessAgreed
  <2>4. ASSUME NEW i \in DOMAIN clients,
               \/ \E uri \in Paths : Observe(i, uri) \/ Cancel(i, uri)
               \/ \E o \in Operations : Manage(i, o)
        PROVE  Agreed'
    BY <1>1, <2>1, <2>4, UserAgreed
  <2>5. ASSUME NEW k \in DOMAIN trans, Deliver(k)
        PROVE  Agreed'
    <3>1. clients' = clients
      BY <2>5 DEF Deliver
    <3>2. /\ MadeInv(clients', trans', serial')
          /\ Agreement(clients', trans', dev', untold')
      BY <1>1, <1>3, <2>1, <2>5, DeliverAgreement DEF Agreed
    <3> QED
      BY <2>1, <3>1, <3>2 DEF Agreed
  <2>6. ASSUME NEW k \in DOMAIN trans, Respond(k) \/ Timeout(k)
        PROVE  Agreed'
    BY <1>1, <1>3, <2>1, <2>6, FinishAgrees DEF Agreed
  <2> QED
    BY <1>3, <2>2, <2>3, <2>4, <2>5, <2>6 DEF Next
<1> QED
  BY <1>1, <1>2, <1>3 DEF ServerInv

(* When a device's answers and notifications arrive in the order it sent   *)
(* them, whatever the order in which requests reach it, what               *)
(* prv_obsRequestCallback, prv_obsCancelRequestCallback, the reuse of a    *)
(* record by registration_handleRequest and the resets of                  *)
(* observe_handleNotify leave as REGISTERED is what the device watches.    *)
THEOREM ServerAndDeviceAgree ==
  ASSUME InOrder = TRUE
  PROVE  Spec => []ObservationAgrees
<1>1. ServerInv => ObservationAgrees
  <2> SUFFICES ASSUME ServerInv, ~crashed, NEW i \in DOMAIN clients,
                      NEW n \in DOMAIN clients[i].obs, InForce(i, n)
               PROVE  LET o == clients[i].obs[n] d == clients[i].name
                      IN  /\ o.uri \in DOMAIN dev[d].watch
                          /\ dev[d].watch[o.uri].client = i /\ dev[d].watch[o.uri].obs = o.id
    BY DEF ObservationAgrees
  <2> DEFINE o == clients[i].obs[n]
             c == clients[i]
  <2>1. AgreeInv(clients, trans, dev, untold) /\ DevicesInv(dev)
    BY DEF ServerInv, Agreed, Agreement, ObservationInv, NameInv
  <2>2. /\ o.status = "REGISTERED" /\ o.serial = c.serial
        /\ c.serial # 0 /\ dev[c.name].loc = i
        /\ <<c.name, o.uri>> \notin untold
        /\ \A k \in DOMAIN trans : trans[k].uri # o.uri
    BY DEF InForce
  <2>3. \A k \in DOMAIN trans : ~Done(trans[k], c.name, o.uri)
    BY <2>2 DEF Done
  <2>4. c.name \in Devices
    BY DEF ServerInv, Agreed, RecordsInv
  <2>5. Current(clients, dev, i, c.serial, c.name)
    BY <2>2, <2>4 DEF Current
  <2>6. /\ o.uri \in DOMAIN dev[c.name].watch
        /\ IsToken(dev[c.name].watch[o.uri], i, c.serial, o)
    <3>1. \A m \in DOMAIN clients[i].obs :
            LET p == clients[i].obs[m]
            IN  /\ p.status = "REGISTERED" /\ p.serial = c.serial /\ <<c.name, p.uri>> \notin untold
                /\ \A k \in DOMAIN trans : ~Done(trans[k], c.name, p.uri)
                => p.uri \in DOMAIN dev[c.name].watch /\ IsToken(dev[c.name].watch[p.uri], i, c.serial, p)
      <4> HIDE DEF c
      <4> QED
        BY <2>1, <2>5 DEF AgreeInv
    <3> QED
      BY <2>2, <2>3, <3>1
  <2> QED
    BY <2>6 DEF IsToken
<1> QED
  BY <1>1, InitServerInv, NextServerInv, PTL DEF Spec
============================================================================

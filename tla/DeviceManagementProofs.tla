----------------------- MODULE DeviceManagementProofs -----------------------
(***************************************************************************)
(* Proofs about DeviceManagement. The parts are                            *)
(*   what a write leaves of an instance: the recursive function of         *)
(*     WriteInstance, by induction over the resources of the payload,      *)
(*   what it leaves of an access control list, entry by entry,             *)
(*   what the object's callbacks leave of the list of its instances,       *)
(*   what each operation of the core leaves of the context, and Handled,   *)
(*     which says it of dm_handleRequest,                                  *)
(*   the inductive invariants: Typed, Announcing, and CoreInSync itself,   *)
(*   and the theorems, of which three follow from Handled in any state.    *)
(***************************************************************************)
EXTENDS DeviceManagement, ListLemmas

-----------------------------------------------------------------------------
(***************************************************************************)
(* What a write leaves of an instance.                                     *)
(***************************************************************************)

\* The run of a write: the answer after each of its resources.
IsRun(o, v, data, creating, partial, a) ==
  /\ a[0] = Accepted(v)
  /\ \A k \in 1..Len(data) :
       a[k] = IF a[k - 1].code = "2.04"
              THEN WriteResource(o, a[k - 1].inst, data[k], creating, partial) ELSE a[k - 1]
  /\ WriteInstance(o, v, data, creating, partial) = a[Len(data)]

\* The recursive function of WriteInstance exists, and its values are the run.
LEMMA WriteSteps ==
  ASSUME NEW o, NEW v, NEW data, Len(data) \in Nat, NEW creating, NEW partial
  PROVE  \E a : IsRun(o, v, data, creating, partial, a)
<1> DEFINE Step(a, k) == IF a.code = "2.04"
                         THEN WriteResource(o, a.inst, data[k], creating, partial) ELSE a
           Runs(n, g) == g = [k \in 0..n |-> IF k = 0 THEN Accepted(v) ELSE Step(g[k - 1], k)]
           N == Len(data)
           S == {n \in Nat : \E g : Runs(n, g)}
<1> HIDE DEF Step
<1>1. 0 \in S
  <2>1. Runs(0, [k \in 0..0 |-> Accepted(v)])
    OBVIOUS
  <2> QED BY <2>1
<1>2. ASSUME NEW n \in Nat, n \in S PROVE n + 1 \in S
  <2>1. PICK g : Runs(n, g)
    BY <1>2
  <2> DEFINE h == [k \in 0..(n + 1) |-> IF k = n + 1 THEN Step(g[n], n + 1) ELSE g[k]]
  <2>2. \A k \in 0..(n + 1) : h[k] = IF k = 0 THEN Accepted(v) ELSE Step(h[k - 1], k)
    BY <2>1
  <2>3. Runs(n + 1, h)
    BY <2>2
  <2> HIDE DEF Runs, h
  <2>4. \E g2 : Runs(n + 1, g2)
    BY <2>3
  <2> QED BY <2>4
<1>3. N \in S
  BY <1>1, <1>2, NatSetInduction
<1>4. \E g : Runs(N, g)
  BY <1>3
<1>5. PICK a : a = (CHOOSE g : Runs(N, g))
  OBVIOUS
<1>6. Runs(N, a)
  BY <1>4, <1>5
<1>7. WriteInstance(o, v, data, creating, partial) = a[N]
  BY <1>5 DEF WriteInstance, Step
<1>8. a[0] = Accepted(v) /\ \A k \in 1..N : a[k] = Step(a[k - 1], k)
  BY <1>6
<1> QED BY <1>7, <1>8 DEF Step, IsRun

Written(v, d) == Put(v, d.id, d.val)

\* A number is refused, or in range and stored.
LEMMA SetIntEffect ==
  ASSUME NEW v, NEW d, NEW range, NEW otherwise, otherwise \notin {"2.01", "2.04"}
  PROVE  LET r == SetInt(v, d, range, otherwise)
         IN  \/ r.code \notin {"2.01", "2.04"} /\ r.inst = v
             \/ r.code = "2.04" /\ d.val \in range /\ r.inst = Written(v, d)
BY DEF SetInt, Refused, Accepted, Written

\* An entry of an access control list, and the one of an id that is found.
Entry == [id : Nat, val : 0..MaxUint16]
FirstIs(list, id, x) ==
  \E i \in DOMAIN list : /\ list[i].id = id /\ list[i].val = x
                         /\ \A j \in DOMAIN list : list[j].id = id => i <= j

LEMMA FirstFound ==
  ASSUME NEW list \in Seq(Entry), NEW id \in EntryIds(list)
  PROVE  LET i == FirstEntry(list, id)
         IN  i \in DOMAIN list /\ list[i].id = id /\ \A j \in DOMAIN list : list[j].id = id => i <= j
<1> DEFINE T == {k \in DOMAIN list : list[k].id = id}
<1>1. DOMAIN list \subseteq Nat
  OBVIOUS
<1>2. T \in SUBSET Nat /\ T # {}
  BY <1>1 DEF EntryIds
<1>3. Min(T) \in T /\ \A y \in T : Min(T) <= y
  BY <1>2, MinOfNats
<1> QED BY <1>3 DEF FirstEntry

LEMMA FirstRead ==
  ASSUME NEW list \in Seq(Entry), NEW id, NEW x, FirstIs(list, id, x)
  PROVE  ReadEntry(list, id) = x
<1>1. PICK i \in DOMAIN list : /\ list[i].id = id /\ list[i].val = x
                               /\ \A j \in DOMAIN list : list[j].id = id => i <= j
  BY DEF FirstIs
<1>2. id \in EntryIds(list)
  BY <1>1 DEF EntryIds
<1>3. PICK f : f = FirstEntry(list, id)
  OBVIOUS
<1>4. f \in DOMAIN list /\ list[f].id = id /\ \A j \in DOMAIN list : list[j].id = id => f <= j
  BY <1>2, <1>3, FirstFound
<1>5. i <= f /\ f <= i /\ i \in Nat /\ f \in Nat
  BY <1>1, <1>4
<1>6. i = f
  BY <1>5
<1> QED BY <1>1, <1>3, <1>6 DEF ReadEntry

\* Adding an entry: what is found of the other ids stays.
LEMMA AddedEntry ==
  ASSUME NEW list \in Seq(Entry), NEW e \in Entry
  PROVE  LET new == lwm2m_list_add(list, e)
         IN  /\ new \in Seq(Entry) /\ EntryIds(new) = EntryIds(list) \cup {e.id}
             /\ \A id, x : id # e.id /\ FirstIs(list, id, x) => FirstIs(new, id, x)
             /\ \E x : FirstIs(new, e.id, x) /\ (x = e.val \/ FirstIs(list, e.id, x))
<1> DEFINE T == {Len(list) + 1} \cup
                {k \in DOMAIN list : list[k].id > e.id \/ (k > 1 /\ list[k].id = e.id)}
<1>1. PICK p : p = Min(T)
  OBVIOUS
<1>2. p \in 1..(Len(list) + 1)
  <2>1. T \in SUBSET Nat /\ T # {} /\ T \subseteq 1..(Len(list) + 1)
    OBVIOUS
  <2> QED BY <1>1, <2>1, MinOfNats
<1>3. PICK new : new = InsertAt(list, p, e)
  OBVIOUS
<1>4. new = lwm2m_list_add(list, e)
  BY <1>1, <1>3 DEF lwm2m_list_add
<1>5. /\ new \in Seq(Entry) /\ Len(new) = Len(list) + 1 /\ new[p] = e
      /\ \A j \in 1..(Len(list) + 1) : /\ j < p => j \in DOMAIN list /\ new[j] = list[j]
                                       /\ j > p => j - 1 \in DOMAIN list /\ new[j] = list[j - 1]
  <2>1. PICK S : S = Entry
    OBVIOUS
  <2>2. list \in Seq(S) /\ e \in S
    BY <2>1
  <2>3. /\ InsertAt(list, p, e) \in Seq(S) /\ Len(InsertAt(list, p, e)) = Len(list) + 1
        /\ InsertAt(list, p, e)[p] = e
        /\ \A j \in 1..(Len(list) + 1) :
             /\ j < p => j \in DOMAIN list /\ InsertAt(list, p, e)[j] = list[j]
             /\ j > p => j - 1 \in DOMAIN list /\ InsertAt(list, p, e)[j] = list[j - 1]
    BY ONLY <1>2, <2>2, InsertAtElements
  <2> QED BY ONLY <1>3, <2>1, <2>3
<1>6. DOMAIN new = 1..(Len(list) + 1) /\ DOMAIN list = 1..Len(list) /\ Len(list) \in Nat
  BY <1>5
<1>7. \A j \in DOMAIN list : \E k \in DOMAIN new :
        new[k] = list[j] /\ k = IF j < p THEN j ELSE j + 1
  <2> SUFFICES ASSUME NEW j \in DOMAIN list
               PROVE \E k \in DOMAIN new : new[k] = list[j] /\ k = IF j < p THEN j ELSE j + 1
    OBVIOUS
  <2>1. CASE j < p
    BY <1>5, <1>6, <2>1
  <2>2. CASE j >= p
    <3>1. j + 1 \in 1..(Len(list) + 1) /\ j + 1 > p /\ (j + 1) - 1 = j
      BY <1>2, <1>6, <2>2
    <3>2. new[j + 1] = list[j]
      BY <1>5, <3>1
    <3> QED BY <1>6, <2>2, <3>1, <3>2, <1>2
  <2> QED BY <1>2, <1>6, <2>1, <2>2
<1>8. EntryIds(new) = EntryIds(list) \cup {e.id}
  <2>1. p \in DOMAIN new
    BY <1>2, <1>6
  <2>2. \A k \in DOMAIN new : new[k] = e \/ \E j \in DOMAIN list : new[k] = list[j]
    <3> SUFFICES ASSUME NEW k \in DOMAIN new PROVE new[k] = e \/ \E j \in DOMAIN list : new[k] = list[j]
      OBVIOUS
    <3>1. k < p \/ k = p \/ k > p
      BY <1>2, <1>6
    <3> QED BY <1>5, <1>6, <3>1
  <2>3. ASSUME NEW k \in DOMAIN new PROVE new[k].id \in EntryIds(list) \cup {e.id}
    BY <2>2, <2>3 DEF EntryIds
  <2>4. ASSUME NEW j \in DOMAIN list PROVE list[j].id \in EntryIds(new)
    BY <1>7, <2>4 DEF EntryIds
  <2>5. e.id \in EntryIds(new)
    BY <1>5, <2>1 DEF EntryIds
  <2>6. \A y \in EntryIds(new) : \E k \in DOMAIN new : y = new[k].id
    BY DEF EntryIds
  <2>7. \A y \in EntryIds(list) : \E k \in DOMAIN list : y = list[k].id
    BY DEF EntryIds
  <2> QED BY <2>3, <2>4, <2>5, <2>6, <2>7
<1>9. ASSUME NEW id, NEW x, id # e.id, FirstIs(list, id, x) PROVE FirstIs(new, id, x)
  <2>1. PICK i \in DOMAIN list : /\ list[i].id = id /\ list[i].val = x
                                 /\ \A j \in DOMAIN list : list[j].id = id => i <= j
    BY <1>9 DEF FirstIs
  <2>2. PICK k \in DOMAIN new : new[k] = list[i] /\ k = IF i < p THEN i ELSE i + 1
    BY <1>7
  <2>3. ASSUME NEW m \in DOMAIN new, new[m].id = id PROVE k <= m
    <3>1. m # p
      BY <1>5, <1>9, <2>3
    <3>2. CASE m < p
      BY <1>2, <1>5, <1>6, <2>1, <2>2, <2>3, <3>2
    <3>3. CASE m > p
      <4>1. m - 1 \in DOMAIN list /\ new[m] = list[m - 1]
        BY <1>5, <1>6, <3>3
      <4>2. i <= m - 1
        BY <2>1, <2>3, <4>1
      <4> QED BY <1>2, <1>6, <2>2, <3>3, <4>1, <4>2
    <3> QED BY <1>2, <1>6, <3>1, <3>2, <3>3
  <2> QED BY <2>1, <2>2, <2>3 DEF FirstIs
<1>10. \E x : FirstIs(new, e.id, x) /\ (x = e.val \/ FirstIs(list, e.id, x))
  <2>1. e.id \in EntryIds(new)
    BY <1>8
  <2>2. PICK f : f = FirstEntry(new, e.id)
    OBVIOUS
  <2>3. /\ f \in DOMAIN new /\ new[f].id = e.id
        /\ \A j \in DOMAIN new : new[j].id = e.id => f <= j
    BY <1>5, <2>1, <2>2, FirstFound
  <2>4. FirstIs(new, e.id, new[f].val)
    BY <2>3 DEF FirstIs
  <2>5. p \in DOMAIN new /\ f <= p
    BY <1>2, <1>5, <1>6, <2>3
  <2>6. CASE f = p
    BY <1>5, <2>4, <2>6
  <2>7. CASE f < p
    <3>1. f \in DOMAIN list /\ new[f] = list[f]
      BY <1>5, <1>6, <2>3, <2>7
    <3>2. ASSUME NEW j \in DOMAIN list, list[j].id = e.id PROVE f <= j
      <4>1. PICK k \in DOMAIN new : new[k] = list[j] /\ k = IF j < p THEN j ELSE j + 1
        BY <1>7
      <4>2. f <= k
        BY <2>3, <3>2, <4>1
      <4> QED BY <1>2, <1>6, <2>3, <2>7, <4>1, <4>2
    <3>3. FirstIs(list, e.id, new[f].val)
      BY <2>3, <3>1, <3>2 DEF FirstIs
    <3> QED BY <2>4, <3>3
  <2> QED BY <1>2, <1>6, <2>3, <2>5, <2>6, <2>7
<1> QED BY <1>4, <1>5, <1>8, <1>9, <1>10

\* Replacing or adding one: it is found.
LEMMA ReplacedEntry ==
  ASSUME NEW list \in Seq(Entry), NEW d, d.id \in Nat, d.val \in 0..MaxUint16
  PROVE  LET new == ReplaceOrAdd(list, d)
         IN  /\ new \in Seq(Entry)
             /\ \A id, x : id # d.id /\ FirstIs(list, id, x) => FirstIs(new, id, x)
             /\ FirstIs(new, d.id, d.val)
<1>1. PICK e : e = [id |-> d.id, val |-> d.val]
  OBVIOUS
<1>2. e \in Entry /\ e.id = d.id /\ e.val = d.val
  BY <1>1 DEF Entry
<1>3. CASE d.id \in EntryIds(list)
  <2>1. PICK f : f = FirstEntry(list, d.id)
    OBVIOUS
  <2>2. f \in DOMAIN list /\ list[f].id = d.id /\ \A j \in DOMAIN list : list[j].id = d.id => f <= j
    BY <1>3, <2>1, FirstFound
  <2>3. PICK new : new = [list EXCEPT ![f] = e]
    OBVIOUS
  <2>4. new = ReplaceOrAdd(list, d)
    BY <1>1, <1>3, <2>1, <2>3 DEF ReplaceOrAdd
  <2>5. new \in Seq(Entry) /\ DOMAIN new = DOMAIN list
    <3>1. Len(list) \in Nat /\ DOMAIN list = 1..Len(list)
      OBVIOUS
    <3>3. list = [j \in 1..Len(list) |-> list[j]] /\ \A j \in 1..Len(list) : list[j] \in Entry
      BY <3>1
    <3>2. new \in [1..Len(list) -> Entry]
      BY <1>2, <2>3, <3>1, <3>3
    <3> QED BY <3>1, <3>2
  <2>6. \A j \in DOMAIN list : new[j] = IF j = f THEN e ELSE list[j]
    BY <2>3
  <2>7. \A j \in DOMAIN list : new[j].id = list[j].id
    BY <1>2, <2>2, <2>6
  <2>8. ASSUME NEW id, NEW x, id # d.id, FirstIs(list, id, x) PROVE FirstIs(new, id, x)
    BY <2>2, <2>5, <2>6, <2>7, <2>8 DEF FirstIs
  <2>9. FirstIs(new, d.id, d.val)
    BY <1>2, <2>2, <2>5, <2>6, <2>7 DEF FirstIs
  <2> QED BY <2>4, <2>5, <2>8, <2>9
<1>4. CASE d.id \notin EntryIds(list)
  <2>1. ReplaceOrAdd(list, d) = lwm2m_list_add(list, e)
    BY <1>1, <1>4 DEF ReplaceOrAdd, prv_add_ac_val
  <2>2. PICK new : new = lwm2m_list_add(list, e)
    OBVIOUS
  <2>3. /\ new \in Seq(Entry)
        /\ \A id, x : id # e.id /\ FirstIs(list, id, x) => FirstIs(new, id, x)
        /\ \E x : FirstIs(new, e.id, x) /\ (x = e.val \/ FirstIs(list, e.id, x))
    BY <1>2, <2>2, AddedEntry
  <2>4. \A x : ~FirstIs(list, d.id, x)
    BY <1>4 DEF FirstIs, EntryIds
  <2> QED BY <1>2, <2>1, <2>2, <2>3, <2>4
<1> QED BY <1>3, <1>4

\* The lists after each entry.
IsAddRun(list, sub, replace, a) ==
  /\ a[0] = list
  /\ \A k \in 1..Len(sub) :
       a[k] = IF replace THEN ReplaceOrAdd(a[k - 1], sub[k]) ELSE prv_add_ac_val(a[k - 1], sub[k])
  /\ AddAll(list, sub, replace) = a[Len(sub)]

\* The recursive function of AddAll exists, and its values are the lists in between.
LEMMA AddSteps ==
  ASSUME NEW list, NEW sub, Len(sub) \in Nat, NEW replace \in BOOLEAN
  PROVE  \E a : IsAddRun(list, sub, replace, a)
<1> DEFINE Step(a, k) == IF replace THEN ReplaceOrAdd(a, sub[k]) ELSE prv_add_ac_val(a, sub[k])
           Runs(n, g) == g = [k \in 0..n |-> IF k = 0 THEN list ELSE Step(g[k - 1], k)]
           N == Len(sub)
           S == {n \in Nat : \E g : Runs(n, g)}
<1> HIDE DEF Step
<1>1. 0 \in S
  <2>1. Runs(0, [k \in 0..0 |-> list])
    OBVIOUS
  <2> QED BY <2>1
<1>2. ASSUME NEW n \in Nat, n \in S PROVE n + 1 \in S
  <2>1. PICK g : Runs(n, g)
    BY <1>2
  <2> DEFINE h == [k \in 0..(n + 1) |-> IF k = n + 1 THEN Step(g[n], n + 1) ELSE g[k]]
  <2>2. \A k \in 0..(n + 1) : h[k] = IF k = 0 THEN list ELSE Step(h[k - 1], k)
    BY <2>1
  <2>3. Runs(n + 1, h)
    BY <2>2
  <2> HIDE DEF Runs, h
  <2>4. \E g2 : Runs(n + 1, g2)
    BY <2>3
  <2> QED BY <2>4
<1>3. N \in S
  BY <1>1, <1>2, NatSetInduction
<1>4. \E g : Runs(N, g)
  BY <1>3
<1>5. PICK a : a = (CHOOSE g : Runs(N, g))
  OBVIOUS
<1>6. Runs(N, a)
  BY <1>4, <1>5
<1>7. AddAll(list, sub, replace) = a[N]
  BY <1>5 DEF AddAll, Step
<1>8. a[0] = list /\ \A k \in 1..N : a[k] = Step(a[k - 1], k)
  BY <1>6
<1> QED BY <1>7, <1>8 DEF Step, IsAddRun

\* After k entries each of them is found, with a value written for it; a list that
\* entries are only added to has no others.
Processed(list, sub, k, replace) ==
  /\ list \in Seq(Entry)
  /\ \A n \in 1..k : \E j \in 1..k : sub[j].id = sub[n].id /\ FirstIs(list, sub[n].id, sub[j].val)
  /\ ~replace => \A id \in EntryIds(list) : \E j \in 1..k : sub[j].id = id

LEMMA ProcessedNext ==
  ASSUME NEW list, NEW sub, NEW k \in Nat, NEW replace \in BOOLEAN,
         Processed(list, sub, k, replace),
         sub[k + 1].id \in Nat, sub[k + 1].val \in 0..MaxUint16
  PROVE  Processed(IF replace THEN ReplaceOrAdd(list, sub[k + 1]) ELSE prv_add_ac_val(list, sub[k + 1]),
                   sub, k + 1, replace)
<1>1. PICK d : d = sub[k + 1]
  OBVIOUS
<1>2. PICK new : new = IF replace THEN ReplaceOrAdd(list, d) ELSE prv_add_ac_val(list, d)
  OBVIOUS
<1>3. list \in Seq(Entry) /\ d.id \in Nat /\ d.val \in 0..MaxUint16
  BY <1>1 DEF Processed
<1>4. /\ new \in Seq(Entry)
      /\ \A id, x : id # d.id /\ FirstIs(list, id, x) => FirstIs(new, id, x)
      /\ \E x : FirstIs(new, d.id, x) /\ (x = d.val \/ (~replace /\ FirstIs(list, d.id, x)))
      /\ ~replace => EntryIds(new) = EntryIds(list) \cup {d.id}
  <2>1. CASE replace
    <3>1. new = ReplaceOrAdd(list, d)
      BY <1>2, <2>1
    <3> QED BY <1>3, <2>1, <3>1, ReplacedEntry
  <2>2. CASE ~replace
    <3>1. PICK e : e = [id |-> d.id, val |-> d.val]
      OBVIOUS
    <3>2. e \in Entry /\ e.id = d.id /\ e.val = d.val
      BY <1>3, <3>1 DEF Entry
    <3>3. new = lwm2m_list_add(list, e)
      BY <1>2, <2>2, <3>1 DEF prv_add_ac_val
    <3> QED BY <1>3, <2>2, <3>2, <3>3, AddedEntry
  <2> QED BY <2>1, <2>2
<1>5. \E j \in 1..(k + 1) : sub[j].id = d.id /\ FirstIs(new, d.id, sub[j].val)
  <2>1. PICK x : FirstIs(new, d.id, x) /\ (x = d.val \/ (~replace /\ FirstIs(list, d.id, x)))
    BY <1>4
  <2>2. CASE x = d.val
    BY <1>1, <2>1, <2>2
  <2>3. CASE ~replace /\ FirstIs(list, d.id, x)
    <3>1. d.id \in EntryIds(list)
      BY <2>3 DEF FirstIs, EntryIds
    <3>2. PICK m \in 1..k : sub[m].id = d.id
      BY <2>3, <3>1 DEF Processed
    <3>3. PICK j \in 1..k : sub[j].id = sub[m].id /\ FirstIs(list, sub[m].id, sub[j].val)
      BY <3>2 DEF Processed
    <3>4. ReadEntry(list, d.id) = x /\ ReadEntry(list, d.id) = sub[j].val
      BY <1>3, <2>3, <3>2, <3>3, FirstRead
    <3> QED BY <2>1, <3>2, <3>3, <3>4
  <2> QED BY <2>1, <2>2, <2>3
<1>6. ASSUME NEW n \in 1..(k + 1)
      PROVE  \E j \in 1..(k + 1) : sub[j].id = sub[n].id /\ FirstIs(new, sub[n].id, sub[j].val)
  <2>1. CASE sub[n].id = d.id
    BY <1>5, <2>1
  <2>2. CASE sub[n].id # d.id
    <3>1. n \in 1..k
      BY <1>1, <2>2
    <3>2. PICK j \in 1..k : sub[j].id = sub[n].id /\ FirstIs(list, sub[n].id, sub[j].val)
      BY <3>1 DEF Processed
    <3> QED BY <1>4, <2>2, <3>2
  <2> QED BY <2>1, <2>2
<1>7. ASSUME ~replace PROVE \A id \in EntryIds(new) : \E j \in 1..(k + 1) : sub[j].id = id
  <2>1. \A id \in EntryIds(list) : \E j \in 1..k : sub[j].id = id
    BY <1>7 DEF Processed
  <2>2. k + 1 \in 1..(k + 1) /\ \A j \in 1..k : j \in 1..(k + 1)
    OBVIOUS
  <2> QED BY <1>1, <1>4, <1>7, <2>1, <2>2
<1>8. Processed(new, sub, k + 1, replace)
  BY <1>4, <1>6, <1>7 DEF Processed
<1> QED BY <1>1, <1>2, <1>8

\* The list that a write leaves.
LEMMA AddedAll ==
  ASSUME NEW list \in Seq(Entry), NEW sub, IsEntries(sub),
         \A n \in DOMAIN sub : sub[n].val \in 0..MaxUint16,
         NEW replace \in BOOLEAN, replace \/ list = <<>>
  PROVE  AddAll(list, sub, replace) \in Seq(Entry) /\ ReadsEntries(AddAll(list, sub, replace), sub)
<1>0. Len(sub) \in Nat /\ DOMAIN sub = 1..Len(sub) /\ \A n \in DOMAIN sub : sub[n].id \in Nat
  BY DEF IsEntries
<1>1. PICK a : IsAddRun(list, sub, replace, a)
  BY <1>0, AddSteps
<1> DEFINE S == {n \in Nat : n <= Len(sub) => Processed(a[n], sub, n, replace)}
<1>2. 0 \in S
  <2>1. ~replace => EntryIds(list) = {}
    BY DEF EntryIds
  <2> QED BY <1>1, <2>1 DEF Processed, IsAddRun
<1>3. ASSUME NEW n \in Nat, n \in S PROVE n + 1 \in S
  <2> SUFFICES ASSUME n + 1 <= Len(sub) PROVE Processed(a[n + 1], sub, n + 1, replace)
    OBVIOUS
  <2>1. n + 1 \in DOMAIN sub /\ n + 1 \in 1..Len(sub) /\ (n + 1) - 1 = n /\ n <= Len(sub)
    BY <1>0
  <2>2. Processed(a[n], sub, n, replace)
    BY <1>3, <2>1
  <2>3. a[n + 1] = IF replace THEN ReplaceOrAdd(a[n], sub[n + 1]) ELSE prv_add_ac_val(a[n], sub[n + 1])
    BY <1>1, <2>1 DEF IsAddRun
  <2>4. sub[n + 1].id \in Nat /\ sub[n + 1].val \in 0..MaxUint16
    BY <1>0, <2>1
  <2> QED BY <2>2, <2>3, <2>4, ProcessedNext
<1>4. Len(sub) \in S
  BY <1>0, <1>2, <1>3, NatSetInduction
<1>5. PICK new : new = AddAll(list, sub, replace)
  OBVIOUS
<1>6. Processed(new, sub, Len(sub), replace)
  BY <1>0, <1>1, <1>4, <1>5 DEF IsAddRun
<1>7. ASSUME NEW n \in DOMAIN sub
      PROVE  \E j \in DOMAIN sub : sub[j].id = sub[n].id /\ ReadEntry(new, sub[n].id) = sub[j].val
  <2>1. PICK j \in 1..Len(sub) : sub[j].id = sub[n].id /\ FirstIs(new, sub[n].id, sub[j].val)
    BY <1>0, <1>6 DEF Processed
  <2>2. new \in Seq(Entry)
    BY <1>6 DEF Processed
  <2>3. ReadEntry(new, sub[n].id) = sub[j].val
    BY <2>1, <2>2, FirstRead
  <2> QED BY <1>0, <2>1, <2>3
<1> QED BY <1>5, <1>6, <1>7 DEF Processed, ReadsEntries

\* A write of the access list is refused, or all its entries are found.
LEMMA AclListEffect ==
  ASSUME NEW v, IsAclInstance(v), NEW d, IsEntries(d.sub), NEW partial \in BOOLEAN
  PROVE  LET r == AclList(v, d, partial)
         IN  \/ \E code \in {"4.00", "4.06"} : r = Refused(v, code)
             \/ \E x \in Seq(Entry) : ReadsEntries(x, d.sub) /\ r = Accepted(Put(v, 2, x))
<1>1. CASE AclBadCode(d.sub) # "2.04"
  <2>1. AclBadCode(d.sub) \in {"4.00", "4.06"}
    BY <1>1 DEF AclBadCode
  <2> QED BY <1>1, <2>1 DEF AclList
<1>2. CASE AclBadCode(d.sub) = "2.04"
  <2>1. \A n \in DOMAIN d.sub : d.sub[n].val \in 0..MaxUint16
    <3>1. PICK bad : bad = {k \in DOMAIN d.sub : d.sub[k].val = Junk \/ d.sub[k].val \notin 0..MaxUint16}
      OBVIOUS
    <3>2. bad = {}
      BY <1>2, <3>1 DEF AclBadCode
    <3> QED BY <3>1, <3>2
  <2>2. PICK copy : copy = IF partial /\ d.sub # <<>> THEN AddAll(<<>>, v[2], FALSE) ELSE <<>>
    OBVIOUS
  <2>3. <<>> \in Seq(Entry)
    OBVIOUS
  <2>4. AddAll(<<>>, v[2], FALSE) \in Seq(Entry)
    <3>1. v[2] \in Seq(Entry)
      BY DEF IsAclInstance, Entry
    <3>2. Len(v[2]) \in Nat /\ DOMAIN v[2] = 1..Len(v[2]) /\ \A n \in DOMAIN v[2] : v[2][n] \in Entry
      BY <3>1
    <3>3. IsEntries(v[2]) /\ \A n \in DOMAIN v[2] : v[2][n].val \in 0..MaxUint16
      BY <3>2 DEF IsEntries, Entry
    <3> QED BY <2>3, <3>3, AddedAll
  <2>5. copy \in Seq(Entry) /\ (partial \/ copy = <<>>)
    BY <2>2, <2>3, <2>4
  <2>6. AclList(v, d, partial) = Accepted(Put(v, 2, AddAll(copy, d.sub, partial)))
    BY <1>2, <2>2 DEF AclList
  <2> QED BY <2>1, <2>5, <2>6, AddedAll
<1> QED BY <1>1, <1>2

\* What a write relies on in an instance, and keeps.
Sound(o, v) == IsFcn(v) /\ (o = Acl => IsAclInstance(v))

\* What writing one resource may do to an instance.
OneEffect(o, v, d, r) ==
  \/ r.code \notin {"2.01", "2.04"} /\ r.inst = v
  \/ r.code = "2.04" /\ o = Firmware /\ ~d.multi /\ d.id \in {0, 1} /\ r.inst = v
  \/ r.code = "2.04" /\ ~d.multi /\ r.inst = Written(v, d) /\ (o = Server => d.id # 7) /\ (o = Acl => d.id # 2)
  \/ r.code = "2.04" /\ ~d.multi /\ o = Server /\ d.id = 7 /\ \E x : r.inst = Put(v, 7, x)
  \/ r.code = "2.04" /\ d.multi /\ o = Acl /\ d.id = 2
     /\ \E x \in Seq(Entry) : ReadsEntries(x, d.sub) /\ r.inst = Put(v, 2, x)

\* Each object's write does one of these.
LEMMA WriteEffect ==
  ASSUME NEW o \in Writable, NEW v, Sound(o, v), NEW d, d.multi \in BOOLEAN, d.multi => IsEntries(d.sub),
         NEW creating \in BOOLEAN, NEW partial \in BOOLEAN
  PROVE  OneEffect(o, v, d, WriteResource(o, v, d, creating, partial))
<1>1. CASE o = Server
  <2>1. WriteResource(o, v, d, creating, partial) = prv_server_write(v, d)
    BY <1>1 DEF WriteResource, Server, Acl, Device, Firmware, Test
  <2>2. OneEffect(o, v, d, prv_server_write(v, d))
    <3>1. CASE d.multi \/ d.id \notin {0, 6, 7} \cup ServerInts \cup ServerOptional
      <4>1. prv_server_write(v, d) \in {Refused(v, "4.04"), Refused(v, "4.05")}
        BY <3>1 DEF prv_server_write
      <4> QED BY <4>1 DEF OneEffect, Refused
    <3>2. CASE ~d.multi /\ d.id = 7
      <4>1. prv_server_write(v, d) = IF d.val = Junk \/ Len(d.val) \notin 1..3 THEN Refused(v, "4.00")
                                     ELSE Accepted(Put(v, 7, strncpy(v[7], d.val)))
        BY <3>2 DEF prv_server_write, ServerInts, ServerOptional, ServerOptionalInts,
           ServerOptionalFlags
      <4> QED BY <3>2, <4>1, <1>1 DEF OneEffect, Refused, Accepted
    <3>3. CASE ~d.multi /\ d.id \in {0, 6} \cup ServerInts \cup ServerOptional
      <4>1. \E range : \E otherwise \in {"4.00", "4.06"} :
               prv_server_write(v, d) = SetInt(v, d, range, otherwise)
        BY <3>3 DEF prv_server_write, prv_set_int_value, WriteOptional, ServerInts,
           ServerOptional, ServerOptionalInts, ServerOptionalFlags
      <4>2. d.id # 7 /\ o # Acl
        BY <1>1, <3>3 DEF ServerInts, ServerOptional, ServerOptionalInts, ServerOptionalFlags, Server, Acl
      <4> QED BY <3>3, <4>1, <4>2, SetIntEffect DEF OneEffect
    <3> QED BY <3>1, <3>2, <3>3
  <2> QED BY <2>1, <2>2
<1>2. CASE o = Acl
  <2>1. WriteResource(o, v, d, creating, partial) = prv_write_resources(v, d, creating, partial)
    BY <1>2 DEF WriteResource, Server, Acl, Device, Firmware, Test
  <2>2. \/ \E code \in {"4.00", "4.04", "4.05"} : prv_write_resources(v, d, creating, partial) = Refused(v, code)
        \/ d.id = 2 /\ d.multi /\ prv_write_resources(v, d, creating, partial) = AclList(v, d, partial)
        \/ ~d.multi /\ d.id # 2 /\ \E range : prv_write_resources(v, d, creating, partial) = SetInt(v, d, range, "4.06")
    BY DEF prv_write_resources
  <2>3. CASE d.id = 2 /\ d.multi
    <3>1. PICK r : r = AclList(v, d, partial)
      OBVIOUS
    <3>2. WriteResource(o, v, d, creating, partial) = r
      BY <2>1, <2>3, <3>1 DEF prv_write_resources
    <3>3. \/ \E code \in {"4.00", "4.06"} : r = Refused(v, code)
          \/ \E x \in Seq(Entry) : ReadsEntries(x, d.sub) /\ r = Accepted(Put(v, 2, x))
      BY <1>2, <2>3, <3>1, AclListEffect DEF Sound
    <3> QED BY <1>2, <2>3, <3>2, <3>3 DEF OneEffect, Refused, Accepted
  <2>4. CASE \E code \in {"4.00", "4.04", "4.05"} : prv_write_resources(v, d, creating, partial) = Refused(v, code)
    BY <2>1, <2>4 DEF OneEffect, Refused
  <2>5. CASE ~d.multi /\ d.id # 2 /\ \E range : prv_write_resources(v, d, creating, partial) = SetInt(v, d, range, "4.06")
    BY <1>2, <2>1, <2>5, SetIntEffect DEF OneEffect, Acl, Server
  <2> QED BY <2>2, <2>3, <2>4, <2>5
<1>3. CASE o = Device
  <2>1. WriteResource(o, v, d, creating, partial) = prv_device_write(v, d)
    BY <1>3 DEF WriteResource, Server, Acl, Device, Firmware, Test
  <2>2. \/ \E code \in {"4.04", "4.05", "5.01"} : prv_device_write(v, d) = Refused(v, code)
        \/ ~d.multi /\ \E range : prv_device_write(v, d) = SetInt(v, d, range, "4.00")
    BY DEF prv_device_write
  <2>3. o # Server /\ o # Acl
    BY <1>3 DEF Device, Server, Acl
  <2> QED BY <2>1, <2>2, <2>3, SetIntEffect DEF OneEffect, Refused
<1>4. CASE o = Firmware
  BY <1>4 DEF WriteResource, Server, Acl, Device, Firmware, Test, prv_firmware_write, OneEffect, Refused, Accepted
<1>5. CASE o = Test
  <2>1. WriteResource(o, v, d, creating, partial) = TestWrite(v, d)
    BY <1>5 DEF WriteResource, Server, Acl, Device, Firmware, Test
  <2>2. \/ \E code \in {"4.04", "4.05", "5.01"} : TestWrite(v, d) = Refused(v, code)
        \/ ~d.multi /\ \E range : TestWrite(v, d) = SetInt(v, d, range, "4.00")
    BY DEF TestWrite
  <2>3. o # Server /\ o # Acl
    BY <1>5 DEF Test, Server, Acl
  <2> QED BY <2>1, <2>2, <2>3, SetIntEffect DEF OneEffect, Refused
<1> QED BY <1>1, <1>2, <1>3, <1>4, <1>5 DEF Writable

\* A write keeps its instance sound, after each of its resources.
LEMMA RunSound ==
  ASSUME NEW o \in Writable, NEW v, Sound(o, v), NEW data, IsData(o, data),
         NEW creating \in BOOLEAN, NEW partial \in BOOLEAN,
         NEW a, IsRun(o, v, data, creating, partial, a)
  PROVE  \A n \in 0..Len(data) : Sound(o, a[n].inst)
<1> DEFINE S == {n \in Nat : n <= Len(data) => Sound(o, a[n].inst)}
<1>2. 0 \in S
  BY DEF IsRun, Accepted
<1>3. ASSUME NEW n \in Nat, n \in S PROVE n + 1 \in S
  <2> SUFFICES ASSUME n + 1 <= Len(data) PROVE Sound(o, a[n + 1].inst)
    OBVIOUS
  <2>1. Sound(o, a[n].inst) /\ n + 1 \in 1..Len(data) /\ n + 1 - 1 = n
    BY <1>3 DEF IsData
  <2>2. data[n + 1].multi \in BOOLEAN /\ (data[n + 1].multi => IsEntries(data[n + 1].sub))
    BY <2>1 DEF IsData
  <2>3. \/ a[n + 1] = a[n]
        \/ OneEffect(o, a[n].inst, data[n + 1], a[n + 1])
    BY <2>1, <2>2, WriteEffect DEF IsRun
  <2>5. ASSUME NEW w, NEW r, NEW x, Sound(o, w), o = Acl /\ r = 2 => x \in Seq(Entry)
        PROVE  Sound(o, Put(w, r, x))
    <3>1. PICK p : p = Put(w, r, x)
      OBVIOUS
    <3>2. /\ IsFcn(p) /\ DOMAIN p = DOMAIN w \cup {r}
          /\ p[r] = x /\ \A k \in DOMAIN w : k # r => p[k] = w[k]
      BY <3>1 DEF IsFcn, Put
    <3>3. ASSUME o = Acl PROVE 2 \in DOMAIN p /\ p[2] \in Seq(Entry)
      <4>1. 2 \in DOMAIN w /\ w[2] \in Seq(Entry)
        BY <2>5, <3>3 DEF Sound, IsAclInstance, Entry
      <4>2. CASE r = 2
        BY <2>5, <3>2, <3>3, <4>2
      <4>3. CASE r # 2
        BY <3>2, <4>1, <4>3
      <4> QED BY <4>2, <4>3
    <3> QED BY <3>1, <3>2, <3>3 DEF Sound, IsAclInstance, Entry
  <2>6. CASE data[n + 1].multi /\ o = Acl /\ \E x \in Seq(Entry) : a[n + 1].inst = Put(a[n].inst, 2, x)
    BY <2>1, <2>5, <2>6
  <2>7. CASE a[n + 1].inst = Written(a[n].inst, data[n + 1]) /\ (o = Acl => data[n + 1].id # 2)
    BY <2>1, <2>5, <2>7 DEF Written
  <2>8. CASE o = Server /\ \E x : a[n + 1].inst = Put(a[n].inst, 7, x)
    BY <2>1, <2>5, <2>8 DEF Server, Acl
  <2> QED BY <2>1, <2>3, <2>6, <2>7, <2>8 DEF OneEffect
<1>4. \A n \in Nat : n \in S
  BY <1>2, <1>3, NatSetInduction
<1> QED BY <1>4 DEF IsData

LEMMA WrittenSound ==
  ASSUME NEW o \in Writable, NEW v, Sound(o, v), NEW data, IsData(o, data),
         NEW creating \in BOOLEAN, NEW partial \in BOOLEAN
  PROVE  Sound(o, WriteInstance(o, v, data, creating, partial).inst)
<1>1. PICK a : IsRun(o, v, data, creating, partial, a)
  BY WriteSteps DEF IsData
<1>2. Len(data) \in 0..Len(data)
  BY DEF IsData
<1> QED BY <1>1, <1>2, RunSound DEF IsRun

\* strncpy keeps the binding within its char array.
LEMMA CopiedBinding ==
  ASSUME NEW old \in Seq(STRING), NEW new \in Seq(STRING), Len(old) <= 3, Len(new) <= 3
  PROVE  strncpy(old, new) \in Seq(STRING) /\ Len(strncpy(old, new)) <= 3
<1> DEFINE t == SubSeq(old, Len(new) + 1, Len(old))
<1>1. t \in Seq(STRING) /\ Len(t) = IF Len(new) + 1 <= Len(old) THEN Len(old) - Len(new) ELSE 0
  OBVIOUS
<1> HIDE DEF t
<1>2. new \o t \in Seq(STRING) /\ Len(new \o t) = Len(new) + Len(t)
  BY <1>1
<1>3. strncpy(old, new) = new \o t
  BY DEF strncpy, t
<1> QED BY <1>1, <1>2, <1>3

\* One resource of a Server instance keeps the types of the others.
LEMMA ServerWriteTyped ==
  ASSUME NEW v, IsServerInstance(v), NEW d, d.multi \in BOOLEAN,
         d.id = 7 => d.val = Junk \/ d.val \in Seq(STRING)
  PROVE  IsServerInstance(prv_server_write(v, d).inst)
<1> USE DEF ServerMandatory, ServerInts, ServerOptional, ServerOptionalInts, ServerOptionalFlags
<1>1. CASE d.multi \/ d.id \notin {0, 6, 7} \cup ServerInts \cup ServerOptional
  <2>1. prv_server_write(v, d) \in {Refused(v, "4.04"), Refused(v, "4.05")}
    BY <1>1 DEF prv_server_write
  <2> QED BY <2>1 DEF Refused
<1>2. CASE ~d.multi /\ d.id = 7
  <2>1. prv_server_write(v, d) = IF d.val = Junk \/ Len(d.val) \notin 1..3 THEN Refused(v, "4.00")
                                 ELSE Accepted(Put(v, 7, strncpy(v[7], d.val)))
    BY <1>2 DEF prv_server_write
  <2>2. CASE d.val = Junk \/ Len(d.val) \notin 1..3
    BY <2>1, <2>2 DEF Refused
  <2>3. CASE d.val \in Seq(STRING) /\ Len(d.val) \in 1..3
    <3>6. Len(d.val) <= 3
      <4>1. \A n \in 1..3 : n <= 3
        OBVIOUS
      <4> QED BY ONLY <2>3, <4>1
    <3>7. v[7] \in Seq(STRING) /\ Len(v[7]) <= 3
      BY DEF IsServerInstance
    <3>1. v[7] \in Seq(STRING) /\ Len(v[7]) <= 3 /\ d.val \in Seq(STRING) /\ Len(d.val) <= 3
      BY ONLY <2>3, <3>6, <3>7
    <3>2. PICK x : x = strncpy(v[7], d.val)
      OBVIOUS
    <3>5. x \in Seq(STRING) /\ Len(x) <= 3
      BY ONLY <3>1, <3>2, CopiedBinding
    <3>3. prv_server_write(v, d) = Refused(v, "4.00") \/ prv_server_write(v, d) = Accepted(Put(v, 7, x))
      BY <2>1, <3>2
    <3>4. IsServerInstance(Put(v, 7, x))
      BY <3>5 DEF IsServerInstance, Put
    <3> QED BY <3>3, <3>4 DEF Refused, Accepted
  <2> QED BY <1>2, <2>2, <2>3
<1>3. CASE ~d.multi /\ d.id \in {0, 6} \cup ServerInts \cup ServerOptional
  <2>1. \E range : \E otherwise \in {"4.00", "4.06"} :
          /\ prv_server_write(v, d) = SetInt(v, d, range, otherwise)
          /\ d.id = 0 => range = 1..MaxUint16
          /\ d.id = 1 => range = 0..MaxUint32
          /\ d.id \in ServerOptional => range = 0..1 \/ range = 0..MaxInt
    <3>1. CASE d.id = 0
      BY <1>3, <3>1 DEF prv_server_write
    <3>2. CASE d.id \in ServerInts
      <4>1. prv_server_write(v, d) = SetInt(v, d, 0..MaxUint32, "4.06")
        BY <1>3, <3>2 DEF prv_server_write, prv_set_int_value
      <4>2. d.id # 0 /\ d.id \notin ServerOptional
        BY <3>2
      <4> QED BY <4>1, <4>2
    <3>3. CASE d.id = 6
      BY <1>3, <3>3 DEF prv_server_write
    <3>4. CASE d.id \in ServerOptional
      <4>1. prv_server_write(v, d) = WriteOptional(v, d) /\ d.id \notin {0, 1}
        BY <1>3, <3>4 DEF prv_server_write
      <4> QED BY <4>1 DEF WriteOptional
    <3> QED BY <1>3, <3>1, <3>2, <3>3, <3>4
  <2>2. PICK range : \E otherwise \in {"4.00", "4.06"} :
          /\ prv_server_write(v, d) = SetInt(v, d, range, otherwise)
          /\ d.id = 0 => range = 1..MaxUint16
          /\ d.id = 1 => range = 0..MaxUint32
          /\ d.id \in ServerOptional => range = 0..1 \/ range = 0..MaxInt
    BY <2>1
  <2>3. \/ prv_server_write(v, d).inst = v
        \/ d.val \in range /\ prv_server_write(v, d).inst = Written(v, d)
    BY <2>2, SetIntEffect
  <2>5. /\ d.id = 0 => range = 1..MaxUint16
        /\ d.id = 1 => range = 0..MaxUint32
        /\ d.id \in ServerOptional => range = 0..1 \/ range = 0..MaxInt
    BY <2>2
  <2>4. ASSUME d.val \in range PROVE IsServerInstance(Written(v, d))
    <3>1. DOMAIN Written(v, d) = DOMAIN v \cup {d.id}
      BY DEF Written, Put
    <3>2. \A r \in DOMAIN v \cup {d.id} : Written(v, d)[r] = IF r = d.id THEN d.val ELSE v[r]
      BY DEF Written, Put
    <3>3. /\ d.id = 0 => d.val \in 0..MaxUint16
          /\ d.id = 1 => d.val \in 0..MaxUint32
          /\ d.id \in ServerOptional => d.val \in 0..MaxInt
          /\ d.id # 7
      <4>1. MaxInt \in Nat /\ MaxInt >= 1 /\ MaxUint16 \in Nat /\ MaxUint32 \in Nat
        BY WidthsAssumption
      <4>2. d.id = 0 => d.val \in 0..MaxUint16
        BY <2>5, <2>4, <4>1
      <4>3. d.id = 1 => d.val \in 0..MaxUint32
        BY <2>5, <2>4, <4>1
      <4>4. d.id \in ServerOptional => d.val \in 0..MaxInt
        <5>1. ASSUME range = 0..1 \/ range = 0..MaxInt PROVE d.val \in 0..MaxInt
          BY ONLY <5>1, <2>4, <4>1
        <5> QED BY <2>5, <5>1
      <4>5. d.id # 7
        BY <1>3
      <4> QED BY <4>2, <4>3, <4>4, <4>5
    <3> QED BY <3>1, <3>2, <3>3 DEF IsServerInstance
  <2> QED BY <2>3, <2>4
<1> QED BY <1>1, <1>2, <1>3

\* A write of several resources keeps them too.
LEMMA ServerWrittenTyped ==
  ASSUME NEW v, IsServerInstance(v), NEW data, IsData(Server, data),
         NEW creating \in BOOLEAN, NEW partial \in BOOLEAN
  PROVE  IsServerInstance(WriteInstance(Server, v, data, creating, partial).inst)
<1>1. PICK a : IsRun(Server, v, data, creating, partial, a)
  BY WriteSteps DEF IsData
<1> DEFINE S == {n \in Nat : n <= Len(data) => IsServerInstance(a[n].inst)}
<1>2. 0 \in S
  BY <1>1 DEF IsRun, Accepted
<1>3. ASSUME NEW n \in Nat, n \in S PROVE n + 1 \in S
  <2> SUFFICES ASSUME n + 1 <= Len(data) PROVE IsServerInstance(a[n + 1].inst)
    OBVIOUS
  <2>1. IsServerInstance(a[n].inst) /\ n + 1 \in 1..Len(data) /\ n + 1 - 1 = n
    BY <1>3 DEF IsData
  <2>2. /\ data[n + 1].multi \in BOOLEAN
        /\ data[n + 1].id = 7 => data[n + 1].val = Junk \/ data[n + 1].val \in Seq(STRING)
    BY <2>1 DEF IsData
  <2>3. \/ a[n + 1] = a[n]
        \/ a[n + 1] = prv_server_write(a[n].inst, data[n + 1])
    BY <1>1, <2>1 DEF IsRun, WriteResource, Server, Acl, Device, Firmware, Test
  <2> QED BY <2>1, <2>2, <2>3, ServerWriteTyped
<1>4. \A n \in Nat : n \in S
  BY <1>2, <1>3, NatSetInduction
<1> QED BY <1>1, <1>4 DEF IsData, IsRun

\* A refused write of one resource changes nothing.
LEMMA RefusedAlone ==
  ASSUME NEW o \in Writable, NEW v, Sound(o, v), NEW data, IsData(o, data), Len(data) <= 1,
         NEW creating \in BOOLEAN, NEW partial \in BOOLEAN
  PROVE  LET w == WriteInstance(o, v, data, creating, partial)
         IN  w.code # "2.04" => w.inst = v
<1>0. Len(data) \in Nat
  BY DEF IsData
<1>1. PICK a : IsRun(o, v, data, creating, partial, a)
  BY <1>0, WriteSteps
<1> DEFINE w == WriteInstance(o, v, data, creating, partial)
<1>2. Len(data) = 0 => w = Accepted(v)
  BY <1>1 DEF IsRun
<1>3. CASE Len(data) = 1
  <2>1. /\ w = WriteResource(o, v, data[1], creating, partial)
        /\ data[1].multi \in BOOLEAN /\ (data[1].multi => IsEntries(data[1].sub))
    BY <1>1, <1>3 DEF IsRun, Accepted, IsData
  <2>2. OneEffect(o, v, data[1], w)
    BY <2>1, WriteEffect
  <2> QED BY <2>2 DEF OneEffect
<1>4. Len(data) \in {0, 1}
  BY DEF IsData
<1> QED BY <1>2, <1>3, <1>4 DEF Accepted

\* No write answers 2.01, the code of a creation.
LEMMA WriteCode ==
  ASSUME NEW o \in Writable, NEW v, Sound(o, v), NEW data, IsData(o, data),
         NEW creating \in BOOLEAN, NEW partial \in BOOLEAN
  PROVE  WriteInstance(o, v, data, creating, partial).code # "2.01"
<1>1. PICK a : IsRun(o, v, data, creating, partial, a)
  BY WriteSteps DEF IsData
<1> DEFINE S == {n \in Nat : n <= Len(data) => a[n].code # "2.01"}
<1>2. 0 \in S
  BY <1>1 DEF IsRun, Accepted
<1>3. ASSUME NEW n \in Nat, n \in S PROVE n + 1 \in S
  <2> SUFFICES ASSUME n + 1 <= Len(data) PROVE a[n + 1].code # "2.01"
    OBVIOUS
  <2>1. a[n].code # "2.01" /\ n + 1 \in 1..Len(data) /\ n + 1 - 1 = n
    BY <1>3 DEF IsData
  <2>2. data[n + 1].multi \in BOOLEAN /\ (data[n + 1].multi => IsEntries(data[n + 1].sub))
    BY <2>1 DEF IsData
  <2>4. Sound(o, a[n].inst)
    <3>1. n \in 0..Len(data)
      BY <2>1 DEF IsData
    <3> QED BY <1>1, <3>1, RunSound
  <2>3. \/ a[n + 1] = a[n]
        \/ OneEffect(o, a[n].inst, data[n + 1], a[n + 1])
    BY <1>1, <2>1, <2>2, <2>4, WriteEffect DEF IsRun
  <2> QED BY <2>1, <2>3 DEF OneEffect
<1>4. \A n \in Nat : n \in S
  BY <1>2, <1>3, NatSetInduction
<1> QED BY <1>1, <1>4 DEF IsData, IsRun

\* What an instance has of a resource that was written.
Holds(o, w, d) ==
  \/ o = Firmware /\ d.id \in {0, 1} /\ ~d.multi
  \/ o = Server /\ d.id = 7
  \/ ~d.multi /\ d.id \in DOMAIN w /\ w[d.id] = d.val
  \/ d.multi /\ o = Acl /\ d.id = 2 /\ 2 \in DOMAIN w /\ ReadsEntries(w[2], d.sub)

\* One resource written is held, and what was held of the others still is.
LEMMA OneHolds ==
  ASSUME NEW o, NEW v, NEW d, NEW r, OneEffect(o, v, d, r), r.code = "2.04"
  PROVE  /\ Holds(o, r.inst, d)
         /\ \A e : Holds(o, v, e) /\ e.id # d.id => Holds(o, r.inst, e)
<1>1. \A w, x, y : /\ x \in DOMAIN Put(w, x, y) /\ Put(w, x, y)[x] = y
                   /\ \A z \in DOMAIN w : z # x => z \in DOMAIN Put(w, x, y) /\ Put(w, x, y)[z] = w[z]
  BY DEF Put
<1>2. CASE o = Firmware /\ ~d.multi /\ d.id \in {0, 1} /\ r.inst = v
  BY <1>2 DEF Holds
<1>3. CASE ~d.multi /\ r.inst = Written(v, d)
  BY <1>1, <1>3 DEF Holds, Written
<1>4. CASE ~d.multi /\ o = Server /\ d.id = 7 /\ \E x : r.inst = Put(v, 7, x)
  BY <1>1, <1>4 DEF Holds
<1>5. CASE /\ d.multi /\ o = Acl /\ d.id = 2
           /\ \E x \in Seq(Entry) : ReadsEntries(x, d.sub) /\ r.inst = Put(v, 2, x)
  BY <1>1, <1>5 DEF Holds
<1> QED BY <1>2, <1>3, <1>4, <1>5 DEF OneEffect

\* An accepted write leaves the last value of each resource.
LEMMA WrittenHolds ==
  ASSUME NEW o \in Writable, NEW v, Sound(o, v), NEW data, IsData(o, data),
         NEW creating \in BOOLEAN, NEW partial \in BOOLEAN,
         WriteInstance(o, v, data, creating, partial).code = "2.04",
         NEW k \in DOMAIN data, IsLast(data, k)
  PROVE  Holds(o, WriteInstance(o, v, data, creating, partial).inst, data[k])
<1>1. PICK a : IsRun(o, v, data, creating, partial, a)
  BY WriteSteps DEF IsData
<1> DEFINE S == {n \in Nat : n \in k..Len(data) /\ a[n].code = "2.04" => Holds(o, a[n].inst, data[k])}
<1>0. k \in 1..Len(data) /\ Len(data) \in Nat
  BY DEF IsData
<1>2. 0 \in S
  BY <1>0
<1>3. ASSUME NEW n \in Nat, n \in S PROVE n + 1 \in S
  <2> SUFFICES ASSUME n + 1 \in k..Len(data), a[n + 1].code = "2.04"
               PROVE  Holds(o, a[n + 1].inst, data[k])
    OBVIOUS
  <2>1. n + 1 \in 1..Len(data) /\ n + 1 - 1 = n
    BY <1>0
  <2>2. data[n + 1].multi \in BOOLEAN /\ (data[n + 1].multi => IsEntries(data[n + 1].sub))
    BY <2>1 DEF IsData
  <2>6. Sound(o, a[n].inst)
    <3>1. n \in 0..Len(data)
      BY <1>0, <2>1
    <3> QED BY <1>1, <3>1, RunSound
  <2>3. a[n].code = "2.04" /\ OneEffect(o, a[n].inst, data[n + 1], a[n + 1])
    BY <1>1, <2>1, <2>2, <2>6, WriteEffect DEF IsRun
  <2>4. CASE n + 1 = k
    BY <2>3, <2>4, OneHolds
  <2>5. CASE n \in k..Len(data) /\ n + 1 > k
    <3>1. data[n + 1].id # data[k].id
      BY <2>1, <2>5, <1>0 DEF IsLast, IsData
    <3>2. Holds(o, a[n].inst, data[k])
      BY <1>3, <2>3, <2>5
    <3> QED BY <2>3, <3>1, <3>2, OneHolds
  <2> QED BY <1>0, <2>4, <2>5
<1>4. Len(data) \in S
  BY <1>0, <1>2, <1>3, NatSetInduction
<1>5. WriteInstance(o, v, data, creating, partial) = a[Len(data)]
  BY <1>1 DEF IsRun
<1> QED BY <1>0, <1>4, <1>5

-----------------------------------------------------------------------------
(***************************************************************************)
(* What a callback leaves of the list of instances of its object.          *)
(***************************************************************************)

\* What every instance and every list of instances is.
InstanceOK(o, v) == Sound(o, v) /\ (o = Server => IsServerInstance(v))
ListOK(o, list) ==
  /\ IsFcn(list) /\ \A i \in DOMAIN list : InstanceOK(o, list[i])
  /\ o \notin Creatable => DOMAIN list = {0}
AllHold(o, w, data) == \A k \in DOMAIN data : IsLast(data, k) => Holds(o, w, data[k])

\* All of it, for one instance.
LEMMA InstanceWritten ==
  ASSUME NEW o \in Writable, NEW v, InstanceOK(o, v), NEW data, IsData(o, data),
         NEW creating \in BOOLEAN, NEW partial \in BOOLEAN
  PROVE  LET w == WriteInstance(o, v, data, creating, partial)
         IN  /\ InstanceOK(o, w.inst) /\ w.code # "2.01"
             /\ w.code = "2.04" => AllHold(o, w.inst, data)
<1> DEFINE w == WriteInstance(o, v, data, creating, partial)
<1>1. Sound(o, w.inst)
  BY WrittenSound DEF InstanceOK
<1>2. o = Server => IsServerInstance(w.inst)
  BY ServerWrittenTyped DEF InstanceOK
<1>3. w.code # "2.01"
  BY WriteCode DEF InstanceOK
<1>4. w.code = "2.04" => AllHold(o, w.inst, data)
  BY WrittenHolds DEF AllHold, InstanceOK
<1> QED BY <1>1, <1>2, <1>3, <1>4 DEF InstanceOK

\* What createFunc begins with.
LEMMA FreshOK ==
  ASSUME NEW o \in Creatable
  PROVE  InstanceOK(o, Fresh(o))
<1>1. CASE o = Server
  <2>1. Fresh(o) = NewServer
    BY <1>1 DEF Fresh, Server, Acl, Test
  <2>2. IsFcn(NewServer)
    BY DEF IsFcn, NewServer
  <2>3. DOMAIN NewServer = ServerMandatory /\ NewServer[0] = 0 /\ NewServer[1] = 0 /\ NewServer[7] = <<>>
    BY DEF NewServer, ServerMandatory, ServerInts
  <2>4. ServerMandatory \cap ServerOptional = {}
    BY DEF ServerMandatory, ServerInts, ServerOptional, ServerOptionalInts, ServerOptionalFlags
  <2>5. 0 \in 0..MaxUint16 /\ 0 \in 0..MaxUint32
    BY WidthsAssumption
  <2>6. <<>> \in Seq(STRING) /\ Len(<<>>) <= 3
    OBVIOUS
  <2>7. IsServerInstance(NewServer)
    BY <2>3, <2>4, <2>5, <2>6 DEF IsServerInstance
  <2> QED BY <1>1, <2>1, <2>2, <2>7 DEF InstanceOK, Sound, Server, Acl
<1>2. CASE o = Acl
  <2>1. Fresh(o) = NewAcl
    BY <1>2 DEF Fresh, Server, Acl, Test
  <2>2. 2 \in DOMAIN NewAcl /\ NewAcl[2] = <<>> /\ IsFcn(NewAcl)
    BY DEF NewAcl, IsFcn
  <2>3. <<>> \in Seq([id : Nat, val : 0..MaxUint16])
    OBVIOUS
  <2>4. IsAclInstance(NewAcl)
    BY <2>2, <2>3 DEF IsAclInstance
  <2>5. o # Server
    BY <1>2 DEF Server, Acl
  <2> QED BY <2>1, <2>2, <2>4, <2>5 DEF InstanceOK, Sound
<1>3. CASE o = Test
  BY <1>3 DEF Fresh, NewTest, InstanceOK, Sound, IsFcn, Server, Acl, Test
<1> QED BY <1>1, <1>2, <1>3 DEF Creatable

\* Listing an instance.
LEMMA ListPut ==
  ASSUME NEW o, NEW list, ListOK(o, list), NEW i, NEW v, InstanceOK(o, v),
         i \in DOMAIN list \/ o \in Creatable
  PROVE  ListOK(o, Put(list, i, v))
<1>1. /\ DOMAIN Put(list, i, v) = DOMAIN list \cup {i} /\ Put(list, i, v)[i] = v
      /\ \A j \in DOMAIN list \ {i} : Put(list, i, v)[j] = list[j]
  BY DEF Put
<1>2. IsFcn(Put(list, i, v))
  BY DEF Put, IsFcn
<1> QED BY <1>1, <1>2 DEF ListOK

\* Taking an instance off the list.
LEMMA ListWithout ==
  ASSUME NEW o \in Creatable, NEW list, ListOK(o, list), NEW i
  PROVE  /\ ListOK(o, Without(list, i)) /\ DOMAIN Without(list, i) = DOMAIN list \ {i}
         /\ \A j \in DOMAIN list \ {i} : Without(list, i)[j] = list[j]
         /\ i \notin DOMAIN list => Without(list, i) = list
<1>1. DOMAIN Without(list, i) = DOMAIN list \ {i} /\ \A j \in DOMAIN list \ {i} : Without(list, i)[j] = list[j]
  BY DEF Without
<1>2. IsFcn(Without(list, i))
  BY DEF Without, IsFcn
<1>3. ASSUME i \notin DOMAIN list PROVE Without(list, i) = list
  <2>1. DOMAIN list \ {i} = DOMAIN list
    BY <1>3
  <2> QED BY <2>1 DEF Without, ListOK, IsFcn
<1> QED BY <1>1, <1>2, <1>3 DEF ListOK

\* A creation lists the instance with what was written, or leaves the list as it was.
LEMMA Created ==
  ASSUME NEW o \in Creatable, NEW list, ListOK(o, list), NEW i, i \notin DOMAIN list,
         NEW data, IsData(o, data)
  PROVE  LET a == createFunc(o, list, i, data)
         IN  /\ ListOK(o, a.list)
             /\ \/ /\ a.code = "2.01" /\ DOMAIN a.list = DOMAIN list \cup {i}
                   /\ \A j \in DOMAIN list : a.list[j] = list[j]
                   /\ AllHold(o, a.list[i], data)
                \/ a.code \notin {"2.01", "2.04"} /\ a.list = list
<1> DEFINE a == createFunc(o, list, i, data)
<1>1. PICK w : w = WriteInstance(o, Fresh(o), data, TRUE, FALSE)
  OBVIOUS
<1>2. o \in Writable
  BY DEF Creatable, Writable
<1>3. InstanceOK(o, w.inst) /\ w.code # "2.01" /\ (w.code = "2.04" => AllHold(o, w.inst, data))
  BY <1>1, <1>2, FreshOK, InstanceWritten
<1>4. a = IF w.code = "2.04" THEN [code |-> "2.01", list |-> Put(list, i, w.inst)]
          ELSE [code |-> w.code, list |-> Without(list, i)]
  BY <1>1 DEF createFunc
<1>5. CASE w.code = "2.04"
  <2>1. a.code = "2.01" /\ a.list = Put(list, i, w.inst)
    BY <1>4, <1>5
  <2> HIDE DEF a
  <2>2. /\ ListOK(o, a.list) /\ DOMAIN a.list = DOMAIN list \cup {i} /\ a.list[i] = w.inst
        /\ \A j \in DOMAIN list \ {i} : a.list[j] = list[j]
    <3>1. InstanceOK(o, w.inst) /\ ListOK(o, list) /\ o \in Creatable
      BY <1>3
    <3>2. PICK x : x = w.inst
      OBVIOUS
    <3>3. InstanceOK(o, x) /\ a.list = Put(list, i, x)
      BY <2>1, <3>1, <3>2
    <3>4. ListOK(o, Put(list, i, x))
      BY <3>1, <3>3, ListPut
    <3>5. /\ DOMAIN Put(list, i, x) = DOMAIN list \cup {i} /\ Put(list, i, x)[i] = x
          /\ \A j \in DOMAIN list \ {i} : Put(list, i, x)[j] = list[j]
      BY DEF Put
    <3> QED BY <3>2, <3>3, <3>4, <3>5
  <2> QED BY <1>3, <1>5, <2>1, <2>2 DEF a
<1>6. CASE w.code # "2.04"
  <2>1. a.code = w.code /\ a.list = Without(list, i)
    BY <1>4, <1>6
  <2> HIDE DEF a
  <2>2. a.list = list
    BY <2>1, ListWithout
  <2> QED BY <1>3, <1>6, <2>1, <2>2 DEF a
<1> QED BY <1>5, <1>6

\* What a write leaves of a list.
ListWritten(o, list, i, data, writeType, a) ==
  LET replaced == writeType = "REPLACE_INSTANCE" /\ o \in Creatable
  IN  /\ ListOK(o, a.list) /\ DOMAIN a.list \subseteq DOMAIN list
      /\ \A j \in DOMAIN a.list \ {i} : a.list[j] = list[j]
      /\ a.code = "2.04" => /\ i \in DOMAIN list /\ DOMAIN a.list = DOMAIN list
                            /\ AllHold(o, a.list[i], data)
      /\ ~replaced => DOMAIN a.list = DOMAIN list
      /\ ~replaced /\ Len(data) <= 1 /\ a.code # "2.04" => a.list = list

\* writeFunc does that, by creating anew or in place.
LEMMA WrittenList ==
  ASSUME NEW o \in Writable, NEW list, ListOK(o, list), NEW i, NEW data, IsData(o, data), NEW writeType
  PROVE  ListWritten(o, list, i, data, writeType, writeFunc(o, list, i, data, writeType))
<1> DEFINE a == writeFunc(o, list, i, data, writeType)
           replaced == writeType = "REPLACE_INSTANCE" /\ o \in Creatable
<1>1. CASE i \notin DOMAIN list
  <2>1. a.code = "4.04" /\ a.list = list
    BY <1>1 DEF writeFunc
  <2> QED BY <2>1 DEF ListWritten
<1>2. CASE i \in DOMAIN list /\ replaced
  <2>1. PICK b : b = createFunc(o, Without(list, i), i, data)
    OBVIOUS
  <2>2. a = [b EXCEPT !.code = IF b.code = "2.01" THEN "2.04" ELSE b.code]
    BY <1>2, <2>1 DEF writeFunc
  <2>3. DOMAIN b = {"code", "list"}
    BY <2>1 DEF createFunc
  <2>4. a.list = b.list /\ a.code = IF b.code = "2.01" THEN "2.04" ELSE b.code
    BY <2>2, <2>3
  <2>5. PICK l : l = Without(list, i)
    OBVIOUS
  <2>6. /\ ListOK(o, l) /\ DOMAIN l = DOMAIN list \ {i}
        /\ \A j \in DOMAIN list \ {i} : l[j] = list[j]
    BY <1>2, <2>5, ListWithout
  <2>7. /\ ListOK(o, b.list)
        /\ \/ /\ b.code = "2.01" /\ DOMAIN b.list = DOMAIN l \cup {i}
              /\ \A j \in DOMAIN l : b.list[j] = l[j]
              /\ AllHold(o, b.list[i], data)
           \/ b.code \notin {"2.01", "2.04"} /\ b.list = l
    BY <1>2, <2>1, <2>5, <2>6, Created
  <2> HIDE DEF a, ListWritten
  <2>8. CASE b.code = "2.01" /\ DOMAIN b.list = DOMAIN l \cup {i} /\ \A j \in DOMAIN l : b.list[j] = l[j]
    BY <1>2, <2>4, <2>6, <2>7, <2>8 DEF a, ListWritten
  <2>9. CASE b.code \notin {"2.01", "2.04"} /\ b.list = l
    BY <1>2, <2>4, <2>6, <2>7, <2>9 DEF a, ListWritten
  <2> QED BY <2>7, <2>8, <2>9
<1>3. CASE i \in DOMAIN list /\ ~replaced
  <2>1. PICK w : w = WriteInstance(o, list[i], data, FALSE, writeType = "PARTIAL_UPDATE")
    OBVIOUS
  <2>2. a.code = w.code /\ a.list = [list EXCEPT ![i] = w.inst]
    BY <1>3, <2>1 DEF writeFunc
  <2>3. InstanceOK(o, list[i])
    BY <1>3 DEF ListOK
  <2>4. InstanceOK(o, w.inst) /\ w.code # "2.01" /\ (w.code = "2.04" => AllHold(o, w.inst, data))
    BY <2>1, <2>3, InstanceWritten
  <2>5. Len(data) <= 1 /\ w.code # "2.04" => w.inst = list[i]
    BY <2>1, <2>3, RefusedAlone DEF InstanceOK
  <2> HIDE DEF a, ListWritten
  <2>6. DOMAIN a.list = DOMAIN list /\ a.list[i] = w.inst /\ \A j \in DOMAIN list \ {i} : a.list[j] = list[j]
    BY <1>3, <2>2
  <2>7. IsFcn(a.list)
    BY <2>2 DEF IsFcn
  <2>8. ListOK(o, a.list)
    BY <2>4, <2>6, <2>7, <1>3 DEF ListOK
  <2>9. Len(data) <= 1 /\ w.code # "2.04" => a.list = list
    BY <2>2, <2>5 DEF ListOK, IsFcn
  <2> QED BY <1>3, <2>2, <2>4, <2>6, <2>8, <2>9 DEF a, ListWritten
<1> QED BY <1>1, <1>2, <1>3

\* Executing gives an instance of the same kind, and the same one of the Server object.
LEMMA Executed ==
  ASSUME NEW o \in Executable, NEW v, InstanceOK(o, v), NEW r, NEW payload \in BOOLEAN
  PROVE  LET a == executeFunc(o, v, r, payload)
         IN  /\ InstanceOK(o, a.inst) /\ (o = Server => a.inst = v)
             /\ a.code # "2.04" => a.code \notin {"2.01", "2.02", "2.05"} /\ a.inst = v
<1> USE DEF Accepted, Refused
<1>1. CASE o = Server
  BY <1>1 DEF executeFunc, prv_server_execute, Server, Device, Firmware, ConnStat, Test
<1>2. CASE o = Device
  <2>1. executeFunc(o, v, r, payload) = prv_device_execute(v, r, payload)
    BY <1>2 DEF executeFunc, Server, Device, Firmware, ConnStat, Test
  <2>2. \/ prv_device_execute(v, r, payload) \in {Refused(v, "4.00"), Refused(v, "4.05"), Accepted(v)}
        \/ prv_device_execute(v, r, payload) = Accepted([v EXCEPT ![11] = 0])
    BY DEF prv_device_execute
  <2>3. IsFcn([v EXCEPT ![11] = 0]) /\ o # Server /\ o # Acl
    BY <1>2 DEF IsFcn, Device, Server, Acl
  <2> QED BY <2>1, <2>2, <2>3 DEF InstanceOK, Sound
<1>3. CASE o = Firmware
  <2>1. executeFunc(o, v, r, payload) = prv_firmware_execute(v, r, payload)
    BY <1>3 DEF executeFunc, Server, Device, Firmware, ConnStat, Test
  <2>2. \/ prv_firmware_execute(v, r, payload) \in {Refused(v, "4.00"), Refused(v, "4.05")}
        \/ prv_firmware_execute(v, r, payload) = Accepted([v EXCEPT ![3] = 2])
    BY DEF prv_firmware_execute
  <2>3. IsFcn([v EXCEPT ![3] = 2]) /\ o # Server /\ o # Acl
    BY <1>3 DEF IsFcn, Firmware, Server, Acl
  <2> QED BY <2>1, <2>2, <2>3 DEF InstanceOK, Sound
<1>4. CASE o = ConnStat
  BY <1>4 DEF executeFunc, ConnStatExec, Server, Device, Firmware, ConnStat, Test
<1>5. CASE o = Test
  BY <1>5 DEF executeFunc, TestExec, Server, Device, Firmware, ConnStat, Test
<1> QED BY <1>1, <1>2, <1>3, <1>4, <1>5 DEF Executable

\* The payload of a write to a resource instance is a list of resources.
LEMMA PayloadData ==
  ASSUME NEW uri \in Seq(Nat), Len(uri) \in 1..4, NEW data, IsData(uri[1], data)
  PROVE  /\ IsData(uri[1], Payload(uri, data))
         /\ Len(data) <= 1 => Len(Payload(uri, data)) <= 1
<1>1. CASE Len(uri) < 4
  BY <1>1 DEF Payload
<1>2. CASE Len(uri) = 4
  <2>1. PICK sub : sub = [k \in DOMAIN data |-> [id |-> data[k].id, val |-> data[k].val]]
    OBVIOUS
  <2>2. Payload(uri, data) = <<[id |-> uri[3], multi |-> TRUE, val |-> Junk, sub |-> sub]>>
    BY <1>2, <2>1 DEF Payload
  <2>3. Len(data) \in Nat /\ DOMAIN data = 1..Len(data)
    BY DEF IsData
  <2>4. Len(sub) = Len(data) /\ DOMAIN sub = 1..Len(data)
    BY <2>1, <2>3
  <2>5. uri[3] \in Nat
    <3>1. uri \in Seq(Nat) /\ 3 \in 1..Len(uri)
      BY <1>2
    <3> QED BY <3>1
  <2>6. PICK e : e = [id |-> uri[3], multi |-> TRUE, val |-> Junk, sub |-> sub]
    OBVIOUS
  <2>7. e.id \in Nat /\ e.multi = TRUE /\ e.val = Junk /\ e.sub = sub
    BY <2>5, <2>6
  <2>8. Len(<<e>>) = 1 /\ DOMAIN <<e>> = 1..1 /\ <<e>>[1] = e
    OBVIOUS
  <2>9. \A k \in 1..1 : k = 1
    OBVIOUS
  <2>13. IsEntries(sub)
    <3>1. \A n \in DOMAIN sub : n \in DOMAIN data /\ sub[n].id = data[n].id
      BY <2>1
    <3>2. \A n \in DOMAIN data : data[n].id \in Nat
      BY DEF IsData
    <3> QED BY <2>3, <2>4, <3>1, <3>2 DEF IsEntries
  <2>10. IsData(uri[1], <<e>>)
    BY <2>3, <2>7, <2>8, <2>9, <2>13 DEF IsData
  <2>11. Payload(uri, data) = <<e>>
    BY ONLY <2>2, <2>6
  <2>12. Len(Payload(uri, data)) = 1
    BY ONLY <2>8, <2>11
  <2> QED BY ONLY <2>10, <2>11, <2>12
<1>3. \A n \in 1..4 : n < 4 \/ n = 4
  OBVIOUS
<1> QED BY <1>1, <1>2, <1>3

-----------------------------------------------------------------------------
(***************************************************************************)
(* What an operation of the core leaves of the context.                    *)
(***************************************************************************)

Statuses == {"REGISTERED", "REG_UPDATE_NEEDED", "REG_FULL_UPDATE_NEEDED", "REG_UPDATE_PENDING"}

\* What every context is.
ContextOK(c) ==
  /\ c = [objectList |-> c.objectList, status |-> c.status, lifetime |-> c.lifetime, binding |-> c.binding]
  /\ IsFcn(c.objectList) /\ DOMAIN c.objectList = DOMAIN FirstObjects
  /\ \A o \in DOMAIN FirstObjects : ListOK(o, c.objectList[o])
  /\ c.status \in [Servers -> Statuses]
  /\ c.lifetime \in [Servers -> 0..MaxUint32]
  /\ c.binding \in [Servers -> SUBSET Known]

\* Only the list of object o is another one.
OnlyList(c, o, list, d) ==
  /\ d.objectList[o] = list
  /\ \A p \in DOMAIN FirstObjects \ {o} : d.objectList[p] = c.objectList[p]
  /\ d.status = c.status /\ d.lifetime = c.lifetime /\ d.binding = c.binding
  /\ list = c.objectList[o] => d = c

\* The objects' callbacks change the list of one object.
LEMMA ListSet ==
  ASSUME NEW c, ContextOK(c), NEW o \in DOMAIN FirstObjects, NEW list, ListOK(o, list)
  PROVE  LET d == [c EXCEPT !.objectList[o] = list]
         IN  ContextOK(d) /\ OnlyList(c, o, list, d)
<1> DEFINE d == [c EXCEPT !.objectList[o] = list]
<1>0. PICK l : l = [c.objectList EXCEPT ![o] = list]
  OBVIOUS
<1>1. d = [objectList |-> l, status |-> c.status, lifetime |-> c.lifetime, binding |-> c.binding]
  BY <1>0 DEF ContextOK
<1> HIDE DEF d
<1>2. d.objectList = l /\ d.status = c.status /\ d.lifetime = c.lifetime /\ d.binding = c.binding
  BY <1>1
<1>3. l[o] = list /\ DOMAIN l = DOMAIN FirstObjects /\ \A p \in DOMAIN FirstObjects \ {o} : l[p] = c.objectList[p]
  BY <1>0 DEF ContextOK
<1>4. IsFcn(l)
  BY <1>0 DEF IsFcn
<1>5. list = c.objectList[o] => l = c.objectList
  BY <1>0 DEF ContextOK, IsFcn
<1>6. list = c.objectList[o] => d = c
  BY <1>1, <1>5 DEF ContextOK
<1>7. ContextOK(d)
  BY <1>1, <1>2, <1>3, <1>4 DEF ContextOK
<1> QED BY <1>2, <1>3, <1>6, <1>7 DEF d, OnlyList

\* The information about a server that differs from what it was.
Informed(c, d, v) ==
  /\ v[0] \in Servers => d.lifetime[v[0]] = v[1] /\ d.binding[v[0]] = utils_stringToBinding(v[7])
  /\ \A s \in Servers \ {v[0]} : d.lifetime[s] = c.lifetime[s] /\ d.binding[s] = c.binding[s]

\* prv_updateServerInfo refreshes what is known of one server at most.
LEMMA ServerInformed ==
  ASSUME NEW c, ContextOK(c), NEW i \in ServerInstances(c)
  PROVE  LET d == prv_updateServerInfo(c, i)
         IN  /\ ContextOK(d) /\ d.objectList = c.objectList /\ d.status = c.status
             /\ Informed(c, d, c.objectList[Server][i])
<1> DEFINE d == prv_updateServerInfo(c, i)
<1>0. PICK v : v = c.objectList[Server][i]
  OBVIOUS
<1>1. d = IF v[0] \in Servers THEN prv_getMandatoryInfo(c, v, v[0]) ELSE c
  BY <1>0 DEF prv_updateServerInfo
<1>2. v[1] \in 0..MaxUint32
  BY <1>0, ObjectsAssumption DEF ContextOK, ListOK, InstanceOK, ServerInstances, IsServerInstance
<1>3. PICK b : b = utils_stringToBinding(v[7])
  OBVIOUS
<1>4. b \in SUBSET Known
  BY <1>3 DEF utils_stringToBinding
<1> HIDE DEF d
<1>5. CASE v[0] \in Servers
  <2>1. PICK t : t = [c.lifetime EXCEPT ![v[0]] = v[1]]
    OBVIOUS
  <2>2. PICK u : u = [c.binding EXCEPT ![v[0]] = b]
    OBVIOUS
  <2>3. d = [objectList |-> c.objectList, status |-> c.status, lifetime |-> t, binding |-> u]
    BY <1>1, <1>3, <1>5, <2>1, <2>2 DEF prv_getMandatoryInfo, ContextOK
  <2>4. d.objectList = c.objectList /\ d.status = c.status /\ d.lifetime = t /\ d.binding = u
    BY <2>3
  <2>5. t \in [Servers -> 0..MaxUint32] /\ t[v[0]] = v[1] /\ \A s \in Servers \ {v[0]} : t[s] = c.lifetime[s]
    BY <1>2, <1>5, <2>1 DEF ContextOK
  <2>6. u \in [Servers -> SUBSET Known] /\ u[v[0]] = b /\ \A s \in Servers \ {v[0]} : u[s] = c.binding[s]
    BY <1>4, <1>5, <2>2 DEF ContextOK
  <2>7. ContextOK(d)
    BY <2>3, <2>4, <2>5, <2>6 DEF ContextOK
  <2>8. Informed(c, d, v)
    BY <1>3, <2>4, <2>5, <2>6 DEF Informed
  <2> QED BY <1>0, <2>4, <2>7, <2>8 DEF d
<1>6. CASE v[0] \notin Servers
  BY <1>0, <1>1, <1>6 DEF Informed, d
<1> QED BY <1>5, <1>6

\* Every registered server that is not already to get the object list is to get it.
Asked(c, d) ==
  /\ d.objectList = c.objectList /\ d.lifetime = c.lifetime /\ d.binding = c.binding
  /\ \A s \in Servers : d.status[s] = IF c.status[s] \in {"REGISTERED", "REG_UPDATE_PENDING"}
                                      THEN "REG_FULL_UPDATE_NEEDED" ELSE c.status[s]

\* lwm2m_update_registration.
LEMMA UpdateAsked ==
  ASSUME NEW c, ContextOK(c)
  PROVE  LET d == lwm2m_update_registration(c)
         IN  ContextOK(d) /\ Asked(c, d)
<1> DEFINE d == lwm2m_update_registration(c)
<1>1. PICK t : t = [s \in Servers |-> IF c.status[s] \in {"REGISTERED", "REG_UPDATE_PENDING"}
                                      THEN "REG_FULL_UPDATE_NEEDED" ELSE c.status[s]]
  OBVIOUS
<1>2. d = [objectList |-> c.objectList, status |-> t, lifetime |-> c.lifetime, binding |-> c.binding]
  BY <1>1 DEF lwm2m_update_registration, ContextOK
<1> HIDE DEF d
<1>3. d.objectList = c.objectList /\ d.status = t /\ d.lifetime = c.lifetime /\ d.binding = c.binding
  BY <1>2
<1>4. t \in [Servers -> Statuses]
  BY <1>1 DEF ContextOK, Statuses
<1>5. ContextOK(d)
  BY <1>2, <1>3, <1>4 DEF ContextOK
<1>6. Asked(c, d)
  BY <1>1, <1>3 DEF Asked
<1> QED BY <1>5, <1>6 DEF d

\* No more instances than before, in any object, and no other information about a server.
Within(c, d) ==
  /\ d.status = c.status
  /\ \A o \in DOMAIN FirstObjects : DOMAIN d.objectList[o] \subseteq DOMAIN c.objectList[o]
SameInfo(c, d) == d.lifetime = c.lifetime /\ d.binding = c.binding

\* A server is told of instance i of the Server object, the others being the same.
ToldOf(c, d, i) ==
  /\ ServerInstances(d) = ServerInstances(c) /\ i \in ServerInstances(c)
  /\ \A j \in ServerInstances(c) \ {i} : d.objectList[Server][j] = c.objectList[Server][j]
  /\ Informed(c, d, d.objectList[Server][i])

\* object_write, whichever object it is for.
LEMMA WriteHandled ==
  ASSUME NEW c, ContextOK(c), NEW uri \in Seq(Nat), Len(uri) \in 2..4,
         NEW data, IsData(uri[1], data), NEW partial \in BOOLEAN
  PROVE  LET a == object_write(c, uri, data, partial)
         IN  /\ ContextOK(a.c) /\ Within(c, a.c)
             /\ IF uri[1] = Server /\ a.code = "2.04" THEN ToldOf(c, a.c, uri[2]) ELSE SameInfo(c, a.c)
             /\ (partial \/ Len(uri) > 2) /\ Len(data) <= 1 /\ a.code # "2.04" => a.c = c
             /\ a.code = "2.04" => /\ uri[1] \in Writable \cap DOMAIN FirstObjects
                                   /\ AllHold(uri[1], a.c.objectList[uri[1]][uri[2]], Payload(uri, data))
<1> DEFINE a == object_write(c, uri, data, partial)
           o == uri[1]
<1>1. PICK w : w = writeFunc(o, c.objectList[o], uri[2], Payload(uri, data), WriteType(uri, partial))
  OBVIOUS
<1>2. PICK d : d = [c EXCEPT !.objectList[o] = w.list]
  OBVIOUS
<1>3. Len(uri) \in 1..4 /\ (Len(uri) > 2 \/ Len(uri) = 2)
  <2>1. \A n \in 2..4 : n \in 1..4 /\ (n > 2 \/ n = 2)
    OBVIOUS
  <2> QED BY <2>1
<1>4. CASE o \notin DOMAIN c.objectList \/ o \notin Writable \/ data = <<>>
  <2>1. a.c = c /\ a.code # "2.04"
    BY <1>4 DEF object_write, Answer
  <2> QED BY <2>1 DEF Within, SameInfo
<1>5. CASE o \in DOMAIN c.objectList /\ o \in Writable /\ data # <<>>
  <2>1. a = Answer(IF w.code = "2.04" /\ o = Server THEN prv_updateServerInfo(d, uri[2]) ELSE d, w.code)
    BY <1>1, <1>2, <1>5 DEF object_write
  <2>2. o \in DOMAIN FirstObjects
    BY <1>5 DEF ContextOK
  <2>3. ListOK(o, c.objectList[o])
    BY <2>2 DEF ContextOK
  <2>4. /\ IsData(o, Payload(uri, data)) /\ (Len(data) <= 1 => Len(Payload(uri, data)) <= 1)
    BY <1>3, PayloadData
  <2>5. PICK p : p = Payload(uri, data)
    OBVIOUS
  <2>6. PICK l : l = c.objectList[o]
    OBVIOUS
  <2>7. PICK t : t = WriteType(uri, partial)
    OBVIOUS
  <2>8. /\ ListOK(o, w.list) /\ DOMAIN w.list \subseteq DOMAIN l
        /\ \A j \in DOMAIN w.list \ {uri[2]} : w.list[j] = l[j]
        /\ w.code = "2.04" => /\ uri[2] \in DOMAIN l /\ DOMAIN w.list = DOMAIN l
                              /\ AllHold(o, w.list[uri[2]], p)
        /\ ~(t = "REPLACE_INSTANCE" /\ o \in Creatable) /\ Len(p) <= 1 /\ w.code # "2.04" => w.list = l
    <3>1. ListWritten(o, l, uri[2], p, t, w)
      BY <1>1, <1>5, <2>3, <2>4, <2>5, <2>6, <2>7, WrittenList
    <3> QED BY <3>1 DEF ListWritten
  <2>9. partial \/ Len(uri) > 2 => t # "REPLACE_INSTANCE"
    <3>1. Len(uri) > 2 => Len(uri) = 3 \/ Len(uri) = 4
      <4>1. \A n \in 2..4 : n > 2 => n = 3 \/ n = 4
        OBVIOUS
      <4> QED BY <4>1
    <3> QED BY <2>7, <3>1 DEF WriteType
  <2>10. /\ ContextOK(d) /\ d.objectList[o] = w.list
         /\ \A x \in DOMAIN FirstObjects \ {o} : d.objectList[x] = c.objectList[x]
         /\ d.status = c.status /\ d.lifetime = c.lifetime /\ d.binding = c.binding
         /\ w.list = c.objectList[o] => d = c
    <3>1. ContextOK(d) /\ OnlyList(c, o, w.list, d)
      BY <1>2, <2>2, <2>8, ListSet
    <3> QED BY <3>1 DEF OnlyList
  <2>11. Within(c, d) /\ SameInfo(c, d)
    BY <2>6, <2>8, <2>10 DEF Within, SameInfo
  <2>12. CASE w.code = "2.04" /\ o = Server
    <3>1. PICK e : e = prv_updateServerInfo(d, uri[2])
      OBVIOUS
    <3>2. a.c = e /\ a.code = "2.04"
      BY <2>1, <2>12, <3>1 DEF Answer
    <3>3. uri[2] \in ServerInstances(d) /\ ServerInstances(d) = ServerInstances(c)
      BY <2>6, <2>8, <2>10, <2>12 DEF ServerInstances
    <3>4. /\ ContextOK(e) /\ e.objectList = d.objectList /\ e.status = d.status
          /\ Informed(d, e, d.objectList[Server][uri[2]])
      BY <2>10, <3>1, <3>3, ServerInformed
    <3>5. Within(c, e)
      BY <2>11, <3>4 DEF Within
    <3>6. Informed(c, e, e.objectList[Server][uri[2]])
      BY <2>10, <3>4 DEF Informed
    <3>7. \A j \in ServerInstances(c) \ {uri[2]} : e.objectList[Server][j] = c.objectList[Server][j]
      BY <2>6, <2>8, <2>10, <2>12, <3>4 DEF ServerInstances
    <3>8. ToldOf(c, e, uri[2])
      BY <3>3, <3>4, <3>6, <3>7 DEF ToldOf, ServerInstances
    <3>9. AllHold(o, e.objectList[o][uri[2]], p)
      BY <2>8, <2>10, <2>12, <3>4
    <3> HIDE DEF a
    <3> QED BY <1>5, <2>2, <2>5, <2>12, <3>2, <3>4, <3>5, <3>8, <3>9 DEF a
  <2>13. CASE ~(w.code = "2.04" /\ o = Server)
    <3>1. a.c = d /\ a.code = w.code
      BY <2>1, <2>13 DEF Answer
    <3>2. (partial \/ Len(uri) > 2) /\ Len(data) <= 1 /\ w.code # "2.04" => d = c
      BY <2>4, <2>5, <2>6, <2>8, <2>9, <2>10
    <3>3. w.code = "2.04" => AllHold(o, d.objectList[o][uri[2]], p)
      BY <2>8, <2>10
    <3> HIDE DEF a
    <3> QED BY <1>5, <2>2, <2>5, <2>10, <2>11, <2>13, <3>1, <3>2, <3>3 DEF a
  <2> QED BY <2>12, <2>13
<1> QED BY <1>4, <1>5

\* object_execute.
LEMMA ExecuteHandled ==
  ASSUME NEW c, ContextOK(c), NEW uri, NEW payload \in BOOLEAN
  PROVE  LET a == object_execute(c, uri, payload)
         IN  /\ ContextOK(a.c) /\ Within(c, a.c) /\ SameInfo(c, a.c)
             /\ Failed(a.code) => a.c = c
<1> DEFINE a == object_execute(c, uri, payload)
           o == uri[1]
           i == uri[2]
<1>1. CASE o \notin DOMAIN c.objectList \/ o \notin Executable \/ i \notin DOMAIN c.objectList[o]
  <2>1. a.c = c
    BY <1>1 DEF object_execute, Answer
  <2> QED BY <2>1 DEF Within, SameInfo
<1>2. CASE o \in DOMAIN c.objectList /\ o \in Executable /\ i \in DOMAIN c.objectList[o]
  <2>1. PICK r : r = executeFunc(o, c.objectList[o][i], uri[3], payload)
    OBVIOUS
  <2>2. PICK l : l = [c.objectList[o] EXCEPT ![i] = r.inst]
    OBVIOUS
  <2>3. PICK d : d = [c EXCEPT !.objectList[o] = l]
    OBVIOUS
  <2>4. a = Answer([c EXCEPT !.objectList[o][i] = r.inst], r.code)
    BY <1>2, <2>1 DEF object_execute
  <2>5. [c EXCEPT !.objectList[o][i] = r.inst] = d
    BY <2>2, <2>3
  <2>6. a.c = d /\ a.code = r.code
    BY <2>4, <2>5 DEF Answer
  <2> HIDE DEF a
  <2>7. o \in DOMAIN FirstObjects /\ ListOK(o, c.objectList[o])
    BY <1>2 DEF ContextOK
  <2>8. InstanceOK(o, c.objectList[o][i])
    BY <1>2, <2>7 DEF ListOK
  <2>9. /\ InstanceOK(o, r.inst)
        /\ r.code # "2.04" => r.code \notin {"2.01", "2.02", "2.05"} /\ r.inst = c.objectList[o][i]
    BY <1>2, <2>1, <2>8, Executed
  <2>10. /\ DOMAIN l = DOMAIN c.objectList[o] /\ l[i] = r.inst
         /\ \A j \in DOMAIN l \ {i} : l[j] = c.objectList[o][j]
    BY <1>2, <2>2
  <2>11. IsFcn(l)
    BY <2>2 DEF IsFcn
  <2>12. ListOK(o, l)
    BY <2>7, <2>9, <2>10, <2>11 DEF ListOK
  <2>13. r.inst = c.objectList[o][i] => l = c.objectList[o]
    BY <2>2, <2>7 DEF ListOK, IsFcn
  <2>14. ContextOK(d) /\ OnlyList(c, o, l, d)
    BY <2>3, <2>7, <2>12, ListSet
  <2>15. Within(c, d) /\ SameInfo(c, d)
    BY <2>10, <2>14 DEF OnlyList, Within, SameInfo
  <2>16. Failed(r.code) => d = c
    BY <2>9, <2>13, <2>14 DEF Failed, OnlyList
  <2> QED BY <2>6, <2>14, <2>15, <2>16 DEF a
<1> QED BY <1>1, <1>2

\* Every server is to get the object list, whatever update was needed or on its way.
Announced(c, d) ==
  \A s \in Servers : d.status[s] = IF c.status[s] \in {"REGISTERED", "REG_UPDATE_PENDING"}
                                   THEN "REG_FULL_UPDATE_NEEDED" ELSE c.status[s]

\* object_create with the update it asks for.
LEMMA CreateHandled ==
  ASSUME NEW c, ContextOK(c), NEW o, NEW wrap, NEW data, IsData(o, data)
  PROVE  LET a == UpdateOn("2.01", object_create(c, o, wrap, data))
         IN  /\ ContextOK(a.c) /\ (a.c = c \/ Announced(c, a.c)) /\ SameInfo(c, a.c)
             /\ Failed(a.code) => a.c = c
<1>1. PICK b : b = object_create(c, o, wrap, data)
  OBVIOUS
<1>2. PICK a : a = UpdateOn("2.01", b)
  OBVIOUS
<1>3. \/ b.c = c /\ b.code \notin {"2.01"}
      \/ b.code = "2.01" /\ ContextOK(b.c) /\ b.c.status = c.status /\ SameInfo(c, b.c)
  <2>1. CASE data = <<>> \/ o \notin DOMAIN c.objectList \/ o \notin Creatable
    BY <1>1, <2>1 DEF object_create, Answer
  <2>2. CASE data # <<>> /\ o \in DOMAIN c.objectList /\ o \in Creatable
    <3>1. PICK i : i = IF wrap = Whole THEN lwm2m_list_newId(c.objectList[o]) ELSE wrap
      OBVIOUS
    <3>2. CASE i \in DOMAIN c.objectList[o]
      BY <1>1, <2>2, <3>1, <3>2 DEF object_create, Answer
    <3>3. CASE i \notin DOMAIN c.objectList[o]
      <4>1. PICK r : r = createFunc(o, c.objectList[o], i, data)
        OBVIOUS
      <4>2. PICK d : d = [c EXCEPT !.objectList[o] = r.list]
        OBVIOUS
      <4>3. b = Answer(d, r.code)
        BY <1>1, <2>2, <3>1, <3>3, <4>1, <4>2 DEF object_create
      <4>4. b.c = d /\ b.code = r.code
        BY <4>3 DEF Answer
      <4>5. o \in DOMAIN FirstObjects /\ ListOK(o, c.objectList[o])
        BY <2>2 DEF ContextOK
      <4>6. /\ ListOK(o, r.list)
            /\ r.code = "2.01" \/ (r.code \notin {"2.01", "2.04"} /\ r.list = c.objectList[o])
        BY <2>2, <3>3, <4>1, <4>5, Created
      <4>7. ContextOK(d) /\ OnlyList(c, o, r.list, d)
        BY <4>2, <4>5, <4>6, ListSet
      <4> QED BY <4>4, <4>6, <4>7 DEF OnlyList, SameInfo
    <3> QED BY <3>2, <3>3
  <2> QED BY <2>1, <2>2
<1>4. CASE b.code # "2.01"
  <2>1. a = b
    BY <1>2, <1>4 DEF UpdateOn
  <2> QED BY <1>1, <1>2, <1>3, <1>4, <2>1 DEF SameInfo
<1>5. CASE b.code = "2.01"
  <2>1. PICK e : e = lwm2m_update_registration(b.c)
    OBVIOUS
  <2>2. a.c = e /\ a.code = "2.01"
    BY <1>2, <1>5, <2>1 DEF UpdateOn, Answer
  <2>3. ContextOK(e) /\ Asked(b.c, e)
    BY <1>3, <1>5, <2>1, UpdateAsked
  <2>4. Announced(c, e) /\ SameInfo(c, e)
    BY <1>3, <1>5, <2>3 DEF Asked, Announced, SameInfo
  <2>5. ~Failed(a.code)
    BY <2>2 DEF Failed
  <2> QED BY <1>1, <1>2, <2>2, <2>3, <2>4, <2>5
<1> QED BY <1>4, <1>5

\* object_delete with the update it asks for.
LEMMA DeleteHandled ==
  ASSUME NEW c, ContextOK(c), NEW uri
  PROVE  LET a == UpdateOn("2.02", object_delete(c, uri))
         IN  /\ ContextOK(a.c) /\ (a.c = c \/ Announced(c, a.c)) /\ SameInfo(c, a.c)
             /\ Failed(a.code) => a.c = c
             /\ a.code # "2.04"
<1> DEFINE o == uri[1]
<1>1. PICK b : b = object_delete(c, uri)
  OBVIOUS
<1>2. PICK a : a = UpdateOn("2.02", b)
  OBVIOUS
<1>3. \/ b.c = c /\ b.code \notin {"2.02", "2.04"}
      \/ b.code = "2.02" /\ ContextOK(b.c) /\ b.c.status = c.status /\ SameInfo(c, b.c)
  <2>1. CASE o \notin DOMAIN c.objectList \/ o \notin Creatable
    BY <1>1, <2>1 DEF object_delete, Answer
  <2>2. CASE o \in DOMAIN c.objectList /\ o \in Creatable
    <3>1. PICK r : r = deleteFunc(c.objectList[o], uri[2])
      OBVIOUS
    <3>2. PICK d : d = [c EXCEPT !.objectList[o] = r.list]
      OBVIOUS
    <3>3. b = Answer(d, r.code)
      BY <1>1, <2>2, <3>1, <3>2 DEF object_delete
    <3>4. b.c = d /\ b.code = r.code
      BY <3>3 DEF Answer
    <3>5. o \in DOMAIN FirstObjects /\ ListOK(o, c.objectList[o])
      BY <2>2 DEF ContextOK
    <3>6. ListOK(o, Without(c.objectList[o], uri[2]))
      BY <2>2, <3>5, ListWithout
    <3>7. /\ ListOK(o, r.list)
          /\ r.code = "2.02" \/ (r.code \notin {"2.02", "2.04"} /\ r.list = c.objectList[o])
      BY <3>1, <3>5, <3>6 DEF deleteFunc
    <3>8. ContextOK(d) /\ OnlyList(c, o, r.list, d)
      BY <3>2, <3>5, <3>7, ListSet
    <3> QED BY <3>4, <3>7, <3>8 DEF OnlyList, SameInfo
  <2> QED BY <2>1, <2>2
<1>4. CASE b.code # "2.02"
  <2>1. a = b
    BY <1>2, <1>4 DEF UpdateOn
  <2> QED BY <1>1, <1>2, <1>3, <1>4, <2>1 DEF SameInfo
<1>5. CASE b.code = "2.02"
  <2>1. PICK e : e = lwm2m_update_registration(b.c)
    OBVIOUS
  <2>2. a.c = e /\ a.code = "2.02"
    BY <1>2, <1>5, <2>1 DEF UpdateOn, Answer
  <2>3. ContextOK(e) /\ Asked(b.c, e)
    BY <1>3, <1>5, <2>1, UpdateAsked
  <2>4. Announced(c, e) /\ SameInfo(c, e)
    BY <1>3, <1>5, <2>3 DEF Asked, Announced, SameInfo
  <2>5. ~Failed(a.code)
    BY <2>2 DEF Failed
  <2> QED BY <1>1, <1>2, <2>2, <2>3, <2>4, <2>5
<1> QED BY <1>4, <1>5

\* What a request does.
Handled(c, q, a) ==
  /\ ContextOK(a.c) /\ (Within(c, a.c) \/ Announced(c, a.c))
  /\ IF Tells(q, a.code) THEN ToldOf(c, a.c, q.uri[2]) ELSE SameInfo(c, a.c)
  /\ Failed(a.code) /\ (Len(q.data) <= 1 \/ Len(q.uri) = 1) /\ ~Replaces(q) => a.c = c
  /\ Wrote(q, a) => /\ q.uri[1] \in Writable \cap DOMAIN FirstObjects
                    /\ AllHold(q.uri[1], a.c.objectList[q.uri[1]][q.uri[2]], Payload(q.uri, q.data))

\* A request that changes nothing does nothing that Handled rules out.
LEMMA Unchanged ==
  ASSUME NEW c, ContextOK(c), NEW q, NEW a, a.c = c, a.code # "2.04"
  PROVE  Handled(c, q, a)
<1>1. Within(c, c) /\ SameInfo(c, c)
  BY DEF Within, SameInfo
<1>2. ~Tells(q, a.code) /\ ~Wrote(q, a)
  BY DEF Tells, Wrote
<1> QED BY <1>1, <1>2 DEF Handled

\* dm_handleRequest, method by method.
LEMMA RequestHandled ==
  ASSUME NEW c, ContextOK(c), NEW q \in Requests
  PROVE  Handled(c, q, dm_handleRequest(c, q))
<1>0. /\ q.uri \in Seq(Nat) /\ Len(q.uri) \in 1..4
      /\ q.method \in Methods /\ IsData(q.uri[1], q.data)
  BY RequestsAssumption
<1>1. PICK a : a = dm_handleRequest(c, q)
  OBVIOUS
<1>2. Len(q.uri) = 1 \/ Len(q.uri) \in 2..4
  <2>1. \A n \in 1..4 : n = 1 \/ n \in 2..4
    OBVIOUS
  <2> QED BY <1>0, <2>1
<1>3. CASE q.uri[1] = 0
  <2>1. a.c = c /\ a.code = "4.01"
    BY <1>1, <1>3 DEF dm_handleRequest, Answer
  <2> QED BY <1>1, <2>1, Unchanged
<1>4. CASE q.uri[1] # 0 /\ q.method = "GET"
  <2>1. a.c = c /\ a.code = object_readData(c, q.uri)
    BY <1>1, <1>4 DEF dm_handleRequest, Answer
  <2>2. object_readData(c, q.uri) # "2.04"
    BY DEF object_readData, readFunc, ReadOne
  <2> QED BY <1>1, <2>1, <2>2, Unchanged
<1>5. CASE q.uri[1] # 0 /\ q.method = "DISCOVER"
  <2>1. a.c = c /\ a.code = object_discover(c, q.uri)
    BY <1>1, <1>5 DEF dm_handleRequest, Answer
  <2>2. object_discover(c, q.uri) # "2.04"
    BY DEF object_discover, discoverFunc
  <2> QED BY <1>1, <2>1, <2>2, Unchanged
<1>6. CASE q.uri[1] # 0 /\ q.method = "POST"
  <2>0. a = Post(c, q)
    BY <1>1, <1>6 DEF dm_handleRequest
  <2>1. CASE Len(q.uri) = 1
    <3>1. a = UpdateOn("2.01", object_create(c, q.uri[1], q.wrap, q.data))
      BY <2>0, <2>1 DEF Post
    <3>2. /\ ContextOK(a.c) /\ (a.c = c \/ Announced(c, a.c)) /\ SameInfo(c, a.c)
          /\ Failed(a.code) => a.c = c
      BY <1>0, <3>1, CreateHandled
    <3>3. ~Tells(q, a.code) /\ ~Wrote(q, a)
      BY <2>1 DEF Tells, Wrote
    <3>4. a.c = c => Within(c, a.c)
      BY DEF Within
    <3> QED BY <1>1, <3>2, <3>3, <3>4 DEF Handled
  <2>2. CASE Len(q.uri) # 1 /\ q.format \in {"none", "text"}
    <3>1. CASE Len(q.uri) # 3
      <4>1. a.c = c /\ a.code = "4.00"
        BY <2>0, <2>2, <3>1 DEF Post, Answer
      <4> QED BY <1>1, <4>1, Unchanged
    <3>2. CASE Len(q.uri) = 3
      <4>1. PICK payload \in BOOLEAN : payload = (q.data # <<>>)
        OBVIOUS
      <4>2. a = object_execute(c, q.uri, payload)
        BY <2>0, <2>2, <3>2, <4>1 DEF Post
      <4>3. /\ ContextOK(a.c) /\ Within(c, a.c) /\ SameInfo(c, a.c)
            /\ Failed(a.code) => a.c = c
        BY <4>2, ExecuteHandled
      <4>4. ~Tells(q, a.code) /\ ~Wrote(q, a)
        BY <1>6, <2>2 DEF Tells, Wrote
      <4> QED BY <1>1, <4>3, <4>4 DEF Handled
    <3> QED BY <3>1, <3>2
  <2>3. CASE Len(q.uri) # 1 /\ q.format \notin {"none", "text"}
    <3>1. a = object_write(c, q.uri, q.data, TRUE)
      BY <2>0, <2>3 DEF Post
    <3>2. Len(q.uri) \in 2..4 /\ Len(q.uri) > 1
      <4>1. \A n \in 2..4 : n > 1
        OBVIOUS
      <4> QED BY <1>2, <2>3, <4>1
    <3>3. /\ ContextOK(a.c) /\ Within(c, a.c)
          /\ IF q.uri[1] = Server /\ a.code = "2.04" THEN ToldOf(c, a.c, q.uri[2]) ELSE SameInfo(c, a.c)
          /\ Len(q.data) <= 1 /\ a.code # "2.04" => a.c = c
          /\ a.code = "2.04" => /\ q.uri[1] \in Writable \cap DOMAIN FirstObjects
                                /\ AllHold(q.uri[1], a.c.objectList[q.uri[1]][q.uri[2]], Payload(q.uri, q.data))
      BY <1>0, <3>1, <3>2, WriteHandled
    <3>4. Tells(q, a.code) <=> q.uri[1] = Server /\ a.code = "2.04"
      BY <1>6, <2>3, <3>2 DEF Tells
    <3>5. Failed(a.code) => a.code # "2.04"
      BY DEF Failed
    <3>6. Wrote(q, a) => a.code = "2.04"
      BY DEF Wrote
    <3>7. Len(q.uri) # 1
      BY <2>3
    <3> QED BY <1>1, <3>3, <3>4, <3>5, <3>6, <3>7 DEF Handled
  <2> QED BY <2>1, <2>2, <2>3
<1>7. CASE q.uri[1] # 0 /\ q.method = "PUT"
  <2>0. a = PutRequest(c, q)
    BY <1>1, <1>7 DEF dm_handleRequest
  <2>1. CASE Len(q.uri) = 1
    <3>1. a.c = c /\ a.code = "4.00"
      BY <2>0, <2>1 DEF PutRequest, Answer
    <3> QED BY <1>1, <3>1, Unchanged
  <2>2. CASE Len(q.uri) # 1
    <3>1. a = object_write(c, q.uri, q.data, FALSE)
      BY <2>0, <2>2 DEF PutRequest
    <3>2. Len(q.uri) \in 2..4 /\ Len(q.uri) > 1 /\ (Len(q.uri) = 2 \/ Len(q.uri) > 2)
      <4>1. \A n \in 2..4 : n > 1 /\ (n = 2 \/ n > 2)
        OBVIOUS
      <4> QED BY <1>2, <2>2, <4>1
    <3>3. /\ ContextOK(a.c) /\ Within(c, a.c)
          /\ IF q.uri[1] = Server /\ a.code = "2.04" THEN ToldOf(c, a.c, q.uri[2]) ELSE SameInfo(c, a.c)
          /\ Len(q.uri) > 2 /\ Len(q.data) <= 1 /\ a.code # "2.04" => a.c = c
          /\ a.code = "2.04" => /\ q.uri[1] \in Writable \cap DOMAIN FirstObjects
                                /\ AllHold(q.uri[1], a.c.objectList[q.uri[1]][q.uri[2]], Payload(q.uri, q.data))
      BY <1>0, <3>1, <3>2, WriteHandled
    <3>4. Tells(q, a.code) <=> q.uri[1] = Server /\ a.code = "2.04"
      BY <1>7, <3>2 DEF Tells
    <3>5. Failed(a.code) => a.code # "2.04"
      BY DEF Failed
    <3>6. Wrote(q, a) => a.code = "2.04"
      BY DEF Wrote
    <3>7. ~Replaces(q) => Len(q.uri) > 2
      BY <1>7, <3>2 DEF Replaces
    <3> QED BY <1>1, <2>2, <3>3, <3>4, <3>5, <3>6, <3>7 DEF Handled
  <2> QED BY <2>1, <2>2
<1>8. CASE q.uri[1] # 0 /\ q.method = "DELETE"
  <2>0. a = Delete(c, q)
    BY <1>1, <1>8 DEF dm_handleRequest
  <2>1. CASE Len(q.uri) # 2
    <3>1. a.c = c /\ a.code = "4.00"
      BY <2>0, <2>1 DEF Delete, Answer
    <3> QED BY <1>1, <3>1, Unchanged
  <2>2. CASE Len(q.uri) = 2
    <3>1. a = UpdateOn("2.02", object_delete(c, q.uri))
      BY <2>0, <2>2 DEF Delete
    <3>2. /\ ContextOK(a.c) /\ (a.c = c \/ Announced(c, a.c)) /\ SameInfo(c, a.c)
          /\ Failed(a.code) => a.c = c
      BY <3>1, DeleteHandled
    <3>3. ~Tells(q, a.code) /\ ~Wrote(q, a)
      BY <1>8 DEF Tells, Wrote
    <3>4. a.c = c => Within(c, a.c)
      BY DEF Within
    <3> QED BY <1>1, <3>2, <3>3, <3>4 DEF Handled
  <2> QED BY <2>1, <2>2
<1> QED BY <1>0, <1>3, <1>4, <1>5, <1>6, <1>7, <1>8 DEF Methods

-----------------------------------------------------------------------------
(***************************************************************************)
(* The types.                                                              *)
(***************************************************************************)

ObjectUpdates == {<<>>} \cup {<<S>> : S \in SUBSET (ObjectIds \X (0..MaxInstances))}

Typed ==
  /\ ContextOK(context)
  /\ DOMAIN told = Servers /\ carried \in [Servers -> Seq(ObjectUpdates)]
  /\ unsynced \subseteq ServerInstances(context) /\ changes \in 0..MaxChanges

\* The registration steps change the status of one server.
LEMMA StatusSet ==
  ASSUME NEW c, ContextOK(c), NEW s \in Servers, NEW st \in Statuses
  PROVE  LET d == [c EXCEPT !.status[s] = st]
         IN  /\ ContextOK(d) /\ d.objectList = c.objectList /\ SameInfo(c, d)
             /\ d.status[s] = st /\ \A x \in Servers \ {s} : d.status[x] = c.status[x]
<1> DEFINE d == [c EXCEPT !.status[s] = st]
<1>1. PICK t : t = [c.status EXCEPT ![s] = st]
  OBVIOUS
<1>2. d = [objectList |-> c.objectList, status |-> t, lifetime |-> c.lifetime, binding |-> c.binding]
  BY <1>1 DEF ContextOK
<1> HIDE DEF d
<1>3. d.objectList = c.objectList /\ d.status = t /\ d.lifetime = c.lifetime /\ d.binding = c.binding
  BY <1>2
<1>4. t \in [Servers -> Statuses] /\ t[s] = st /\ \A x \in Servers \ {s} : t[x] = c.status[x]
  BY <1>1 DEF ContextOK
<1>5. ContextOK(d)
  BY <1>2, <1>3, <1>4 DEF ContextOK
<1> QED BY <1>3, <1>4, <1>5 DEF d, SameInfo

\* Where an account comes from.
LEMMA AccountFound ==
  ASSUME NEW s \in Servers
  PROVE  \E i \in DOMAIN FirstObjects[Server] :
            Account(s) = FirstObjects[Server][i] /\ FirstObjects[Server][i][0] = s
<1>1. \E i \in DOMAIN FirstObjects[Server] : FirstObjects[Server][i][0] = s
  BY ObjectsAssumption
<1>2. PICK i : i = (CHOOSE j \in DOMAIN FirstObjects[Server] : FirstObjects[Server][j][0] = s)
  OBVIOUS
<1>3. i \in DOMAIN FirstObjects[Server] /\ FirstObjects[Server][i][0] = s
  BY <1>1, <1>2
<1>4. Account(s) = FirstObjects[Server][i]
  BY <1>2 DEF Account
<1> QED BY <1>3, <1>4

\* The objects at start are as the constructors make them.
LEMMA InitTyped ==
  ASSUME Init
  PROVE  Typed
<1>1. PICK t : t = [s \in Servers |-> "REGISTERED"]
  OBVIOUS
<1>2. PICK l : l = [s \in Servers |-> Account(s)[1]]
  OBVIOUS
<1>3. PICK b : b = [s \in Servers |-> utils_stringToBinding(Account(s)[7])]
  OBVIOUS
<1>4. context = [objectList |-> FirstObjects, status |-> t, lifetime |-> l, binding |-> b]
  BY <1>1, <1>2, <1>3 DEF Init
<1>5. context.objectList = FirstObjects /\ context.status = t /\ context.lifetime = l /\ context.binding = b
  BY <1>4
<1>6. t \in [Servers -> Statuses]
  BY <1>1 DEF Statuses
<1>7. l \in [Servers -> 0..MaxUint32]
  <2>1. ASSUME NEW s \in Servers PROVE Account(s)[1] \in 0..MaxUint32
    BY AccountFound, ObjectsAssumption DEF IsServerInstance
  <2> QED BY <1>2, <2>1
<1>8. b \in [Servers -> SUBSET Known]
  <2>1. ASSUME NEW s \in Servers PROVE utils_stringToBinding(Account(s)[7]) \in SUBSET Known
    BY DEF utils_stringToBinding
  <2> QED BY <1>3, <2>1
<1>9. \A o \in DOMAIN FirstObjects : ListOK(o, FirstObjects[o])
  <2> SUFFICES ASSUME NEW o \in DOMAIN FirstObjects PROVE ListOK(o, FirstObjects[o])
    OBVIOUS
  <2>1. /\ IsFcn(FirstObjects[o]) /\ \A i \in DOMAIN FirstObjects[o] : IsFcn(FirstObjects[o][i])
        /\ o \notin Creatable => DOMAIN FirstObjects[o] = {0}
        /\ o = Acl => \A i \in DOMAIN FirstObjects[o] : IsAclInstance(FirstObjects[o][i])
        /\ o = Server => \A i \in DOMAIN FirstObjects[o] : IsServerInstance(FirstObjects[o][i])
    BY ObjectsAssumption
  <2> QED BY <2>1 DEF ListOK, InstanceOK, Sound
<1>10. ContextOK(context)
  BY <1>4, <1>5, <1>6, <1>7, <1>8, <1>9, ObjectsAssumption DEF ContextOK
<1>11. told = [s \in Servers |-> Instances(context)] /\ carried = [s \in Servers |-> <<>>]
       /\ unsynced = {} /\ changes = 0
  BY DEF Init
<1>12. DOMAIN told = Servers
  BY <1>11
<1>13. carried \in [Servers -> Seq(ObjectUpdates)]
  BY <1>11
<1>14. changes \in 0..MaxChanges
  BY <1>11, ObjectsAssumption
<1> QED BY <1>10, <1>11, <1>12, <1>13, <1>14 DEF Typed

\* The application's changes: the instances there are stay.
LEMMA ChangeHandled ==
  ASSUME ContextOK(context), NEW h \in Changes, handle_value_changed(h)
  PROVE  ContextOK(context') /\ Within(context, context') /\ SameInfo(context, context')
         /\ ServerInstances(context') = ServerInstances(context)
<1> DEFINE o == h.uri[1]
           i == h.uri[2]
<1>1. PICK w : w = writeFunc(o, context.objectList[o], i, <<h.data>>, "PARTIAL_UPDATE")
  OBVIOUS
<1>2. PICK l : l = IF w.code = "4.05" /\ o = Device
                   THEN [w.list EXCEPT ![i] = device_change(w.list[i], h.data).inst] ELSE w.list
  OBVIOUS
<1>3. o \in Writable /\ o \in DOMAIN context.objectList /\ IsData(o, <<h.data>>)
  BY RequestsAssumption DEF handle_value_changed
<1>4. context' = [context EXCEPT !.objectList[o] = l]
  BY <1>1, <1>2 DEF handle_value_changed
<1>5. o \in DOMAIN FirstObjects /\ ListOK(o, context.objectList[o])
  BY <1>3 DEF ContextOK
<1>6. ListOK(o, w.list) /\ DOMAIN w.list = DOMAIN context.objectList[o]
  <2>1. PICK k : k = context.objectList[o]
    OBVIOUS
  <2>2. PICK data : data = <<h.data>>
    OBVIOUS
  <2>3. ListWritten(o, k, i, data, "PARTIAL_UPDATE", w)
    BY <1>1, <1>3, <1>5, <2>1, <2>2, WrittenList
  <2> QED BY <2>1, <2>3 DEF ListWritten
<1>7. ListOK(o, l) /\ DOMAIN l = DOMAIN w.list
  <2>1. CASE ~(w.code = "4.05" /\ o = Device)
    BY <1>2, <1>6, <2>1
  <2>2. CASE w.code = "4.05" /\ o = Device
    <3>1. PICK x : x = device_change(w.list[i], h.data).inst
      OBVIOUS
    <3>2. l = [w.list EXCEPT ![i] = x]
      BY <1>2, <2>2, <3>1
    <3>3. IsFcn(l) /\ DOMAIN l = DOMAIN w.list /\ \A j \in DOMAIN w.list \ {i} : l[j] = w.list[j]
      BY <3>2 DEF IsFcn
    <3>4. i \in DOMAIN w.list => l[i] = x
      BY <3>2
    <3>5. o # Server /\ o # Acl
      BY <2>2 DEF Device, Server, Acl
    <3>6. i \in DOMAIN w.list => IsFcn(w.list[i])
      BY <1>6 DEF ListOK, InstanceOK, Sound
    <3>7. ASSUME i \in DOMAIN w.list PROVE IsFcn(x)
      <4>1. PICK v : v = w.list[i]
        OBVIOUS
      <4>2. \/ \E code \in {"4.00", "4.05"} : device_change(v, h.data) = Refused(v, code)
            \/ \E range : device_change(v, h.data) = SetInt(v, h.data, range, "4.00")
        BY DEF device_change
      <4>3. x = v \/ x = Written(v, h.data)
        BY <3>1, <4>1, <4>2, SetIntEffect DEF Refused
      <4>4. IsFcn(Written(v, h.data))
        BY DEF IsFcn, Written, Put
      <4> QED BY <3>6, <3>7, <4>1, <4>3, <4>4
    <3> QED BY <1>6, <3>3, <3>4, <3>5, <3>7 DEF ListOK, InstanceOK, Sound
  <2> QED BY <2>1, <2>2
<1>8. ContextOK(context') /\ OnlyList(context, o, l, context')
  BY <1>4, <1>5, <1>7, ListSet
<1>9. \A p \in DOMAIN FirstObjects : DOMAIN context'.objectList[p] = DOMAIN context.objectList[p]
  BY <1>6, <1>7, <1>8 DEF OnlyList
<1>10. ServerInstances(context') = ServerInstances(context)
  BY <1>9, ObjectsAssumption DEF ServerInstances
<1> QED BY <1>8, <1>9, <1>10 DEF OnlyList, Within, SameInfo

\* The bound on changes.
LEMMA CountedTyped ==
  ASSUME changes \in 0..MaxChanges, Counted, changes < MaxChanges \/ context' = context
  PROVE  changes' \in 0..MaxChanges
<1>1. MaxChanges \in Nat
  BY ObjectsAssumption
<1> QED BY <1>1 DEF Counted

\* What the steps that only move an update do.
LEMMA RegistrationStep ==
  ASSUME ContextOK(context), carried \in [Servers -> Seq(ObjectUpdates)],
         NEW s \in Servers, prv_update(s) \/ prv_updateRegistration(s) \/ prv_handleRegistrationUpdateReply(s)
  PROVE  /\ ContextOK(context') /\ context'.objectList = context.objectList /\ SameInfo(context, context')
         /\ \A x \in Servers \ {s} : context'.status[x] = context.status[x]
         /\ carried' \in [Servers -> Seq(ObjectUpdates)]
         /\ \A x \in Servers \ {s} : carried'[x] = carried[x]
         /\ DOMAIN told' = DOMAIN told /\ \A x \in Servers \ {s} : told'[x] = told[x]
         /\ UNCHANGED <<unsynced, changes>>
<1>1. context.status[s] \in Statuses
  BY DEF ContextOK
<1>2. CASE prv_update(s)
  <2>1. PICK st \in Statuses : st = IF context.status[s] \in {"REGISTERED", "REG_UPDATE_PENDING"}
                                    THEN "REG_UPDATE_NEEDED" ELSE context.status[s]
    BY <1>1 DEF Statuses
  <2>2. context' = [context EXCEPT !.status[s] = st]
    BY <1>2, <2>1 DEF prv_update
  <2> QED BY <1>2, <2>2, StatusSet DEF prv_update
<1>3. CASE prv_updateRegistration(s)
  <2>1. context' = [context EXCEPT !.status[s] = "REG_UPDATE_PENDING"] /\ "REG_UPDATE_PENDING" \in Statuses
    BY <1>3 DEF prv_updateRegistration, Statuses
  <2>2. PICK u : u = IF context.status[s] = "REG_FULL_UPDATE_NEEDED" THEN <<Instances(context)>> ELSE <<>>
    OBVIOUS
  <2>3. u \in ObjectUpdates
    <3>1. Instances(context) \in SUBSET (ObjectIds \X (0..MaxInstances))
      BY DEF Instances
    <3> QED BY <2>2, <3>1 DEF ObjectUpdates
  <2>4. carried' = [carried EXCEPT ![s] = Append(carried[s], u)]
    BY <1>3, <2>2 DEF prv_updateRegistration
  <2>5. Append(carried[s], u) \in Seq(ObjectUpdates)
    BY <2>3
  <2>6. carried' \in [Servers -> Seq(ObjectUpdates)] /\ \A x \in Servers \ {s} : carried'[x] = carried[x]
    BY <2>4, <2>5
  <2> QED BY <1>3, <2>1, <2>6, StatusSet DEF prv_updateRegistration
<1>4. CASE prv_handleRegistrationUpdateReply(s)
  <2>1. PICK st \in Statuses : st = IF context.status[s] = "REG_UPDATE_PENDING" THEN "REGISTERED"
                                    ELSE context.status[s]
    BY <1>1 DEF Statuses
  <2>2. context' = [context EXCEPT !.status[s] = st]
    BY <1>4, <2>1 DEF prv_handleRegistrationUpdateReply
  <2>3. carried' = [carried EXCEPT ![s] = Tail(carried[s])] /\ carried[s] # <<>>
    BY <1>4 DEF prv_handleRegistrationUpdateReply
  <2>4. Tail(carried[s]) \in Seq(ObjectUpdates)
    BY <2>3
  <2>5. carried' \in [Servers -> Seq(ObjectUpdates)] /\ \A x \in Servers \ {s} : carried'[x] = carried[x]
    BY <2>3, <2>4
  <2>6. DOMAIN told' = DOMAIN told /\ \A x \in Servers \ {s} : told'[x] = told[x]
    BY <1>4 DEF prv_handleRegistrationUpdateReply
  <2> QED BY <1>4, <2>2, <2>5, <2>6, StatusSet DEF prv_handleRegistrationUpdateReply
<1> QED BY <1>2, <1>3, <1>4

\* Each action keeps the types.
LEMMA NextTyped ==
  ASSUME Typed, [Next]_vars
  PROVE  Typed'
<1> USE DEF Typed
<1>1. ASSUME NEW q \in Requests, Request(q) PROVE Typed'
  <2>1. PICK a : /\ a = dm_handleRequest(context, q) /\ context' = a.c
                 /\ changes < MaxChanges \/ a.c = context
                 /\ unsynced' = IF Tells(q, a.code) THEN (unsynced \cup Twins(a.c, q.uri[2])) \ {q.uri[2]}
                                ELSE (unsynced \cup Differing(context, a.c)) \cap ServerInstances(a.c)
                 /\ Counted /\ UNCHANGED <<told, carried>>
    BY <1>1 DEF Request
  <2>2. Handled(context, q, a)
    BY <2>1, RequestHandled
  <2>3. ContextOK(context')
    BY <2>1, <2>2 DEF Handled
  <2>4. unsynced' \subseteq ServerInstances(context')
    <3>1. CASE Tells(q, a.code)
      <4>1. ServerInstances(a.c) = ServerInstances(context)
        BY <2>2, <3>1 DEF Handled, ToldOf
      <4> QED BY <2>1, <3>1, <4>1 DEF Twins
    <3>2. CASE ~Tells(q, a.code)
      BY <2>1, <3>2
    <3> QED BY <3>1, <3>2
  <2>5. changes' \in 0..MaxChanges
    BY <2>1, CountedTyped
  <2> QED BY <2>1, <2>3, <2>4, <2>5
<1>2. ASSUME NEW h \in Changes, handle_value_changed(h) PROVE Typed'
  <2>1. ContextOK(context') /\ ServerInstances(context') = ServerInstances(context)
    BY <1>2, ChangeHandled
  <2>2. /\ changes < MaxChanges /\ Counted /\ UNCHANGED <<told, carried>>
        /\ unsynced' = unsynced \cup Differing(context, context')
    BY <1>2 DEF handle_value_changed
  <2>3. unsynced' \subseteq ServerInstances(context')
    BY <2>1, <2>2 DEF Differing
  <2>4. changes' \in 0..MaxChanges
    BY <2>2, CountedTyped
  <2> QED BY <2>1, <2>2, <2>3, <2>4
<1>3. ASSUME NEW s \in Servers,
             prv_update(s) \/ prv_updateRegistration(s) \/ prv_handleRegistrationUpdateReply(s)
      PROVE  Typed'
  BY <1>3, RegistrationStep DEF ServerInstances
<1>4. CASE UNCHANGED vars
  BY <1>4 DEF vars, ServerInstances
<1>5. Updates \subseteq Servers
  BY ObjectsAssumption
<1> QED BY <1>1, <1>2, <1>3, <1>4, <1>5 DEF Next

\* Typed is an invariant.
LEMMA TypedAlways == Spec => []Typed
<1>1. Typed /\ [Next]_vars => Typed'
  BY NextTyped
<1>2. Init => Typed
  BY InitTyped
<1> QED BY <1>1, <1>2, PTL DEF Spec

(* In every reachable state the objects keep the instances their           *)
(* constructors allow, the Server and access control instances are of the  *)
(* types prv_server_write and prv_write_resources check, and the core's    *)
(* information has its types.                                              *)
THEOREM TypeCorrect == Spec => []TypeOK
<1>1. Typed => TypeOK
  <2> SUFFICES ASSUME Typed PROVE TypeOK
    OBVIOUS
  <2>1. Server \in DOMAIN FirstObjects
    BY ObjectsAssumption
  <2>2. \A i \in ServerInstances(context) : IsServerInstance(context.objectList[Server][i])
    BY <2>1 DEF Typed, ContextOK, ListOK, InstanceOK, ServerInstances
  <2>3. \A o \in DOMAIN FirstObjects \ Creatable : DOMAIN context.objectList[o] = {0}
    BY DEF Typed, ContextOK, ListOK
  <2>4. Acl \in DOMAIN FirstObjects =>
          \A i \in DOMAIN context.objectList[Acl] : IsAclInstance(context.objectList[Acl][i])
    BY DEF Typed, ContextOK, ListOK, InstanceOK, Sound
  <2> QED BY <2>2, <2>3, <2>4 DEF TypeOK, Typed, ContextOK, Statuses
<1> QED BY <1>1, TypedAlways, PTL

-----------------------------------------------------------------------------
(***************************************************************************)
(* The object lists that the servers get.                                  *)
(***************************************************************************)

\* The object list of the last update on its way, or else the one the server has.
LastList(list, t) == IF list = <<>> THEN t ELSE list[Len(list)][1]

\* Advertised is that list when every update carries one.
LEMMA AdvertisedLast ==
  ASSUME NEW list \in Seq(ObjectUpdates), NEW t, \A k \in DOMAIN list : list[k] # <<>>
  PROVE  LET full == {k \in DOMAIN list : list[k] # <<>>}
         IN  (IF full = {} THEN t ELSE list[Max(full)][1]) = LastList(list, t)
<1> DEFINE full == {k \in DOMAIN list : list[k] # <<>>}
<1>1. full = 1..Len(list) /\ Len(list) \in Nat
  OBVIOUS
<1>2. CASE list = <<>>
  <2>1. full = {}
    BY <1>2
  <2> QED BY <1>2, <2>1 DEF LastList
<1>3. CASE list # <<>>
  <2>1. Len(list) > 0
    BY <1>3
  <2>2. full # {} /\ Len(list) \in full /\ \A k \in full : Len(list) >= k /\ (k >= Len(list) => k = Len(list))
    BY <1>1, <2>1
  <2> HIDE DEF full
  <2>3. Max(full) = Len(list)
    BY <2>2 DEF Max
  <2> QED BY <1>3, <2>2, <2>3 DEF LastList, full
<1> QED BY <1>2, <1>3

\* The inductive invariant: updates to these servers all carry the object list.
Announcing ==
  \A s \in Servers \ Updates :
    /\ context.status[s] # "REG_UPDATE_NEEDED"
    /\ \A k \in DOMAIN carried[s] : carried[s][k] # <<>>
    /\ context.status[s] # "REG_FULL_UPDATE_NEEDED" => Instances(context) \subseteq LastList(carried[s], told[s])

\* An operation that adds no instance adds none to the object list.
LEMMA FewerInstances ==
  ASSUME NEW c, ContextOK(c), NEW d, ContextOK(d), Within(c, d)
  PROVE  Instances(d) \subseteq Instances(c)
BY DEF Instances, Within, ContextOK

\* The object list depends on the objects only.
LEMMA SameInstances ==
  ASSUME NEW c, NEW d, c.objectList = d.objectList
  PROVE  Instances(d) = Instances(c)
BY DEF Instances

\* At first every server was told of everything.
LEMMA InitAnnouncing ==
  ASSUME Init
  PROVE  Announcing
<1>1. ASSUME NEW s \in Servers
      PROVE  context.status[s] = "REGISTERED" /\ carried[s] = <<>> /\ told[s] = Instances(context)
  BY DEF Init
<1> QED BY <1>1 DEF Announcing, LastList

\* A step that leaves the updates alone.
LEMMA AnnouncingKept ==
  ASSUME Typed, Announcing, ContextOK(context'), UNCHANGED <<told, carried>>,
         Within(context, context') \/ Announced(context, context')
  PROVE  Announcing'
<1> SUFFICES ASSUME NEW s \in Servers \ Updates
             PROVE  /\ context'.status[s] # "REG_UPDATE_NEEDED"
                    /\ \A k \in DOMAIN carried'[s] : carried'[s][k] # <<>>
                    /\ context'.status[s] # "REG_FULL_UPDATE_NEEDED" =>
                         Instances(context') \subseteq LastList(carried'[s], told'[s])
  BY DEF Announcing
<1>1. /\ context.status[s] # "REG_UPDATE_NEEDED"
      /\ \A k \in DOMAIN carried[s] : carried[s][k] # <<>>
      /\ context.status[s] # "REG_FULL_UPDATE_NEEDED" => Instances(context) \subseteq LastList(carried[s], told[s])
  BY DEF Announcing
<1>2. context.status[s] \in Statuses
  BY DEF Typed, ContextOK
<1>3. CASE Within(context, context')
  <2>1. Instances(context') \subseteq Instances(context) /\ context'.status[s] = context.status[s]
    BY <1>3, FewerInstances DEF Typed, Within
  <2> QED BY <1>1, <2>1
<1>4. CASE Announced(context, context')
  <2>1. context'.status[s] = "REG_FULL_UPDATE_NEEDED"
    BY <1>1, <1>2, <1>4 DEF Announced, Statuses
  <2> QED BY <1>1, <2>1
<1> QED BY <1>3, <1>4

\* An update sent carries all there is, and its answer makes that the server's.
LEMMA NextAnnouncing ==
  ASSUME Typed, Announcing, [Next]_vars
  PROVE  Announcing'
<1>0. Updates \subseteq Servers /\ ContextOK(context) /\ carried \in [Servers -> Seq(ObjectUpdates)]
      /\ DOMAIN told = Servers
  BY ObjectsAssumption DEF Typed
<1>1. ASSUME NEW q \in Requests, Request(q) PROVE Announcing'
  <2>1. PICK a : a = dm_handleRequest(context, q) /\ context' = a.c /\ UNCHANGED <<told, carried>>
    BY <1>1 DEF Request
  <2>2. Handled(context, q, a)
    BY <1>0, <2>1, RequestHandled
  <2>3. ContextOK(context') /\ (Within(context, context') \/ Announced(context, context'))
    BY <2>1, <2>2 DEF Handled
  <2> QED BY <2>1, <2>3, AnnouncingKept
<1>2. ASSUME NEW h \in Changes, handle_value_changed(h) PROVE Announcing'
  <2>1. ContextOK(context') /\ Within(context, context')
    BY <1>0, <1>2, ChangeHandled
  <2>2. UNCHANGED <<told, carried>>
    BY <1>2 DEF handle_value_changed
  <2> QED BY <2>1, <2>2, AnnouncingKept
<1>3. ASSUME NEW s \in Servers,
             prv_update(s) \/ prv_updateRegistration(s) \/ prv_handleRegistrationUpdateReply(s),
             s \in Updates \/ prv_updateRegistration(s) \/ prv_handleRegistrationUpdateReply(s)
      PROVE  Announcing'
  <2>1. /\ context'.objectList = context.objectList
        /\ \A x \in Servers \ {s} : context'.status[x] = context.status[x] /\ carried'[x] = carried[x]
                                    /\ told'[x] = told[x]
    BY <1>0, <1>3, RegistrationStep
  <2>2. Instances(context') = Instances(context)
    BY <2>1, SameInstances
  <2>3. ASSUME NEW x \in Servers \ Updates, x # s
        PROVE  /\ context'.status[x] # "REG_UPDATE_NEEDED"
               /\ \A k \in DOMAIN carried'[x] : carried'[x][k] # <<>>
               /\ context'.status[x] # "REG_FULL_UPDATE_NEEDED" =>
                    Instances(context') \subseteq LastList(carried'[x], told'[x])
    BY <2>1, <2>2, <2>3 DEF Announcing
  <2>4. ASSUME s \notin Updates
        PROVE  /\ context'.status[s] # "REG_UPDATE_NEEDED"
               /\ \A k \in DOMAIN carried'[s] : carried'[s][k] # <<>>
               /\ context'.status[s] # "REG_FULL_UPDATE_NEEDED" =>
                    Instances(context') \subseteq LastList(carried'[s], told'[s])
    <3>1. /\ context.status[s] # "REG_UPDATE_NEEDED"
          /\ \A k \in DOMAIN carried[s] : carried[s][k] # <<>>
          /\ context.status[s] # "REG_FULL_UPDATE_NEEDED" =>
               Instances(context) \subseteq LastList(carried[s], told[s])
      BY <2>4 DEF Announcing
    <3>2. PICK list \in Seq(ObjectUpdates) : list = carried[s]
      BY <1>0
    <3>3. context.status \in [Servers -> Statuses] /\ context.status[s] \in Statuses
      BY <1>0 DEF ContextOK
    <3>4. CASE prv_updateRegistration(s)
      <4>1. context.status[s] = "REG_FULL_UPDATE_NEEDED"
        BY <3>1, <3>4 DEF prv_updateRegistration
      <4>2. PICK u : u = <<Instances(context)>>
        OBVIOUS
      <4>3. carried' = [carried EXCEPT ![s] = Append(carried[s], u)] /\ told' = told
        BY <3>4, <4>1, <4>2 DEF prv_updateRegistration
      <4>4. carried'[s] = Append(list, u)
        BY <1>0, <3>2, <4>3
      <4>5. PICK new : new = Append(list, u)
        OBVIOUS
      <4>6. /\ new # <<>> /\ new[Len(new)] = u /\ DOMAIN new = 1..(Len(list) + 1)
            /\ \A k \in 1..Len(list) : new[k] = list[k]
        BY <4>5
      <4>7. u # <<>> /\ u[1] = Instances(context)
        BY <4>2
      <4>8. \A k \in DOMAIN new : new[k] # <<>>
        <5>1. ASSUME NEW k \in DOMAIN new PROVE new[k] # <<>>
          <6>1. k \in 1..Len(list) \/ k = Len(list) + 1
            BY <4>6
          <6>2. Len(new) = Len(list) + 1
            BY <4>5
          <6> QED BY <3>1, <3>2, <4>6, <4>7, <6>1, <6>2
        <5> QED BY <5>1
      <4>9. LastList(new, told[s]) = Instances(context)
        BY <4>6, <4>7 DEF LastList
      <4>10. context'.status[s] = "REG_UPDATE_PENDING"
        <5>1. PICK st \in Statuses : st = "REG_UPDATE_PENDING"
          BY DEF Statuses
        <5>2. context' = [context EXCEPT !.status[s] = st]
          BY <3>4, <5>1 DEF prv_updateRegistration
        <5>3. context'.status = [context.status EXCEPT ![s] = st]
          BY <1>0, <5>2 DEF ContextOK
        <5>4. [context.status EXCEPT ![s] = st][s] = st
          BY <3>3
        <5> QED BY <5>1, <5>3, <5>4
      <4> QED BY <2>2, <4>3, <4>4, <4>5, <4>8, <4>9, <4>10
    <3>5. CASE prv_handleRegistrationUpdateReply(s)
      <4>1. list # <<>> /\ Len(list) > 0
        BY <3>2, <3>5 DEF prv_handleRegistrationUpdateReply
      <4>2. list[1] # <<>>
        BY <3>1, <3>2, <4>1
      <4>3. told'[s] = list[1][1]
        BY <1>0, <3>2, <3>5, <4>1, <4>2 DEF prv_handleRegistrationUpdateReply
      <4>4. PICK new : new = Tail(list)
        OBVIOUS
      <4>5. carried'[s] = new
        BY <1>0, <3>2, <3>5, <4>4 DEF prv_handleRegistrationUpdateReply
      <4>6. /\ new \in Seq(ObjectUpdates) /\ Len(new) = Len(list) - 1
            /\ \A k \in 1..Len(new) : new[k] = list[k + 1]
        BY <4>1, <4>4
      <4>7. \A k \in DOMAIN new : new[k] # <<>>
        BY <3>1, <3>2, <4>6
      <4>8. LastList(new, told'[s]) = LastList(list, told[s])
        <5>1. CASE Len(list) = 1
          BY <4>1, <4>3, <4>6, <5>1 DEF LastList
        <5>2. CASE Len(list) > 1
          <6>1. Len(new) \in 1..Len(new) /\ new # <<>> /\ Len(new) + 1 = Len(list)
            BY <4>6, <5>2
          <6> QED BY <4>1, <4>6, <6>1 DEF LastList
        <5>3. Len(list) = 1 \/ Len(list) > 1
          <6>1. Len(list) \in Nat /\ Len(list) > 0
            BY <4>1
          <6>2. \A n \in Nat : n > 0 => n = 1 \/ n > 1
            OBVIOUS
          <6> QED BY ONLY <6>1, <6>2
        <5> QED BY ONLY <5>1, <5>2, <5>3
      <4>9. context'.status[s] = IF context.status[s] = "REG_UPDATE_PENDING" THEN "REGISTERED"
                                 ELSE context.status[s]
        <5>1. PICK st \in Statuses : st = IF context.status[s] = "REG_UPDATE_PENDING" THEN "REGISTERED"
                                          ELSE context.status[s]
          BY <3>3 DEF Statuses
        <5>2. context' = [context EXCEPT !.status[s] = st]
          BY <3>5, <5>1 DEF prv_handleRegistrationUpdateReply
        <5> QED BY <1>0, <5>1, <5>2, StatusSet
      <4> QED BY <2>2, <3>1, <3>2, <4>5, <4>7, <4>8, <4>9
    <3> QED BY <1>3, <2>4, <3>4, <3>5
  <2> QED BY <2>3, <2>4 DEF Announcing
<1>4. CASE UNCHANGED vars
  BY <1>4 DEF vars, Announcing, Instances
<1> QED BY <1>0, <1>1, <1>2, <1>3, <1>4 DEF Next

(* Every instance that dm_handleRequest created is in the object list each *)
(* server has or is about to get, unless the full update is still needed:  *)
(* for any requests, any number of servers, and any order of updates and   *)
(* their answers (lwm2m_update_registration, registration_step).           *)
THEOREM AllAdvertised == Spec => []InstancesAdvertised
<1>1. Init => Announcing
  BY InitAnnouncing
<1>2. Typed /\ Announcing /\ [Next]_vars => Announcing'
  BY NextAnnouncing
<1>3. Typed /\ Announcing => InstancesAdvertised
  <2> SUFFICES ASSUME Typed, Announcing, NEW s \in Servers \ Updates,
                      context.status[s] # "REG_FULL_UPDATE_NEEDED"
               PROVE  Instances(context) \subseteq Advertised(s)
    BY DEF InstancesAdvertised
  <2>1. PICK list \in Seq(ObjectUpdates) : list = carried[s]
    BY DEF Typed
  <2>2. \A k \in DOMAIN list : list[k] # <<>>
    BY <2>1 DEF Announcing
  <2>3. Advertised(s) = LastList(list, told[s])
    BY <2>1, <2>2, AdvertisedLast DEF Advertised
  <2> QED BY <2>1, <2>3 DEF Announcing
<1> QED BY <1>1, <1>2, <1>3, TypedAlways, PTL DEF Spec

-----------------------------------------------------------------------------
(***************************************************************************)
(* What the core knows of the Server object.                               *)
(***************************************************************************)

InSync(c, v) == v[0] \in Servers => /\ c.lifetime[v[0]] = v[1]
                                    /\ c.binding[v[0]] = utils_stringToBinding(v[7])

\* At first the core has what the accounts say.
LEMMA InitInSync ==
  ASSUME Init
  PROVE  CoreInSync
<1>1. /\ context.objectList = FirstObjects
      /\ context.lifetime = [s \in Servers |-> Account(s)[1]]
      /\ context.binding = [s \in Servers |-> utils_stringToBinding(Account(s)[7])]
  BY DEF Init
<1>2. ASSUME NEW i \in DOMAIN FirstObjects[Server], FirstObjects[Server][i][0] \in Servers
      PROVE  Account(FirstObjects[Server][i][0]) = FirstObjects[Server][i]
  BY <1>2, AccountFound, ObjectsAssumption
<1>3. ASSUME NEW i \in DOMAIN FirstObjects[Server] PROVE InSync(context, FirstObjects[Server][i])
  BY <1>1, <1>2 DEF InSync
<1> QED BY <1>1, <1>3 DEF CoreInSync, InSync, ServerInstances

\* The instances that stay in sync when the others change.
LEMMA InSyncKept ==
  ASSUME CoreInSync, SameInfo(context, context'),
         \A i \in ServerInstances(context') \ unsynced' :
            i \notin unsynced /\ i \notin Differing(context, context')
  PROVE  CoreInSync'
<1>1. ASSUME NEW i \in ServerInstances(context') \ unsynced'
      PROVE  /\ i \in ServerInstances(context) \ unsynced
             /\ context'.objectList[Server][i] = context.objectList[Server][i]
  BY DEF Differing
<1> QED BY <1>1 DEF CoreInSync, SameInfo

\* A report brings one instance in sync and marks those of the same short id.
LEMMA NextInSync ==
  ASSUME Typed, CoreInSync, [Next]_vars
  PROVE  CoreInSync'
<1>0. Updates \subseteq Servers /\ ContextOK(context) /\ carried \in [Servers -> Seq(ObjectUpdates)]
  BY ObjectsAssumption DEF Typed
<1>1. ASSUME NEW q \in Requests, Request(q) PROVE CoreInSync'
  <2>1. PICK a : /\ a = dm_handleRequest(context, q) /\ context' = a.c
                 /\ unsynced' = IF Tells(q, a.code) THEN (unsynced \cup Twins(a.c, q.uri[2])) \ {q.uri[2]}
                                ELSE (unsynced \cup Differing(context, a.c)) \cap ServerInstances(a.c)
    BY <1>1 DEF Request
  <2>2. Handled(context, q, a)
    BY <1>0, <2>1, RequestHandled
  <2>3. CASE Tells(q, a.code)
    <3>1. PICK i : i = q.uri[2]
      OBVIOUS
    <3>2. /\ ServerInstances(context') = ServerInstances(context) /\ i \in ServerInstances(context)
          /\ \A j \in ServerInstances(context) \ {i} :
                context'.objectList[Server][j] = context.objectList[Server][j]
          /\ Informed(context, context', context'.objectList[Server][i])
      BY <2>1, <2>2, <2>3, <3>1 DEF Handled, ToldOf
    <3>3. PICK v : v = context'.objectList[Server][i]
      OBVIOUS
    <3>4. unsynced' = (unsynced \cup Twins(context', i)) \ {i}
      BY <2>1, <2>3, <3>1
    <3>5. InSync(context', v)
      BY <3>2, <3>3 DEF Informed, InSync
    <3>6. ASSUME NEW j \in ServerInstances(context') \ unsynced', j # i
          PROVE  InSync(context', context'.objectList[Server][j])
      <4>1. PICK w : w = context.objectList[Server][j]
        OBVIOUS
      <4>2. w = context'.objectList[Server][j] /\ j \in ServerInstances(context) \ unsynced
        BY <3>2, <3>4, <3>6, <4>1
      <4>3. w[0] # v[0]
        BY <3>3, <3>4, <3>6, <4>2 DEF Twins
      <4>4. w[0] \in Servers => context'.lifetime[w[0]] = context.lifetime[w[0]]
                                /\ context'.binding[w[0]] = context.binding[w[0]]
        BY <3>2, <3>3, <4>3 DEF Informed
      <4>5. InSync(context, w)
        BY <4>1, <4>2 DEF CoreInSync, InSync
      <4> QED BY <4>2, <4>4, <4>5 DEF InSync
    <3>7. \A j \in ServerInstances(context') \ unsynced' : InSync(context', context'.objectList[Server][j])
      BY <3>3, <3>5, <3>6
    <3> QED BY <3>7 DEF CoreInSync, InSync
  <2>4. CASE ~Tells(q, a.code)
    <3>1. SameInfo(context, context')
      BY <2>1, <2>2, <2>4 DEF Handled
    <3>2. unsynced' = (unsynced \cup Differing(context, context')) \cap ServerInstances(context')
      BY <2>1, <2>4
    <3> QED BY <3>1, <3>2, InSyncKept
  <2> QED BY <2>3, <2>4
<1>2. ASSUME NEW h \in Changes, handle_value_changed(h) PROVE CoreInSync'
  <2>1. SameInfo(context, context')
    BY <1>0, <1>2, ChangeHandled
  <2>2. unsynced' = unsynced \cup Differing(context, context')
    BY <1>2 DEF handle_value_changed
  <2> QED BY <2>1, <2>2, InSyncKept
<1>3. ASSUME NEW s \in Servers,
             prv_update(s) \/ prv_updateRegistration(s) \/ prv_handleRegistrationUpdateReply(s)
      PROVE  CoreInSync'
  <2>1. context'.objectList = context.objectList /\ SameInfo(context, context') /\ unsynced' = unsynced
    BY <1>0, <1>3, RegistrationStep
  <2> QED BY <2>1 DEF CoreInSync, SameInfo, ServerInstances
<1>4. CASE UNCHANGED vars
  BY <1>4 DEF vars, CoreInSync, ServerInstances
<1> QED BY <1>0, <1>1, <1>2, <1>3, <1>4 DEF Next

(* The lifetime and binding the core works with are those of the Server    *)
(* object, for each instance whose last change object_write reported       *)
(* (prv_updateServerInfo) and whose short id no other instance was written *)
(* with since.                                                             *)
THEOREM InSyncAlways == Spec => []CoreInSync
<1>1. Init => CoreInSync
  BY InitInSync
<1>2. Typed /\ CoreInSync /\ [Next]_vars => CoreInSync'
  BY NextInSync
<1> QED BY <1>1, <1>2, TypedAlways, PTL DEF Spec

-----------------------------------------------------------------------------
(***************************************************************************)
(* Refused requests, values that are read back, and the lists of           *)
(* resources.                                                              *)
(***************************************************************************)

(* A refused creation, deletion or execution, or a refused write of one    *)
(* resource, leaves the context as it was, whatever the request and the    *)
(* state (dm_handleRequest, createFunc, the write callbacks).              *)
THEOREM NoTrace == Spec => []RefusedLeavesNoTrace
<1>1. Typed => RefusedLeavesNoTrace
  <2> SUFFICES ASSUME Typed PROVE RefusedLeavesNoTrace
    OBVIOUS
  <2>1. ASSUME NEW q \in Requests
        PROVE  LET a == dm_handleRequest(context, q)
               IN  Failed(a.code) /\ (Len(q.data) <= 1 \/ Len(q.uri) = 1) /\ ~Replaces(q) => a.c = context
    BY RequestHandled DEF Typed, Handled
  <2> QED BY <2>1 DEF RefusedLeavesNoTrace
<1> QED BY <1>1, TypedAlways, PTL

\* The firmware's package, which is taken and dropped, cannot be read.
LEMMA FirmwareUnread ==
  ASSUME NEW v, NEW r \in {0, 1}
  PROVE  readFunc(Firmware, v, r, Whole) # "2.05"
<1>1. Shape(Firmware, v) = prv_firmware_read(v)
  BY DEF Shape, Server, Acl, Device, ConnMonitor, Firmware, Location, ConnStat, Test
<1>2. r # Whole /\ r \notin prv_firmware_read(v).single /\ r \notin DOMAIN prv_firmware_read(v).multi
  BY DEF prv_firmware_read, Whole
<1>3. readFunc(Firmware, v, r, Whole) = ReadOne(Firmware, v, r, Whole)
  BY <1>2 DEF readFunc
<1>4. ReadOne(Firmware, v, r, Whole) # "2.05"
  BY <1>1, <1>2 DEF ReadOne
<1> QED BY <1>3, <1>4

(* What an accepted write wrote is what object_readData finds: of each     *)
(* resource the last value, and of each entry of an access control list a  *)
(* value the request has for it, for payloads of any length and lists in   *)
(* which ids are repeated.                                                 *)
THEOREM ReadsBack == Spec => []WrittenIsRead
<1>1. Typed => WrittenIsRead
  <2> SUFFICES ASSUME Typed, NEW q \in Requests, NEW a \in {dm_handleRequest(context, q)},
                      NEW p \in {Payload(q.uri, q.data)}, Wrote(q, a), NEW k \in DOMAIN p,
                      p[k].id # 7, IsLast(p, k),
                      object_readData(a.c, <<q.uri[1], q.uri[2], p[k].id>>) = "2.05"
               PROVE  LET uri == <<q.uri[1], q.uri[2], p[k].id>>
                          sub == p[k].sub
                      IN  IF p[k].multi
                          THEN ReadsEntries(ValueOf(a.c, uri), sub)
                          ELSE ValueOf(a.c, uri) = p[k].val
    BY DEF WrittenIsRead
  <2>0. a = dm_handleRequest(context, q) /\ p = Payload(q.uri, q.data)
    OBVIOUS
  <2>11. ValueOf(a.c, <<q.uri[1], q.uri[2], p[k].id>>) = a.c.objectList[q.uri[1]][q.uri[2]][p[k].id]
    BY DEF ValueOf
  <2>1. Handled(context, q, a)
    BY <2>0, RequestHandled DEF Typed
  <2>2. PICK o : o = q.uri[1]
    OBVIOUS
  <2>3. PICK w : w = a.c.objectList[o][q.uri[2]]
    OBVIOUS
  <2>4. PICK d : d = p[k]
    OBVIOUS
  <2>5. Holds(o, w, d)
    BY <2>0, <2>1, <2>2, <2>3, <2>4 DEF Handled, AllHold
  <2>6. IsData(o, p)
    <3>1. q.uri \in Seq(Nat) /\ Len(q.uri) \in 1..4 /\ IsData(q.uri[1], q.data)
      BY RequestsAssumption
    <3> QED BY <2>0, <2>2, <3>1, PayloadData
  <2>7. ~(o = Firmware /\ d.id \in {0, 1})
    <3> SUFFICES ASSUME o = Firmware, d.id \in {0, 1} PROVE FALSE
      OBVIOUS
    <3>1. PICK uri : uri = <<o, q.uri[2], d.id>>
      OBVIOUS
    <3>2. uri[1] = o /\ uri[2] = q.uri[2] /\ uri[3] = d.id /\ Len(uri) = 3
      BY <3>1
    <3>3. object_readData(a.c, uri) = "2.05"
      BY <2>2, <2>4, <3>1
    <3>4. Res(uri) = d.id /\ ResInst(uri) = Whole
      BY <3>2 DEF Res, ResInst
    <3>5. readFunc(o, a.c.objectList[o][uri[2]], d.id, Whole) = "2.05"
      BY <3>2, <3>3, <3>4 DEF object_readData
    <3> QED BY <3>5, FirmwareUnread
  <2>8. CASE ~d.multi /\ d.id \in DOMAIN w /\ w[d.id] = d.val
    BY <2>2, <2>3, <2>4, <2>8, <2>11
  <2>9. CASE d.multi /\ o = Acl /\ d.id = 2 /\ ReadsEntries(w[2], d.sub)
    BY <2>2, <2>3, <2>4, <2>9, <2>11
  <2>10. d.id # 7
    BY <2>4
  <2> QED BY <2>5, <2>7, <2>8, <2>9, <2>10 DEF Holds
<1> QED BY <1>1, TypedAlways, PTL

\* A callback that is asked for a whole instance finds all it fills in.
LEMMA WholeRead ==
  ASSUME NEW o \in ObjectIds, NEW v
  PROVE  readFunc(o, v, Whole, Whole) = "2.05"
<1> USE DEF Server, Acl, Device, ConnMonitor, Firmware, Location, ConnStat, Test
<1>1. ASSUME NEW r \in WholeInstance(o, v)
      PROVE  r \in Shape(o, v).single \/ r \in DOMAIN Shape(o, v).multi
  <2>1. CASE o = Server
    BY <1>1, <2>1 DEF Shape, WholeInstance, prv_get_value, prv_server_read
  <2>2. CASE o = Acl
    BY <1>1, <2>2 DEF Shape, WholeInstance, AclShape, AclWhole
  <2>3. CASE o = Device
    BY <1>1, <2>3 DEF Shape, WholeInstance, prv_set_value, prv_device_read, DevicePower
  <2>4. CASE o = ConnMonitor
    BY <1>1, <2>4 DEF Shape, WholeInstance, ConnMonitorShape, ConnMonitorWhole
  <2>5. CASE o = Firmware
    BY <1>1, <2>5 DEF Shape, WholeInstance, prv_firmware_read, FirmwareWhole
  <2>6. CASE o = Location
    BY <1>1, <2>6 DEF Shape, WholeInstance, prv_res2tlv, prv_location_read
  <2>7. CASE o = ConnStat
    BY <1>1, <2>7 DEF Shape, WholeInstance, ConnStatShape, ConnStatWhole
  <2>8. CASE o = Test
    BY <1>1, <2>8 DEF Shape, WholeInstance, TestShape, TestWhole
  <2> QED BY <2>1, <2>2, <2>3, <2>4, <2>5, <2>6, <2>7, <2>8 DEF ObjectIds
<1>2. \A r \in WholeInstance(o, v) : ReadOne(o, v, r, Whole) = "2.05"
  BY <1>1 DEF ReadOne
<1> QED BY <1>2 DEF readFunc

\* Discover lists what is found, and asks for one resource the same way.
LEMMA ListedRead ==
  ASSUME NEW o \in {Server, Device}, NEW v, NEW r \in 0..21
  PROVE  /\ r \in Discovered(o, v) <=> readFunc(o, v, r, Whole) # "4.04"
         /\ r \in Discovered(o, v) <=> discoverFunc(o, v, r) = "2.05"
<1> USE DEF Server, Acl, Device, ConnMonitor, Firmware, Location, ConnStat, Test
<1>0. r # Whole
  BY DEF Whole
<1>1. CASE o = Server
  <2>1. Shape(o, v) = prv_get_value(v) /\ Discovered(o, v) = prv_server_discover(v)
    BY <1>1 DEF Shape, Discovered
  <2>2. discoverFunc(o, v, r) = IF ServerDiscoverOne(v, r) THEN "2.05" ELSE "4.04"
    BY <1>0, <1>1 DEF discoverFunc
  <2>3. r \in prv_server_discover(v) <=> ServerDiscoverOne(v, r)
    BY DEF prv_server_discover, ServerDiscoverOne
  <2>4. readFunc(o, v, r, Whole) = IF r \in prv_get_value(v).single THEN "2.05"
                                   ELSE IF r \in {4, 8} THEN "4.05" ELSE "4.04"
    BY <1>0, <2>1 DEF readFunc, ReadOne, prv_get_value
  <2>5. prv_server_discover(v) = prv_get_value(v).single \cup {4, 8}
    BY DEF prv_server_discover, prv_get_value
  <2> QED BY <2>1, <2>2, <2>3, <2>4, <2>5
<1>2. CASE o = Device
  <2>1. Shape(o, v) = prv_set_value(v) /\ Discovered(o, v) = 0..16
    BY <1>2 DEF Shape, Discovered, prv_device_discover
  <2>2. discoverFunc(o, v, r) = IF r \in 0..16 THEN "2.05" ELSE "4.04"
    BY <1>0, <1>2 DEF discoverFunc, DeviceDiscoverOne
  <2>3. PICK s : s = prv_set_value(v)
    OBVIOUS
  <2>4. s.single = {0, 1, 2, 3, 9, 10, 13, 14, 15, 16} /\ DOMAIN s.multi = {6, 7, 8, 11} /\ s.exec = {4, 5, 12}
    BY <2>3 DEF prv_set_value, DevicePower
  <2>5. readFunc(o, v, r, Whole) = IF r \in s.single \/ r \in DOMAIN s.multi THEN "2.05"
                                   ELSE IF r \in s.exec THEN "4.05" ELSE "4.04"
    BY <1>0, <2>1, <2>3 DEF readFunc, ReadOne
  <2>6. r \in 0..16 <=> r \in s.single \/ r \in DOMAIN s.multi \/ r \in s.exec
    BY <2>4
  <2> QED BY <2>1, <2>2, <2>5, <2>6
<1> QED BY <1>1, <1>2

(* Reading a whole object or instance finds every resource the callback    *)
(* fills in, and Discover of the Server and Device objects lists exactly   *)
(* what a read or execution of one resource finds, whatever the instances  *)
(* hold.                                                                   *)
THEOREM ListsAgree == Spec => []ReadsAgree
<1>1. Typed => ReadsAgree
  <2> SUFFICES ASSUME Typed PROVE ReadsAgree
    OBVIOUS
  <2>1. DOMAIN context.objectList \subseteq ObjectIds
    BY ObjectsAssumption DEF Typed, ContextOK
  <2>2. ASSUME NEW o \in DOMAIN context.objectList
        PROVE  /\ object_readData(context, <<o>>) = "2.05"
               /\ \A i \in DOMAIN context.objectList[o] : object_readData(context, <<o, i>>) = "2.05"
    <3>1. \A v : readFunc(o, v, Whole, Whole) = "2.05"
      BY <2>1, <2>2, WholeRead
    <3>2. object_readData(context, <<o>>) = "2.05"
      BY <2>2, <3>1 DEF object_readData
    <3>3. ASSUME NEW i \in DOMAIN context.objectList[o] PROVE object_readData(context, <<o, i>>) = "2.05"
      BY <2>2, <3>1, <3>3 DEF object_readData, Res, ResInst
    <3> QED BY <3>2, <3>3
  <2>3. ASSUME NEW o \in {Server, Device} \cap DOMAIN context.objectList,
               NEW i \in DOMAIN context.objectList[o], NEW r \in 0..21
        PROVE  /\ object_readData(context, <<o, i, r>>) = readFunc(o, context.objectList[o][i], r, Whole)
               /\ object_discover(context, <<o, i, r>>) = discoverFunc(o, context.objectList[o][i], r)
    <3>1. PICK uri : uri = <<o, i, r>>
      OBVIOUS
    <3>2. uri[1] = o /\ uri[2] = i /\ Len(uri) = 3 /\ Res(uri) = r /\ ResInst(uri) = Whole
      BY <3>1 DEF Res, ResInst
    <3>3. o \in Discoverable /\ o \in DOMAIN context.objectList /\ i \in DOMAIN context.objectList[o]
      BY <2>3 DEF Discoverable
    <3> QED BY <3>1, <3>2, <3>3 DEF object_readData, object_discover
  <2>4. ASSUME NEW o \in {Server, Device} \cap DOMAIN context.objectList,
               NEW i \in DOMAIN context.objectList[o], NEW r \in 0..21
        PROVE  LET listed == r \in Discovered(o, context.objectList[o][i])
               IN  /\ listed <=> object_readData(context, <<o, i, r>>) # "4.04"
                   /\ listed <=> object_discover(context, <<o, i, r>>) = "2.05"
    <3>1. PICK v : v = context.objectList[o][i]
      OBVIOUS
    <3>2. r \in Discovered(o, v) <=> readFunc(o, v, r, Whole) # "4.04"
      BY <2>4, ListedRead
    <3>3. r \in Discovered(o, v) <=> discoverFunc(o, v, r) = "2.05"
      BY <2>4, ListedRead
    <3> QED BY <2>3, <3>1, <3>2, <3>3
  <2> QED BY <2>2, <2>4 DEF ReadsAgree
<1> QED BY <1>1, TypedAlways, PTL
=============================================================================

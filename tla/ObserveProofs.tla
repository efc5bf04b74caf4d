---------------------------- MODULE ObserveProofs ----------------------------
(***************************************************************************)
(* Proofs about Observe. The invariants are                                *)
(*   TypeInv      the types,                                               *)
(*   AllReadable  what is observed can be read,                            *)
(*   PeriodInv    the loop sleeps within the periods,                      *)
(*   TagInv       a value that was not sent is tagged,                     *)
(*   ReportInv    or held back by a period, once observe_step ran,         *)
(*   MidInv       active watchers of a server have different ids,          *)
(*   SubInv       what servers believe is in the list.                     *)
(* The last four need what is observed to be apart: UrisApart, and for the *)
(* changes DeletesApart.                                                   *)
(***************************************************************************)
EXTENDS Observe, ListLemmas

-----------------------------------------------------------------------------
(***************************************************************************)
(* The lists. A place is a pair of positions. For every way in which the   *)
(* code changes the list, Moves says which watchers of the new list are    *)
(* which of the old one, so that the invariants can speak of watchers and  *)
(* never of positions.                                                     *)
(***************************************************************************)

ParamType == [alloc : BOOLEAN, toSet : SUBSET Flags, pmin : Nat, pmax : Nat,
              gt : Int, lt : Int, st : Nat]
Readings == UNION {[R -> Values] : R \in SUBSET Resources}
TokenSet == (UNION {Tokens[s] : s \in Servers}) \cup {NoToken}
WatcherType == [server : Servers, active : BOOLEAN, update : BOOLEAN, token : TokenSet,
                age : 0..MaxAge, mid : Nat, last : Readings, params : ParamType]
ObservedType == [uri : Uris, watchers : Seq(WatcherType)]

ListType(list) ==
  /\ list \in Seq(ObservedType)
  /\ \A o \in DOMAIN list : list[o].watchers # <<>>

-----------------------------------------------------------------------------

\* A place is a pair of positions.
LEMMA PlacePairs ==
  ASSUME NEW list
  PROVE  \A k : k \in Watchers(list) <=>
                \E o \in DOMAIN list : \E i \in DOMAIN list[o].watchers : k = <<o, i>>
BY DEF Watchers

\* What a position of a list is.
LEMMA Places ==
  ASSUME NEW list \in Seq(ObservedType)
  PROVE  /\ DOMAIN list = 1..Len(list) /\ Len(list) \in Nat
         /\ \A o \in DOMAIN list :
              /\ list[o] \in ObservedType /\ list[o].uri \in Uris
              /\ list[o].watchers \in Seq(WatcherType)
              /\ DOMAIN list[o].watchers = 1..Len(list[o].watchers)
              /\ Len(list[o].watchers) \in Nat
              /\ \A i \in DOMAIN list[o].watchers :
                   list[o].watchers[i] \in WatcherType /\ <<o, i>> \in Watchers(list)
         /\ \A k \in Watchers(list) :
              /\ k = <<k[1], k[2]>> /\ k[1] \in DOMAIN list
              /\ k[2] \in DOMAIN list[k[1]].watchers
              /\ WatcherOf(list, k) \in WatcherType
<1>1. \A o \in DOMAIN list : list[o] \in ObservedType
  OBVIOUS
<1>2. \A o \in DOMAIN list : list[o].uri \in Uris /\ list[o].watchers \in Seq(WatcherType)
  BY <1>1 DEF ObservedType
<1>3. \A o \in DOMAIN list : \A i \in DOMAIN list[o].watchers :
         list[o].watchers[i] \in WatcherType /\ <<o, i>> \in Watchers(list)
  BY <1>2 DEF Watchers
<1>4. \A k \in Watchers(list) :
         k = <<k[1], k[2]>> /\ k[1] \in DOMAIN list /\ k[2] \in DOMAIN list[k[1]].watchers
  BY DEF Watchers
<1>5. \A k \in Watchers(list) : WatcherOf(list, k) \in WatcherType
  BY <1>3, <1>4 DEF WatcherOf
<1>6. DOMAIN list = 1..Len(list) /\ Len(list) \in Nat
  OBVIOUS
<1>7. \A o \in DOMAIN list :
         DOMAIN list[o].watchers = 1..Len(list[o].watchers) /\ Len(list[o].watchers) \in Nat
  BY <1>2
<1> QED
  BY <1>1, <1>2, <1>3, <1>4, <1>5, <1>6, <1>7

\* The same watcher of the same URI, in two lists.
Same(new, k, old, j) == new[k[1]].uri = old[j[1]].uri /\ WatcherOf(new, k) = WatcherOf(old, j)

\* f takes the places D of the new list one to one to the places K of the old
\* list, with the same watcher.
Moves(new, D, old, K, f) ==
  /\ f \in [D -> Watchers(old)] /\ \A k \in D : f[k] \in K
  /\ \A i, j \in D : f[i] = f[j] => i = j
  /\ \A k \in D : Same(new, k, old, f[k])
  /\ \A j \in K : \E k \in D : f[k] = j

\* Update keeps the places and replaces the watchers.
LEMMA UpdateElements ==
  ASSUME NEW list, ListType(list), NEW now \in [Watchers(list) -> WatcherType]
  PROVE  /\ ListType(Update(list, now)) /\ DOMAIN Update(list, now) = DOMAIN list
         /\ Watchers(Update(list, now)) = Watchers(list)
         /\ \A o \in DOMAIN list : Update(list, now)[o].uri = list[o].uri
         /\ \A k \in Watchers(list) : WatcherOf(Update(list, now), k) = now[k]
<1> DEFINE new == Update(list, now)
<1>0. list \in Seq(ObservedType)
  BY DEF ListType
<1>1. DOMAIN new = DOMAIN list
  BY DEF Update
<1>2. \A o \in DOMAIN list :
         /\ new[o] = [list[o] EXCEPT !.watchers = [i \in DOMAIN list[o].watchers |-> now[<<o, i>>]]]
         /\ list[o] \in ObservedType
  BY <1>0, Places DEF Update
<1> HIDE DEF new
<1>3. \A o \in DOMAIN list :
         /\ new[o].uri = list[o].uri
         /\ new[o].watchers = [i \in DOMAIN list[o].watchers |-> now[<<o, i>>]]
  BY <1>2 DEF ObservedType
<1>4. \A o \in DOMAIN list : \A i \in DOMAIN list[o].watchers : now[<<o, i>>] \in WatcherType
  BY <1>0, Places
<1>5. ASSUME NEW o \in DOMAIN list
      PROVE  /\ new[o].watchers \in Seq(WatcherType) /\ new[o].watchers # <<>>
             /\ DOMAIN new[o].watchers = DOMAIN list[o].watchers
             /\ new[o] \in ObservedType
  <2>1. DOMAIN list[o].watchers = 1..Len(list[o].watchers) /\ Len(list[o].watchers) \in Nat
    BY <1>0, Places
  <2> DEFINE n == Len(list[o].watchers)
             here == [i \in 1..n |-> now[<<o, i>>]]
  <2>7. \A i \in 1..n : now[<<o, i>>] \in WatcherType
    BY <1>4, <2>1
  <2>8. here \in [1..n -> WatcherType]
    BY <2>7
  <2>9. new[o].watchers = here
    BY <1>3, <2>1, Zenon
  <2>2. new[o].watchers \in [1..Len(list[o].watchers) -> WatcherType]
    BY <2>8, <2>9
  <2>3. new[o].watchers \in Seq(WatcherType)
    BY <2>1, <2>2
  <2>4. Len(list[o].watchers) # 0
    BY <1>0, Places DEF ListType
  <2>5. new[o].watchers # <<>>
    BY <2>1, <2>2, <2>4
  <2>6. new[o] \in ObservedType
    BY <1>2, <2>3, <1>3 DEF ObservedType
  <2> QED
    BY <1>3, <2>3, <2>5, <2>6
<1>6. new \in Seq(ObservedType)
  <2>1. DOMAIN list = 1..Len(list) /\ Len(list) \in Nat
    BY <1>0, Places
  <2>2. new = [o \in 1..Len(list) |-> new[o]]
    BY <1>1, <2>1 DEF new, Update
  <2> QED
    BY <1>5, <2>1, <2>2
<1>7. Watchers(new) = Watchers(list)
  <2>1. \A o \in DOMAIN list : DOMAIN new[o].watchers = DOMAIN list[o].watchers
    BY <1>5
  <2>2. \A k : (\E o \in DOMAIN list : \E i \in DOMAIN new[o].watchers : k = <<o, i>>)
              <=> \E o \in DOMAIN list : \E i \in DOMAIN list[o].watchers : k = <<o, i>>
    BY <2>1
  <2>3. \A k : k \in Watchers(new) <=> k \in Watchers(list)
    BY <1>1, <2>2, PlacePairs
  <2> QED
    BY <2>3
<1>8. ASSUME NEW k \in Watchers(list) PROVE WatcherOf(new, k) = now[k]
  <2>1. k = <<k[1], k[2]>> /\ k[1] \in DOMAIN list /\ k[2] \in DOMAIN list[k[1]].watchers
    BY <1>0, Places
  <2>2. new[k[1]].watchers = [i \in DOMAIN list[k[1]].watchers |-> now[<<k[1], i>>]]
    BY <1>3, <2>1
  <2>3. new[k[1]].watchers[k[2]] = now[<<k[1], k[2]>>]
    BY <2>1, <2>2, Zenon
  <2>4. now[<<k[1], k[2]>>] = now[k]
    BY <2>1, Zenon
  <2> QED
    BY <2>3, <2>4 DEF WatcherOf
<1> QED
  BY <1>1, <1>3, <1>5, <1>6, <1>7, <1>8 DEF ListType, new
-----------------------------------------------------------------------------
(* The searches: 0 when there is none, else the position of one.           *)

\* prv_findObserved finds an entry at or below u.
LEMMA FindObserved ==
  ASSUME NEW list \in Seq(ObservedType), NEW u
  PROVE  LET i == prv_findObserved(list, u)
         IN  /\ i \in Nat
             /\ i = 0 => \A j \in DOMAIN list : ~(IsPrefix(u, list[j].uri))
             /\ i # 0 => i \in DOMAIN list /\ IsPrefix(u, list[i].uri)
<1> DEFINE hits == {j \in 1..Len(list) : IsPrefix(u, list[j].uri)}
<1>1. prv_findObserved(list, u) = IF hits # {} THEN Min(hits) ELSE 0
  BY DEF prv_findObserved, SelectInSeq
<1>2. Len(list) \in Nat /\ DOMAIN list = 1..Len(list) /\ hits \in SUBSET (1..Len(list))
  OBVIOUS
<1>3. /\ prv_findObserved(list, u) \in Nat
      /\ prv_findObserved(list, u) = 0 => hits = {}
      /\ prv_findObserved(list, u) # 0 => prv_findObserved(list, u) \in hits
  BY <1>1, <1>2, FirstHit
<1> QED
  BY <1>2, <1>3

\* observe_findByUri finds the entry of u.
LEMMA FindByUri ==
  ASSUME NEW list \in Seq(ObservedType), NEW u
  PROVE  LET i == observe_findByUri(list, u)
         IN  /\ i \in Nat
             /\ i = 0 => \A j \in DOMAIN list : ~(list[j].uri = u)
             /\ i # 0 => i \in DOMAIN list /\ list[i].uri = u
<1> DEFINE hits == {j \in 1..Len(list) : list[j].uri = u}
<1>1. observe_findByUri(list, u) = IF hits # {} THEN Min(hits) ELSE 0
  BY DEF observe_findByUri, SelectInSeq
<1>2. Len(list) \in Nat /\ DOMAIN list = 1..Len(list) /\ hits \in SUBSET (1..Len(list))
  OBVIOUS
<1>3. /\ observe_findByUri(list, u) \in Nat
      /\ observe_findByUri(list, u) = 0 => hits = {}
      /\ observe_findByUri(list, u) # 0 => observe_findByUri(list, u) \in hits
  BY <1>1, <1>2, FirstHit
<1> QED
  BY <1>2, <1>3

\* prv_findWatcher finds a watcher of s.
LEMMA FindWatcher ==
  ASSUME NEW o, o.watchers \in Seq(WatcherType), NEW s
  PROVE  LET i == prv_findWatcher(o, s)
         IN  /\ i \in Nat
             /\ i = 0 => \A j \in DOMAIN o.watchers : ~(o.watchers[j].server = s)
             /\ i # 0 => i \in DOMAIN o.watchers /\ o.watchers[i].server = s
<1> DEFINE hits == {j \in 1..Len(o.watchers) : o.watchers[j].server = s}
<1>1. prv_findWatcher(o, s) = IF hits # {} THEN Min(hits) ELSE 0
  BY DEF prv_findWatcher, SelectInSeq
<1>2. Len(o.watchers) \in Nat /\ DOMAIN o.watchers = 1..Len(o.watchers) /\ hits \in SUBSET (1..Len(o.watchers))
  OBVIOUS
<1>3. /\ prv_findWatcher(o, s) \in Nat
      /\ prv_findWatcher(o, s) = 0 => hits = {}
      /\ prv_findWatcher(o, s) # 0 => prv_findWatcher(o, s) \in hits
  BY <1>1, <1>2, FirstHit
<1> QED
  BY <1>2, <1>3

\* The search of observe_cancel finds a watcher of s with the last message id m.
LEMMA FindByMid ==
  ASSUME NEW o, o.watchers \in Seq(WatcherType), NEW m, NEW s
  PROVE  LET i == prv_findByMid(o, m, s)
         IN  /\ i \in Nat
             /\ i = 0 => \A j \in DOMAIN o.watchers : ~(o.watchers[j].mid = m /\ o.watchers[j].server = s)
             /\ i # 0 => i \in DOMAIN o.watchers /\ o.watchers[i].mid = m /\ o.watchers[i].server = s
<1> DEFINE hits == {j \in 1..Len(o.watchers) : o.watchers[j].mid = m /\ o.watchers[j].server = s}
<1>1. prv_findByMid(o, m, s) = IF hits # {} THEN Min(hits) ELSE 0
  BY DEF prv_findByMid, SelectInSeq
<1>2. Len(o.watchers) \in Nat /\ DOMAIN o.watchers = 1..Len(o.watchers) /\ hits \in SUBSET (1..Len(o.watchers))
  OBVIOUS
<1>3. /\ prv_findByMid(o, m, s) \in Nat
      /\ prv_findByMid(o, m, s) = 0 => hits = {}
      /\ prv_findByMid(o, m, s) # 0 => prv_findByMid(o, m, s) \in hits
  BY <1>1, <1>2, FirstHit
<1> QED
  BY <1>2, <1>3
-----------------------------------------------------------------------------
\* The watchers of one URI are replaced.
LEMMA SetWatchers ==
  ASSUME NEW list \in Seq(ObservedType), NEW i \in DOMAIN list, NEW W \in Seq(WatcherType)
  PROVE  /\ WithWatchers(list, i, W) \in Seq(ObservedType)
         /\ DOMAIN WithWatchers(list, i, W) = DOMAIN list
         /\ Len(WithWatchers(list, i, W)) = Len(list)
         /\ \A o \in DOMAIN list :
              /\ WithWatchers(list, i, W)[o].uri = list[o].uri
              /\ WithWatchers(list, i, W)[o].watchers = IF o = i THEN W ELSE list[o].watchers
<1> DEFINE new == WithWatchers(list, i, W)
           entry == [list[i] EXCEPT !.watchers = W]
<1>1. entry \in ObservedType /\ entry.uri = list[i].uri /\ entry.watchers = W
  <2>1. list[i] \in ObservedType
    OBVIOUS
  <2> QED
    BY <2>1 DEF ObservedType
<1>2. new = [list EXCEPT ![i] = entry]
  BY DEF WithWatchers
<1> HIDE DEF entry, new
<1>3. new \in Seq(ObservedType) /\ DOMAIN new = DOMAIN list /\ Len(new) = Len(list)
  BY <1>1, <1>2
<1>4. \A o \in DOMAIN list : new[o] = IF o = i THEN entry ELSE list[o]
  BY <1>2
<1> QED
  BY <1>1, <1>3, <1>4 DEF new

\* A watcher put at the head of the watchers of one URI.
LEMMA AddedWatcher ==
  ASSUME NEW list, ListType(list), NEW i \in DOMAIN list, NEW w \in WatcherType
  PROVE  /\ ListType(AddWatcher(list, i, w))
         /\ <<i, 1>> \in Watchers(AddWatcher(list, i, w))
         /\ AddWatcher(list, i, w)[i].uri = list[i].uri
         /\ WatcherOf(AddWatcher(list, i, w), <<i, 1>>) = w
         /\ \E f : Moves(AddWatcher(list, i, w), Watchers(AddWatcher(list, i, w)) \ {<<i, 1>>},
                        list, Watchers(list), f)
<1> DEFINE old == list[i].watchers
           new == AddWatcher(list, i, w)
           p == <<i, 1>>
           W == <<w>> \o old
           D == Watchers(new) \ {p}
           To(k) == <<k[1], IF k[1] = i THEN k[2] - 1 ELSE k[2]>>
           f == [k \in D |-> To(k)]
<1>0. list \in Seq(ObservedType)
  BY DEF ListType
<1>1. old \in Seq(WatcherType) /\ Len(old) \in Nat /\ DOMAIN old = 1..Len(old)
  BY <1>0, Places
<1>2. /\ W \in Seq(WatcherType) /\ Len(W) = Len(old) + 1 /\ W[1] = w
      /\ \A k \in 1..Len(old) : W[k + 1] = old[k]
      /\ \A k \in 2..(Len(old) + 1) : k - 1 \in 1..Len(old) /\ W[k] = old[k - 1]
  BY <1>1, ConsElements
<1>3. new = WithWatchers(list, i, W)
  BY DEF AddWatcher
<1> HIDE DEF W, new
<1>4. /\ new \in Seq(ObservedType) /\ DOMAIN new = DOMAIN list
      /\ \A o \in DOMAIN list :
           /\ new[o].uri = list[o].uri
           /\ new[o].watchers = IF o = i THEN W ELSE list[o].watchers
  BY <1>0, <1>2, <1>3, SetWatchers
<1>5. DOMAIN W = 1..(Len(old) + 1)
  BY <1>1, <1>2
<1>6. ListType(new)
  <2>1. W # <<>>
    BY <1>1, <1>2
  <2> QED
    BY <2>1, <1>4 DEF ListType
<1>7. p \in Watchers(new) /\ WatcherOf(new, p) = w
  <2>1. 1 \in DOMAIN W
    BY <1>1, <1>5
  <2>2. 1 \in DOMAIN new[i].watchers
    BY <2>1, <1>4
  <2> QED
    BY <2>2, <1>2, <1>4, PlacePairs DEF WatcherOf
<1>8. ASSUME NEW k \in D
      PROVE  /\ k = <<k[1], k[2]>> /\ k[1] \in DOMAIN list
             /\ k[1] = i => k[2] \in 2..(Len(old) + 1)
             /\ k[1] # i => k[2] \in DOMAIN list[k[1]].watchers
             /\ f[k] \in Watchers(list) /\ Same(new, k, list, f[k])
  <2>1. /\ k = <<k[1], k[2]>> /\ k[1] \in DOMAIN list /\ k # p
        /\ k[2] \in DOMAIN new[k[1]].watchers
    BY <1>4, Places
  <2>2. ASSUME k[1] = i
        PROVE  k[2] \in 2..(Len(old) + 1) /\ f[k] = <<i, k[2] - 1>>
    <3>1. k[2] \in 1..(Len(old) + 1) /\ k[2] # 1
      BY <2>1, <2>2, <1>4, <1>5
    <3> QED
      BY <3>1, <2>2
  <2>3. ASSUME k[1] # i PROVE k[2] \in DOMAIN list[k[1]].watchers /\ f[k] = k
    <3>1. k[2] \in DOMAIN list[k[1]].watchers
      BY <2>1, <2>3, <1>4
    <3> QED
      BY <3>1, <2>1, <2>3
  <2> HIDE DEF f
  <2>4. f[k] \in Watchers(list) /\ Same(new, k, list, f[k])
    <3>1. CASE k[1] = i
      <4>1. k[2] - 1 \in DOMAIN old /\ W[k[2]] = old[k[2] - 1]
        BY <1>1, <1>2, <2>2, <3>1
      <4>2. f[k] \in Watchers(list)
        BY <4>1, <2>2, <3>1, PlacePairs
      <4>3. WatcherOf(new, k) = W[k[2]] /\ WatcherOf(list, f[k]) = old[k[2] - 1]
        BY <2>2, <3>1, <1>4 DEF WatcherOf
      <4>4. new[k[1]].uri = list[f[k][1]].uri
        BY <2>2, <3>1, <1>4
      <4> QED
        BY <4>1, <4>2, <4>3, <4>4 DEF Same
    <3>2. CASE k[1] # i
      <4>1. f[k] \in Watchers(list) /\ f[k] = k
        BY <2>1, <2>3, <3>2, PlacePairs
      <4>2. WatcherOf(new, k) = WatcherOf(list, k) /\ new[k[1]].uri = list[k[1]].uri
        BY <2>1, <3>2, <1>4 DEF WatcherOf
      <4> QED
        BY <4>1, <4>2 DEF Same
    <3> QED
      BY <3>1, <3>2
  <2> QED
    BY <2>1, <2>2, <2>3, <2>4
<1>13. ASSUME NEW k \in D, k[1] = i PROVE k[2] \in Int
  <2>1. k[2] \in 2..(Len(old) + 1)
    BY <1>8, <1>13
  <2> QED
    BY <2>1, <1>1
<1>9. \A k, l \in D : f[k] = f[l] => k = l
  <2> SUFFICES ASSUME NEW k \in D, NEW l \in D, f[k] = f[l] PROVE k = l
    OBVIOUS
  <2>1. k = <<k[1], k[2]>> /\ l = <<l[1], l[2]>>
    BY <1>8
  <2>2. /\ k[1] = l[1]
        /\ (IF k[1] = i THEN k[2] - 1 ELSE k[2]) = (IF l[1] = i THEN l[2] - 1 ELSE l[2])
    OBVIOUS
  <2>3. k[2] = l[2]
    <3>1. CASE k[1] = i
      <4>1. k[2] \in Int /\ l[2] \in Int
        BY <3>1, <2>2, <1>13
      <4>2. k[2] - 1 = l[2] - 1
        BY <3>1, <2>2
      <4> QED
        BY <4>1, <4>2
    <3>2. CASE k[1] # i
      BY <3>2, <2>2
    <3> QED
      BY <3>1, <3>2
  <2> QED
    BY <2>1, <2>2, <2>3
<1>10. ASSUME NEW j \in Watchers(list) PROVE \E k \in D : f[k] = j
  <2>1. j = <<j[1], j[2]>> /\ j[1] \in DOMAIN list /\ j[2] \in DOMAIN list[j[1]].watchers
    BY <1>0, Places
  <2>2. CASE j[1] = i
    <3>1. j[2] \in 1..Len(old)
      BY <2>1, <2>2, <1>1
    <3>2. j[2] + 1 \in DOMAIN new[i].watchers /\ j[2] + 1 # 1 /\ j[2] + 1 - 1 = j[2]
      BY <3>1, <1>1, <1>4, <1>5
    <3>3. <<i, j[2] + 1>> \in D
      BY <3>2, <1>4, PlacePairs
    <3> DEFINE q == <<i, j[2] + 1>>
    <3>4. q \in D /\ q[1] = i /\ q[2] = j[2] + 1
      BY <3>3
    <3> HIDE DEF q, D
    <3>5. f[q] = To(q)
      BY <3>4
    <3>8. j[2] \in Nat
      BY <3>1
    <3>6. (IF q[1] = i THEN q[2] - 1 ELSE q[2]) = j[2]
      BY <3>4, <3>8
    <3>7. To(q) = <<i, j[2]>>
      BY <3>4, <3>6, Zenon
    <3> QED
      BY <2>1, <2>2, <3>4, <3>5, <3>7, Zenon
  <2>3. CASE j[1] # i
    <3>1. j \in D
      BY <2>1, <2>3, <1>4, PlacePairs
    <3> QED
      BY <3>1, <2>1, <2>3
  <2> QED
    BY <2>2, <2>3
<1>11. f \in [D -> Watchers(list)]
  BY <1>8
<1>12. Moves(new, D, list, Watchers(list), f)
  BY <1>8, <1>9, <1>10, <1>11, Zenon DEF Moves
<1> QED
  BY <1>4, <1>6, <1>7, <1>12 DEF new

\* A URI put at the head of the list, with one watcher.
LEMMA AddedObserved ==
  ASSUME NEW list, ListType(list), NEW u \in Uris, NEW w \in WatcherType
  PROVE  LET new == AddWatcher(AddObserved(list, u), 1, w)
         IN  /\ ListType(new) /\ <<1, 1>> \in Watchers(new) /\ new[1].uri = u
             /\ WatcherOf(new, <<1, 1>>) = w
             /\ \E f : Moves(new, Watchers(new) \ {<<1, 1>>}, list, Watchers(list), f)
<1> DEFINE base == AddObserved(list, u)
           entry == [uri |-> u, watchers |-> <<>>]
           new == AddWatcher(base, 1, w)
           p == <<1, 1>>
           D == Watchers(new) \ {p}
           To(k) == <<k[1] - 1, k[2]>>
           f == [k \in D |-> To(k)]
<1>0. list \in Seq(ObservedType) /\ Len(list) \in Nat /\ DOMAIN list = 1..Len(list)
  BY DEF ListType
<1>1. entry \in ObservedType /\ entry.uri = u /\ entry.watchers = <<>>
  BY DEF ObservedType
<1>2. /\ base \in Seq(ObservedType) /\ Len(base) = Len(list) + 1 /\ base[1] = entry
      /\ \A k \in 1..Len(list) : base[k + 1] = list[k]
      /\ \A k \in 2..(Len(list) + 1) : k - 1 \in 1..Len(list) /\ base[k] = list[k - 1]
  BY <1>0, <1>1, ConsElements DEF AddObserved
<1> HIDE DEF entry, base
<1>3. 1 \in DOMAIN base /\ DOMAIN base = 1..(Len(list) + 1)
  BY <1>0, <1>2
<1> DEFINE one == <<w>>
<1>4. new = WithWatchers(base, 1, one)
  <2>1. <<w>> \o <<>> = <<w>>
    OBVIOUS
  <2>2. <<w>> \o base[1].watchers = <<w>>
    BY <1>1, <1>2, <2>1
  <2> QED
    BY <2>2 DEF AddWatcher
<1> HIDE DEF new
<1>5. one \in Seq(WatcherType)
  OBVIOUS
<1> HIDE DEF one
<1>17. base \in Seq(ObservedType)
  BY <1>2
<1>6. /\ new \in Seq(ObservedType) /\ DOMAIN new = DOMAIN base
      /\ \A o \in DOMAIN base :
           /\ new[o].uri = base[o].uri
           /\ new[o].watchers = IF o = 1 THEN one ELSE base[o].watchers
  <2>1. 1 \in DOMAIN base
    BY <1>3
  <2>2. LET res == WithWatchers(base, 1, one)
        IN  /\ res \in Seq(ObservedType) /\ DOMAIN res = DOMAIN base
            /\ \A o \in DOMAIN base :
                 /\ res[o].uri = base[o].uri
                 /\ res[o].watchers = IF o = 1 THEN one ELSE base[o].watchers
    BY <1>5, <1>17, <2>1, SetWatchers
  <2> QED
    BY <1>4, <2>2
<1>7. new[1].uri = u /\ new[1].watchers = <<w>>
  BY <1>1, <1>2, <1>3, <1>6 DEF one
<1>8. \A o \in 2..(Len(list) + 1) :
         /\ o \in DOMAIN new /\ o - 1 \in DOMAIN list
         /\ new[o].uri = list[o - 1].uri /\ new[o].watchers = list[o - 1].watchers
  <2> SUFFICES ASSUME NEW o \in 2..(Len(list) + 1)
               PROVE  /\ o \in DOMAIN new /\ o - 1 \in DOMAIN list
                      /\ new[o].uri = list[o - 1].uri /\ new[o].watchers = list[o - 1].watchers
    OBVIOUS
  <2>1. o \in DOMAIN base /\ o # 1
    BY <1>0, <1>3
  <2>2. o - 1 \in 1..Len(list) /\ base[o] = list[o - 1]
    BY <1>2
  <2> QED
    BY <2>1, <2>2, <1>0, <1>6
<1>9. \A o \in DOMAIN new : o = 1 \/ o \in 2..(Len(list) + 1)
  BY <1>0, <1>3, <1>6
<1>10. ListType(new)
  <2>1. \A o \in DOMAIN new : new[o].watchers # <<>>
    <3>1. <<w>> # <<>>
      OBVIOUS
    <3> QED
      BY <3>1, <1>7, <1>8, <1>9 DEF ListType
  <2> QED
    BY <2>1, <1>6 DEF ListType
<1>11. p \in Watchers(new) /\ WatcherOf(new, p) = w
  <2>1. 1 \in DOMAIN new[1].watchers
    BY <1>7
  <2> QED
    BY <2>1, <1>3, <1>6, <1>7, PlacePairs DEF WatcherOf
<1>12. ASSUME NEW k \in D
       PROVE  /\ k = <<k[1], k[2]>> /\ k[1] \in Int
              /\ f[k] = <<k[1] - 1, k[2]>>
              /\ f[k] \in Watchers(list) /\ Same(new, k, list, f[k])
  <2>1. k = <<k[1], k[2]>> /\ k[1] \in DOMAIN new /\ k[2] \in DOMAIN new[k[1]].watchers
    BY <1>6, Places
  <2>2. k[1] # 1
    <3> SUFFICES ASSUME k[1] = 1 PROVE FALSE
      OBVIOUS
    <3>1. k[2] = 1
      BY <2>1, <1>7
    <3> QED
      BY <2>1, <3>1
  <2>3. k[1] \in 2..(Len(list) + 1)
    BY <2>1, <2>2, <1>9
  <2>4. f[k] = <<k[1] - 1, k[2]>>
    OBVIOUS
  <2> HIDE DEF f
  <2>5. f[k] \in Watchers(list)
    BY <2>1, <2>3, <2>4, <1>8, PlacePairs
  <2>6. Same(new, k, list, f[k])
    <3>1. new[k[1]].uri = list[k[1] - 1].uri /\ new[k[1]].watchers = list[k[1] - 1].watchers
      BY <2>3, <1>8
    <3>2. f[k][1] = k[1] - 1 /\ f[k][2] = k[2]
      BY <2>4
    <3> QED
      BY <3>1, <3>2, Zenon DEF Same, WatcherOf
  <2>7. k[1] \in Int
    BY <2>3, <1>0
  <2> QED
    BY <2>1, <2>4, <2>5, <2>6, <2>7
<1>13. \A k, l \in D : f[k] = f[l] => k = l
  <2> SUFFICES ASSUME NEW k \in D, NEW l \in D, f[k] = f[l] PROVE k = l
    OBVIOUS
  <2>1. /\ k = <<k[1], k[2]>> /\ k[1] \in Int /\ l = <<l[1], l[2]>> /\ l[1] \in Int
        /\ <<k[1] - 1, k[2]>> = <<l[1] - 1, l[2]>>
    BY <1>12
  <2>2. k[1] = l[1] /\ k[2] = l[2]
    BY <2>1
  <2> QED
    BY <2>1, <2>2
<1>14. ASSUME NEW j \in Watchers(list) PROVE \E k \in D : f[k] = j
  <2>1. j = <<j[1], j[2]>> /\ j[1] \in DOMAIN list /\ j[2] \in DOMAIN list[j[1]].watchers
    BY <1>0, Places
  <2> DEFINE q == <<j[1] + 1, j[2]>>
  <2>2. j[1] + 1 \in 2..(Len(list) + 1) /\ j[1] + 1 - 1 = j[1] /\ j[1] + 1 # 1
    BY <2>1, <1>0
  <2>9. j[1] \in Nat
    BY <2>1, <1>0
  <2>3. q[1] = j[1] + 1 /\ q[2] = j[2] /\ q # p
    BY <2>2
  <2>10. /\ q[1] \in 2..(Len(list) + 1) /\ q[1] - 1 = j[1] /\ j[2] \in DOMAIN list[j[1]].watchers
    <3> HIDE DEF q, f, D
    <3>1. q[1] - 1 = j[1]
      BY <2>9, <2>3
    <3> QED
      BY <2>1, <2>2, <2>3, <3>1
  <2>4. q[2] \in DOMAIN new[q[1]].watchers /\ q[1] \in DOMAIN new
    <3> HIDE DEF q
    <3> QED
      BY <2>3, <2>10, <1>8
  <2>5. q \in D
    BY <2>3, <2>4, PlacePairs
  <2> HIDE DEF q, D
  <2>6. f[q] = To(q)
    BY <2>5
  <2>8. q[1] - 1 = j[1]
    BY <2>3, <2>9
  <2>7. To(q) = <<j[1], j[2]>>
    BY <2>3, <2>8, Zenon
  <2> QED
    BY <2>1, <2>5, <2>6, <2>7, Zenon
<1>15. f \in [D -> Watchers(list)]
  BY <1>12
<1>16. Moves(new, D, list, Watchers(list), f)
  BY <1>12, <1>13, <1>14, <1>15, Zenon DEF Moves
<1> QED
  BY <1>7, <1>10, <1>11, <1>16 DEF new, base

\* What prv_getWatcher returns: the watcher of the server at this URI or below,
\* A URI of the list where a watcher of u is put: u or one below it that is
\* in the list already.
Entered(list, u, v) == IsPrefix(u, v) /\ (v = u \/ \E o \in DOMAIN list : list[o].uri = v)

\* or a new one beside the others.
LEMMA GetWatcher ==
  ASSUME ListType(observed), NEW u \in Uris, NEW s \in Servers,
         NewWatcher(s, u) \in WatcherType
  PROVE  LET g == prv_getWatcher(u, s)
             p == <<g.o, g.w>>
         IN  /\ ListType(g.list) /\ p \in Watchers(g.list)
             /\ Entered(observed, u, g.list[g.o].uri)
             /\ WatcherOf(g.list, p).server = s
             /\ \/ g.list = observed
                \/ /\ WatcherOf(g.list, p) = NewWatcher(s, u)
                   /\ \E f : Moves(g.list, Watchers(g.list) \ {p}, observed,
                                  Watchers(observed), f)
<1> DEFINE g == prv_getWatcher(u, s)
           p == <<g.o, g.w>>
           i == prv_findObserved(observed, u)
           fresh == [uri |-> u, watchers |-> <<>>]
           list == IF i = 0 THEN AddObserved(observed, u) ELSE observed
           o == IF i = 0 THEN 1 ELSE i
           j == prv_findWatcher(list[o], s)
           new == NewWatcher(s, u)
           result == AddWatcher(list, o, new)
<1>0. observed \in Seq(ObservedType)
  BY DEF ListType
<1>1. g = IF j # 0 THEN [list |-> list, o |-> o, w |-> j]
          ELSE [list |-> result, o |-> o, w |-> 1]
  BY DEF prv_getWatcher
<1>2. /\ i \in Nat
      /\ i = 0 => \A k \in DOMAIN observed : ~IsPrefix(u, observed[k].uri)
      /\ i # 0 => i \in DOMAIN observed /\ IsPrefix(u, observed[i].uri)
  BY <1>0, FindObserved
<1>3. u \in Seq(Nat) /\ IsPrefix(u, u)
  BY ObserveAssumption, PrefixElements
<1>4. fresh \in ObservedType
  BY DEF ObservedType
<1>5. list \in Seq(ObservedType) /\ o \in DOMAIN list /\ IsPrefix(u, list[o].uri)
  <2>1. CASE i = 0
    <3>1. /\ AddObserved(observed, u) \in Seq(ObservedType)
          /\ Len(AddObserved(observed, u)) = Len(observed) + 1
          /\ (AddObserved(observed, u))[1] = fresh
      BY <1>0, <1>4, ConsElements DEF AddObserved
    <3>2. 1 \in DOMAIN (AddObserved(observed, u))
      BY <1>0, <3>1
    <3> QED
      BY <2>1, <3>1, <3>2, <1>3
  <2>2. CASE i # 0
    BY <2>2, <1>0, <1>2
  <2> QED
    BY <2>1, <2>2
<1>6. list[o].watchers \in Seq(WatcherType)
  BY <1>5, Places
<1>7. /\ j \in Nat
      /\ j # 0 => j \in DOMAIN list[o].watchers /\ list[o].watchers[j].server = s
  BY <1>6, FindWatcher
<1>8. CASE j # 0
  <2>1. i # 0
    <3> SUFFICES ASSUME i = 0 PROVE FALSE
      OBVIOUS
    <3>1. (AddObserved(observed, u))[1] = fresh
      BY <1>0, <1>4, ConsElements DEF AddObserved
    <3>2. list[o].watchers = <<>>
      BY <3>1
    <3>3. DOMAIN list[o].watchers = {}
      BY <3>2
    <3> QED
      BY <1>7, <1>8, <3>3
  <2>2. g.list = observed /\ g.o = o /\ g.w = j /\ list = observed
    BY <1>1, <1>8, <2>1
  <2> HIDE DEF g, list, o, j
  <2>3. p = <<o, j>> /\ p \in Watchers(g.list) /\ WatcherOf(g.list, p).server = s
    <3>1. p = <<o, j>> /\ p[1] = o /\ p[2] = j
      BY <2>2
    <3>2. <<o, j>> \in Watchers(observed)
      BY <1>5, <1>7, <1>8, <2>2, PlacePairs
    <3> QED
      BY <1>7, <1>8, <2>2, <3>1, <3>2 DEF WatcherOf
  <2>4. Entered(observed, u, g.list[g.o].uri)
    BY <1>5, <2>2 DEF Entered
  <2> QED
    BY <2>2, <2>3, <2>4 DEF g
<1>9. CASE j = 0
  <2>1. g.list = result /\ g.o = o /\ g.w = 1
    BY <1>1, <1>9
  <2>2. p = <<o, 1>> /\ new.server = s
    BY <2>1 DEF NewWatcher
  <2>3. CASE i = 0
    <3>1. list = AddObserved(observed, u) /\ o = 1
      BY <2>3
    <3> HIDE DEF g, list, o, j, new, p
    <3>2. /\ ListType(g.list) /\ p \in Watchers(g.list) /\ g.list[g.o].uri = u
          /\ WatcherOf(g.list, p) = new
          /\ \E f : Moves(g.list, Watchers(g.list) \ {p}, observed, Watchers(observed), f)
      <4>1. new \in WatcherType
        BY DEF new
      <4> QED
        BY <2>1, <2>2, <3>1, <4>1, AddedObserved
    <3> QED
      BY <1>3, <2>2, <3>2 DEF g, new, p, Entered
  <2>4. CASE i # 0
    <3>1. list = observed /\ o = i
      BY <2>4
    <3> HIDE DEF g, list, o, j, new, p
    <3>2. /\ ListType(g.list) /\ p \in Watchers(g.list) /\ g.list[g.o].uri = list[o].uri
          /\ WatcherOf(g.list, p) = new
          /\ \E f : Moves(g.list, Watchers(g.list) \ {p}, observed, Watchers(observed), f)
      <4>1. new \in WatcherType
        BY DEF new
      <4> QED
        <5>1. i \in DOMAIN observed /\ p = <<i, 1>> /\ g.list = AddWatcher(observed, i, new)
          BY <2>1, <2>2, <3>1, <1>5
        <5>2. /\ ListType(AddWatcher(observed, i, new))
              /\ <<i, 1>> \in Watchers(AddWatcher(observed, i, new))
              /\ AddWatcher(observed, i, new)[i].uri = observed[i].uri
              /\ WatcherOf(AddWatcher(observed, i, new), <<i, 1>>) = new
              /\ \E f : Moves(AddWatcher(observed, i, new),
                             Watchers(AddWatcher(observed, i, new)) \ {<<i, 1>>},
                             observed, Watchers(observed), f)
          BY <4>1, <5>1, AddedWatcher
        <5>3. g.o = i
          BY <2>1, <3>1
        <5> QED
          BY <3>1, <5>1, <5>2, <5>3
    <3>3. Entered(observed, u, g.list[g.o].uri)
      BY <1>5, <3>1, <3>2 DEF Entered
    <3> QED
      BY <2>2, <3>2, <3>3 DEF g, new, p
  <2> QED
    BY <2>3, <2>4
<1> QED
  BY <1>8, <1>9
-----------------------------------------------------------------------------
\* One watcher is replaced.
LEMMA WithWatcherElements ==
  ASSUME NEW list, ListType(list), NEW p \in Watchers(list), NEW w \in WatcherType
  PROVE  /\ ListType(WithWatcher(list, p, w))
         /\ DOMAIN WithWatcher(list, p, w) = DOMAIN list
         /\ Watchers(WithWatcher(list, p, w)) = Watchers(list)
         /\ \A o \in DOMAIN list : WithWatcher(list, p, w)[o].uri = list[o].uri
         /\ WatcherOf(WithWatcher(list, p, w), p) = w
         /\ \A k \in Watchers(list) \ {p} :
              WatcherOf(WithWatcher(list, p, w), k) = WatcherOf(list, k)
<1> DEFINE now == [j \in Watchers(list) |-> IF j = p THEN w ELSE WatcherOf(list, j)]
<1>1. \A j \in Watchers(list) : WatcherOf(list, j) \in WatcherType
  BY Places DEF ListType
<1>2. now \in [Watchers(list) -> WatcherType]
  BY <1>1
<1>3. WithWatcher(list, p, w) = Update(list, now)
  BY DEF WithWatcher
<1>4. now[p] = w /\ \A k \in Watchers(list) \ {p} : now[k] = WatcherOf(list, k)
  OBVIOUS
<1> HIDE DEF now
<1>5. /\ ListType(Update(list, now)) /\ DOMAIN Update(list, now) = DOMAIN list
      /\ Watchers(Update(list, now)) = Watchers(list)
      /\ \A o \in DOMAIN list : Update(list, now)[o].uri = list[o].uri
      /\ \A k \in Watchers(list) : WatcherOf(Update(list, now), k) = now[k]
  BY <1>2, UpdateElements
<1> QED
  BY <1>3, <1>4, <1>5

\* The watcher at the place p that g gives is replaced by w: a watcher of s at
\* u, and what the others become.
PutResult(g, p, s, u, w) ==
  LET new == WithWatcher(g.list, p, w)
  IN  /\ ListType(new) /\ p \in Watchers(new) /\ WatcherOf(new, p) = w
      /\ Entered(observed, u, new[p[1]].uri) /\ WatcherOf(g.list, p).server = s
      /\ \/ /\ p \in Watchers(observed)
            /\ WatcherOf(g.list, p) = WatcherOf(observed, p)
            /\ new[p[1]].uri = observed[p[1]].uri
            /\ \E f : Moves(new, Watchers(new) \ {p}, observed,
                           Watchers(observed) \ {p}, f)
         \/ /\ WatcherOf(g.list, p) = NewWatcher(s, u)
            /\ \E f : Moves(new, Watchers(new) \ {p}, observed,
                           Watchers(observed), f)

\* The watcher prv_getWatcher returned is replaced.
LEMMA PutElements ==
  ASSUME ListType(observed), NEW u \in Uris, NEW s \in Servers,
         NewWatcher(s, u) \in WatcherType, NEW w \in WatcherType
  PROVE  LET g == prv_getWatcher(u, s) IN PutResult(g, <<g.o, g.w>>, s, u, w)
<1> DEFINE g == prv_getWatcher(u, s)
           p == <<g.o, g.w>>
           new == WithWatcher(g.list, p, w)
<1>1. /\ ListType(g.list) /\ p \in Watchers(g.list)
      /\ Entered(observed, u, g.list[g.o].uri)
      /\ WatcherOf(g.list, p).server = s
      /\ \/ g.list = observed
         \/ /\ WatcherOf(g.list, p) = NewWatcher(s, u)
            /\ \E f : Moves(g.list, Watchers(g.list) \ {p}, observed, Watchers(observed), f)
  BY GetWatcher
<1>2. p[1] = g.o
  OBVIOUS
<1> SUFFICES PutResult(g, p, s, u, w)
  OBVIOUS
<1> HIDE DEF g, p
<1>3. /\ ListType(new) /\ Watchers(new) = Watchers(g.list)
      /\ \A o \in DOMAIN g.list : new[o].uri = g.list[o].uri
      /\ WatcherOf(new, p) = w
      /\ \A k \in Watchers(g.list) \ {p} : WatcherOf(new, k) = WatcherOf(g.list, k)
  BY <1>1, WithWatcherElements
<1>4. \A k \in Watchers(g.list) : k[1] \in DOMAIN g.list
  BY <1>1, Places DEF ListType
<1>5. \A k \in Watchers(g.list) : new[k[1]].uri = g.list[k[1]].uri
  BY <1>3, <1>4
<1> HIDE DEF new
<1>6. CASE g.list = observed
  <2> DEFINE D == Watchers(observed) \ {p}
             f == [k \in D |-> k]
  <2>1. \A k \in D : f[k] = k
    OBVIOUS
  <2>2. f \in [D -> Watchers(observed)]
    OBVIOUS
  <2>3. \A k \in D : Same(new, k, observed, f[k])
    BY <1>3, <1>5, <1>6, <2>1 DEF Same
  <2> HIDE DEF f
  <2>4. Moves(new, D, observed, D, f)
    BY <2>1, <2>2, <2>3 DEF Moves
  <2> QED
    BY <1>1, <1>2, <1>3, <1>5, <1>6, <2>4 DEF PutResult, new
<1>7. CASE /\ WatcherOf(g.list, p) = NewWatcher(s, u)
           /\ \E f : Moves(g.list, Watchers(g.list) \ {p}, observed, Watchers(observed), f)
  <2> DEFINE D == Watchers(g.list) \ {p}
  <2>1. PICK f : Moves(g.list, D, observed, Watchers(observed), f)
    BY <1>7
  <2>2. \A k \in D : Same(new, k, observed, f[k])
    BY <2>1, <1>3, <1>5 DEF Moves, Same
  <2>3. Moves(new, D, observed, Watchers(observed), f)
    BY <2>1, <2>2 DEF Moves
  <2> QED
    BY <1>1, <1>2, <1>3, <1>5, <1>7, <2>3 DEF PutResult, new
<1> QED
  BY <1>1, <1>6, <1>7
-----------------------------------------------------------------------------
\* One watcher is taken out of those of a URI, which others watch.
LEMMA RemovedWatcher ==
  ASSUME NEW list, ListType(list), NEW r \in Watchers(list), NEW W,
         W = RemoveAt(list[r[1]].watchers, r[2]), W # <<>>
  PROVE  LET new == WithWatchers(list, r[1], W)
         IN  /\ ListType(new)
             /\ \E f : Moves(new, Watchers(new), list, Watchers(list) \ {r}, f)
<1> DEFINE i == r[1]
           h == r[2]
           old == list[i].watchers
           new == WithWatchers(list, i, W)
           D == Watchers(new)
           Behind(k) == IF k[1] = i /\ ~(k[2] < h) THEN k[2] + 1 ELSE k[2]
           To(k) == <<k[1], Behind(k)>>
           f == [k \in D |-> To(k)]
<1>0. list \in Seq(ObservedType) /\ r = <<i, h>> /\ i \in DOMAIN list /\ h \in DOMAIN old
  <2>1. list \in Seq(ObservedType)
    BY DEF ListType
  <2> QED
    BY <2>1, Places
<1> HIDE DEF i, h
<1>1. old \in Seq(WatcherType) /\ Len(old) \in Nat /\ DOMAIN old = 1..Len(old)
  BY <1>0, Places
<1>2. W = RemoveAt(old, h)
  BY DEF i, h
<1>3. /\ W \in Seq(WatcherType) /\ Len(W) = Len(old) - 1
      /\ \A j \in DOMAIN W :
           /\ j \in DOMAIN old /\ j + 1 \in DOMAIN old
           /\ W[j] = IF j < h THEN old[j] ELSE old[j + 1]
  <2> HIDE DEF old
  <2>1. /\ RemoveAt(old, h) \in Seq(WatcherType) /\ Len(RemoveAt(old, h)) = Len(old) - 1
        /\ \A j \in DOMAIN RemoveAt(old, h) :
             /\ j \in DOMAIN old /\ j + 1 \in DOMAIN old
             /\ RemoveAt(old, h)[j] = IF j < h THEN old[j] ELSE old[j + 1]
    BY <1>0, <1>1, RemoveAtElements
  <2> QED
    BY <1>2, <2>1
<1>4. DOMAIN W = 1..(Len(old) - 1)
  BY <1>3
<1>5. /\ new \in Seq(ObservedType) /\ DOMAIN new = DOMAIN list
      /\ \A o \in DOMAIN list :
           /\ new[o].uri = list[o].uri
           /\ new[o].watchers = IF o = i THEN W ELSE list[o].watchers
  BY <1>0, <1>3, SetWatchers
<1> HIDE DEF new, old
<1>6. ListType(new)
  BY <1>5 DEF ListType
<1>7. ASSUME NEW k \in D
      PROVE  /\ k = <<k[1], k[2]>> /\ k[1] \in DOMAIN list
             /\ k[1] = i => /\ k[2] \in DOMAIN W
                            /\ f[k] = <<i, IF k[2] < h THEN k[2] ELSE k[2] + 1>>
             /\ k[1] # i => k[2] \in DOMAIN list[k[1]].watchers /\ f[k] = k
             /\ f[k] \in Watchers(list) /\ Same(new, k, list, f[k])
  <2>1. k = <<k[1], k[2]>> /\ k[1] \in DOMAIN list /\ k[2] \in DOMAIN new[k[1]].watchers
    BY <1>5, Places
  <2>2. ASSUME k[1] = i
        PROVE  /\ k[2] \in DOMAIN W
               /\ f[k] = <<i, IF k[2] < h THEN k[2] ELSE k[2] + 1>>
    BY <2>1, <2>2, <1>5
  <2>3. ASSUME k[1] # i PROVE k[2] \in DOMAIN list[k[1]].watchers /\ f[k] = k
    <3>1. k[2] \in DOMAIN list[k[1]].watchers
      BY <2>1, <2>3, <1>5
    <3> QED
      BY <3>1, <2>1, <2>3
  <2> HIDE DEF f
  <2>4. f[k] \in Watchers(list) /\ Same(new, k, list, f[k])
    <3>1. CASE k[1] = i
      <4> DEFINE t == IF k[2] < h THEN k[2] ELSE k[2] + 1
      <4>1. t \in DOMAIN old /\ W[k[2]] = old[t]
        BY <1>3, <2>2, <3>1
      <4>2. f[k] = <<i, t>>
        BY <2>2, <3>1
      <4> HIDE DEF t
      <4>3. f[k] \in Watchers(list)
        BY <4>1, <4>2, <1>0, PlacePairs DEF old
      <4>4. f[k][1] = i /\ f[k][2] = t
        BY <4>2
      <4>5. WatcherOf(new, k) = W[k[2]] /\ new[k[1]].uri = list[i].uri
        BY <3>1, <1>0, <1>5 DEF WatcherOf
      <4>6. WatcherOf(list, f[k]) = old[t]
        BY <4>4 DEF WatcherOf, old
      <4> QED
        BY <4>1, <4>3, <4>4, <4>5, <4>6 DEF Same
    <3>2. CASE k[1] # i
      <4>1. f[k] \in Watchers(list) /\ f[k] = k
        BY <2>1, <2>3, <3>2, PlacePairs
      <4>2. WatcherOf(new, k) = WatcherOf(list, k) /\ new[k[1]].uri = list[k[1]].uri
        BY <2>1, <3>2, <1>5 DEF WatcherOf
      <4> QED
        BY <4>1, <4>2 DEF Same
    <3> QED
      BY <3>1, <3>2
  <2> QED
    BY <2>1, <2>2, <2>3, <2>4
<1>8. f \in [D -> Watchers(list)] /\ \A k \in D : f[k] # r
  <2>1. ASSUME NEW k \in D PROVE f[k] # r
    <3>1. CASE k[1] = i
      <4> DEFINE t == IF k[2] < h THEN k[2] ELSE k[2] + 1
      <4>1. k[2] \in DOMAIN W /\ f[k] = <<i, t>>
        BY <1>7, <3>1
      <4>2. k[2] \in Int /\ h \in Int
        BY <4>1, <1>0, <1>1, <1>4
      <4>3. t # h
        BY <4>2
      <4> HIDE DEF t
      <4> QED
        BY <4>1, <4>3, <1>0
    <3>2. CASE k[1] # i
      BY <1>0, <1>7, <3>2
    <3> QED
      BY <3>1, <3>2
  <2> QED
    BY <1>7, <2>1
<1> HIDE DEF f, D
<1>9. ASSUME NEW k \in D, NEW l \in D, f[k] = f[l] PROVE k = l
  <2>1. k = <<k[1], k[2]>> /\ l = <<l[1], l[2]>>
    BY <1>7
  <2>2. k[1] = i \/ f[k] = k
    BY <1>7
  <2>3. l[1] = i \/ f[l] = l
    BY <1>7
  <2>4. k[1] = i => f[k] = <<i, IF k[2] < h THEN k[2] ELSE k[2] + 1>>
    BY <1>7
  <2>5. l[1] = i => f[l] = <<i, IF l[2] < h THEN l[2] ELSE l[2] + 1>>
    BY <1>7
  <2>6. k[1] = i <=> l[1] = i
    BY <1>9, <2>2, <2>3, <2>4, <2>5
  <2>7. CASE k[1] = i
    <3>1. k[2] \in DOMAIN W /\ l[2] \in DOMAIN W
      BY <1>7, <2>6, <2>7
    <3>2. k[2] \in Int /\ l[2] \in Int
      BY <1>1, <1>4, <3>1
    <3>3. (IF k[2] < h THEN k[2] ELSE k[2] + 1) = (IF l[2] < h THEN l[2] ELSE l[2] + 1)
      BY <1>9, <2>4, <2>5, <2>6, <2>7
    <3>4. h \in Int
      BY <1>0, <1>1
    <3>5. k[2] = l[2]
      BY <3>2, <3>3, <3>4
    <3> QED
      BY <2>1, <2>6, <2>7, <3>5
  <2>8. CASE k[1] # i
    BY <1>9, <2>2, <2>3, <2>6, <2>8
  <2> QED
    BY <2>7, <2>8
<1>10. ASSUME NEW j \in Watchers(list), j # r PROVE \E k \in D : f[k] = j
  <2>1. j = <<j[1], j[2]>> /\ j[1] \in DOMAIN list /\ j[2] \in DOMAIN list[j[1]].watchers
    BY <1>0, Places
  <2>2. CASE j[1] = i
    <3> DEFINE t == IF j[2] < h THEN j[2] ELSE j[2] - 1
               q == <<i, t>>
    <3>1. j[2] \in DOMAIN old /\ j[2] # h
      BY <1>0, <1>10, <2>1, <2>2 DEF old
    <3>2. /\ j[2] \in Nat /\ h \in Nat /\ t \in DOMAIN W
          /\ (IF t < h THEN t ELSE t + 1) = j[2]
      BY <3>1, <1>0, <1>1, <1>4
    <3> HIDE DEF t
    <3>3. q \in D /\ q[1] = i /\ q[2] = t
      <4>1. t \in DOMAIN new[i].watchers /\ i \in DOMAIN new
        BY <3>2, <1>0, <1>5
      <4> QED
        BY <4>1, PlacePairs DEF D
    <3> HIDE DEF q
    <3>4. f[q] = <<i, IF t < h THEN t ELSE t + 1>>
      BY <3>3, <1>7
    <3> QED
      BY <3>2, <3>3, <3>4, <2>1, <2>2
  <2>3. CASE j[1] # i
    <3>1. j \in D
      <4>1. j[1] \in DOMAIN new /\ j[2] \in DOMAIN new[j[1]].watchers
        BY <2>1, <2>3, <1>5
      <4> QED
        BY <4>1, <2>1, PlacePairs DEF D
    <3> QED
      BY <3>1, <2>3, <1>7
  <2> QED
    BY <2>2, <2>3
<1>11. Moves(new, D, list, Watchers(list) \ {r}, f)
  BY <1>7, <1>8, <1>9, <1>10 DEF Moves
<1> QED
  BY <1>6, <1>11 DEF new, D, i

\* A URI is taken out of the list, with its only watcher.
LEMMA RemovedObserved ==
  ASSUME NEW list, ListType(list), NEW r \in Watchers(list),
         Len(list[r[1]].watchers) = 1
  PROVE  LET new == RemoveAt(list, r[1])
         IN  /\ ListType(new)
             /\ \E f : Moves(new, Watchers(new), list, Watchers(list) \ {r}, f)
<1> DEFINE i == r[1]
           new == RemoveAt(list, i)
           D == Watchers(new)
           Old(o) == IF o < i THEN o ELSE o + 1
           f == [k \in D |-> <<Old(k[1]), k[2]>>]
<1>0. /\ list \in Seq(ObservedType) /\ r = <<i, r[2]>> /\ i \in DOMAIN list
      /\ r[2] \in DOMAIN list[i].watchers
  <2>1. list \in Seq(ObservedType)
    BY DEF ListType
  <2> QED
    BY <2>1, Places
<1>1. r[2] = 1 /\ DOMAIN list[i].watchers = 1..1
  <2>1. DOMAIN list[i].watchers = 1..1
    BY <1>0, Places
  <2> QED
    BY <2>1, <1>0
<1> HIDE DEF i
<1>2. Len(list) \in Nat /\ DOMAIN list = 1..Len(list) /\ i \in Int
  BY <1>0
<1>3. /\ new \in Seq(ObservedType) /\ Len(new) = Len(list) - 1
      /\ \A o \in DOMAIN new :
           /\ o \in DOMAIN list /\ o + 1 \in DOMAIN list
           /\ new[o] = IF o < i THEN list[o] ELSE list[o + 1]
  BY <1>0, RemoveAtElements
<1>4. DOMAIN new = 1..(Len(list) - 1)
  BY <1>3
<1> HIDE DEF new
<1>5. \A o \in DOMAIN new : Old(o) \in DOMAIN list /\ new[o] = list[Old(o)] /\ Old(o) # i
  BY <1>2, <1>3, <1>4
<1>6. \A o, p \in DOMAIN new : Old(o) = Old(p) => o = p
  BY <1>2, <1>4
<1>7. ListType(new)
  BY <1>3, <1>5 DEF ListType
<1>8. \A o \in DOMAIN list : o # i => \E p \in DOMAIN new : Old(p) = o
  <2> SUFFICES ASSUME NEW o \in DOMAIN list, o # i
               PROVE  \E p \in DOMAIN new : Old(p) = o
    OBVIOUS
  <2> DEFINE p == IF o < i THEN o ELSE o - 1
  <2>1. p \in 1..(Len(list) - 1) /\ Old(p) = o
    BY <1>0, <1>2
  <2> QED
    BY <2>1, <1>4
<1> HIDE DEF Old
<1>9. ASSUME NEW k \in D
      PROVE  /\ k = <<k[1], k[2]>> /\ k[1] \in DOMAIN new
             /\ f[k] = <<Old(k[1]), k[2]>>
             /\ f[k] \in Watchers(list) /\ Same(new, k, list, f[k])
  <2>1. k = <<k[1], k[2]>> /\ k[1] \in DOMAIN new /\ k[2] \in DOMAIN new[k[1]].watchers
    BY <1>3, Places
  <2>2. f[k] = <<Old(k[1]), k[2]>>
    OBVIOUS
  <2> HIDE DEF f
  <2>3. Old(k[1]) \in DOMAIN list /\ new[k[1]] = list[Old(k[1])]
    BY <2>1, <1>5
  <2>4. f[k] \in Watchers(list)
    BY <2>1, <2>2, <2>3, PlacePairs
  <2>5. f[k][1] = Old(k[1]) /\ f[k][2] = k[2]
    BY <2>2
  <2>6. Same(new, k, list, f[k])
    BY <2>3, <2>5 DEF Same, WatcherOf
  <2> QED
    BY <2>1, <2>2, <2>4, <2>6
<1>10. f \in [D -> Watchers(list)] /\ \A k \in D : f[k] # r
  <2>1. ASSUME NEW k \in D PROVE f[k] # r
    <3>1. f[k] = <<Old(k[1]), k[2]>> /\ Old(k[1]) # i
      BY <1>5, <1>9
    <3> QED
      BY <3>1, <1>0
  <2> QED
    BY <1>9, <2>1
<1> HIDE DEF f, D
<1>11. ASSUME NEW k \in D, NEW l \in D, f[k] = f[l] PROVE k = l
  <2>1. /\ k = <<k[1], k[2]>> /\ l = <<l[1], l[2]>>
        /\ k[1] \in DOMAIN new /\ l[1] \in DOMAIN new
        /\ f[k] = <<Old(k[1]), k[2]>> /\ f[l] = <<Old(l[1]), l[2]>>
    BY <1>9
  <2>2. Old(k[1]) = Old(l[1]) /\ k[2] = l[2]
    BY <2>1, <1>11
  <2> QED
    BY <2>1, <2>2, <1>6
<1>12. ASSUME NEW j \in Watchers(list), j # r PROVE \E k \in D : f[k] = j
  <2>1. j = <<j[1], j[2]>> /\ j[1] \in DOMAIN list /\ j[2] \in DOMAIN list[j[1]].watchers
    BY <1>0, Places
  <2>2. j[1] # i
    <3> SUFFICES ASSUME j[1] = i PROVE FALSE
      OBVIOUS
    <3>1. j[2] = 1
      BY <2>1, <1>1
    <3> QED
      BY <2>1, <3>1, <1>0, <1>1, <1>12
  <2>3. PICK p \in DOMAIN new : Old(p) = j[1]
    BY <2>1, <2>2, <1>8
  <2> DEFINE q == <<p, j[2]>>
  <2>4. q[1] = p /\ q[2] = j[2] /\ j[2] \in DOMAIN new[p].watchers
    BY <2>1, <2>3, <1>5
  <2>5. q \in D
    BY <2>4, PlacePairs DEF D
  <2> HIDE DEF q
  <2>6. f[q] = <<Old(q[1]), q[2]>>
    BY <2>5, <1>9
  <2> QED
    BY <2>1, <2>3, <2>4, <2>5, <2>6
<1>13. Moves(new, D, list, Watchers(list) \ {r}, f)
  BY <1>9, <1>10, <1>11, <1>12 DEF Moves
<1> QED
  BY <1>7, <1>13 DEF new, D, i
-----------------------------------------------------------------------------
\* What observe_cancel does to the list: nothing when no watcher of the session
\* has this message id, otherwise one that has it is gone.
LEMMA CancelElements ==
  ASSUME NEW list, ListType(list), NEW m, NEW s
  PROVE  LET new == observe_cancel(list, m, s)
         IN  /\ ListType(new)
             /\ \/ /\ new = list
                   /\ \A k \in Watchers(list) :
                        ~(WatcherOf(list, k).mid = m /\ WatcherOf(list, k).server = s)
                \/ \E r \in Watchers(list) :
                     /\ WatcherOf(list, r).mid = m /\ WatcherOf(list, r).server = s
                     /\ \E f : Moves(new, Watchers(new), list, Watchers(list) \ {r}, f)
<1> DEFINE hits == {j \in 1..Len(list) : prv_findByMid(list[j], m, s) # 0}
           i == IF hits # {} THEN Min(hits) ELSE 0
           h == prv_findByMid(list[i], m, s)
           rest == RemoveAt(list[i].watchers, h)
           new == observe_cancel(list, m, s)
<1>0. list \in Seq(ObservedType) /\ Len(list) \in Nat /\ DOMAIN list = 1..Len(list)
  BY DEF ListType
<1>1. new = IF i = 0 THEN list
            ELSE IF rest = <<>> THEN RemoveAt(list, i)
            ELSE WithWatchers(list, i, rest)
  BY DEF observe_cancel, prv_unlinkObserved, SelectInSeq
<1>2. i \in Nat /\ (i = 0 => hits = {}) /\ (i # 0 => i \in hits)
  BY <1>0, FirstHit
<1>3. \A o \in DOMAIN list :
        /\ list[o].watchers \in Seq(WatcherType)
        /\ prv_findByMid(list[o], m, s) = 0 =>
             \A j \in DOMAIN list[o].watchers :
               ~(list[o].watchers[j].mid = m /\ list[o].watchers[j].server = s)
        /\ prv_findByMid(list[o], m, s) # 0 =>
             LET j == prv_findByMid(list[o], m, s)
             IN  /\ j \in DOMAIN list[o].watchers
                 /\ list[o].watchers[j].mid = m /\ list[o].watchers[j].server = s
  BY <1>0, Places, FindByMid
<1>4. CASE i = 0
  <2>1. new = list /\ \A o \in DOMAIN list : prv_findByMid(list[o], m, s) = 0
    BY <1>0, <1>1, <1>2, <1>4
  <2>2. ASSUME NEW k \in Watchers(list)
        PROVE  ~(WatcherOf(list, k).mid = m /\ WatcherOf(list, k).server = s)
    <3>1. k[1] \in DOMAIN list /\ k[2] \in DOMAIN list[k[1]].watchers
      BY <1>0, Places
    <3> QED
      BY <2>1, <3>1, <1>3 DEF WatcherOf
  <2> QED
    BY <2>1, <2>2
<1>5. CASE i # 0
  <2> DEFINE r == <<i, h>>
  <2>1. i \in DOMAIN list /\ h # 0
    BY <1>0, <1>2, <1>5
  <2> HIDE DEF i, h
  <2>2. /\ h \in DOMAIN list[i].watchers
        /\ list[i].watchers[h].mid = m /\ list[i].watchers[h].server = s
    BY <2>1, <1>3 DEF h
  <2>3. r \in Watchers(list) /\ r[1] = i /\ r[2] = h
    BY <2>1, <2>2, PlacePairs
  <2>4. WatcherOf(list, r).mid = m /\ WatcherOf(list, r).server = s
    BY <2>2, <2>3 DEF WatcherOf
  <2>5. list[i].watchers \in Seq(WatcherType) /\ Len(list[i].watchers) \in Nat
    BY <1>3, <2>1
  <2>6. Len(rest) = Len(list[i].watchers) - 1
    BY <2>2, <2>5, RemoveAtElements
  <2> HIDE DEF r, rest, new
  <2>7. CASE rest = <<>>
    <3>1. Len(list[i].watchers) = 1
      BY <2>5, <2>6, <2>7
    <3>2. new = RemoveAt(list, r[1]) /\ Len(list[r[1]].watchers) = 1
      BY <1>1, <1>5, <2>3, <2>7, <3>1
    <3>3. /\ ListType(RemoveAt(list, r[1]))
          /\ \E f : Moves(RemoveAt(list, r[1]), Watchers(RemoveAt(list, r[1])), list,
                         Watchers(list) \ {r}, f)
      BY <2>3, <3>2, RemovedObserved
    <3> QED
      BY <2>3, <2>4, <3>2, <3>3 DEF new
  <2>8. CASE rest # <<>>
    <3>1. new = WithWatchers(list, r[1], rest) /\ rest = RemoveAt(list[r[1]].watchers, r[2])
      BY <1>1, <1>5, <2>3, <2>8 DEF rest
    <3>2. /\ ListType(WithWatchers(list, r[1], rest))
          /\ \E f : Moves(WithWatchers(list, r[1], rest),
                         Watchers(WithWatchers(list, r[1], rest)), list,
                         Watchers(list) \ {r}, f)
      BY <2>3, <2>8, <3>1, RemovedWatcher
    <3> QED
      BY <2>3, <2>4, <3>1, <3>2 DEF new
  <2> QED
    BY <2>7, <2>8
<1> QED
  BY <1>4, <1>5

\* What observe_clear leaves: the watchers of the other URIs.
LEMMA ClearElements ==
  ASSUME NEW list, ListType(list), NEW u
  PROVE  LET new == observe_clear(list, u)
         IN  /\ ListType(new)
             /\ \A o \in DOMAIN new : ~IsPrefix(u, new[o].uri)
             /\ \E f : Moves(new, Watchers(new), list,
                            {k \in Watchers(list) : ~IsPrefix(u, list[k[1]].uri)}, f)
<1> DEFINE K == {i \in DOMAIN list : ~IsPrefix(u, list[i].uri)}
           new == observe_clear(list, u)
           D == Watchers(new)
           f == [k \in D |-> <<Nth(K, k[1]), k[2]>>]
<1>0. list \in Seq(ObservedType) /\ K \in SUBSET (DOMAIN list)
  BY DEF ListType
<1>1. new = Keep(list, K)
  BY DEF observe_clear
<1>k. \A i \in K : i \in DOMAIN list /\ ~IsPrefix(u, list[i].uri)
  OBVIOUS
<1>l. \A i \in DOMAIN list : ~IsPrefix(u, list[i].uri) => i \in K
  OBVIOUS
<1> HIDE DEF K, new
<1>2. /\ new \in Seq(ObservedType)
      /\ \A j \in DOMAIN new : Nth(K, j) \in K /\ new[j] = list[Nth(K, j)]
      /\ \A i, j \in DOMAIN new : i < j => Nth(K, i) < Nth(K, j)
      /\ \A i \in K : \E j \in DOMAIN new : Nth(K, j) = i
  BY <1>0, <1>1, KeepElements
<1>3. ListType(new)
  BY <1>2, <1>k DEF ListType
<1>4. \A o \in DOMAIN new : ~IsPrefix(u, new[o].uri)
  BY <1>2, <1>k
<1>5. \A i, j \in DOMAIN new : Nth(K, i) = Nth(K, j) => i = j
  <2> SUFFICES ASSUME NEW i \in DOMAIN new, NEW j \in DOMAIN new, Nth(K, i) = Nth(K, j)
               PROVE  i = j
    OBVIOUS
  <2>1. i \in Nat /\ j \in Nat
    BY <1>2
  <2>2. Nth(K, i) \in Nat /\ Nth(K, j) \in Nat
    BY <1>0, <1>2
  <2>3. ~(i < j) /\ ~(j < i)
    BY <1>2, <2>2
  <2> QED
    BY <2>1, <2>3
<1>6. ASSUME NEW k \in D
      PROVE  /\ k = <<k[1], k[2]>> /\ k[1] \in DOMAIN new
             /\ f[k] = <<Nth(K, k[1]), k[2]>>
             /\ f[k] \in Watchers(list) /\ Same(new, k, list, f[k])
  <2>1. k = <<k[1], k[2]>> /\ k[1] \in DOMAIN new /\ k[2] \in DOMAIN new[k[1]].watchers
    BY <1>2, Places
  <2>2. f[k] = <<Nth(K, k[1]), k[2]>>
    OBVIOUS
  <2> HIDE DEF f
  <2>3. Nth(K, k[1]) \in DOMAIN list /\ new[k[1]] = list[Nth(K, k[1])]
    BY <2>1, <1>2, <1>k
  <2>4. f[k] \in Watchers(list)
    BY <2>1, <2>2, <2>3, PlacePairs
  <2>5. f[k][1] = Nth(K, k[1]) /\ f[k][2] = k[2]
    BY <2>2
  <2>6. Same(new, k, list, f[k])
    BY <2>3, <2>5 DEF Same, WatcherOf
  <2> QED
    BY <2>1, <2>2, <2>4, <2>6
<1>7. f \in [D -> Watchers(list)] /\ \A k \in D : ~IsPrefix(u, list[f[k][1]].uri)
  <2>1. ASSUME NEW k \in D PROVE ~IsPrefix(u, list[f[k][1]].uri)
    <3>1. f[k][1] = Nth(K, k[1]) /\ k[1] \in DOMAIN new
      BY <1>6
    <3>2. Nth(K, k[1]) \in K
      BY <3>1, <1>2
    <3> QED
      BY <3>1, <3>2, <1>k
  <2> QED
    BY <1>6, <2>1
<1> HIDE DEF f, D
<1>8. ASSUME NEW k \in D, NEW l \in D, f[k] = f[l] PROVE k = l
  <2>1. /\ k = <<k[1], k[2]>> /\ l = <<l[1], l[2]>>
        /\ k[1] \in DOMAIN new /\ l[1] \in DOMAIN new
        /\ f[k] = <<Nth(K, k[1]), k[2]>> /\ f[l] = <<Nth(K, l[1]), l[2]>>
    BY <1>6
  <2>2. Nth(K, k[1]) = Nth(K, l[1]) /\ k[2] = l[2]
    BY <2>1, <1>8
  <2> QED
    BY <2>1, <2>2, <1>5
<1>9. ASSUME NEW j \in Watchers(list), ~IsPrefix(u, list[j[1]].uri)
      PROVE  \E k \in D : f[k] = j
  <2>1. j = <<j[1], j[2]>> /\ j[1] \in DOMAIN list /\ j[2] \in DOMAIN list[j[1]].watchers
    BY <1>0, Places
  <2>2. PICK p \in DOMAIN new : Nth(K, p) = j[1]
    BY <2>1, <1>9, <1>2, <1>l
  <2> DEFINE q == <<p, j[2]>>
  <2>3. q[1] = p /\ q[2] = j[2] /\ j[2] \in DOMAIN new[p].watchers
    BY <2>1, <2>2, <1>2
  <2>4. q \in D
    BY <2>3, PlacePairs DEF D
  <2> HIDE DEF q
  <2>5. f[q] = <<Nth(K, q[1]), q[2]>>
    BY <2>4, <1>6
  <2> QED
    BY <2>1, <2>2, <2>3, <2>4, <2>5
<1>10. Moves(new, D, list, {k \in Watchers(list) : ~IsPrefix(u, list[k[1]].uri)}, f)
  <2>1. \A j \in {k \in Watchers(list) : ~IsPrefix(u, list[k[1]].uri)} : \E k \in D : f[k] = j
    BY <1>9
  <2> QED
    BY <1>6, <1>7, <1>8, <2>1 DEF Moves
<1> QED
  BY <1>3, <1>4, <1>10 DEF new, D
-----------------------------------------------------------------------------
(* Message ids.                                                            *)

\* A list has finitely many watchers.
LEMMA WatchersFinite ==
  ASSUME NEW list \in Seq(ObservedType)
  PROVE  IsFiniteSet(Watchers(list)) /\ Cardinality(Watchers(list)) \in Nat
<1> DEFINE Row(o) == {<<o, i>> : i \in DOMAIN list[o].watchers}
           Rows == {Row(o) : o \in DOMAIN list}
<1>1. ASSUME NEW o \in DOMAIN list PROVE IsFiniteSet(Row(o))
  <2> DEFINE S == DOMAIN list[o].watchers
             f == [i \in S |-> <<o, i>>]
  <2>1. S = 1..Len(list[o].watchers) /\ Len(list[o].watchers) \in Nat
    BY Places
  <2>2. IsFiniteSet(S)
    BY <2>1, FS_Interval
  <2> HIDE DEF S
  <2>3. f \in Surjection(S, {<<o, i>> : i \in S})
    BY DEF Surjection
  <2>4. IsFiniteSet({<<o, i>> : i \in S})
    BY <2>2, <2>3, FS_Surjection
  <2> QED
    BY <2>4 DEF S
<1> HIDE DEF Row
<1>2. IsFiniteSet(Rows)
  <2> DEFINE S == DOMAIN list
             f == [o \in S |-> Row(o)]
  <2>1. S = 1..Len(list) /\ Len(list) \in Nat
    OBVIOUS
  <2>2. IsFiniteSet(S)
    BY <2>1, FS_Interval
  <2> HIDE DEF S
  <2>3. f \in Surjection(S, {Row(o) : o \in S})
    BY DEF Surjection
  <2>4. IsFiniteSet({Row(o) : o \in S})
    BY <2>2, <2>3, FS_Surjection
  <2> QED
    BY <2>4 DEF S
<1>3. \A T \in Rows : IsFiniteSet(T)
  BY <1>1
<1>4. IsFiniteSet(UNION Rows)
  BY <1>2, <1>3, FS_UNION
<1>5. IsFiniteSet(Watchers(list))
  BY <1>4 DEF Watchers, Row
<1> QED
  BY <1>5, FS_CardinalityType

\* The message id of a new answer is one the server's watchers do not have.
LEMMA FreshMid ==
  ASSUME ListType(observed), NEW s
  PROVE  /\ Fresh(MidsOf(s)) \in Nat \ {0}
         /\ Fresh(MidsOf(s)) \notin MidsOf(s)
<1> DEFINE S == {j \in Watchers(observed) : WatcherOf(observed, j).server = s}
           used == {WatcherOf(observed, k).mid : k \in S}
           f == [k \in S |-> WatcherOf(observed, k).mid]
           n == Cardinality(used)
<1>1. IsFiniteSet(Watchers(observed)) /\ S \in SUBSET Watchers(observed)
  BY WatchersFinite DEF ListType
<1>2. IsFiniteSet(S)
  BY <1>1, FS_Subset
<1>3. MidsOf(s) = used
  BY DEF MidsOf
<1> HIDE DEF S
<1>4. f \in Surjection(S, used)
  BY DEF Surjection
<1>5. IsFiniteSet(used)
  BY <1>2, <1>4, FS_Surjection
<1> HIDE DEF used, f
<1>6. n \in Nat
  BY <1>5, FS_CardinalityType
<1>7. \E m \in 1..(n + 1) : m \notin used
  <2> SUFFICES ASSUME \A m \in 1..(n + 1) : m \in used PROVE FALSE
    OBVIOUS
  <2>1. 1..(n + 1) \in SUBSET used
    OBVIOUS
  <2>2. Cardinality(1..(n + 1)) <= n
    BY <2>1, <1>5, FS_Subset
  <2>3. Cardinality(1..(n + 1)) = n + 1
    BY <1>6, FS_Interval
  <2> QED
    BY <2>2, <2>3, <1>6
<1>8. Fresh(used) \in 1..(n + 1) /\ Fresh(used) \notin used
  BY <1>7 DEF Fresh
<1> QED
  BY <1>3, <1>6, <1>8

\* The message ids of the notifications of a step are in use nowhere else.
LEMMA NewMids ==
  ASSUME ListType(observed)
  PROVE  /\ \A k \in Due : NewMid(k) \in Nat \ {0} /\ NewMid(k) \notin UsedMids
         /\ \A k, l \in Due : NewMid(k) = NewMid(l) => k = l
<1> DEFINE W == Watchers(observed)
           n == Cardinality(W)
           f == [k \in W |-> WatcherOf(observed, k).mid]
           rank(k) == Cardinality(Earlier(k)) + 1
<1>0. observed \in Seq(ObservedType) /\ IsFiniteSet(W) /\ n \in Nat
  BY WatchersFinite DEF ListType
<1>1. Due \in SUBSET W
  BY DEF Due
<1>2. IsFiniteSet(UsedMids) /\ Cardinality(UsedMids) \in Nat /\ Cardinality(UsedMids) <= n
  <2>1. f \in Surjection(W, UsedMids)
    BY DEF Surjection, UsedMids
  <2> QED
    BY <1>0, <2>1, FS_Surjection, FS_CardinalityType
<1>3. /\ FreeMids \in SUBSET (1..(2 * n + 1))
      /\ n + 1 <= Cardinality(FreeMids) /\ Cardinality(FreeMids) \in Nat
  <2> DEFINE I == 1..(2 * n + 1)
  <2>1. FreeMids = I \ UsedMids
    BY DEF FreeMids
  <2>2. IsFiniteSet(I) /\ Cardinality(I) = 2 * n + 1
    <3> DEFINE b == 2 * n + 1
    <3>1. b \in Int /\ ~(1 > b) /\ b - 1 + 1 = b
      BY <1>0
    <3> HIDE DEF b
    <3>2. IsFiniteSet(1..b) /\ Cardinality(1..b) = b
      BY <3>1, FS_Interval
    <3> QED
      BY <3>2 DEF b
  <2> HIDE DEF I
  <2>3. IsFiniteSet(I \cap UsedMids) /\ Cardinality(I \cap UsedMids) <= Cardinality(UsedMids)
    BY <1>2, FS_Intersection
  <2>4. /\ Cardinality(I \ UsedMids) = Cardinality(I) - Cardinality(I \cap UsedMids)
        /\ IsFiniteSet(I \ UsedMids)
    BY <2>2, FS_Difference
  <2>5. Cardinality(I \cap UsedMids) \in Nat /\ Cardinality(I \ UsedMids) \in Nat
    BY <2>3, <2>4, FS_CardinalityType
  <2>6. n + 1 <= Cardinality(I \ UsedMids)
    BY <1>0, <1>2, <2>2, <2>3, <2>4, <2>5
  <2>7. I \ UsedMids \in SUBSET I
    OBVIOUS
  <2> QED
    BY <2>1, <2>5, <2>6, <2>7 DEF I
<1>4. ASSUME NEW k \in Due
      PROVE  /\ IsFiniteSet(Earlier(k)) /\ Cardinality(Earlier(k)) \in Nat
             /\ rank(k) \in 1..Cardinality(FreeMids) /\ k \notin Earlier(k)
             /\ k[1] \in Int /\ k[2] \in Int /\ k = <<k[1], k[2]>>
  <2>1. k \in W
    BY <1>1
  <2>2. k = <<k[1], k[2]>> /\ k[1] \in Int /\ k[2] \in Int
    <3>1. /\ k = <<k[1], k[2]>> /\ k[1] \in DOMAIN observed
          /\ k[2] \in DOMAIN observed[k[1]].watchers
      BY <1>0, <2>1, Places
    <3>2. /\ DOMAIN observed = 1..Len(observed)
          /\ DOMAIN observed[k[1]].watchers = 1..Len(observed[k[1]].watchers)
      BY <1>0, <3>1, Places
    <3> QED
      BY <3>1, <3>2
  <2>3. Earlier(k) \in SUBSET W /\ k \notin Earlier(k)
    <3>1. ~(k[1] < k[1]) /\ ~(k[2] < k[2])
      BY <2>2
    <3> QED
      BY <3>1, <1>1 DEF Earlier
  <2>4. IsFiniteSet(Earlier(k)) /\ Cardinality(Earlier(k)) \in Nat
        /\ Cardinality(Earlier(k)) <= n
    BY <1>0, <2>3, FS_Subset, FS_CardinalityType
  <2>5. rank(k) \in 1..Cardinality(FreeMids)
    BY <1>0, <1>3, <2>4
  <2> QED
    BY <2>2, <2>3, <2>4, <2>5
<1>5. ASSUME NEW k \in Due PROVE NewMid(k) \in Nat \ {0} /\ NewMid(k) \notin UsedMids
  <2>1. NewMid(k) \in FreeMids
    <3>1. 2 * n + 1 \in Nat
      BY <1>0
    <3> HIDE DEF n
    <3>2. Nth(FreeMids, rank(k)) \in FreeMids
      BY <1>3, <1>4, <3>1, NthElement
    <3> QED
      BY <3>2 DEF NewMid
  <2> QED
    BY <2>1, <1>0 DEF FreeMids
<1>6. ASSUME NEW k \in Due, NEW l \in Due,
             k[1] < l[1] \/ (k[1] = l[1] /\ k[2] < l[2])
      PROVE  NewMid(k) < NewMid(l)
  <2>1. k \in Earlier(l)
    BY <1>6 DEF Earlier
  <2>2. \A j \in Due : j[1] < k[1] \/ (j[1] = k[1] /\ j[2] < k[2]) =>
                         j[1] < l[1] \/ (j[1] = l[1] /\ j[2] < l[2])
    <3> SUFFICES ASSUME NEW j \in Due, j[1] < k[1] \/ (j[1] = k[1] /\ j[2] < k[2])
                 PROVE  j[1] < l[1] \/ (j[1] = l[1] /\ j[2] < l[2])
      OBVIOUS
    <3>1. j[1] \in Int /\ j[2] \in Int
      BY <1>4
    <3>2. k[1] \in Int /\ k[2] \in Int
      BY <1>4
    <3>3. l[1] \in Int /\ l[2] \in Int
      BY <1>4
    <3> QED
      BY <1>6, <3>1, <3>2, <3>3
  <2>3. Earlier(k) \in SUBSET Earlier(l)
    BY <2>2, Zenon DEF Earlier
  <2>4. Earlier(k) # Earlier(l)
    BY <2>1, <1>4
  <2>5. Cardinality(Earlier(k)) < Cardinality(Earlier(l))
    <3>1. /\ IsFiniteSet(Earlier(l))
          /\ Cardinality(Earlier(k)) \in Nat /\ Cardinality(Earlier(l)) \in Nat
      BY <1>4
    <3>2. /\ Cardinality(Earlier(k)) <= Cardinality(Earlier(l))
          /\ Cardinality(Earlier(l)) = Cardinality(Earlier(k)) => Earlier(l) = Earlier(k)
      BY <2>3, <3>1, FS_Subset
    <3> QED
      BY <2>4, <3>1, <3>2
  <2>6. rank(k) \in 1..Cardinality(FreeMids) /\ rank(l) \in 1..Cardinality(FreeMids)
    BY <1>4
  <2>7. rank(k) < rank(l)
    <3>1. Cardinality(Earlier(k)) \in Nat /\ Cardinality(Earlier(l)) \in Nat
      BY <1>4
    <3> QED
      BY <2>5, <3>1
  <2>8. 2 * n + 1 \in Nat
    BY <1>0
  <2> HIDE DEF n, rank
  <2>9. Nth(FreeMids, rank(k)) < Nth(FreeMids, rank(l))
    BY <1>3, <2>6, <2>7, <2>8, NthOrdered
  <2> QED
    BY <2>9 DEF NewMid, rank
<1>7. ASSUME NEW k \in Due, NEW l \in Due, NewMid(k) = NewMid(l) PROVE k = l
  <2>1. ~(k[1] < l[1] \/ (k[1] = l[1] /\ k[2] < l[2]))
    <3> SUFFICES ASSUME k[1] < l[1] \/ (k[1] = l[1] /\ k[2] < l[2]) PROVE FALSE
      OBVIOUS
    <3>1. NewMid(k) < NewMid(l)
      BY <1>6
    <3>2. NewMid(k) \in Nat
      BY <1>5
    <3> QED
      BY <1>7, <3>1, <3>2
  <2>2. ~(l[1] < k[1] \/ (l[1] = k[1] /\ l[2] < k[2]))
    <3> SUFFICES ASSUME l[1] < k[1] \/ (l[1] = k[1] /\ l[2] < k[2]) PROVE FALSE
      OBVIOUS
    <3>1. NewMid(l) < NewMid(k)
      BY <1>6
    <3>2. NewMid(k) \in Nat
      BY <1>5
    <3> QED
      BY <1>7, <3>1, <3>2
  <2>3. k[1] \in Int /\ k[2] \in Int /\ k = <<k[1], k[2]>>
    BY <1>4
  <2>4. l[1] \in Int /\ l[2] \in Int /\ l = <<l[1], l[2]>>
    BY <1>4
  <2>5. k[1] = l[1] /\ k[2] = l[2]
    BY <2>1, <2>2, <2>3, <2>4
  <2> QED
    BY <2>3, <2>4, <2>5
<1> QED
  BY <1>5, <1>7

-----------------------------------------------------------------------------
(* Types.                                                                  *)

Sound(w) ==
  /\ w.token \in Tokens[w.server] \cup {NoToken}
  /\ w.params.toSet # {} => w.params.alloc

Subs == {t \in [Servers -> [Uris -> TokenSet]] :
           \A s \in Servers, u \in Uris : t[s][u] \in Tokens[s] \cup {NoToken}}

DataInv ==
  /\ value \in [Resources -> Values] /\ present \in SUBSET Resources
  /\ timeout \in 0..StepTimeout /\ sub \in Subs

AllSound(list) == \A k \in Watchers(list) : Sound(WatcherOf(list, k))

TypeInv == DataInv /\ ListType(observed) /\ AllSound(observed)

\* What object_readData returns.
LEMMA ReadingType ==
  ASSUME DataInv, NEW u
  PROVE  object_readData(u) \in Readings
<1>1. value \in [Resources -> Values] /\ Below(u) \in SUBSET Resources
  BY DEF DataInv, Below
<1>2. object_readData(u) \in [Below(u) -> Values]
  BY <1>1 DEF object_readData
<1> QED
  BY <1>1, <1>2 DEF Readings

\* The watcher prv_getWatcher adds is a watcher.
LEMMA NewWatcherType ==
  ASSUME DataInv, NEW s \in Servers, NEW u
  PROVE  NewWatcher(s, u) \in WatcherType /\ Sound(NewWatcher(s, u))
<1>1. object_readData(u) \in Readings
  BY ReadingType
<1>2. NoParameters \in ParamType
  BY DEF NoParameters, ParamType, Flags
<1>3. NoToken \in TokenSet
  BY DEF TokenSet
<1>4. 0 \in 0..MaxAge
  BY ObserveAssumption
<1>5. NewWatcher(s, u) \in WatcherType
  BY <1>1, <1>2, <1>3, <1>4 DEF NewWatcher, WatcherType
<1>6. Sound(NewWatcher(s, u))
  BY DEF NewWatcher, Sound, NoParameters
<1> QED
  BY <1>5, <1>6

\* Attributes that prv_readAttributes accepts leave parameters that are sound.
LEMMA NewParametersType ==
  ASSUME NEW p \in ParamType, NEW a \in Attributes, prv_readAttributes(a),
         p.toSet # {} => p.alloc
  PROVE  /\ NewParameters(p, a) \in ParamType
         /\ NewParameters(p, a).toSet # {} => NewParameters(p, a).alloc
<1> DEFINE n == [alloc |-> TRUE,
                 toSet |-> IF p.alloc THEN p.toSet \ a.toClear ELSE a.toSet,
                 pmin |-> InForce(p, a, "pmin"), pmax |-> InForce(p, a, "pmax"),
                 gt |-> InForce(p, a, "gt"), lt |-> InForce(p, a, "lt"),
                 st |-> InForce(p, a, "st")]
<1>1. NewParameters(p, a) = p \/ NewParameters(p, a) = n
  BY DEF NewParameters
<1>2. /\ p.toSet \in SUBSET Flags /\ a.toSet \in SUBSET Flags
      /\ p.pmin \in Nat /\ p.pmax \in Nat /\ p.gt \in Int /\ p.lt \in Int /\ p.st \in Nat
      /\ a.pmin \in Nat /\ a.pmax \in Nat /\ a.gt \in Int /\ a.lt \in Int /\ a.st \in Nat
  BY DEF ParamType, Attributes, prv_readAttributes
<1>3. n \in ParamType
  <2>1. n.toSet \in SUBSET Flags
    BY <1>2
  <2>2. /\ InForce(p, a, "pmin") \in Nat /\ InForce(p, a, "pmax") \in Nat
        /\ InForce(p, a, "gt") \in Int /\ InForce(p, a, "lt") \in Int
        /\ InForce(p, a, "st") \in Nat
    BY <1>2 DEF InForce
  <2> QED
    BY <2>1, <2>2 DEF ParamType
<1>4. n.alloc = TRUE
  OBVIOUS
<1> QED
  BY <1>1, <1>3, <1>4

\* Watchers that are only moved stay sound.
LEMMA MovedSound ==
  ASSUME NEW new, NEW old, NEW D, NEW K, NEW f, Moves(new, D, old, K, f), AllSound(old)
  PROVE  \A k \in D : Sound(WatcherOf(new, k))
BY DEF Moves, Same, AllSound

-----------------------------------------------------------------------------
(* What the actions do to the list.                                        *)

\* A watcher of s at u or below is put at p, with the parameters and the tag
\* it had if there was one; the others stay.
Put(new, old, p, s, u, w) ==
  /\ ListType(new) /\ p \in Watchers(new) /\ WatcherOf(new, p) = w
  /\ Entered(old, u, new[p[1]].uri) /\ w.server = s
  /\ \/ /\ p \in Watchers(old) /\ new[p[1]].uri = old[p[1]].uri
        /\ WatcherOf(old, p).server = s
        /\ \E f : Moves(new, Watchers(new) \ {p}, old, Watchers(old) \ {p}, f)
     \/ \E f : Moves(new, Watchers(new) \ {p}, old, Watchers(old), f)

\* Some watchers are taken out: those in R.
Taken(new, old, R) ==
  /\ ListType(new)
  /\ \E f : Moves(new, Watchers(new), old, Watchers(old) \ R, f)

\* Every watcher stays in its place and becomes now[k].
Kept(new, old, now) ==
  /\ ListType(new) /\ Watchers(new) = Watchers(old)
  /\ \A k \in Watchers(old) : new[k[1]].uri = old[k[1]].uri /\ WatcherOf(new, k) = now[k]

\* observe_handleRequest puts an active watcher with a fresh message id and the
\* current value in the list.
LEMMA RequestShape ==
  ASSUME TypeInv, NEW s \in Servers, NEW u \in Uris, NEW token \in Tokens[s],
         observe_handleRequest(s, u, token)
  PROVE  \E p, w :
           /\ Put(observed', observed, p, s, u, w)
           /\ w \in WatcherType /\ Sound(w)
           /\ w.active = TRUE /\ w.token = token /\ w.mid = Fresh(MidsOf(s))
           /\ w.last = object_readData(u)
<1> DEFINE g == prv_getWatcher(u, s)
           p == <<g.o, g.w>>
           old == WatcherOf(g.list, p)
           w == [old EXCEPT !.active = TRUE, !.token = token, !.age = 0,
                            !.mid = Fresh(MidsOf(s)), !.last = object_readData(u)]
<1>1. DataInv /\ ListType(observed) /\ AllSound(observed)
  BY DEF TypeInv
<1>2. NewWatcher(s, u) \in WatcherType /\ Sound(NewWatcher(s, u))
  BY <1>1, NewWatcherType
<1>3. /\ ListType(g.list) /\ p \in Watchers(g.list) /\ old.server = s
      /\ \/ g.list = observed
         \/ old = NewWatcher(s, u)
  BY <1>1, <1>2, GetWatcher
<1>4. observed' = WithWatcher(g.list, p, w)
  BY DEF observe_handleRequest
<1> HIDE DEF g, p
<1>5. old \in WatcherType
  BY <1>3, Places DEF ListType
<1>6. Sound(old)
  BY <1>1, <1>2, <1>3 DEF AllSound
<1> HIDE DEF old
<1>7. /\ token \in TokenSet /\ 0 \in 0..MaxAge
      /\ Fresh(MidsOf(s)) \in Nat /\ object_readData(u) \in Readings
  BY <1>1, ObserveAssumption, FreshMid, ReadingType DEF TokenSet
<1>8. /\ w \in WatcherType /\ w.active = TRUE /\ w.token = token /\ w.server = s
      /\ w.mid = Fresh(MidsOf(s)) /\ w.last = object_readData(u) /\ w.params = old.params
  BY <1>3, <1>5, <1>7 DEF WatcherType
<1>9. Sound(w)
  BY <1>6, <1>8 DEF Sound
<1> HIDE DEF w
<1>10. Put(observed', observed, p, s, u, w)
  <2>1. PutResult(g, p, s, u, w)
    BY <1>1, <1>2, <1>8, PutElements DEF g, p
  <2> QED
    BY <1>4, <1>8, <2>1 DEF PutResult, Put
<1> QED
  BY <1>8, <1>9, <1>10

\* observe_setParameters leaves an inactive watcher inactive.
LEMMA ParametersShape ==
  ASSUME TypeInv, NEW s \in Servers, NEW u \in Uris, NEW a \in Attributes,
         prv_readAttributes(a), observe_setParameters(s, u, a)
  PROVE  \E p, w :
           /\ Put(observed', observed, p, s, u, w)
           /\ w \in WatcherType /\ Sound(w)
           /\ \/ /\ p \in Watchers(observed) /\ observed'[p[1]].uri = observed[p[1]].uri
                 /\ \E f : Moves(observed', Watchers(observed') \ {p}, observed,
                                Watchers(observed) \ {p}, f)
                 /\ LET old == WatcherOf(observed, p)
                    IN  /\ w.server = old.server
                        /\ w.active = old.active /\ w.token = old.token /\ w.mid = old.mid
                        /\ w.last = old.last /\ w.update = old.update
              \/ /\ \E f : Moves(observed', Watchers(observed') \ {p}, observed,
                                Watchers(observed), f)
                 /\ w.active = FALSE /\ w.mid = 0
<1> DEFINE g == prv_getWatcher(u, s)
           p == <<g.o, g.w>>
           old == WatcherOf(g.list, p)
           w == [old EXCEPT !.params = NewParameters(old.params, a)]
<1>1. DataInv /\ ListType(observed) /\ AllSound(observed)
  BY DEF TypeInv
<1>2. NewWatcher(s, u) \in WatcherType /\ Sound(NewWatcher(s, u))
  BY <1>1, NewWatcherType
<1>3. /\ ListType(g.list) /\ p \in Watchers(g.list) /\ old.server = s
      /\ \/ g.list = observed
         \/ old = NewWatcher(s, u)
  BY <1>1, <1>2, GetWatcher
<1>4. observed' = WithWatcher(g.list, p, w)
  BY DEF observe_setParameters
<1> HIDE DEF g, p
<1>5. old \in WatcherType
  BY <1>3, Places DEF ListType
<1>6. Sound(old)
  BY <1>1, <1>2, <1>3 DEF AllSound
<1>old. old = WatcherOf(g.list, p)
  OBVIOUS
<1> HIDE DEF old
<1>7. old.params \in ParamType /\ (old.params.toSet # {} => old.params.alloc)
  BY <1>5, <1>6 DEF WatcherType, Sound
<1> DEFINE new == NewParameters(old.params, a)
<1>8. new \in ParamType /\ (new.toSet # {} => new.alloc)
  BY <1>7, NewParametersType
<1> HIDE DEF new
<1>9. /\ w \in WatcherType /\ w.server = s /\ w.params = new
      /\ w.active = old.active /\ w.token = old.token /\ w.mid = old.mid
      /\ w.last = old.last /\ w.update = old.update
  BY <1>3, <1>5, <1>8 DEF WatcherType, new
<1>10. Sound(w)
  BY <1>3, <1>6, <1>8, <1>9 DEF Sound
<1> HIDE DEF w
<1>11. PutResult(g, p, s, u, w)
  BY <1>1, <1>2, <1>9, PutElements DEF g, p
<1>12. Put(observed', observed, p, s, u, w)
  BY <1>4, <1>9, <1>11 DEF PutResult, Put
<1>13. NewWatcher(s, u).active = FALSE /\ NewWatcher(s, u).mid = 0
  BY DEF NewWatcher
<1> QED
  BY <1>4, <1>old, <1>9, <1>10, <1>11, <1>12, <1>13 DEF PutResult

\* observe_cancel takes out one watcher with the id and the session, if there
\* is one.
LEMMA CancelShape ==
  ASSUME TypeInv, NEW m, NEW s
  PROVE  LET new == observe_cancel(observed, m, s)
         IN  \/ /\ new = observed
                /\ \A k \in Watchers(observed) :
                     ~(WatcherOf(observed, k).mid = m /\ WatcherOf(observed, k).server = s)
             \/ \E r \in Watchers(observed) :
                  /\ WatcherOf(observed, r).mid = m /\ WatcherOf(observed, r).server = s
                  /\ Taken(new, observed, {r})
BY CancelElements DEF TypeInv, Taken

\* Deleting an instance takes out the watchers of what is in it, and no others.
LEMMA DeleteShape ==
  ASSUME TypeInv, NEW inst, object_delete(inst)
  PROVE  /\ Taken(observed', observed,
                  {k \in Watchers(observed) : IsPrefix(inst, observed[k[1]].uri)})
         /\ \A o \in DOMAIN observed' : ~IsPrefix(inst, observed'[o].uri)
<1> DEFINE new == observe_clear(observed, inst)
           R == {k \in Watchers(observed) : IsPrefix(inst, observed[k[1]].uri)}
<1>1. observed' = new /\ ListType(observed)
  BY DEF object_delete, TypeInv
<1>2. /\ ListType(new) /\ \A o \in DOMAIN new : ~IsPrefix(inst, new[o].uri)
      /\ \E f : Moves(new, Watchers(new), observed,
                     {k \in Watchers(observed) : ~IsPrefix(inst, observed[k[1]].uri)}, f)
  BY <1>1, ClearElements
<1>3. {k \in Watchers(observed) : ~IsPrefix(inst, observed[k[1]].uri)} = Watchers(observed) \ R
  OBVIOUS
<1> QED
  BY <1>1, <1>2, <1>3 DEF Taken

\* Update leaves every watcher in its place.
LEMMA KeptShape ==
  ASSUME ListType(observed), NEW now,
         now \in [Watchers(observed) -> WatcherType]
  PROVE  Kept(Update(observed, now), observed, now)
<1>1. /\ ListType(Update(observed, now))
      /\ Watchers(Update(observed, now)) = Watchers(observed)
      /\ \A o \in DOMAIN observed : Update(observed, now)[o].uri = observed[o].uri
      /\ \A k \in Watchers(observed) : WatcherOf(Update(observed, now), k) = now[k]
  BY UpdateElements
<1>2. \A k \in Watchers(observed) : k[1] \in DOMAIN observed
  BY Places DEF ListType
<1> QED
  BY <1>1, <1>2 DEF Kept
-----------------------------------------------------------------------------
\* The same watcher but for its tag, its age and what was last sent.
Alike(v, w) ==
  /\ v.server = w.server /\ v.active = w.active /\ v.token = w.token
  /\ v.params = w.params

\* Every watcher stays in its place.
Placed(new, old) ==
  /\ ListType(new) /\ Watchers(new) = Watchers(old)
  /\ \A k \in Watchers(old) :
       new[k[1]].uri = old[k[1]].uri /\ Alike(WatcherOf(new, k), WatcherOf(old, k))

\* lwm2m_resource_value_changed only tags, and tags every active watcher of a
\* URI it touches.
LEMMA ChangedShape ==
  ASSUME TypeInv, NEW u, handle_value_changed(u)
  PROVE  /\ Placed(observed', observed)
         /\ \A k \in Watchers(observed) :
              LET w == WatcherOf(observed, k)
                  v == WatcherOf(observed', k)
              IN  /\ v.mid = w.mid /\ v.last = w.last /\ v.age = w.age
                  /\ v.update = (w.update \/ (w.active /\ Touches(u, observed[k[1]].uri)))
<1> DEFINE Tag(k) == WatcherOf(observed, k).update
                       \/ (WatcherOf(observed, k).active /\ Touches(u, observed[k[1]].uri))
           now == [k \in Watchers(observed) |-> [WatcherOf(observed, k) EXCEPT !.update = Tag(k)]]
<1>1. ListType(observed)
  BY DEF TypeInv
<1>2. \A k \in Watchers(observed) : WatcherOf(observed, k) \in WatcherType
  BY <1>1, Places DEF ListType
<1>3. observed' = Update(observed, now)
  BY Zenon DEF handle_value_changed, lwm2m_resource_value_changed
<1>4. ASSUME NEW k \in Watchers(observed)
      PROVE  /\ now[k] \in WatcherType
             /\ LET w == WatcherOf(observed, k)
                IN  /\ now[k].server = w.server /\ now[k].active = w.active
                    /\ now[k].token = w.token /\ now[k].params = w.params
                    /\ now[k].mid = w.mid /\ now[k].last = w.last /\ now[k].age = w.age
             /\ now[k].update = Tag(k)
  <2>1. now[k] = [WatcherOf(observed, k) EXCEPT !.update = Tag(k)]
    OBVIOUS
  <2> HIDE DEF now
  <2>2. Tag(k) \in BOOLEAN /\ WatcherOf(observed, k) \in WatcherType
    BY <1>2 DEF WatcherType
  <2> HIDE DEF Tag
  <2> QED
    BY <2>1, <2>2 DEF WatcherType
<1>5. now \in [Watchers(observed) -> WatcherType]
  BY <1>4
<1> HIDE DEF now
<1>6. Kept(observed', observed, now)
  BY <1>1, <1>3, <1>5, KeptShape
<1> QED
  BY <1>4, <1>6 DEF Kept, Placed, Alike

\* Time only lets the watchers get older, by one at most.
LEMMA TickShape ==
  ASSUME TypeInv, Tick
  PROVE  /\ Placed(observed', observed)
         /\ \A k \in Watchers(observed) :
              LET w == WatcherOf(observed, k)
                  v == WatcherOf(observed', k)
              IN  /\ v.mid = w.mid /\ v.last = w.last /\ v.update = w.update
                  /\ v.age = w.age \/ v.age = w.age + 1
<1> DEFINE Old(k) == WatcherOf(observed, k).age
           Age(k) == IF Old(k) < MaxAge THEN Old(k) + 1 ELSE Old(k)
           now == [k \in Watchers(observed) |-> [WatcherOf(observed, k) EXCEPT !.age = Age(k)]]
<1>1. ListType(observed)
  BY DEF TypeInv
<1>2. \A k \in Watchers(observed) : WatcherOf(observed, k) \in WatcherType
  BY <1>1, Places DEF ListType
<1>3. observed' = Update(observed, now)
  BY Zenon DEF Tick
<1>4. ASSUME NEW k \in Watchers(observed)
      PROVE  /\ now[k] \in WatcherType
             /\ LET w == WatcherOf(observed, k)
                IN  /\ now[k].server = w.server /\ now[k].active = w.active
                    /\ now[k].token = w.token /\ now[k].params = w.params
                    /\ now[k].mid = w.mid /\ now[k].last = w.last /\ now[k].update = w.update
             /\ now[k].age = Old(k) \/ now[k].age = Old(k) + 1
  <2>1. now[k] = [WatcherOf(observed, k) EXCEPT !.age = Age(k)]
    OBVIOUS
  <2> HIDE DEF now
  <2>2. Old(k) \in 0..MaxAge /\ MaxAge \in Nat
    BY <1>2, ObserveAssumption DEF WatcherType
  <2>3. Age(k) \in 0..MaxAge /\ (Age(k) = Old(k) \/ Age(k) = Old(k) + 1)
    BY <2>2
  <2> HIDE DEF Age
  <2> QED
    BY <1>2, <2>1, <2>3 DEF WatcherType
<1>5. now \in [Watchers(observed) -> WatcherType]
  BY <1>4
<1> HIDE DEF now
<1>6. Kept(observed', observed, now)
  BY <1>1, <1>3, <1>5, KeptShape
<1> QED
  BY <1>4, <1>6 DEF Kept, Placed, Alike

\* observe_step sends the current value to the watchers that are due and does
\* not touch the others.
LEMMA StepShape ==
  ASSUME TypeInv, observe_step
  PROVE  /\ Placed(observed', observed)
         /\ \A k \in Watchers(observed) :
              LET u == observed[k[1]].uri
                  w == WatcherOf(observed, k)
                  v == WatcherOf(observed', k)
              IN  IF k \in Due
                  THEN v.age = 0 /\ v.mid = NewMid(k) /\ v.update = FALSE /\ v.last = object_readData(u)
                  ELSE v = w
<1> DEFINE Next1(k) == IF k \in Due
                       THEN Notify(observed[k[1]].uri, WatcherOf(observed, k), NewMid(k))
                       ELSE WatcherOf(observed, k)
           now == [k \in Watchers(observed) |-> Next1(k)]
<1>1. ListType(observed) /\ DataInv
  BY DEF TypeInv
<1>2. \A k \in Watchers(observed) : WatcherOf(observed, k) \in WatcherType
  BY <1>1, Places DEF ListType
<1>3. observed' = Update(observed, now)
  BY Zenon DEF observe_step
<1>4. ASSUME NEW k \in Watchers(observed)
      PROVE  /\ now[k] \in WatcherType
             /\ LET w == WatcherOf(observed, k)
                IN  /\ now[k].server = w.server /\ now[k].active = w.active
                    /\ now[k].token = w.token /\ now[k].params = w.params
             /\ IF k \in Due
                THEN /\ now[k].age = 0 /\ now[k].mid = NewMid(k) /\ now[k].update = FALSE
                     /\ now[k].last = object_readData(observed[k[1]].uri)
                ELSE now[k] = WatcherOf(observed, k)
  <2>1. now[k] = Next1(k)
    OBVIOUS
  <2> HIDE DEF now
  <2>2. CASE k \in Due
    <3>1. now[k] = Notify(observed[k[1]].uri, WatcherOf(observed, k), NewMid(k))
      BY <2>1, <2>2
    <3>2. NewMid(k) \in Nat /\ 0 \in 0..MaxAge
      BY <1>1, <2>2, NewMids, ObserveAssumption
    <3>3. object_readData(observed[k[1]].uri) \in Readings
      BY <1>1, ReadingType
    <3> DEFINE mid == NewMid(k)
               last == object_readData(observed[k[1]].uri)
               w == WatcherOf(observed, k)
    <3>4. now[k] = [w EXCEPT !.age = 0, !.mid = mid, !.update = FALSE, !.last = last]
      BY <3>1 DEF Notify
    <3>5. w \in WatcherType /\ mid \in Nat /\ last \in Readings
      BY <1>2, <3>2, <3>3
    <3> HIDE DEF mid, last, w
    <3>6. /\ now[k] \in WatcherType
          /\ now[k].server = w.server /\ now[k].active = w.active
          /\ now[k].token = w.token /\ now[k].params = w.params
          /\ now[k].age = 0 /\ now[k].mid = mid /\ now[k].update = FALSE /\ now[k].last = last
      BY <3>2, <3>4, <3>5 DEF WatcherType
    <3> QED
      BY <2>2, <3>6 DEF mid, last, w
  <2>3. CASE k \notin Due
    BY <1>2, <2>1, <2>3
  <2> QED
    BY <2>2, <2>3
<1>5. now \in [Watchers(observed) -> WatcherType]
  BY <1>4
<1> HIDE DEF now
<1>6. Kept(observed', observed, now)
  BY <1>1, <1>3, <1>5, KeptShape
<1>7. /\ ListType(observed') /\ Watchers(observed') = Watchers(observed)
      /\ \A k \in Watchers(observed) :
           observed'[k[1]].uri = observed[k[1]].uri /\ WatcherOf(observed', k) = now[k]
  BY <1>6, Zenon DEF Kept
<1>8. Placed(observed', observed)
  BY <1>4, <1>7 DEF Placed, Alike
<1>9. ASSUME NEW k \in Watchers(observed)
      PROVE  IF k \in Due
             THEN /\ now[k].age = 0 /\ now[k].mid = NewMid(k) /\ now[k].update = FALSE
                  /\ now[k].last = object_readData(observed[k[1]].uri)
             ELSE now[k] = WatcherOf(observed, k)
  BY <1>4
<1> QED
  BY <1>7, <1>8, <1>9, Zenon
-----------------------------------------------------------------------------
(* The time observe_step lets the loop sleep.                              *)

AllIntervals ==
  UNION {Intervals(observed[k[1]].uri, WatcherOf(observed, k)) :
           k \in {j \in Watchers(observed) : Readable(observed[j[1]].uri)}}

\* A watcher lets the loop sleep a natural number of seconds.
LEMMA IntervalsType ==
  ASSUME NEW u, NEW w \in WatcherType
  PROVE  Intervals(u, w) \in SUBSET Nat
<1>1. w.age \in Nat /\ w.params.pmin \in Nat /\ w.params.pmax \in Nat
  BY ObserveAssumption DEF WatcherType, ParamType
<1>2. MinPeriodHolds(w) => w.params.pmin - w.age \in Nat
  BY <1>1 DEF MinPeriodHolds
<1>3. ASSUME w.active, Is(w, "pmax")
      PROVE  w.params.pmax - (IF Notified(u, w) THEN 0 ELSE w.age) \in Nat
  <2>1. CASE Notified(u, w)
    BY <1>1, <2>1
  <2>2. CASE ~Notified(u, w)
    <3>1. ~(w.age >= w.params.pmax)
      BY <1>3, <2>2 DEF Notified
    <3> QED
      BY <1>1, <3>1, <2>2
  <2> QED
    BY <2>1, <2>2
<1> QED
  BY <1>2, <1>3, Zenon DEF Intervals

\* observe_step tells the loop no more than any watcher that can be read allows.
LEMMA StepTime ==
  ASSUME ListType(observed), observe_step
  PROVE  /\ timeout' \in 0..StepTimeout
         /\ \A n \in AllIntervals : n \in Nat /\ timeout' <= n
<1> DEFINE T == {StepTimeout} \cup AllIntervals
<1>1. timeout' = Min(T)
  BY DEF observe_step, AllIntervals
<1>2. \A k \in Watchers(observed) : WatcherOf(observed, k) \in WatcherType
  BY Places DEF ListType
<1>3. AllIntervals \in SUBSET Nat
  BY <1>2, IntervalsType DEF AllIntervals
<1>4. StepTimeout \in Nat
  BY ObserveAssumption
<1>5. T \in SUBSET Nat /\ T # {} /\ StepTimeout \in T
  BY <1>3, <1>4
<1>6. Min(T) \in T /\ \A y \in T : Min(T) <= y
  BY <1>5, MinOfNats
<1>7. timeout' \in Nat /\ timeout' <= StepTimeout
  BY <1>1, <1>5, <1>6
<1>8. \A n \in AllIntervals : n \in Nat /\ timeout' <= n
  BY <1>1, <1>3, <1>6
<1> QED
  BY <1>4, <1>7, <1>8
-----------------------------------------------------------------------------
(* The type invariant is inductive.                                        *)

\* Putting a sound watcher keeps all sound.
LEMMA PutSound ==
  ASSUME NEW new, NEW old, NEW p, NEW s, NEW u, NEW w,
         Put(new, old, p, s, u, w), Sound(w), AllSound(old)
  PROVE  ListType(new) /\ AllSound(new)
<1>1. \E K, f : Moves(new, Watchers(new) \ {p}, old, K, f)
  BY DEF Put
<1>2. \A k \in Watchers(new) \ {p} : Sound(WatcherOf(new, k))
  BY <1>1, MovedSound
<1> QED
  BY <1>2 DEF Put, AllSound

\* Taking watchers out keeps all sound.
LEMMA TakenSound ==
  ASSUME NEW new, NEW old, NEW R, Taken(new, old, R), AllSound(old)
  PROVE  ListType(new) /\ AllSound(new)
<1>1. \A k \in Watchers(new) : Sound(WatcherOf(new, k))
  BY MovedSound DEF Taken
<1> QED
  BY <1>1 DEF Taken, AllSound

\* A list whose watchers only change tag, age and value stays sound.
LEMMA PlacedSound ==
  ASSUME NEW new, NEW old, Placed(new, old), AllSound(old)
  PROVE  ListType(new) /\ AllSound(new)
BY DEF Placed, AllSound, Sound, Alike

\* observe_cancel leaves a list of sound watchers.
LEMMA CancelSound ==
  ASSUME TypeInv, NEW m, NEW s
  PROVE  ListType(observe_cancel(observed, m, s)) /\ AllSound(observe_cancel(observed, m, s))
BY CancelShape, TakenSound DEF TypeInv

\* What the servers believe after one of them asked for or ended one thing.
LEMMA SubsUpdate ==
  ASSUME sub \in Subs, NEW s \in Servers, NEW u \in Uris, NEW t \in Tokens[s] \cup {NoToken}
  PROVE  /\ [sub EXCEPT ![s][u] = t] \in Subs
         /\ \A r \in Servers, v \in Uris :
              [sub EXCEPT ![s][u] = t][r][v] = IF r = s /\ v = u THEN t ELSE sub[r][v]
<1> DEFINE new == [sub EXCEPT ![s][u] = t]
<1>1. sub \in [Servers -> [Uris -> TokenSet]] /\ t \in TokenSet
  BY DEF Subs, TokenSet
<1>2. new \in [Servers -> [Uris -> TokenSet]]
  BY <1>1
<1>3. \A r \in Servers, v \in Uris : new[r][v] = IF r = s /\ v = u THEN t ELSE sub[r][v]
  BY <1>1
<1> HIDE DEF new
<1>4. \A r \in Servers, v \in Uris : new[r][v] \in Tokens[r] \cup {NoToken}
  BY <1>3 DEF Subs
<1> QED
  BY <1>2, <1>3, <1>4 DEF Subs, new

\* The type invariant holds at the start.
LEMMA TypeInit == Init => TypeInv
<1> SUFFICES ASSUME Init PROVE TypeInv
  OBVIOUS
<1>1. observed = <<>> /\ Watchers(observed) = {} /\ DOMAIN observed = {}
  BY DEF Init, Watchers
<1>2. ListType(observed) /\ AllSound(observed)
  BY <1>1 DEF ListType, AllSound
<1>3. value \in [Resources -> Values] /\ present \in SUBSET Resources /\ timeout \in 0..StepTimeout
  BY ObserveAssumption DEF Init
<1>4. sub \in Subs
  BY DEF Init, Subs, TokenSet
<1> QED
  BY <1>2, <1>3, <1>4 DEF TypeInv, DataInv

\* Every step keeps the type invariant.
LEMMA TypeStep ==
  ASSUME TypeInv, [Next]_vars
  PROVE  TypeInv'
<1> USE DEF TypeInv, DataInv
<1>0. 0 \in 0..StepTimeout /\ AllSound(observed) /\ ListType(observed) /\ sub \in Subs
  BY ObserveAssumption
<1>1. ASSUME NEW s \in Servers, NEW u \in Uris, NEW token \in Tokens[s],
             observe_handleRequest(s, u, token)
      PROVE  TypeInv'
  <2>1. ListType(observed') /\ AllSound(observed')
    BY <1>1, <1>0, RequestShape, PutSound
  <2>2. sub' \in Subs
    BY <1>0, <1>1, SubsUpdate DEF observe_handleRequest
  <2> QED
    BY <1>0, <1>1, <2>1, <2>2 DEF observe_handleRequest
<1>2. ASSUME NEW s \in Servers, NEW u \in Uris, observe_handleCancel(s, u) PROVE TypeInv'
  <2>1. ListType(observed') /\ AllSound(observed')
    BY <1>2, <1>0, CancelSound DEF observe_handleCancel
  <2>2. sub' \in Subs
    BY <1>0, <1>2, SubsUpdate DEF observe_handleCancel
  <2> QED
    BY <1>0, <1>2, <2>1, <2>2 DEF observe_handleCancel
<1>3. ASSUME NEW s \in Servers, NEW u \in Uris, handle_reset(s, u) PROVE TypeInv'
  <2>1. ListType(observed') /\ AllSound(observed')
    BY <1>3, <1>0, CancelSound DEF handle_reset
  <2>2. sub' \in Subs
    BY <1>0, <1>3, SubsUpdate DEF handle_reset
  <2> QED
    BY <1>0, <1>3, <2>1, <2>2 DEF handle_reset
<1>4. ASSUME NEW s \in Servers, NEW u \in Uris, NEW a \in Attributes,
             prv_readAttributes(a), observe_setParameters(s, u, a)
      PROVE  TypeInv'
  <2>1. ListType(observed') /\ AllSound(observed')
    BY <1>4, <1>0, ParametersShape, PutSound
  <2> QED
    BY <1>0, <1>4, <2>1 DEF observe_setParameters
<1>5. ASSUME NEW inst, object_delete(inst) PROVE TypeInv'
  <2>1. ListType(observed') /\ AllSound(observed')
    BY <1>5, <1>0, DeleteShape, TakenSound
  <2>2. sub' \in Subs
    BY <1>0, <1>5 DEF object_delete, Subs, TokenSet
  <2> QED
    BY <1>0, <1>5, <2>1, <2>2 DEF object_delete
<1>6. ASSUME NEW u, handle_value_changed(u) PROVE TypeInv'
  <2>1. ListType(observed') /\ AllSound(observed')
    BY <1>6, <1>0, ChangedShape, PlacedSound
  <2>2. value' \in [Resources -> Values]
    <3>1. PICK new \in [Below(u) -> Values] :
            value' = [r \in Resources |-> IF r \in Below(u) THEN new[r] ELSE value[r]]
      BY <1>6 DEF handle_value_changed
    <3>2. \A r \in Resources : (IF r \in Below(u) THEN new[r] ELSE value[r]) \in Values
      OBVIOUS
    <3> QED
      BY <3>1, <3>2
  <2> QED
    BY <1>0, <1>6, <2>1, <2>2 DEF handle_value_changed
<1>7. ASSUME observe_step PROVE TypeInv'
  <2>1. ListType(observed') /\ AllSound(observed')
    BY <1>7, <1>0, StepShape, PlacedSound
  <2>2. timeout' \in 0..StepTimeout
    BY <1>0, <1>7, StepTime
  <2> QED
    BY <1>0, <1>7, <2>1, <2>2 DEF observe_step
<1>8. ASSUME Tick PROVE TypeInv'
  <2>1. ListType(observed') /\ AllSound(observed')
    BY <1>8, <1>0, TickShape, PlacedSound
  <2>2. timeout' \in 0..StepTimeout
    BY <1>8, ObserveAssumption DEF Tick
  <2> QED
    BY <1>0, <1>8, <2>1, <2>2 DEF Tick
<1>9. CASE UNCHANGED vars
  BY <1>9 DEF vars, Subs, ListType, AllSound, Watchers, WatcherOf
<1>10. \A x \in Observes : x[1] \in Servers /\ x[2] \in Uris
  BY ObserveAssumption
<1>11. \A w \in Writes : w[1] \in Servers /\ w[2] \in Uris /\ w[3] \in Attributes
  BY ObserveAssumption
<1> QED
  BY <1>1, <1>2, <1>3, <1>4, <1>5, <1>6, <1>7, <1>8, <1>9, <1>10, <1>11 DEF Next

\* It implies the one the runs check.
LEMMA TypeMeaning ==
  ASSUME TypeInv PROVE TypeOK
<1>1. DataInv /\ ListType(observed) /\ AllSound(observed) /\ observed \in Seq(ObservedType)
  BY DEF TypeInv, ListType
<1>2. ASSUME NEW o \in DOMAIN observed
      PROVE  observed[o].uri \in Uris /\ observed[o].watchers # <<>>
  BY <1>1, Places DEF ListType
<1>3. ASSUME NEW o \in DOMAIN observed, NEW i \in DOMAIN observed[o].watchers
      PROVE  LET w == observed[o].watchers[i]
             IN  /\ w.server \in Servers /\ w.active \in BOOLEAN /\ w.update \in BOOLEAN
                 /\ w.token \in Tokens[w.server] \cup {NoToken} /\ w.age \in 0..MaxAge
                 /\ w.params.toSet # {} => w.params.alloc
  <2>1. observed[o].watchers[i] \in WatcherType /\ <<o, i>> \in Watchers(observed)
    BY <1>1, Places
  <2>2. WatcherOf(observed, <<o, i>>) = observed[o].watchers[i]
    BY DEF WatcherOf
  <2>3. Sound(observed[o].watchers[i])
    BY <1>1, <2>1, <2>2 DEF AllSound
  <2> QED
    BY <2>1, <2>3 DEF WatcherType, Sound
<1>4. \A s \in Servers : sub[s] \in [Uris -> Tokens[s] \cup {NoToken}]
  BY <1>1 DEF DataInv, Subs
<1> QED
  BY <1>1, <1>2, <1>3, <1>4 DEF TypeOK, DataInv
-----------------------------------------------------------------------------
(* The periods.                                                            *)

\* The steps, without the sets of inputs they are taken from.
LEMMA Steps ==
  ASSUME [Next]_vars
  PROVE  \/ \E s \in Servers, u \in Uris :
              \/ \E token \in Tokens[s] : observe_handleRequest(s, u, token)
              \/ observe_handleCancel(s, u)
              \/ handle_reset(s, u)
         \/ \E s \in Servers, u \in Uris, a \in Attributes :
              prv_readAttributes(a) /\ observe_setParameters(s, u, a)
         \/ \E inst \in Deletes : object_delete(inst)
         \/ \E u \in Changes : handle_value_changed(u)
         \/ observe_step
         \/ Tick
         \/ UNCHANGED vars
<1>1. \A x \in Observes : x[1] \in Servers /\ x[2] \in Uris
  BY ObserveAssumption
<1>2. \A w \in Writes : w[1] \in Servers /\ w[2] \in Uris /\ w[3] \in Attributes
  BY ObserveAssumption
<1> QED
  BY <1>1, <1>2, Zenon DEF Next

\* A notification within the minimal period is one the maximal period asks for.
LEMMA MinPeriodStep ==
  ASSUME TypeInv, NEW k \in Watchers(observed),
         Is(WatcherOf(observed, k), "pmin"),
         WatcherOf(observed, k).age < WatcherOf(observed, k).params.pmin,
         ~(/\ Is(WatcherOf(observed, k), "pmax")
           /\ WatcherOf(observed, k).age >= WatcherOf(observed, k).params.pmax),
         observe_step
  PROVE  WatcherOf(observed', k).mid = WatcherOf(observed, k).mid
<1>1. ~Notified(observed[k[1]].uri, WatcherOf(observed, k))
  BY DEF Notified, MinPeriodHolds
<1>2. k \notin Due
  BY <1>1 DEF Due
<1> QED
  BY <1>2, StepShape

\* What is observed can be read.
ReadableIn(u, there) == Len(u) = 1 \/ \E r \in there : IsPrefix(u, r)
AllReadable(list, there) == \A o \in DOMAIN list : ReadableIn(list[o].uri, there)

\* Readable, with the resources as a parameter.
LEMMA ReadableMeans ==
  ASSUME NEW u PROVE Readable(u) <=> ReadableIn(u, present)
BY DEF Readable, ReadableIn, Below

\* Every URI of a list has a watcher, which came from an old place.
LEMMA MovedUris ==
  ASSUME NEW new, NEW old, ListType(new), ListType(old), NEW K, NEW f,
         Moves(new, Watchers(new), old, K, f)
  PROVE  \A o \in DOMAIN new : \E j \in Watchers(old) :
           j[1] \in DOMAIN old /\ old[j[1]].uri = new[o].uri
<1> SUFFICES ASSUME NEW o \in DOMAIN new
             PROVE  \E j \in Watchers(old) : j[1] \in DOMAIN old /\ old[j[1]].uri = new[o].uri
  OBVIOUS
<1>1. /\ new[o].watchers # <<>> /\ new[o].watchers \in Seq(WatcherType)
      /\ DOMAIN new[o].watchers = 1..Len(new[o].watchers) /\ Len(new[o].watchers) \in Nat
      /\ \A i \in DOMAIN new[o].watchers : <<o, i>> \in Watchers(new)
  BY Places DEF ListType
<1>2. 1 \in DOMAIN new[o].watchers
  BY <1>1
<1>3. <<o, 1>> \in Watchers(new)
  BY <1>1, <1>2
<1>4. f[<<o, 1>>] \in Watchers(old) /\ Same(new, <<o, 1>>, old, f[<<o, 1>>])
  BY <1>3 DEF Moves
<1>5. f[<<o, 1>>][1] \in DOMAIN old
  BY <1>4, Places DEF ListType
<1> QED
  BY <1>4, <1>5 DEF Same

\* A watcher of a readable URI leaves all readable.
LEMMA PutReadable ==
  ASSUME NEW old, NEW new, NEW p, NEW s, NEW u, NEW w, NEW there,
         ListType(old), Put(new, old, p, s, u, w),
         AllReadable(old, there), ReadableIn(u, there)
  PROVE  AllReadable(new, there)
<1> SUFFICES ASSUME NEW o \in DOMAIN new PROVE ReadableIn(new[o].uri, there)
  BY DEF AllReadable
<1>1. p[1] \in DOMAIN new /\ ListType(new)
  BY Places DEF Put, ListType
<1>2. CASE o = p[1]
  BY <1>2 DEF Put, Entered, AllReadable
<1>3. CASE o # p[1]
  <2>1. /\ new[o].watchers # <<>> /\ new[o].watchers \in Seq(WatcherType)
        /\ DOMAIN new[o].watchers = 1..Len(new[o].watchers) /\ Len(new[o].watchers) \in Nat
        /\ \A i \in DOMAIN new[o].watchers : <<o, i>> \in Watchers(new)
    BY <1>1, Places DEF ListType
  <2>2. 1 \in DOMAIN new[o].watchers
    BY <2>1
  <2>3. <<o, 1>> \in Watchers(new) \ {p}
    BY <2>1, <2>2, <1>3
  <2>4. \E K, f : Moves(new, Watchers(new) \ {p}, old, K, f)
    BY DEF Put
  <2>5. \E j \in Watchers(old) : Same(new, <<o, 1>>, old, j)
    BY <2>3, <2>4 DEF Moves
  <2>6. PICK j \in Watchers(old) : Same(new, <<o, 1>>, old, j)
    BY <2>5
  <2>7. j[1] \in DOMAIN old
    BY Places DEF ListType
  <2> QED
    BY <2>6, <2>7 DEF Same, AllReadable
<1> QED
  BY <1>2, <1>3

\* So does taking watchers out,
LEMMA TakenReadable ==
  ASSUME NEW old, NEW new, NEW R, NEW there,
         ListType(old), Taken(new, old, R), AllReadable(old, there)
  PROVE  AllReadable(new, there)
<1>1. \A o \in DOMAIN new : \E j \in Watchers(old) :
        j[1] \in DOMAIN old /\ old[j[1]].uri = new[o].uri
  BY MovedUris DEF Taken
<1> QED
  BY <1>1 DEF AllReadable

\* and a change of watchers in place.
LEMMA PlacedReadable ==
  ASSUME NEW old, NEW new, NEW there, ListType(old), Placed(new, old), AllReadable(old, there)
  PROVE  AllReadable(new, there)
<1> SUFFICES ASSUME NEW o \in DOMAIN new PROVE ReadableIn(new[o].uri, there)
  BY DEF AllReadable
<1>1. /\ new[o].watchers # <<>> /\ new[o].watchers \in Seq(WatcherType)
      /\ DOMAIN new[o].watchers = 1..Len(new[o].watchers) /\ Len(new[o].watchers) \in Nat
      /\ \A i \in DOMAIN new[o].watchers : <<o, i>> \in Watchers(new)
  BY Places DEF ListType, Placed
<1>2. 1 \in DOMAIN new[o].watchers
  BY <1>1
<1>3. <<o, 1>> \in Watchers(old) /\ new[o].uri = old[o].uri
  BY <1>1, <1>2 DEF Placed
<1>4. <<o, 1>>[1] \in DOMAIN old
  BY <1>3, Places DEF ListType
<1> QED
  BY <1>3, <1>4 DEF AllReadable

\* What is above a deleted instance stays readable only as an object.
LEMMA DeleteReadable ==
  ASSUME TypeInv, AllReadable(observed, present), NEW inst \in Deletes, object_delete(inst)
  PROVE  AllReadable(observed', present')
<1>1. ListType(observed) /\ present \in SUBSET Resources
  BY DEF TypeInv, DataInv
<1>2. /\ AllReadable(observed', present)
      /\ \A o \in DOMAIN observed' : ~IsPrefix(inst, observed'[o].uri)
      /\ ListType(observed')
  BY <1>1, DeleteShape, TakenReadable DEF Taken
<1> SUFFICES ASSUME NEW o \in DOMAIN observed'
             PROVE  ReadableIn(observed'[o].uri, present')
  BY DEF AllReadable
<1> DEFINE v == observed'[o].uri
<1>3. v \in Uris
  BY <1>2, Places DEF ListType
<1>4. v \in Seq(Nat) /\ v # <<>> /\ inst \in Seq(Nat) /\ Len(inst) = 2 /\ ~IsPrefix(inst, v)
  BY <1>2, <1>3, ObserveAssumption
<1>5. ReadableIn(v, present)
  BY <1>2 DEF AllReadable
<1> HIDE DEF v
<1>6. Len(v) \in Nat \ {0}
  BY <1>4
<1>7. CASE Len(v) = 1
  BY <1>7 DEF ReadableIn, v
<1>8. CASE Len(v) # 1
  <2>1. PICK r \in present : IsPrefix(v, r)
    BY <1>5, <1>8 DEF ReadableIn
  <2>2. r \in Seq(Nat)
    BY <1>1, ObserveAssumption
  <2>3. ~IsPrefix(inst, r)
    <3> SUFFICES ASSUME IsPrefix(inst, r) PROVE FALSE
      OBVIOUS
    <3>1. Len(inst) <= Len(v)
      <4>1. Len(inst) = 2
        BY <1>4
      <4>2. Len(v) \in Nat /\ Len(v) >= 2
        BY <1>6, <1>8
      <4> QED
        BY <4>1, <4>2
    <3>2. IsPrefix(inst, v)
      BY <2>1, <2>2, <1>4, <3>1, PrefixesComparable
    <3> QED
      BY <3>2, <1>4
  <2>4. r \in present'
    BY <2>3 DEF object_delete, Below
  <2> QED
    BY <2>1, <2>4 DEF ReadableIn, v
<1> QED
  BY <1>7, <1>8

\* What is observed stays readable: observe_clear ends what is in a deleted
\* instance.
LEMMA ReadableStep ==
  ASSUME TypeInv, AllReadable(observed, present), [Next]_vars
  PROVE  AllReadable(observed', present')
<1>0. ListType(observed)
  BY DEF TypeInv
<1>1. ASSUME NEW s \in Servers, NEW u \in Uris, NEW token \in Tokens[s],
             observe_handleRequest(s, u, token)
      PROVE  AllReadable(observed', present')
  <2>1. ReadableIn(u, present) /\ present' = present
    BY <1>1, ReadableMeans DEF observe_handleRequest
  <2> QED
    BY <1>0, <1>1, <2>1, RequestShape, PutReadable
<1>2. ASSUME NEW m, NEW s
      PROVE  AllReadable(observe_cancel(observed, m, s), present)
  <2> DEFINE new == observe_cancel(observed, m, s)
  <2>1. new = observed \/ \E R : Taken(new, observed, R)
    BY CancelShape
  <2> HIDE DEF new
  <2> SUFFICES AllReadable(new, present)
    BY DEF new
  <2> QED
    BY <1>0, <2>1, TakenReadable
<1>3. ASSUME NEW s \in Servers, NEW u \in Uris, observe_handleCancel(s, u)
      PROVE  AllReadable(observed', present')
  BY <1>3, <1>2 DEF observe_handleCancel
<1>4. ASSUME NEW s \in Servers, NEW u \in Uris, handle_reset(s, u)
      PROVE  AllReadable(observed', present')
  BY <1>4, <1>2 DEF handle_reset
<1>5. ASSUME NEW s \in Servers, NEW u \in Uris, NEW a \in Attributes,
             prv_readAttributes(a), observe_setParameters(s, u, a)
      PROVE  AllReadable(observed', present')
  <2>1. ReadableIn(u, present) /\ present' = present
    BY <1>5, ReadableMeans DEF observe_setParameters, object_checkReadable
  <2> QED
    BY <1>0, <1>5, <2>1, ParametersShape, PutReadable
<1>6. ASSUME NEW inst \in Deletes, object_delete(inst) PROVE AllReadable(observed', present')
  BY <1>6, DeleteReadable
<1>7. ASSUME NEW u, handle_value_changed(u) PROVE AllReadable(observed', present')
  BY <1>0, <1>7, ChangedShape, PlacedReadable DEF handle_value_changed
<1>8. ASSUME observe_step PROVE AllReadable(observed', present')
  BY <1>0, <1>8, StepShape, PlacedReadable DEF observe_step
<1>9. ASSUME Tick PROVE AllReadable(observed', present')
  BY <1>0, <1>9, TickShape, PlacedReadable DEF Tick
<1>10. CASE UNCHANGED vars
  BY <1>10 DEF vars
<1> QED
  BY <1>1, <1>3, <1>4, <1>5, <1>6, <1>7, <1>8, <1>9, <1>10, Steps

\* What the loop was told, for one watcher.
InTime(w, t) ==
  /\ w.active /\ Is(w, "pmax") => w.age + t <= w.params.pmax
  /\ w.active /\ w.update /\ MinPeriodHolds(w) => w.age + t <= w.params.pmin

PeriodInv(list, t) == t > 0 => \A k \in Watchers(list) : InTime(WatcherOf(list, k), t)

\* The numbers of a watcher are natural.
LEMMA WatcherNumbers ==
  ASSUME NEW list, ListType(list), NEW k \in Watchers(list)
  PROVE  /\ WatcherOf(list, k) \in WatcherType
         /\ WatcherOf(list, k).age \in Nat /\ WatcherOf(list, k).params.pmin \in Nat
         /\ WatcherOf(list, k).params.pmax \in Nat
         /\ WatcherOf(list, k).active \in BOOLEAN /\ WatcherOf(list, k).update \in BOOLEAN
<1>1. WatcherOf(list, k) \in WatcherType
  BY Places DEF ListType
<1> QED
  BY <1>1, ObserveAssumption DEF WatcherType, ParamType

\* After observe_step the loop sleeps within every period.
LEMMA PeriodOfStep ==
  ASSUME TypeInv, AllReadable(observed, present), observe_step
  PROVE  PeriodInv(observed', timeout')
<1>0. ListType(observed)
  BY DEF TypeInv
<1> SUFFICES ASSUME NEW k \in Watchers(observed)
             PROVE  InTime(WatcherOf(observed', k), timeout')
  BY StepShape DEF PeriodInv, Placed
<1> DEFINE u == observed[k[1]].uri
           w == WatcherOf(observed, k)
           v == WatcherOf(observed', k)
<1>1. /\ v.active = w.active /\ v.params = w.params
      /\ IF k \in Due THEN v.age = 0 /\ v.update = FALSE ELSE v = w
  BY StepShape DEF Placed, Alike
<1>2. Readable(u)
  BY <1>0, Places, ReadableMeans DEF AllReadable, ListType
<1>3. k \in Due <=> Notified(u, w)
  BY <1>2 DEF Due
<1>4. Intervals(u, w) \in SUBSET AllIntervals
  BY <1>2 DEF AllIntervals
<1>5. /\ timeout' \in Nat
      /\ \A n \in Intervals(u, w) : n \in Nat /\ timeout' <= n
  BY <1>0, <1>4, StepTime, ObserveAssumption
<1>6. w.age \in Nat /\ w.params.pmin \in Nat /\ w.params.pmax \in Nat
  BY <1>0, WatcherNumbers
<1> HIDE DEF u, v, w
<1>7. ASSUME v.active, Is(v, "pmax") PROVE v.age + timeout' <= v.params.pmax
  <2>1. w.active /\ Is(w, "pmax")
    BY <1>1, <1>7 DEF Is
  <2>2. w.params.pmax - (IF Notified(u, w) THEN 0 ELSE w.age) \in Intervals(u, w)
    BY <2>1 DEF Intervals
  <2>3. timeout' <= w.params.pmax - (IF Notified(u, w) THEN 0 ELSE w.age)
    BY <2>2, <1>5
  <2>4. v.age = IF Notified(u, w) THEN 0 ELSE w.age
    BY <1>1, <1>3
  <2> QED
    BY <1>1, <1>5, <1>6, <2>3, <2>4
<1>8. ASSUME v.active, v.update, MinPeriodHolds(v) PROVE v.age + timeout' <= v.params.pmin
  <2>1. v = w
    BY <1>1, <1>8
  <2>2. w.params.pmin - w.age \in Intervals(u, w)
    BY <1>8, <2>1 DEF Intervals
  <2>3. timeout' <= w.params.pmin - w.age
    BY <2>2, <1>5
  <2> QED
    BY <1>5, <1>6, <2>1, <2>3
<1> QED
  BY <1>7, <1>8 DEF InTime, v

\* The time that passes is taken from what is left.
LEMMA PeriodOfTick ==
  ASSUME TypeInv, PeriodInv(observed, timeout), Tick
  PROVE  PeriodInv(observed', timeout')
<1>0. ListType(observed) /\ timeout \in Nat
  BY ObserveAssumption DEF TypeInv, DataInv
<1>1. timeout > 0 /\ timeout' = timeout - 1
  BY DEF Tick
<1> SUFFICES ASSUME NEW k \in Watchers(observed)
             PROVE  InTime(WatcherOf(observed', k), timeout')
  BY TickShape DEF PeriodInv, Placed
<1> DEFINE w == WatcherOf(observed, k)
           v == WatcherOf(observed', k)
<1>2. /\ v.active = w.active /\ v.params = w.params /\ v.update = w.update
      /\ v.age = w.age \/ v.age = w.age + 1
  BY TickShape DEF Placed, Alike
<1>3. w.age \in Nat /\ w.params.pmin \in Nat /\ w.params.pmax \in Nat
  BY <1>0, WatcherNumbers
<1>4. InTime(w, timeout)
  BY <1>1 DEF PeriodInv
<1> HIDE DEF v, w
<1>5. ASSUME v.active, Is(v, "pmax") PROVE v.age + timeout' <= v.params.pmax
  <2>1. w.age + timeout <= w.params.pmax
    BY <1>2, <1>4, <1>5 DEF Is, InTime
  <2> QED
    BY <1>0, <1>1, <1>2, <1>3, <2>1
<1>6. ASSUME v.active, v.update, MinPeriodHolds(v) PROVE v.age + timeout' <= v.params.pmin
  <2>1. Is(w, "pmin") /\ v.age < w.params.pmin
    BY <1>2, <1>6 DEF MinPeriodHolds, Is
  <2>2. w.age < w.params.pmin
    BY <1>2, <1>3, <2>1
  <2>3. w.age + timeout <= w.params.pmin
    BY <1>2, <1>4, <1>6, <2>1, <2>2 DEF MinPeriodHolds, InTime
  <2> QED
    BY <1>0, <1>1, <1>2, <1>3, <2>3
<1> QED
  BY <1>5, <1>6 DEF InTime, v

\* All other steps let the loop run at once.
LEMMA PeriodStep ==
  ASSUME TypeInv, AllReadable(observed, present), PeriodInv(observed, timeout), [Next]_vars
  PROVE  PeriodInv(observed', timeout')
<1>1. CASE observe_step
  BY <1>1, PeriodOfStep
<1>2. CASE Tick
  BY <1>2, PeriodOfTick
<1>3. CASE UNCHANGED vars
  BY <1>3 DEF vars
<1>4. CASE timeout' = 0
  BY <1>4 DEF PeriodInv
<1>5. observe_step \/ Tick \/ UNCHANGED vars \/ timeout' = 0
  BY Steps DEF observe_handleRequest, observe_handleCancel, handle_reset,
       observe_setParameters, object_delete, handle_value_changed
<1> QED
  BY <1>1, <1>2, <1>3, <1>4, <1>5
-----------------------------------------------------------------------------

\* The list stays a list of watchers of observed URIs, none of them without a
\* watcher, and *timeoutP within the step (observe.c as a whole).
THEOREM TypeCorrect == Spec => []TypeOK
<1>1. Init => TypeInv
  BY TypeInit
<1>2. TypeInv /\ [Next]_vars => TypeInv'
  BY TypeStep
<1>3. TypeInv => TypeOK
  BY TypeMeaning
<1> QED
  BY <1>1, <1>2, <1>3, PTL DEF Spec

\* A notification never comes sooner than the minimal period after the last
\* message, but for the maximal period (observe_step).
THEOREM MinPeriods == Spec => MinPeriodKept
<1>1. Init => TypeInv
  BY TypeInit
<1>2. TypeInv /\ [Next]_vars => TypeInv'
  BY TypeStep
<1>3. TypeInv /\ [Next]_vars
        => [\A k \in Watchers(observed) :
              LET w == WatcherOf(observed, k)
              IN  /\ Is(w, "pmin") /\ w.age < w.params.pmin
                  /\ ~(Is(w, "pmax") /\ w.age >= w.params.pmax)
                  => ~(observe_step /\ WatcherOf(observed', k).mid # w.mid)]_vars
  BY MinPeriodStep
<1> QED
  BY <1>1, <1>2, <1>3, PTL DEF Spec, MinPeriodKept

\* The loop never sleeps beyond the maximal period of an active observation, nor
\* beyond the minimal one that holds back a change (observe_step and *timeoutP).
THEOREM MaxPeriods == Spec => []MaxPeriodKept
<1> DEFINE PInv == TypeInv /\ AllReadable(observed, present) /\ PeriodInv(observed, timeout)
<1>1. Init => PInv
  <2>1. Init => AllReadable(observed, present) /\ PeriodInv(observed, timeout)
    BY DEF Init, AllReadable, PeriodInv
  <2> QED
    BY <2>1, TypeInit
<1>2. PInv /\ [Next]_vars => PInv'
  BY TypeStep, ReadableStep, PeriodStep
<1>3. PInv => MaxPeriodKept
  BY DEF PeriodInv, InTime, MaxPeriodKept
<1> QED
  BY <1>1, <1>2, <1>3, PTL DEF Spec
-----------------------------------------------------------------------------
(* Changes.                                                                *)

\* object_readData for given resources and values.
Reading(u, there, val) == [r \in {x \in there : IsPrefix(u, x)} |-> val[r]]

\* A watcher is tagged when its server was last sent something else.
Tagged(w, now) == w.active /\ w.last # now => w.update

TagInv(list, there, val) ==
  \A k \in Watchers(list) : Tagged(WatcherOf(list, k), Reading(list[k[1]].uri, there, val))

\* Reading is what object_readData returns now.
LEMMA ReadingMeans == \A u : object_readData(u) = Reading(u, present, value)
BY DEF object_readData, Reading, Below

\* Watchers that are only moved stay tagged.
LEMMA MovedTags ==
  ASSUME NEW new, NEW old, NEW D, NEW K, NEW f, Moves(new, D, old, K, f),
         NEW there, NEW val, TagInv(old, there, val)
  PROVE  \A k \in D : Tagged(WatcherOf(new, k), Reading(new[k[1]].uri, there, val))
BY DEF Moves, Same, TagInv

\* When the observed URIs are apart, a watcher is put where it was asked for.
LEMMA EnteredApart ==
  ASSUME UrisApart, ListType(observed), NEW u \in Uris, NEW v, Entered(observed, u, v)
  PROVE  v = u
<1>1. \A o \in DOMAIN observed : observed[o].uri \in Uris
  BY Places DEF ListType
<1> QED
  BY <1>1 DEF Entered, UrisApart

\* Putting a watcher that needs no tag or has one.
LEMMA PutTags ==
  ASSUME NEW new, NEW p, NEW s, NEW u, NEW w, Put(new, observed, p, s, u, w),
         NEW there, NEW val, TagInv(observed, there, val),
         Tagged(w, Reading(new[p[1]].uri, there, val))
  PROVE  TagInv(new, there, val)
<1>1. \E K, f : Moves(new, Watchers(new) \ {p}, observed, K, f)
  BY DEF Put
<1>2. \A k \in Watchers(new) \ {p} : Tagged(WatcherOf(new, k), Reading(new[k[1]].uri, there, val))
  BY <1>1, MovedTags
<1> QED
  BY <1>2 DEF TagInv, Put

\* Taking watchers out changes no tag.
LEMMA TakenTags ==
  ASSUME NEW new, NEW R, Taken(new, observed, R), NEW there, NEW val, TagInv(observed, there, val)
  PROVE  TagInv(new, there, val)
BY MovedTags DEF Taken, TagInv

\* Nor does observe_cancel.
LEMMA CancelTags ==
  ASSUME TypeInv, NEW m, NEW s, NEW there, NEW val, TagInv(observed, there, val)
  PROVE  TagInv(observe_cancel(observed, m, s), there, val)
<1> DEFINE new == observe_cancel(observed, m, s)
<1>1. new = observed \/ \E R : Taken(new, observed, R)
  BY CancelShape
<1> HIDE DEF new
<1> SUFFICES TagInv(new, there, val)
  BY DEF new
<1> QED
  BY <1>1, TakenTags

\* Two URIs that have something in common are one below the other.
LEMMA Disjoint ==
  ASSUME NEW u \in Seq(Nat), NEW v \in Seq(Nat), NEW r \in Resources,
         IsPrefix(u, r), IsPrefix(v, r)
  PROVE  IsPrefix(u, v) \/ IsPrefix(v, u)
<1>1. r \in Seq(Nat)
  BY ObserveAssumption
<1> QED
  BY <1>1, PrefixesComparable

\* A deletion ends the observations whose value it changes.
LEMMA DeleteTags ==
  ASSUME DeletesApart, TypeInv, TagInv(observed, present, value),
         NEW inst \in Deletes, object_delete(inst)
  PROVE  TagInv(observed', present', value')
<1>1. ListType(observed) /\ present \in SUBSET Resources /\ inst \in Seq(Nat)
  BY ObserveAssumption DEF TypeInv, DataInv
<1>2. /\ TagInv(observed', present, value)
      /\ \A o \in DOMAIN observed' : ~IsPrefix(inst, observed'[o].uri)
      /\ ListType(observed')
  BY DeleteShape, TakenTags DEF Taken
<1>3. present' = present \ Below(inst) /\ value' = value
  BY DEF object_delete
<1>4. ASSUME NEW o \in DOMAIN observed'
      PROVE  Reading(observed'[o].uri, present', value') = Reading(observed'[o].uri, present, value)
  <2> DEFINE v == observed'[o].uri
  <2>1. v \in Uris /\ v \in Seq(Nat) /\ ~IsPrefix(inst, v)
    BY <1>2, Places, ObserveAssumption DEF ListType
  <2>2. ~IsPrefix(v, inst)
    BY <2>1 DEF DeletesApart
  <2> HIDE DEF v
  <2>3. ASSUME NEW r \in present, IsPrefix(v, r) PROVE ~IsPrefix(inst, r)
    BY <1>1, <2>1, <2>2, <2>3, Disjoint
  <2>4. {x \in present' : IsPrefix(v, x)} = {x \in present : IsPrefix(v, x)}
    BY <1>3, <2>3 DEF Below
  <2>5. Reading(v, present', value') = Reading(v, present, value)
    BY <1>3, <2>4 DEF Reading
  <2> QED
    BY <2>5 DEF v
<1>5. \A k \in Watchers(observed') : k[1] \in DOMAIN observed'
  BY <1>2, Places DEF ListType
<1> QED
  BY <1>2, <1>4, <1>5 DEF TagInv

\* handle_value_changed tags every watcher whose value it changes.
LEMMA ChangeTags ==
  ASSUME TypeInv, TagInv(observed, present, value),
         NEW u \in Changes, handle_value_changed(u)
  PROVE  TagInv(observed', present', value')
<1>1. /\ ListType(observed) /\ present \in SUBSET Resources /\ u \in Seq(Nat)
      /\ value \in [Resources -> Values]
  BY ObserveAssumption DEF TypeInv, DataInv
<1>2. PICK new \in [Below(u) -> Values] :
        value' = [r \in Resources |-> IF r \in Below(u) THEN new[r] ELSE value[r]]
  BY DEF handle_value_changed
<1>3. present' = present
  BY DEF handle_value_changed
<1>4. /\ Placed(observed', observed)
      /\ \A k \in Watchers(observed) :
           /\ WatcherOf(observed', k).last = WatcherOf(observed, k).last
           /\ WatcherOf(observed', k).active = WatcherOf(observed, k).active
           /\ WatcherOf(observed', k).update =
                (WatcherOf(observed, k).update
                  \/ (WatcherOf(observed, k).active /\ Touches(u, observed[k[1]].uri)))
           /\ WatcherOf(observed, k) \in WatcherType
           /\ observed[k[1]].uri \in Uris
           /\ observed'[k[1]].uri = observed[k[1]].uri
  BY <1>1, ChangedShape, Places DEF Placed, Alike, ListType
<1>5. ASSUME NEW v \in Uris, ~Touches(u, v)
      PROVE  Reading(v, present', value') = Reading(v, present, value)
  <2>1. v \in Seq(Nat)
    BY ObserveAssumption
  <2>2. ASSUME NEW r \in present, IsPrefix(v, r) PROVE value'[r] = value[r]
    <3>1. ~IsPrefix(u, r)
      BY <1>1, <1>5, <2>1, <2>2, Disjoint DEF Touches
    <3>2. r \notin Below(u) /\ r \in Resources
      BY <1>1, <3>1 DEF Below
    <3> QED
      BY <1>2, <3>2
  <2> QED
    BY <1>3, <2>2 DEF Reading
<1> SUFFICES ASSUME NEW k \in Watchers(observed)
             PROVE  Tagged(WatcherOf(observed', k), Reading(observed'[k[1]].uri, present', value'))
  BY <1>4 DEF TagInv, Placed
<1> DEFINE w == WatcherOf(observed, k)
           x == WatcherOf(observed', k)
           v == observed[k[1]].uri
<1>6. /\ x.last = w.last /\ x.active = w.active /\ w \in WatcherType /\ v \in Uris
      /\ x.update = (w.update \/ (w.active /\ Touches(u, v))) /\ observed'[k[1]].uri = v
  BY <1>4
<1>7. Tagged(w, Reading(v, present, value))
  BY DEF TagInv
<1> HIDE DEF w, x, v
<1>8. CASE Touches(u, v)
  BY <1>6, <1>8 DEF Tagged, WatcherType, x
<1>9. CASE ~Touches(u, v)
  BY <1>5, <1>6, <1>7, <1>9 DEF Tagged, WatcherType, x
<1> QED
  BY <1>8, <1>9

\* observe_step clears a tag only when it sends the value.
LEMMA StepTags ==
  ASSUME TypeInv, TagInv(observed, present, value), observe_step
  PROVE  TagInv(observed', present, value)
<1> SUFFICES ASSUME NEW k \in Watchers(observed)
             PROVE  Tagged(WatcherOf(observed', k), Reading(observed'[k[1]].uri, present, value))
  BY StepShape DEF TagInv, Placed
<1>1. observed'[k[1]].uri = observed[k[1]].uri
  BY StepShape DEF Placed
<1>2. CASE k \in Due
  <2>1. WatcherOf(observed', k).last = object_readData(observed[k[1]].uri)
    BY <1>2, StepShape
  <2> QED
    BY <1>1, <2>1, ReadingMeans DEF Tagged
<1>3. CASE k \notin Due
  <2>1. WatcherOf(observed', k) = WatcherOf(observed, k)
    BY <1>3, StepShape
  <2> QED
    BY <1>1, <2>1 DEF TagInv
<1> QED
  BY <1>2, <1>3

\* Every step keeps the tags right.
LEMMA TagStep ==
  ASSUME UrisApart, DeletesApart, TypeInv, TagInv(observed, present, value), [Next]_vars
  PROVE  TagInv(observed', present', value')
<1>0. ListType(observed)
  BY DEF TypeInv
<1>1. ASSUME NEW s \in Servers, NEW u \in Uris, NEW token \in Tokens[s],
             observe_handleRequest(s, u, token)
      PROVE  TagInv(observed', present', value')
  <2>1. PICK p, w :
          /\ Put(observed', observed, p, s, u, w)
          /\ w \in WatcherType /\ Sound(w)
          /\ w.active = TRUE /\ w.token = token /\ w.mid = Fresh(MidsOf(s))
          /\ w.last = object_readData(u)
    BY <1>1, RequestShape
  <2>2. observed'[p[1]].uri = u
    BY <1>0, <2>1, EnteredApart DEF Put
  <2>3. Tagged(w, Reading(observed'[p[1]].uri, present, value))
    BY <2>1, <2>2, ReadingMeans DEF Tagged
  <2>4. present' = present /\ value' = value
    BY <1>1 DEF observe_handleRequest
  <2> QED
    BY <2>1, <2>3, <2>4, PutTags
<1>2. ASSUME NEW s \in Servers, NEW u \in Uris, observe_handleCancel(s, u)
      PROVE  TagInv(observed', present', value')
  BY <1>2, CancelTags DEF observe_handleCancel
<1>3. ASSUME NEW s \in Servers, NEW u \in Uris, handle_reset(s, u)
      PROVE  TagInv(observed', present', value')
  BY <1>3, CancelTags DEF handle_reset
<1>4. ASSUME NEW s \in Servers, NEW u \in Uris, NEW a \in Attributes,
             prv_readAttributes(a), observe_setParameters(s, u, a)
      PROVE  TagInv(observed', present', value')
  <2>1. PICK p, w :
          /\ Put(observed', observed, p, s, u, w)
          /\ \/ /\ p \in Watchers(observed) /\ observed'[p[1]].uri = observed[p[1]].uri
                /\ w.active = WatcherOf(observed, p).active
                /\ w.last = WatcherOf(observed, p).last
                /\ w.update = WatcherOf(observed, p).update
             \/ w.active = FALSE
    BY <1>4, ParametersShape
  <2>2. Tagged(w, Reading(observed'[p[1]].uri, present, value))
    BY <2>1 DEF Tagged, TagInv
  <2>3. present' = present /\ value' = value
    BY <1>4 DEF observe_setParameters
  <2> QED
    BY <2>1, <2>2, <2>3, PutTags
<1>5. ASSUME NEW inst \in Deletes, object_delete(inst)
      PROVE  TagInv(observed', present', value')
  BY <1>5, DeleteTags
<1>6. ASSUME NEW u \in Changes, handle_value_changed(u)
      PROVE  TagInv(observed', present', value')
  BY <1>6, ChangeTags
<1>7. ASSUME observe_step PROVE TagInv(observed', present', value')
  BY <1>7, StepTags DEF observe_step
<1>8. ASSUME Tick PROVE TagInv(observed', present', value')
  BY <1>8, TickShape DEF Tick, TagInv, Tagged, Placed, Alike
<1>9. CASE UNCHANGED vars
  BY <1>9 DEF vars
<1> QED
  BY <1>1, <1>2, <1>3, <1>4, <1>5, <1>6, <1>7, <1>8, <1>9, Steps

\* Watchers with something to report are held back by a period.
HeldBack(w) ==
  \/ MinPeriodHolds(w)
  \/ ~Is(w, "pmin") /\ Is(w, "pmax") /\ w.age <= w.params.pmax

ReportInv(list, there, val, t) ==
  t > 0 =>
    \A k \in Watchers(list) :
      LET w == WatcherOf(list, k)
      IN  /\ w.active /\ w.params.toSet \cap NumericFlags = {}
          /\ w.last # Reading(list[k[1]].uri, there, val)
          => HeldBack(w)

\* After observe_step what is not reported is held back: a watcher that could be
\* read was considered, since its change had tagged it.
LEMMA ReportOfStep ==
  ASSUME TypeInv, AllReadable(observed, present), TagInv(observed, present, value), observe_step
  PROVE  ReportInv(observed', present, value, timeout')
<1>0. ListType(observed) /\ AllSound(observed)
  BY DEF TypeInv
<1> SUFFICES ASSUME NEW k \in Watchers(observed),
                    WatcherOf(observed', k).active,
                    WatcherOf(observed', k).params.toSet \cap NumericFlags = {},
                    WatcherOf(observed', k).last # Reading(observed'[k[1]].uri, present, value)
             PROVE  HeldBack(WatcherOf(observed', k))
  BY StepShape DEF ReportInv, Placed
<1> DEFINE u == observed[k[1]].uri
           w == WatcherOf(observed, k)
<1>1. observed'[k[1]].uri = u
  BY StepShape DEF Placed
<1>2. k \notin Due
  <2>1. k \in Due => WatcherOf(observed', k).last = object_readData(u)
    BY StepShape
  <2> QED
    BY <1>1, <2>1, ReadingMeans
<1>3. WatcherOf(observed', k) = w
  BY <1>2, StepShape
<1>4. w.active /\ w.params.toSet \cap NumericFlags = {} /\ w.update
  BY <1>1, <1>3 DEF TagInv, Tagged
<1>5. ~Notified(u, w)
  <2>1. Readable(u)
    BY <1>0, Places, ReadableMeans DEF AllReadable, ListType
  <2> QED
    BY <1>2, <2>1 DEF Due
<1>6. /\ w.age \in Nat /\ w.params.pmax \in Nat /\ w.params.toSet \in SUBSET Flags
      /\ w.params.toSet # {} => w.params.alloc
  <2>1. w \in WatcherType
    BY <1>0, WatcherNumbers
  <2>2. w.params \in ParamType
    BY <2>1 DEF WatcherType
  <2>3. w.params.toSet \in SUBSET Flags
    BY <2>2 DEF ParamType
  <2> QED
    BY <1>0, <2>3, WatcherNumbers DEF AllSound, Sound
<1> HIDE DEF w, u
<1>7. CASE Is(w, "pmin")
  <2>1. MinPeriodHolds(w)
    BY <1>4, <1>5, <1>7, Zenon DEF Notified
  <2> QED
    BY <1>3, <2>1 DEF HeldBack
<1>8. CASE ~Is(w, "pmin")
  <2>1. ~OnChange(u, w)
    BY <1>4, <1>5, <1>8 DEF Notified
  <2>2. w.params.toSet # {}
    BY <2>1 DEF OnChange
  <2>3. "pmin" \notin w.params.toSet
    BY <1>6, <1>8, <2>2 DEF Is
  <2>4. "pmax" \in w.params.toSet
    BY <1>4, <1>6, <2>2, <2>3 DEF Flags, NumericFlags
  <2>5. Is(w, "pmax")
    BY <1>6, <2>2, <2>4 DEF Is
  <2>6. ~(w.age >= w.params.pmax)
    BY <1>4, <1>5, <2>5 DEF Notified
  <2>7. w.age <= w.params.pmax
    BY <1>6, <2>6
  <2> QED
    BY <1>3, <1>8, <2>5, <2>7 DEF HeldBack
<1> QED
  BY <1>7, <1>8

\* It stays held back while time passes, because the loop does not sleep beyond
\* the period.
LEMMA ReportOfTick ==
  ASSUME TypeInv, PeriodInv(observed, timeout), TagInv(observed, present, value),
         ReportInv(observed, present, value, timeout), Tick
  PROVE  ReportInv(observed', present, value, timeout')
<1>0. ListType(observed) /\ timeout \in Nat
  BY ObserveAssumption DEF TypeInv, DataInv
<1>1. timeout > 0 /\ timeout' = timeout - 1
  BY DEF Tick
<1> SUFFICES ASSUME timeout' > 0, NEW k \in Watchers(observed),
                    WatcherOf(observed', k).active,
                    WatcherOf(observed', k).params.toSet \cap NumericFlags = {},
                    WatcherOf(observed', k).last # Reading(observed'[k[1]].uri, present, value)
             PROVE  HeldBack(WatcherOf(observed', k))
  BY TickShape DEF ReportInv, Placed
<1> DEFINE w == WatcherOf(observed, k)
           v == WatcherOf(observed', k)
<1>2. /\ v.active = w.active /\ v.params = w.params /\ v.update = w.update /\ v.last = w.last
      /\ v.age = w.age \/ v.age = w.age + 1
      /\ observed'[k[1]].uri = observed[k[1]].uri
  BY TickShape DEF Placed, Alike
<1>3. w.age \in Nat /\ w.params.pmin \in Nat /\ w.params.pmax \in Nat
  BY <1>0, WatcherNumbers
<1>4. InTime(w, timeout) /\ Tagged(w, Reading(observed[k[1]].uri, present, value))
  BY <1>1 DEF PeriodInv, TagInv
<1>5. w.active /\ w.last # Reading(observed[k[1]].uri, present, value)
  BY <1>2
<1>6. HeldBack(w)
  BY <1>1, <1>2, <1>5 DEF ReportInv
<1>7. w.update
  BY <1>4, <1>5 DEF Tagged
<1> HIDE DEF v, w
<1>8. CASE MinPeriodHolds(w)
  <2>1. w.age + timeout <= w.params.pmin
    BY <1>4, <1>5, <1>7, <1>8 DEF InTime
  <2>2. v.age < v.params.pmin
    BY <1>0, <1>1, <1>2, <1>3, <2>1
  <2>3. MinPeriodHolds(v)
    BY <1>2, <1>8, <2>2 DEF MinPeriodHolds, Is
  <2> QED
    BY <2>3 DEF HeldBack, v
<1>9. CASE ~Is(w, "pmin") /\ Is(w, "pmax")
  <2>1. w.age + timeout <= w.params.pmax
    BY <1>4, <1>5, <1>9 DEF InTime
  <2>2. v.age <= v.params.pmax
    BY <1>0, <1>1, <1>2, <1>3, <2>1
  <2>3. ~Is(v, "pmin") /\ Is(v, "pmax")
    BY <1>2, <1>9 DEF Is
  <2> QED
    BY <2>2, <2>3 DEF HeldBack, v
<1> QED
  BY <1>6, <1>8, <1>9 DEF HeldBack

\* All other steps let the loop run at once.
LEMMA ReportStep ==
  ASSUME TypeInv, AllReadable(observed, present), PeriodInv(observed, timeout),
         TagInv(observed, present, value), ReportInv(observed, present, value, timeout),
         [Next]_vars
  PROVE  ReportInv(observed', present', value', timeout')
<1>1. CASE observe_step
  BY <1>1, ReportOfStep DEF observe_step
<1>2. CASE Tick
  BY <1>2, ReportOfTick DEF Tick
<1>3. CASE UNCHANGED vars
  BY <1>3 DEF vars
<1>4. CASE timeout' = 0
  BY <1>4 DEF ReportInv
<1>5. observe_step \/ Tick \/ UNCHANGED vars \/ timeout' = 0
  BY Steps DEF observe_handleRequest, observe_handleCancel, handle_reset,
       observe_setParameters, object_delete, handle_value_changed
<1> QED
  BY <1>1, <1>2, <1>3, <1>4, <1>5

\* When the observed URIs are apart, a change that a server was not sent is
\* tagged (lwm2m_resource_value_changed and the flag in observe_step).
THEOREM ChangesTagged ==
  ASSUME UrisApart, DeletesApart PROVE Spec => []NoChangeForgotten
<1> DEFINE CInv == TypeInv /\ TagInv(observed, present, value)
<1>1. Init => CInv
  <2>1. Init => TagInv(observed, present, value)
    BY DEF Init, TagInv, Watchers
  <2> QED
    BY <2>1, TypeInit
<1>2. CInv /\ [Next]_vars => CInv'
  BY TypeStep, TagStep
<1>3. CInv => NoChangeForgotten
  BY ReadingMeans DEF TagInv, Tagged, NoChangeForgotten
<1> QED
  BY <1>1, <1>2, <1>3, PTL DEF Spec

\* When they are apart, a change is reported by the next observe_step, unless a
\* period that has not ended holds it back.
THEOREM ChangesInTime ==
  ASSUME UrisApart, DeletesApart PROVE Spec => []ChangeReported
<1> DEFINE RInv == /\ TypeInv /\ AllReadable(observed, present) /\ PeriodInv(observed, timeout)
                   /\ TagInv(observed, present, value)
                   /\ ReportInv(observed, present, value, timeout)
<1>1. Init => RInv
  <2>1. Init => /\ AllReadable(observed, present) /\ PeriodInv(observed, timeout)
                /\ TagInv(observed, present, value)
                /\ ReportInv(observed, present, value, timeout)
    BY DEF Init, AllReadable, PeriodInv, TagInv, ReportInv, Watchers
  <2> QED
    BY <2>1, TypeInit
<1>2. RInv /\ [Next]_vars => RInv'
  BY TypeStep, ReadableStep, PeriodStep, TagStep, ReportStep
<1>3. RInv => ChangeReported
  BY ReadingMeans DEF ReportInv, HeldBack, ChangeReported
<1> QED
  BY <1>1, <1>2, <1>3, PTL DEF Spec
-----------------------------------------------------------------------------
(* Message ids. A watcher has one when it is active, and no two watchers   *)
(* of a server have the same, so that observe_cancel finds the one whose   *)
(* id it was given.                                                        *)

HasMid(w) == w.active <=> w.mid # 0

MidInv(list) ==
  /\ \A k \in Watchers(list) : HasMid(WatcherOf(list, k))
  /\ \A k, l \in Watchers(list) :
       /\ WatcherOf(list, k).mid # 0
       /\ WatcherOf(list, k).mid = WatcherOf(list, l).mid
       /\ WatcherOf(list, k).server = WatcherOf(list, l).server
       => k = l

\* Watchers that are only moved keep their ids apart.
LEMMA MovedMids ==
  ASSUME NEW new, NEW old, NEW D, NEW K, NEW f, Moves(new, D, old, K, f), MidInv(old)
  PROVE  /\ \A k \in D : HasMid(WatcherOf(new, k))
         /\ \A k, l \in D :
              /\ WatcherOf(new, k).mid # 0
              /\ WatcherOf(new, k).mid = WatcherOf(new, l).mid
              /\ WatcherOf(new, k).server = WatcherOf(new, l).server
              => k = l
<1>1. \A k \in D : WatcherOf(new, k) = WatcherOf(old, f[k]) /\ f[k] \in Watchers(old)
  BY DEF Moves, Same
<1>2. \A k, l \in D : f[k] = f[l] => k = l
  BY DEF Moves
<1> QED
  BY <1>1, <1>2 DEF MidInv

\* Taking watchers out keeps the ids apart.
LEMMA TakenMids ==
  ASSUME NEW new, NEW old, NEW R, Taken(new, old, R), MidInv(old)
  PROVE  MidInv(new)
BY MovedMids DEF Taken, MidInv

\* A watcher with an id that no other watcher of its server has.
LEMMA PutMids ==
  ASSUME NEW new, NEW old, NEW p, NEW w, p \in Watchers(new), WatcherOf(new, p) = w,
         NEW K, NEW f, Moves(new, Watchers(new) \ {p}, old, K, f), MidInv(old), HasMid(w),
         w.mid # 0 => \A k \in Watchers(new) \ {p} :
                        WatcherOf(new, k).server = w.server => WatcherOf(new, k).mid # w.mid
  PROVE  MidInv(new)
<1> DEFINE D == Watchers(new) \ {p}
<1>1. /\ \A k \in D : HasMid(WatcherOf(new, k))
      /\ \A k, l \in D :
           /\ WatcherOf(new, k).mid # 0
           /\ WatcherOf(new, k).mid = WatcherOf(new, l).mid
           /\ WatcherOf(new, k).server = WatcherOf(new, l).server
           => k = l
  BY MovedMids
<1>2. \A k \in Watchers(new) : k = p \/ k \in D
  OBVIOUS
<1> HIDE DEF D
<1>3. \A k \in Watchers(new) : HasMid(WatcherOf(new, k))
  BY <1>1, <1>2
<1>4. ASSUME NEW k \in Watchers(new), NEW l \in Watchers(new),
             WatcherOf(new, k).mid # 0,
             WatcherOf(new, k).mid = WatcherOf(new, l).mid,
             WatcherOf(new, k).server = WatcherOf(new, l).server
      PROVE  k = l
  BY <1>1, <1>2, <1>4 DEF D
<1> QED
  BY <1>3, <1>4 DEF MidInv

\* What servers believe is what the list holds.
Held(list, s, u, t) ==
  \E k \in Watchers(list) :
    /\ list[k[1]].uri = u /\ WatcherOf(list, k).server = s
    /\ WatcherOf(list, k).active /\ WatcherOf(list, k).token = t

SubInv(list, subs) ==
  \A s \in Servers, u \in Uris : subs[s][u] # NoToken => Held(list, s, u, subs[s][u])

\* An observation that is moved is still there.
LEMMA MovedHeld ==
  ASSUME NEW new, NEW old, NEW D \in SUBSET Watchers(new), NEW K, NEW f, Moves(new, D, old, K, f),
         NEW s, NEW u, NEW t, NEW j \in K,
         old[j[1]].uri = u, WatcherOf(old, j).server = s,
         WatcherOf(old, j).active, WatcherOf(old, j).token = t
  PROVE  Held(new, s, u, t)
<1>1. PICK k \in D : f[k] = j
  BY DEF Moves
<1>2. Same(new, k, old, j)
  BY <1>1 DEF Moves
<1>3. k \in Watchers(new)
  OBVIOUS
<1> QED
  BY <1>2, <1>3 DEF Same, Held

\* An observation whose watcher stays in place is still there.
LEMMA PlacedHeld ==
  ASSUME NEW new, NEW old, Placed(new, old), NEW subs, SubInv(old, subs)
  PROVE  SubInv(new, subs)
<1> SUFFICES ASSUME NEW s \in Servers, NEW u \in Uris, subs[s][u] # NoToken
             PROVE  Held(new, s, u, subs[s][u])
  BY DEF SubInv
<1>1. PICK k \in Watchers(old) :
        /\ old[k[1]].uri = u /\ WatcherOf(old, k).server = s
        /\ WatcherOf(old, k).active /\ WatcherOf(old, k).token = subs[s][u]
  BY DEF SubInv, Held
<1>2. /\ k \in Watchers(new) /\ new[k[1]].uri = u /\ WatcherOf(new, k).server = s
      /\ WatcherOf(new, k).active /\ WatcherOf(new, k).token = subs[s][u]
  BY <1>1 DEF Placed, Alike
<1> QED
  BY <1>2 DEF Held

\* The request of an observation: its watcher is there with the new token and
\* a fresh message id, the others stay.
LEMMA RequestHeld ==
  ASSUME UrisApart, TypeInv, MidInv(observed), SubInv(observed, sub),
         NEW s \in Servers, NEW u \in Uris, NEW token \in Tokens[s],
         observe_handleRequest(s, u, token)
  PROVE  MidInv(observed') /\ SubInv(observed', sub')
<1>0. ListType(observed) /\ sub \in Subs
  BY DEF TypeInv, DataInv
<1>1. PICK p, w :
        /\ Put(observed', observed, p, s, u, w)
        /\ w \in WatcherType /\ Sound(w)
        /\ w.active = TRUE /\ w.token = token /\ w.mid = Fresh(MidsOf(s))
        /\ w.last = object_readData(u)
  BY RequestShape
<1>2. observed'[p[1]].uri = u
  BY <1>0, <1>1, EnteredApart DEF Put
<1>3. p \in Watchers(observed') /\ WatcherOf(observed', p) = w /\ w.server = s
  BY <1>1 DEF Put
<1>4. PICK K, f :
        /\ Moves(observed', Watchers(observed') \ {p}, observed, K, f)
        /\ \/ /\ K = Watchers(observed) \ {p} /\ p \in Watchers(observed)
              /\ observed[p[1]].uri = u /\ WatcherOf(observed, p).server = s
           \/ K = Watchers(observed)
  BY <1>1, <1>2 DEF Put
<1>5. w.mid # 0 /\ w.mid \notin MidsOf(s)
  BY <1>0, <1>1, FreshMid
<1>6. MidInv(observed')
  <2>1. HasMid(w)
    BY <1>1, <1>5 DEF HasMid
  <2>2. ASSUME NEW k \in Watchers(observed') \ {p}, WatcherOf(observed', k).server = w.server
        PROVE  WatcherOf(observed', k).mid # w.mid
    <3>1. f[k] \in Watchers(observed) /\ WatcherOf(observed', k) = WatcherOf(observed, f[k])
      BY <1>4 DEF Moves, Same
    <3>2. WatcherOf(observed', k).mid \in MidsOf(s)
      BY <1>3, <2>2, <3>1 DEF MidsOf
    <3> QED
      BY <1>5, <3>2
  <2> QED
    BY <1>3, <1>4, <2>1, <2>2, PutMids
<1>7. \A r \in Servers, v \in Uris :
         sub'[r][v] = IF r = s /\ v = u THEN token ELSE sub[r][v]
  BY <1>0, SubsUpdate DEF observe_handleRequest
<1>8. ASSUME NEW r \in Servers, NEW v \in Uris, sub'[r][v] # NoToken
      PROVE  Held(observed', r, v, sub'[r][v])
  <2>1. CASE r = s /\ v = u
    BY <1>1, <1>2, <1>3, <1>7, <2>1 DEF Held
  <2>2. CASE ~(r = s /\ v = u)
    <3>1. sub'[r][v] = sub[r][v]
      BY <1>7, <2>2
    <3>2. PICK j \in Watchers(observed) :
            /\ observed[j[1]].uri = v /\ WatcherOf(observed, j).server = r
            /\ WatcherOf(observed, j).active /\ WatcherOf(observed, j).token = sub[r][v]
      BY <1>8, <3>1 DEF SubInv, Held
    <3>3. j \in K
      BY <1>4, <2>2, <3>2
    <3>4. Held(observed', r, v, sub[r][v])
      BY <1>4, <3>2, <3>3, MovedHeld
    <3> QED
      BY <3>1, <3>4
  <2> QED
    BY <2>1, <2>2
<1> QED
  BY <1>6, <1>8 DEF SubInv

\* Attributes do not change what is observed.
LEMMA ParametersHeld ==
  ASSUME TypeInv, MidInv(observed), SubInv(observed, sub),
         NEW s \in Servers, NEW u \in Uris, NEW a \in Attributes,
         prv_readAttributes(a), observe_setParameters(s, u, a)
  PROVE  MidInv(observed') /\ SubInv(observed', sub)
<1>0. ListType(observed)
  BY DEF TypeInv
<1>1. PICK p, w :
        /\ Put(observed', observed, p, s, u, w)
        /\ w \in WatcherType /\ Sound(w)
        /\ \/ /\ p \in Watchers(observed) /\ observed'[p[1]].uri = observed[p[1]].uri
              /\ \E f : Moves(observed', Watchers(observed') \ {p}, observed,
                             Watchers(observed) \ {p}, f)
              /\ LET old == WatcherOf(observed, p)
                 IN  /\ w.server = old.server
                     /\ w.active = old.active /\ w.token = old.token /\ w.mid = old.mid
                     /\ w.last = old.last /\ w.update = old.update
           \/ /\ \E f : Moves(observed', Watchers(observed') \ {p}, observed,
                             Watchers(observed), f)
              /\ w.active = FALSE /\ w.mid = 0
  BY ParametersShape
<1>2. p \in Watchers(observed') /\ WatcherOf(observed', p) = w /\ w.server = s
  BY <1>1 DEF Put
<1>3. CASE /\ p \in Watchers(observed) /\ observed'[p[1]].uri = observed[p[1]].uri
           /\ \E f : Moves(observed', Watchers(observed') \ {p}, observed,
                          Watchers(observed) \ {p}, f)
           /\ w.server = WatcherOf(observed, p).server
           /\ w.active = WatcherOf(observed, p).active
           /\ w.token = WatcherOf(observed, p).token /\ w.mid = WatcherOf(observed, p).mid
  <2>1. PICK f : Moves(observed', Watchers(observed') \ {p}, observed, Watchers(observed) \ {p}, f)
    BY <1>3
  <2>2. HasMid(w)
    BY <1>3 DEF MidInv, HasMid
  <2>3. ASSUME w.mid # 0, NEW k \in Watchers(observed') \ {p},
               WatcherOf(observed', k).server = w.server
        PROVE  WatcherOf(observed', k).mid # w.mid
    <3>1. f[k] \in Watchers(observed) /\ WatcherOf(observed', k) = WatcherOf(observed, f[k])
      BY <2>1 DEF Moves, Same
    <3>2. f[k] # p
      BY <2>1 DEF Moves
    <3> QED
      BY <1>3, <2>3, <3>1, <3>2 DEF MidInv
  <2>4. MidInv(observed')
    BY <1>2, <2>1, <2>2, <2>3, PutMids
  <2>5. ASSUME NEW r \in Servers, NEW v \in Uris, sub[r][v] # NoToken
        PROVE  Held(observed', r, v, sub[r][v])
    <3>1. PICK j \in Watchers(observed) :
            /\ observed[j[1]].uri = v /\ WatcherOf(observed, j).server = r
            /\ WatcherOf(observed, j).active /\ WatcherOf(observed, j).token = sub[r][v]
      BY <2>5 DEF SubInv, Held
    <3>2. CASE j = p
      BY <1>2, <1>3, <3>1, <3>2 DEF Held
    <3>3. CASE j # p
      BY <2>1, <3>1, <3>3, MovedHeld
    <3> QED
      BY <3>2, <3>3
  <2> QED
    BY <2>4, <2>5 DEF SubInv
<1>4. CASE /\ \E f : Moves(observed', Watchers(observed') \ {p}, observed, Watchers(observed), f)
           /\ w.active = FALSE /\ w.mid = 0
  <2>1. PICK f : Moves(observed', Watchers(observed') \ {p}, observed, Watchers(observed), f)
    BY <1>4
  <2>2. HasMid(w) /\ w.mid = 0
    BY <1>4 DEF HasMid
  <2>3. MidInv(observed')
    BY <1>2, <2>1, <2>2, PutMids
  <2>4. ASSUME NEW r \in Servers, NEW v \in Uris, sub[r][v] # NoToken
        PROVE  Held(observed', r, v, sub[r][v])
    <3>1. PICK j \in Watchers(observed) :
            /\ observed[j[1]].uri = v /\ WatcherOf(observed, j).server = r
            /\ WatcherOf(observed, j).active /\ WatcherOf(observed, j).token = sub[r][v]
      BY <2>4 DEF SubInv, Held
    <3> QED
      BY <2>1, <3>1, MovedHeld
  <2> QED
    BY <2>3, <2>4 DEF SubInv
<1> QED
  BY <1>1, <1>3, <1>4, Zenon
-----------------------------------------------------------------------------
\* observe_cancel with the id of the watcher c takes out no other watcher that
\* has an id.
LEMMA CancelHeld ==
  ASSUME TypeInv, MidInv(observed), NEW c \in Watchers(observed), NEW new,
         new = observe_cancel(observed, WatcherOf(observed, c).mid, WatcherOf(observed, c).server),
         NEW s \in Servers, NEW u \in Uris, NEW t,
         ~(observed[c[1]].uri = u /\ WatcherOf(observed, c).server = s),
         Held(observed, s, u, t)
  PROVE  MidInv(new) /\ Held(new, s, u, t)
<1> DEFINE m == WatcherOf(observed, c).mid
           q == WatcherOf(observed, c).server
<1>1. PICK r \in Watchers(observed) :
        /\ WatcherOf(observed, r).mid = m /\ WatcherOf(observed, r).server = q
        /\ Taken(observe_cancel(observed, m, q), observed, {r})
  BY CancelShape
<1>2. PICK f : Moves(new, Watchers(new), observed, Watchers(observed) \ {r}, f)
  BY <1>1 DEF Taken
<1>3. PICK j \in Watchers(observed) :
        /\ observed[j[1]].uri = u /\ WatcherOf(observed, j).server = s
        /\ WatcherOf(observed, j).active /\ WatcherOf(observed, j).token = t
  BY DEF Held
<1>4. WatcherOf(observed, j).mid # 0
  BY <1>3 DEF MidInv, HasMid
<1>5. j # r
  <2> SUFFICES ASSUME j = r PROVE FALSE
    OBVIOUS
  <2>1. j = c
    BY <1>1, <1>4 DEF MidInv
  <2> QED
    BY <1>3, <2>1
<1>6. Held(new, s, u, t)
  BY <1>2, <1>3, <1>5, MovedHeld
<1>7. MidInv(new)
  BY <1>1, TakenMids
<1> QED
  BY <1>6, <1>7

\* observe_cancel keeps the ids apart.
LEMMA CancelMids ==
  ASSUME TypeInv, MidInv(observed), NEW m, NEW s
  PROVE  MidInv(observe_cancel(observed, m, s))
<1> DEFINE new == observe_cancel(observed, m, s)
<1>1. new = observed \/ \E R : Taken(new, observed, R)
  BY CancelShape
<1> HIDE DEF new
<1> SUFFICES MidInv(new)
  BY DEF new
<1> QED
  BY <1>1, TakenMids

\* After a cancellation or a reset by s of u.
LEMMA EndedHeld ==
  ASSUME TypeInv, MidInv(observed), SubInv(observed, sub),
         NEW s \in Servers, NEW u \in Uris, NEW c \in Watchers(observed), NEW new,
         observed[c[1]].uri = u, WatcherOf(observed, c).server = s,
         new = observe_cancel(observed, WatcherOf(observed, c).mid, s)
  PROVE  MidInv(new) /\ SubInv(new, [sub EXCEPT ![s][u] = NoToken])
<1>1. MidInv(new)
  BY CancelMids
<1> DEFINE subs == [sub EXCEPT ![s][u] = NoToken]
<1>2. \A r \in Servers, v \in Uris : subs[r][v] = IF r = s /\ v = u THEN NoToken ELSE sub[r][v]
  BY DEF TypeInv, DataInv, Subs
<1> HIDE DEF subs
<1>3. ASSUME NEW r \in Servers, NEW v \in Uris, subs[r][v] # NoToken
      PROVE  Held(new, r, v, subs[r][v])
  <2>1. ~(u = v /\ s = r) /\ subs[r][v] = sub[r][v]
    BY <1>2, <1>3
  <2>2. Held(observed, r, v, sub[r][v])
    BY <1>3, <2>1 DEF SubInv
  <2> QED
    BY <2>1, <2>2, CancelHeld
<1> QED
  BY <1>1, <1>3 DEF SubInv, subs

\* There is no watcher of s at u to end.
LEMMA NothingEnded ==
  ASSUME SubInv(observed, sub), sub \in Subs, NEW s \in Servers, NEW u \in Uris
  PROVE  SubInv(observed, [sub EXCEPT ![s][u] = NoToken])
<1> DEFINE subs == [sub EXCEPT ![s][u] = NoToken]
<1>2. \A r \in Servers, v \in Uris : subs[r][v] = IF r = s /\ v = u THEN NoToken ELSE sub[r][v]
  BY DEF Subs
<1> HIDE DEF subs
<1> SUFFICES SubInv(observed, subs)
  BY DEF subs
<1> QED
  BY <1>2 DEF SubInv

\* The place the two searches find.
LEMMA FoundPlace ==
  ASSUME ListType(observed), NEW i \in DOMAIN observed, NEW s,
         prv_findWatcher(observed[i], s) # 0
  PROVE  LET c == <<i, prv_findWatcher(observed[i], s)>>
         IN  /\ c \in Watchers(observed) /\ c[1] = i
             /\ WatcherOf(observed, c) = observed[i].watchers[prv_findWatcher(observed[i], s)]
             /\ WatcherOf(observed, c).server = s
<1>1. observed[i].watchers \in Seq(WatcherType)
  BY Places DEF ListType
<1> DEFINE j == prv_findWatcher(observed[i], s)
<1>2. j \in DOMAIN observed[i].watchers /\ observed[i].watchers[j].server = s
  BY <1>1, FindWatcher
<1> HIDE DEF j
<1> SUFFICES /\ <<i, j>> \in Watchers(observed) /\ <<i, j>>[1] = i
             /\ WatcherOf(observed, <<i, j>>) = observed[i].watchers[j]
             /\ WatcherOf(observed, <<i, j>>).server = s
  BY DEF j
<1>3. <<i, j>> \in Watchers(observed)
  BY <1>2, PlacePairs
<1>4. WatcherOf(observed, <<i, j>>) = observed[i].watchers[j]
  BY DEF WatcherOf
<1> QED
  BY <1>2, <1>3, <1>4

\* The option Cancel ends the observation that was named and no other.
LEMMA HandleCancelHeld ==
  ASSUME UrisApart, TypeInv, MidInv(observed), SubInv(observed, sub),
         NEW s \in Servers, NEW u \in Uris, observe_handleCancel(s, u)
  PROVE  MidInv(observed') /\ SubInv(observed', sub')
<1>0. ListType(observed) /\ sub \in Subs
  BY DEF TypeInv, DataInv
<1> DEFINE i == prv_findObserved(observed, u)
           j == IF i = 0 THEN 0 ELSE prv_findWatcher(observed[i], s)
<1>1. /\ observed' = IF j = 0 THEN observed
                     ELSE observe_cancel(observed, observed[i].watchers[j].mid, s)
      /\ sub' = [sub EXCEPT ![s][u] = NoToken]
  BY DEF observe_handleCancel
<1>2. CASE j = 0
  BY <1>0, <1>1, <1>2, NothingEnded
<1>3. CASE j # 0
  <2>1. i \in DOMAIN observed /\ IsPrefix(u, observed[i].uri) /\ j = prv_findWatcher(observed[i], s)
    BY <1>0, <1>3, FindObserved DEF ListType
  <2>2. observed[i].uri = u
    BY <1>0, <2>1, Places DEF ListType, UrisApart
  <2> DEFINE c == <<i, prv_findWatcher(observed[i], s)>>
  <2>3. /\ c \in Watchers(observed) /\ c[1] = i
        /\ WatcherOf(observed, c) = observed[i].watchers[j]
        /\ WatcherOf(observed, c).server = s
    BY <1>0, <1>3, <2>1, FoundPlace
  <2> HIDE DEF c, i, j
  <2>4. observed' = observe_cancel(observed, WatcherOf(observed, c).mid, s)
    BY <1>1, <1>3, <2>3
  <2> QED
    BY <1>1, <2>2, <2>3, <2>4, EndedHeld
<1> QED
  BY <1>2, <1>3

\* So does a reset.
LEMMA ResetHeld ==
  ASSUME TypeInv, MidInv(observed), SubInv(observed, sub),
         NEW s \in Servers, NEW u \in Uris, handle_reset(s, u)
  PROVE  MidInv(observed') /\ SubInv(observed', sub')
<1>0. ListType(observed) /\ sub \in Subs
  BY DEF TypeInv, DataInv
<1> DEFINE i == observe_findByUri(observed, u)
           j == IF i = 0 THEN 0 ELSE prv_findWatcher(observed[i], s)
<1>1. /\ j # 0
      /\ observed' = observe_cancel(observed, observed[i].watchers[j].mid, s)
      /\ sub' = [sub EXCEPT ![s][u] = NoToken]
  BY DEF handle_reset
<1>2. i \in DOMAIN observed /\ observed[i].uri = u /\ j = prv_findWatcher(observed[i], s)
  BY <1>0, <1>1, FindByUri DEF ListType
<1> DEFINE c == <<i, prv_findWatcher(observed[i], s)>>
<1>3. /\ c \in Watchers(observed) /\ c[1] = i
      /\ WatcherOf(observed, c) = observed[i].watchers[j]
      /\ WatcherOf(observed, c).server = s
  BY <1>0, <1>1, <1>2, FoundPlace
<1> HIDE DEF c, i, j
<1>4. observed' = observe_cancel(observed, WatcherOf(observed, c).mid, s)
  BY <1>1, <1>3
<1> QED
  BY <1>1, <1>2, <1>3, <1>4, EndedHeld

\* A deletion ends what servers were told it ends.
LEMMA DeleteHeld ==
  ASSUME TypeInv, MidInv(observed), SubInv(observed, sub), NEW inst, object_delete(inst)
  PROVE  MidInv(observed') /\ SubInv(observed', sub')
<1> DEFINE R == {k \in Watchers(observed) : IsPrefix(inst, observed[k[1]].uri)}
<1>1. Taken(observed', observed, R)
  BY DeleteShape
<1>2. MidInv(observed')
  BY <1>1, TakenMids
<1>3. PICK f : Moves(observed', Watchers(observed'), observed, Watchers(observed) \ R, f)
  BY <1>1 DEF Taken
<1>4. ASSUME NEW s \in Servers, NEW u \in Uris, sub'[s][u] # NoToken
      PROVE  Held(observed', s, u, sub'[s][u])
  <2>1. ~IsPrefix(inst, u) /\ sub'[s][u] = sub[s][u]
    BY <1>4 DEF object_delete
  <2>2. PICK j \in Watchers(observed) :
          /\ observed[j[1]].uri = u /\ WatcherOf(observed, j).server = s
          /\ WatcherOf(observed, j).active /\ WatcherOf(observed, j).token = sub[s][u]
    BY <1>4, <2>1 DEF SubInv, Held
  <2>3. j \in Watchers(observed) \ R
    BY <2>1, <2>2
  <2>4. Held(observed', s, u, sub[s][u])
    BY <1>3, <2>2, <2>3, MovedHeld
  <2> QED
    BY <2>1, <2>4
<1> QED
  BY <1>2, <1>4 DEF SubInv

\* The ids of notifications are apart from each other and from those in use.
LEMMA StepMids ==
  ASSUME TypeInv, MidInv(observed), observe_step
  PROVE  MidInv(observed')
<1>0. ListType(observed)
  BY DEF TypeInv
<1>1. /\ \A k \in Due : NewMid(k) \in Nat \ {0} /\ NewMid(k) \notin UsedMids
      /\ \A k, l \in Due : NewMid(k) = NewMid(l) => k = l
  BY <1>0, NewMids
<1>2. /\ Watchers(observed') = Watchers(observed)
      /\ \A k \in Watchers(observed) :
           /\ WatcherOf(observed', k).active = WatcherOf(observed, k).active
           /\ WatcherOf(observed', k).server = WatcherOf(observed, k).server
           /\ WatcherOf(observed', k).mid =
                IF k \in Due THEN NewMid(k) ELSE WatcherOf(observed, k).mid
  BY StepShape DEF Placed, Alike
<1>3. \A k \in Due : k \in Watchers(observed) /\ WatcherOf(observed, k).active
  BY DEF Due, Notified
<1>4. \A k \in Watchers(observed) : WatcherOf(observed, k).mid \in UsedMids
  BY DEF UsedMids
<1>5. ASSUME NEW k \in Watchers(observed) PROVE HasMid(WatcherOf(observed', k))
  <2>1. CASE k \in Due
    BY <1>1, <1>2, <1>3, <2>1 DEF HasMid
  <2>2. CASE k \notin Due
    BY <1>2, <2>2 DEF HasMid, MidInv
  <2> QED
    BY <2>1, <2>2
<1>6. ASSUME NEW k \in Watchers(observed), NEW l \in Watchers(observed),
             WatcherOf(observed', k).mid # 0,
             WatcherOf(observed', k).mid = WatcherOf(observed', l).mid,
             WatcherOf(observed', k).server = WatcherOf(observed', l).server
      PROVE  k = l
  <2>1. CASE k \in Due /\ l \in Due
    BY <1>1, <1>2, <1>6, <2>1
  <2>2. CASE k \in Due /\ l \notin Due
    BY <1>1, <1>2, <1>4, <1>6, <2>2
  <2>3. CASE k \notin Due /\ l \in Due
    BY <1>1, <1>2, <1>4, <1>6, <2>3
  <2>4. CASE k \notin Due /\ l \notin Due
    BY <1>2, <1>6, <2>4 DEF MidInv
  <2> QED
    BY <2>1, <2>2, <2>3, <2>4
<1> QED
  BY <1>2, <1>5, <1>6 DEF MidInv

\* A list with the same ids in the same places.
LEMMA SameMids ==
  ASSUME NEW new, NEW old, Placed(new, old), MidInv(old),
         \A k \in Watchers(old) : WatcherOf(new, k).mid = WatcherOf(old, k).mid
  PROVE  MidInv(new)
BY DEF Placed, Alike, MidInv, HasMid

\* Every step keeps the ids apart and the observations there.
LEMMA HeldStep ==
  ASSUME UrisApart, TypeInv, MidInv(observed), SubInv(observed, sub), [Next]_vars
  PROVE  MidInv(observed') /\ SubInv(observed', sub')
<1>1. ASSUME NEW s \in Servers, NEW u \in Uris, NEW token \in Tokens[s],
             observe_handleRequest(s, u, token)
      PROVE  MidInv(observed') /\ SubInv(observed', sub')
  BY <1>1, RequestHeld
<1>2. ASSUME NEW s \in Servers, NEW u \in Uris, observe_handleCancel(s, u)
      PROVE  MidInv(observed') /\ SubInv(observed', sub')
  BY <1>2, HandleCancelHeld
<1>3. ASSUME NEW s \in Servers, NEW u \in Uris, handle_reset(s, u)
      PROVE  MidInv(observed') /\ SubInv(observed', sub')
  BY <1>3, ResetHeld
<1>4. ASSUME NEW s \in Servers, NEW u \in Uris, NEW a \in Attributes,
             prv_readAttributes(a), observe_setParameters(s, u, a)
      PROVE  MidInv(observed') /\ SubInv(observed', sub')
  BY <1>4, ParametersHeld DEF observe_setParameters
<1>5. ASSUME NEW inst \in Deletes, object_delete(inst)
      PROVE  MidInv(observed') /\ SubInv(observed', sub')
  BY <1>5, DeleteHeld
<1>6. ASSUME NEW u \in Changes, handle_value_changed(u)
      PROVE  MidInv(observed') /\ SubInv(observed', sub')
  BY <1>6, ChangedShape, SameMids, PlacedHeld DEF handle_value_changed
<1>7. ASSUME observe_step PROVE MidInv(observed') /\ SubInv(observed', sub')
  BY <1>7, StepMids, StepShape, PlacedHeld DEF observe_step
<1>8. ASSUME Tick PROVE MidInv(observed') /\ SubInv(observed', sub')
  BY <1>8, TickShape, SameMids, PlacedHeld DEF Tick
<1>9. CASE UNCHANGED vars
  BY <1>9 DEF vars
<1> QED
  BY <1>1, <1>2, <1>3, <1>4, <1>5, <1>6, <1>7, <1>8, <1>9, Steps

\* When they are apart, an accepted observation stays until its own server ends
\* it or its instance is deleted (observe_cancel and the message ids).
THEOREM Subscriptions ==
  ASSUME UrisApart PROVE Spec => []SubscriptionKept
<1> DEFINE SInv == TypeInv /\ MidInv(observed) /\ SubInv(observed, sub)
<1>1. Init => SInv
  <2>1. Init => MidInv(observed) /\ SubInv(observed, sub)
    BY DEF Init, MidInv, SubInv, Watchers
  <2> QED
    BY <2>1, TypeInit
<1>2. SInv /\ [Next]_vars => SInv'
  BY TypeStep, HeldStep
<1>3. SInv => SubscriptionKept
  BY DEF SubInv, Held, SubscriptionKept
<1> QED
  BY <1>1, <1>2, <1>3, PTL DEF Spec
=============================================================================

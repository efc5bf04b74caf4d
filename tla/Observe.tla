------------------------------ MODULE Observe ------------------------------
(***************************************************************************)
(* Observations on the client (core/observe.c, the half for                *)
(* LWM2M_CLIENT_MODE): servers observe URIs, write attributes to them and  *)
(* cancel; the application changes values; observe_step sends the          *)
(* notifications that are due.                                             *)
(*                                                                         *)
(* A URI is the sequence of its ids, as long as the parts that are set:    *)
(* <<3>>, <<3, 0>>, <<3, 0, 7>>. A value of an object or an instance is    *)
(* the function of the values of its resources. The integer, unsigned and  *)
(* float branches of the code compute the same and are one case here.      *)
(*                                                                         *)
(* Time is kept relative: age is the current time minus lastTime. Message  *)
(* ids only matter by which of them are equal, so an id that is not in use *)
(* stands for the next one of contextP->nextMID. Allocations succeed and   *)
(* what can be read can be serialised.                                     *)
(***************************************************************************)
EXTENDS Integers, Sequences, SequencesExt, FiniteSetsExt, Lists

CONSTANTS
  Servers,      \* the registered servers
  Uris,         \* the URIs that are observed
  Observes,     \* which server observes which of them
  Resources,    \* all resources there are, as URIs of length 3
  Numeric,      \* those of a numeric type
  Values,       \* values of a resource, integers
  Writes,       \* attribute writes: triples of a server, a URI and the attributes
  Tokens,       \* per server: the tokens of its observe requests
  Changes,      \* URIs the application reports a change of
  Deletes,      \* object instances that may be deleted
  StepTimeout,  \* the value *timeoutP has when observe_step starts
  MaxWatchers,  \* bound: watchers at a time
  MaxAge        \* bound: seconds since the last message that are told apart

Flags == {"pmin", "pmax", "gt", "lt", "st"}

\* lwm2m_attributes_t as a Write request carries it.
Attributes == [toSet : SUBSET Flags, toClear : SUBSET Flags,
               pmin : Int, pmax : Int, gt : Int, lt : Int, st : Int]

ASSUME ObserveAssumption ==
  /\ \A u \in Uris : u \in Seq(Nat) /\ u # <<>>
  /\ Observes \subseteq Servers \X Uris
  /\ \A r \in Resources : r \in Seq(Nat) /\ Len(r) = 3
  /\ Numeric \subseteq Resources
  /\ Values \subseteq Int /\ 0 \in Values
  /\ \A w \in Writes : w[1] \in Servers /\ w[2] \in Uris /\ w[3] \in Attributes
  /\ \A u \in Changes : u \in Seq(Nat)
  /\ \A inst \in Deletes : inst \in Seq(Nat) /\ Len(inst) = 2
  /\ StepTimeout \in Nat \ {0} /\ MaxWatchers \in Nat /\ MaxAge \in Nat

\* No observed URI is inside of another one (prv_findObserved takes the first
\* that matches), and no observed object has an instance that may be deleted
\* (object_delete does not notify those who observe the object).
UrisApart == \A u, v \in Uris : IsPrefix(u, v) => u = v
DeletesApart == \A u \in Uris, inst \in Deletes : IsPrefix(u, inst) => u = inst

VARIABLES
  observed,  \* contextP->observedList: URIs and their watchers
  value,     \* the value of every resource
  present,   \* the resources whose instance exists
  timeout,   \* *timeoutP of the last step, counted down as time passes
  sub        \* history: per server and URI, the token of the accepted observation

vars == <<observed, value, present, timeout, sub>>

NoToken == "none"

\* lwm2m_attributes_t of a watcher; alloc says whether there is one.
NoParameters == [alloc |-> FALSE, toSet |-> {}, pmin |-> 0, pmax |-> 0,
                 gt |-> 0, lt |-> 0, st |-> 0]

\* prv_readAttributes: every attribute is set to a value, cleared, or not named.
prv_readAttributes(a) ==
  /\ a.toSet \cap a.toClear = {}
  /\ a.pmin >= 0 /\ a.pmax >= 0 /\ a.st >= 0

NumericFlags == {"gt", "lt", "st"}

Below(u) == {r \in present : IsPrefix(u, r)}

\* object_readData: the values below a URI, if what it names exists. An object
\* without instances reads as no value.
Readable(u) == Len(u) = 1 \/ Below(u) # {}
object_readData(u) == [r \in Below(u) |-> value[r]]

\* lwm2m_watcher_t as memset leaves it. last is lastValue, kept for all types.
NewWatcher(s, u) ==
  [server |-> s, active |-> FALSE, update |-> FALSE, token |-> NoToken, age |-> 0,
   mid |-> 0, last |-> object_readData(u), params |-> NoParameters]

Watchers(list) == UNION {{<<o, i>> : i \in DOMAIN list[o].watchers} : o \in DOMAIN list}
WatcherOf(list, k) == list[k[1]].watchers[k[2]]

\* The list with other watchers of its i-th URI.
WithWatchers(list, i, watchers) == [list EXCEPT ![i].watchers = watchers]

AddObserved(list, u) == <<[uri |-> u, watchers |-> <<>>]>> \o list
AddWatcher(list, i, w) == WithWatchers(list, i, <<w>> \o list[i].watchers)

\* The list with the watcher now[k] at every place k.
Update(list, now) ==
  [o \in DOMAIN list |->
     [list[o] EXCEPT !.watchers = [i \in DOMAIN @ |-> now[<<o, i>>]]]]

\* The list with the watcher w at the place k.
WithWatcher(list, k, w) ==
  Update(list, [j \in Watchers(list) |-> IF j = k THEN w ELSE WatcherOf(list, j)])

Fresh(used) == CHOOSE m \in 1..(Cardinality(used) + 1) : m \notin used
MidsOf(s) == {WatcherOf(observed, k).mid : k \in {j \in Watchers(observed) :
                                                    WatcherOf(observed, j).server = s}}
----------------------------------------------------------------------------
(* The lists. Positions stand for pointers, 0 for NULL.                    *)

\* prv_findObserved: the parts that are not set match anything.
prv_findObserved(list, u) == SelectInSeq(list, LAMBDA o : IsPrefix(u, o.uri))

\* observe_findByUri: exactly this URI.
observe_findByUri(list, u) == SelectInSeq(list, LAMBDA o : o.uri = u)

prv_findWatcher(o, s) == SelectInSeq(o.watchers, LAMBDA w : w.server = s)

\* prv_unlinkObserved
prv_unlinkObserved(list, i) == RemoveAt(list, i)

\* prv_getWatcher: found or added, each at the head of its list. The watcher
\* of a server is wanted, so the place of it in the result is given, too.
prv_getWatcher(u, s) ==
  LET i    == prv_findObserved(observed, u)
      list == IF i = 0 THEN AddObserved(observed, u) ELSE observed
      o    == IF i = 0 THEN 1 ELSE i
      j    == prv_findWatcher(list[o], s)
  IN  IF j # 0 THEN [list |-> list, o |-> o, w |-> j]
      ELSE [list |-> AddWatcher(list, o, NewWatcher(s, u)), o |-> o, w |-> 1]

Room(u, s) ==
  LET i == prv_findObserved(observed, u)
  IN  \/ Cardinality(Watchers(observed)) < MaxWatchers
      \/ i # 0 /\ prv_findWatcher(observed[i], s) # 0

\* observe_cancel: the first watcher with this session and last message id is
\* freed, with its observed URI when it was the only one.
observe_cancel_anyone(list, m, s) ==   \* faulty variant: the session is not compared
  LET hit(o) == SelectInSeq(o.watchers, LAMBDA w : w.mid = m)
      i      == SelectInSeq(list, LAMBDA o : hit(o) # 0)
      rest   == RemoveAt(list[i].watchers, hit(list[i]))
  IN  IF i = 0 THEN list
      ELSE IF rest = <<>> THEN prv_unlinkObserved(list, i)
      ELSE WithWatchers(list, i, rest)

\* The watcher with this last message id and session.
prv_findByMid(o, m, s) == SelectInSeq(o.watchers, LAMBDA w : w.mid = m /\ w.server = s)

observe_cancel(list, m, s) ==
  LET i    == SelectInSeq(list, LAMBDA o : prv_findByMid(o, m, s) # 0)
      rest == RemoveAt(list[i].watchers, prv_findByMid(list[i], m, s))
  IN  IF i = 0 THEN list
      ELSE IF rest = <<>> THEN prv_unlinkObserved(list, i)
      ELSE WithWatchers(list, i, rest)

\* observe_clear: nothing at or below this object or instance is observed any more.
observe_clear(list, u) == Keep(list, {i \in DOMAIN list : ~IsPrefix(u, list[i].uri)})
----------------------------------------------------------------------------
Init ==
  /\ observed = <<>>
  /\ value \in [Resources -> {0}]
  /\ present = Resources
  /\ timeout = 0
  /\ sub = [s \in Servers |-> [u \in Uris |-> NoToken]]

(***************************************************************************)
(* observe_handleRequest, called for a GET with an Observe option once the *)
(* URI was read. Option 0 (Observe) makes the server's watcher active, the *)
(* answer carries the current value and has the message id the server      *)
(* chose; a server uses an id once, while another may use the same.        *)
(***************************************************************************)
observe_handleRequest(s, u, token) ==
  /\ Readable(u) /\ Room(u, s)
  /\ LET g == prv_getWatcher(u, s)
         k == <<g.o, g.w>>
     IN  observed' = WithWatcher(g.list, k,
                       [WatcherOf(g.list, k) EXCEPT
                          !.active = TRUE, !.token = token, !.age = 0,
                          !.mid = Fresh(MidsOf(s)), !.last = object_readData(u)])
  /\ sub' = [sub EXCEPT ![s][u] = token]
  /\ timeout' = 0
  /\ UNCHANGED <<value, present>>

\* Option 1 (Cancel) looks for the watcher and cancels by its last message id.
observe_handleCancel(s, u) ==
  /\ Readable(u)
  /\ LET i == prv_findObserved(observed, u)
         j == IF i = 0 THEN 0 ELSE prv_findWatcher(observed[i], s)
     IN  observed' = IF j = 0 THEN observed
                     ELSE observe_cancel(observed, observed[i].watchers[j].mid, s)
  /\ sub' = [sub EXCEPT ![s][u] = NoToken]
  /\ timeout' = 0
  /\ UNCHANGED <<value, present>>

\* handle_reset: the server answers the last message of an observation with a reset.
handle_reset(s, u) ==
  LET i == observe_findByUri(observed, u)
      j == IF i = 0 THEN 0 ELSE prv_findWatcher(observed[i], s)
  IN  /\ j # 0 /\ observed[i].watchers[j].active
      /\ observed' = observe_cancel(observed, observed[i].watchers[j].mid, s)
      /\ sub' = [sub EXCEPT ![s][u] = NoToken]
      /\ timeout' = 0
      /\ UNCHANGED <<value, present>>

\* object_delete of an instance, which ends what is observed in it.
object_delete(inst) ==
  /\ Below(inst) # {}
  /\ present' = present \ Below(inst)
  /\ observed' = observe_clear(observed, inst)
  /\ sub' = [s \in Servers |-> [u \in Uris |-> IF IsPrefix(inst, u) THEN NoToken ELSE sub[s][u]]]
  /\ timeout' = 0
  /\ UNCHANGED value

(***************************************************************************)
(* observe_setParameters. The rule lt + 2 * st < gt is checked on what     *)
(* would be in force. The first attributes are copied as a whole; later    *)
(* ones store their values and clear flags, but set no flag.               *)
(***************************************************************************)
object_checkReadable(u, a) ==
  /\ Readable(u)
  /\ Len(u) >= 3 /\ a.toSet \cap NumericFlags # {} => Below(u) \subseteq Numeric

InForce(p, a, f) == IF f \in a.toSet THEN a[f] ELSE p[f]

BreaksRule(p, a) ==
  /\ NumericFlags \subseteq (a.toSet \cup p.toSet) \ a.toClear
  /\ InForce(p, a, "lt") + 2 * InForce(p, a, "st") >= InForce(p, a, "gt")

NewParameters(p, a) ==
  IF BreaksRule(p, a) \/ (~p.alloc /\ a.toSet = {}) THEN p
  ELSE [alloc |-> TRUE,
        toSet |-> IF p.alloc THEN p.toSet \ a.toClear ELSE a.toSet,
        pmin |-> InForce(p, a, "pmin"), pmax |-> InForce(p, a, "pmax"),
        gt |-> InForce(p, a, "gt"), lt |-> InForce(p, a, "lt"), st |-> InForce(p, a, "st")]

observe_setParameters(s, u, a) ==
  /\ object_checkReadable(u, a) /\ Room(u, s)
  /\ LET g == prv_getWatcher(u, s)
         k == <<g.o, g.w>>
     IN  observed' = WithWatcher(g.list, k,
                       [WatcherOf(g.list, k) EXCEPT !.params = NewParameters(@, a)])
  /\ timeout' = 0
  /\ UNCHANGED <<value, present, sub>>

(***************************************************************************)
(* lwm2m_resource_value_changed tags the active watchers of every URI that *)
(* contains or is contained in the changed one. handle_value_changed calls *)
(* it when the write of the new value succeeded.                           *)
(***************************************************************************)
Touches_above(u, o) == IsPrefix(o, u)   \* faulty variant: what is below it is not tagged
Touches(u, o) == IsPrefix(u, o) \/ IsPrefix(o, u)

lwm2m_resource_value_changed(u) ==
  Update(observed,
         [k \in Watchers(observed) |->
            LET w == WatcherOf(observed, k)
            IN  [w EXCEPT !.update = @ \/ (w.active /\ Touches(u, observed[k[1]].uri))]])

handle_value_changed(u) ==
  /\ Below(u) # {}
  /\ \E new \in [Below(u) -> Values] :
       value' = [r \in Resources |-> IF r \in Below(u) THEN new[r] ELSE value[r]]
  /\ observed' = lwm2m_resource_value_changed(u)
  /\ timeout' = 0
  /\ UNCHANGED <<present, sub>>
----------------------------------------------------------------------------
(* observe_step: which watchers are notified.                              *)
Is(w, f) == w.params.alloc /\ f \in w.params.toSet

\* The single value of a numeric resource, now and when it was last sent.
NumericUri(u) == Len(u) >= 3 /\ Below(u) \subseteq Numeric
Current(u) == value[CHOOSE r \in Below(u) : TRUE]
Sent(u, w) == w.last[CHOOSE r \in Below(u) : TRUE]

Crossed(u, w, limit) ==
  \/ Current(u) < limit /\ Sent(u, w) > limit
  \/ Current(u) > limit /\ Sent(u, w) < limit

\* "should we notify the server ?"
LowerThreshold(u, w) == Is(w, "lt") /\ Crossed(u, w, w.params.lt)
UpperThreshold(u, w) == Is(w, "gt") /\ Crossed(u, w, w.params.gt)
Abs(n) == IF n < 0 THEN -n ELSE n
StepReached(u, w) == Is(w, "st") /\ Abs(Current(u) - Sent(u, w)) >= w.params.st

OnChange_thresholds(u, w) ==   \* faulty variant: no conditions is not a case of its own
  NumericUri(u) /\ (LowerThreshold(u, w) \/ UpperThreshold(u, w) \/ StepReached(u, w))

OnChange(u, w) ==
  \/ w.params.toSet = {}
  \/ NumericUri(u) /\ (LowerThreshold(u, w) \/ UpperThreshold(u, w) \/ StepReached(u, w))

\* The minimal period overrides the conditions above in both directions.
MinPeriodHolds_early(w) == Is(w, "pmin") /\ w.age + 1 < w.params.pmin  \* faulty variant
MinPeriodHolds(w) == Is(w, "pmin") /\ w.age < w.params.pmin

Notified(u, w) ==
  /\ w.active
  /\ \/ /\ w.update
        /\ IF Is(w, "pmin") THEN ~MinPeriodHolds(w) ELSE OnChange(u, w)
     \/ Is(w, "pmax") /\ w.age >= w.params.pmax

\* A notification takes the next message id and stores what it carried.
Notify(u, w, m) ==
  [w EXCEPT !.age = 0, !.mid = m, !.update = FALSE, !.last = object_readData(u)]

\* The time this watcher lets the loop sleep. The maximal period is looked at
\* after the notification.
Intervals_changed(u, w) ==   \* faulty variant: only watchers with a change count
  (IF w.active /\ w.update /\ MinPeriodHolds(w) THEN {w.params.pmin - w.age} ELSE {}) \cup
  (IF w.active /\ w.update /\ Is(w, "pmax")
   THEN {w.params.pmax - (IF Notified(u, w) THEN 0 ELSE w.age)} ELSE {})

Intervals(u, w) ==
  (IF w.active /\ w.update /\ MinPeriodHolds(w) THEN {w.params.pmin - w.age} ELSE {}) \cup
  (IF w.active /\ Is(w, "pmax")
   THEN {w.params.pmax - (IF Notified(u, w) THEN 0 ELSE w.age)} ELSE {})

\* A resource that cannot be read is passed over ("continue").
Due == {k \in Watchers(observed) :
          /\ Readable(observed[k[1]].uri)
          /\ Notified(observed[k[1]].uri, WatcherOf(observed, k))}

\* The k-th notification of this step takes the k-th id that is not in use;
\* there are at most as many in use as watchers.
Earlier(k) == {j \in Due : j[1] < k[1] \/ (j[1] = k[1] /\ j[2] < k[2])}
UsedMids == {WatcherOf(observed, j).mid : j \in Watchers(observed)}
FreeMids == (1..(2 * Cardinality(Watchers(observed)) + 1)) \ UsedMids
NewMid(k) == Nth(FreeMids, Cardinality(Earlier(k)) + 1)

observe_step ==
  /\ observed' = Update(observed,
                        [k \in Watchers(observed) |->
                           IF k \in Due
                           THEN Notify(observed[k[1]].uri, WatcherOf(observed, k), NewMid(k))
                           ELSE WatcherOf(observed, k)])
  /\ timeout' = Min({StepTimeout} \cup
                    UNION {Intervals(observed[k[1]].uri, WatcherOf(observed, k)) :
                             k \in {j \in Watchers(observed) : Readable(observed[j[1]].uri)}})
  /\ UNCHANGED <<value, present, sub>>

\* One second passes; the loop sleeps no longer than it was told.
Tick ==
  /\ timeout > 0 /\ observed # <<>>
  /\ timeout' = timeout - 1
  /\ observed' = Update(observed,
                        [k \in Watchers(observed) |->
                           [WatcherOf(observed, k) EXCEPT !.age = IF @ < MaxAge THEN @ + 1 ELSE @]])
  /\ UNCHANGED <<value, present, sub>>

Next ==
  \/ \E x \in Observes :
       \/ \E token \in Tokens[x[1]] : observe_handleRequest(x[1], x[2], token)
       \/ observe_handleCancel(x[1], x[2])
       \/ handle_reset(x[1], x[2])
  \/ \E w \in Writes : prv_readAttributes(w[3]) /\ observe_setParameters(w[1], w[2], w[3])
  \/ \E inst \in Deletes : object_delete(inst)
  \/ \E u \in Changes : handle_value_changed(u)
  \/ observe_step
  \/ Tick

Spec == Init /\ [][Next]_vars
----------------------------------------------------------------------------
(* Type invariant of the observed list and of what servers believe.        *)
TypeOK ==
  /\ \A o \in DOMAIN observed :
       /\ observed[o].uri \in Uris
       /\ observed[o].watchers # <<>>
       /\ \A i \in DOMAIN observed[o].watchers :
            LET w == observed[o].watchers[i]
            IN  /\ w.server \in Servers /\ w.active \in BOOLEAN /\ w.update \in BOOLEAN
                /\ w.token \in Tokens[w.server] \cup {NoToken} /\ w.age \in 0..MaxAge
                /\ w.params.toSet # {} => w.params.alloc
  /\ value \in [Resources -> Values] /\ present \subseteq Resources
  /\ timeout \in 0..StepTimeout
  /\ \A s \in Servers : sub[s] \in [Uris -> Tokens[s] \cup {NoToken}]

(* No change is forgotten: when the value of an active observation differs *)
(* from the one its server was last sent, the watcher is tagged, so that   *)
(* observe_step will consider it (lwm2m_resource_value_changed, and the    *)
(* flag being cleared only when the value is sent).                        *)
NoChangeForgotten ==
  \A k \in Watchers(observed) :
    LET o == observed[k[1]]
        w == WatcherOf(observed, k)
    IN  w.active /\ w.last # object_readData(o.uri) => w.update

(* An observation that was accepted stays until its own server cancels or  *)
(* resets it or its instance is deleted, with the token it was last asked  *)
(* for with, whatever the others do (observe_cancel finds watchers by the  *)
(* message ids of two numberings).                                         *)
SubscriptionKept ==
  \A s \in Servers, u \in Uris :
    sub[s][u] # NoToken =>
      \E k \in Watchers(observed) :
        LET w == WatcherOf(observed, k)
        IN  observed[k[1]].uri = u /\ w.server = s /\ w.active /\ w.token = sub[s][u]

(* A server is never notified sooner than its minimal period after the     *)
(* last message, unless its maximal period is over (observe_step).         *)
MinPeriodKept ==
  [][\A k \in Watchers(observed) :
       LET w == WatcherOf(observed, k)
       IN  /\ Is(w, "pmin") /\ w.age < w.params.pmin
           /\ ~(Is(w, "pmax") /\ w.age >= w.params.pmax)
           => ~(observe_step /\ WatcherOf(observed', k).mid # w.mid)]_vars

(* The loop is never sent to sleep beyond the maximal period of an active  *)
(* observation, nor beyond the end of a minimal period that holds back a   *)
(* change (observe_step adjusts *timeoutP).                                *)
MaxPeriodKept ==
  timeout > 0 =>
    \A k \in Watchers(observed) :
      LET w == WatcherOf(observed, k)
      IN  /\ w.active /\ Is(w, "pmax") => w.age + timeout <= w.params.pmax
          /\ w.active /\ w.update /\ MinPeriodHolds(w) => w.age + timeout <= w.params.pmin

(* A change is reported in time: once the loop went round after it, an     *)
(* active observation without thresholds was sent the current value,       *)
(* unless one of its periods holds it back, which has not ended yet.       *)
ChangeReported ==
  timeout > 0 =>
    \A k \in Watchers(observed) :
      LET w == WatcherOf(observed, k)
      IN  /\ w.active /\ w.params.toSet \cap NumericFlags = {}
          /\ w.last # object_readData(observed[k[1]].uri)
          => \/ MinPeriodHolds(w)
             \/ ~Is(w, "pmin") /\ Is(w, "pmax") /\ w.age <= w.params.pmax

(* What the server example calls "Write time-related attributes" takes     *)
(* effect: after an accepted write of attributes every one it names is in  *)
(* force. Not checked: attributes set after the first ones are stored but  *)
(* their flags are not set (see NewParameters).                            *)
AttributesTakeEffect ==
  [][\A x \in Writes :
       observe_setParameters(x[1], x[2], x[3]) =>
         \A k \in Watchers(observed') :
           LET w == WatcherOf(observed', k)
           IN  observed'[k[1]].uri = x[2] /\ w.server = x[1] /\ ~BreaksRule(w.params, x[3]) =>
                 x[3].toSet \subseteq w.params.toSet]_vars
============================================================================

--------------------------- MODULE BootstrapProofs ---------------------------
(***************************************************************************)
(* Proofs about Bootstrap, for any accounts, commands, times and bounds:   *)
(* the type of the state, that the list of servers follows the accounts,   *)
(* that sessions end, that accounts are edited in a transaction            *)
(* (AccountStore), and that the bootstrap server's own account stays.      *)
(*                                                                         *)
(* First each operation is shown to go one of a few ways (Outcome, Edited  *)
(* and what follows from them), then each step of Next to be one of three  *)
(* (Sent, Edits, Registered), and every invariant is kept by those three.  *)
(***************************************************************************)
EXTENDS Bootstrap, ListLemmas

\* The types of the state.
States == {"INITIAL", "BOOTSTRAP_REQUIRED", "BOOTSTRAPPING", "REGISTERING", "READY"}

BootType == [status : BsStatus, left : 0 .. ExchangeLifetime + HoldOff,
             session : BOOLEAN, dirty : BOOLEAN]

ServerType == [sid : ShortIds, dirty : BOOLEAN,
               status : {"DEREGISTERED", "REG_PENDING", "REGISTERED", "REG_FAILED"}]

\* The fields of a context.
Fields == {"state", "prev", "sec", "srv", "bak", "bs", "servers", "req"}

(***************************************************************************)
(* A context: its fields and their types, where an id is listed at most    *)
(* once.                                                                   *)
(***************************************************************************)
Context(c) ==
  /\ Fields \subseteq DOMAIN c
  /\ c.state \in States /\ c.prev \in States
  /\ IsPartial(c.sec, Ids, Account) /\ c.srv \subseteq ShortIds
  /\ c.bak = [sec |-> c.bak.sec, srv |-> c.bak.srv]
  /\ IsPartial(c.bak.sec, Ids, Account) /\ c.bak.srv \subseteq ShortIds
  /\ IsPartial(c.bs, Ids, BootType) /\ IsPartial(c.servers, Ids, ServerType)
  /\ DOMAIN c.bs \cap DOMAIN c.servers = {}
  /\ c.req \in [Ids -> Nat]

\* The accounts, their backup and previousState are as before.
AccountsStay(c, d) == d.sec = c.sec /\ d.srv = c.srv /\ d.bak = c.bak /\ d.prev = c.prev

-----------------------------------------------------------------------------
(* Reading the accounts.                                                   *)

\* What object_getServers lists, of what it finds in context c.
Listing(c, r) ==
  /\ \A i \in DOMAIN r.bs :
       \/ i \in DOMAIN c.bs /\ r.bs[i] = c.bs[i]
       \/ i \in DOMAIN c.sec /\ c.sec[i].boot /\ r.bs[i] = NewBootstrapServer
  /\ \A i \in DOMAIN r.servers :
       \/ i \in DOMAIN c.servers /\ r.servers[i] = c.servers[i]
       \/ /\ i \in DOMAIN c.sec /\ ~c.sec[i].boot /\ c.sec[i].sid \in c.srv
          /\ r.servers[i] = NewServer(c.sec[i].sid)
  /\ DOMAIN c.bs \subseteq DOMAIN r.bs /\ DOMAIN c.servers \subseteq DOMAIN r.servers
  /\ Invalid(r) = {} => \A i \in DOMAIN c.sec :
       \/ i \in DOMAIN r.bs \cup DOMAIN r.servers
       \/ ~c.sec[i].boot /\ c.sec[i].sid # 0 /\ c.sec[i].sid \notin c.srv
  /\ \A i \in Invalid(r) : i \in DOMAIN c.sec /\ ~c.sec[i].boot /\ c.sec[i].sid = 0

\* object_getServers adds to the lists what it reads.
LEMMA GetServers ==
  ASSUME NEW c, Context(c)
  PROVE  /\ Context(object_getServers(c))
         /\ AccountsStay(c, object_getServers(c))
         /\ object_getServers(c).state = c.state
         /\ Listing(c, object_getServers(c))
<1> DEFINE read == {i \in Unlisted(c) : \A j \in Invalid(c) : i < j}
           boot == {i \in read : c.sec[i].boot}
           reg  == {i \in read : ~c.sec[i].boot /\ c.sec[i].sid \in c.srv}
           bs   == [i \in DOMAIN c.bs \cup boot |->
                      IF i \in boot THEN NewBootstrapServer ELSE c.bs[i]]
           sv   == [i \in DOMAIN c.servers \cup reg |->
                      IF i \in reg THEN NewServer(c.sec[i].sid) ELSE c.servers[i]]
           r    == object_getServers(c)
<1>1. r = [c EXCEPT !.bs = bs, !.servers = sv]
  BY DEF object_getServers, prv_findServerInstance
<1>2. /\ Fields \subseteq DOMAIN r /\ r.state = c.state /\ r.prev = c.prev
      /\ r.sec = c.sec /\ r.srv = c.srv /\ r.bak = c.bak /\ r.req = c.req
      /\ r.bs = bs /\ r.servers = sv
  BY <1>1 DEF Context, Fields
<1>3. /\ boot \subseteq DOMAIN c.sec /\ boot \cap (DOMAIN c.bs \cup DOMAIN c.servers) = {}
      /\ reg \subseteq DOMAIN c.sec /\ reg \cap (DOMAIN c.bs \cup DOMAIN c.servers) = {}
      /\ reg \cap boot = {} /\ \A i \in boot : c.sec[i].boot
      /\ \A i \in reg : ~c.sec[i].boot /\ c.sec[i].sid \in c.srv
  BY DEF Unlisted
<1>4. /\ DOMAIN bs = DOMAIN c.bs \cup boot
      /\ \A i \in DOMAIN bs : bs[i] = IF i \in boot THEN NewBootstrapServer ELSE c.bs[i]
      /\ DOMAIN sv = DOMAIN c.servers \cup reg
      /\ \A i \in DOMAIN sv : sv[i] = IF i \in reg THEN NewServer(c.sec[i].sid) ELSE c.servers[i]
  OBVIOUS
<1>5. Invalid(r) = Invalid(c)
  <2>1. Unlisted(r) = Unlisted(c) \ (boot \cup reg)
    BY <1>2, <1>4 DEF Unlisted
  <2>2. \A i \in Invalid(c) : i \in Unlisted(c) /\ ~c.sec[i].boot /\ c.sec[i].sid = 0
    BY DEF Invalid
  <2>3. \A i \in Invalid(c) : i \in Nat /\ i \notin read
    <3>1. Invalid(c) \subseteq Nat
      BY BootstrapAssumption DEF Invalid, Unlisted, Context, IsPartial
    <3>2. \A i \in Invalid(c) : ~(i < i)
      BY <3>1
    <3> QED
      BY <3>1, <3>2
  <2>4. \A i \in Invalid(c) : i \notin boot \cup reg
    BY <2>3
  <2> HIDE DEF boot, reg, r, bs, sv
  <2> QED
    BY <1>2, <2>1, <2>2, <2>4 DEF Invalid
<1>6. ASSUME Invalid(c) = {}
      PROVE  \A i \in DOMAIN c.sec :
               \/ i \in DOMAIN bs \cup DOMAIN sv
               \/ ~c.sec[i].boot /\ c.sec[i].sid # 0 /\ c.sec[i].sid \notin c.srv
  <2>1. read = Unlisted(c)
    BY <1>6
  <2>2. SUFFICES ASSUME NEW i \in DOMAIN c.sec, i \notin DOMAIN bs \cup DOMAIN sv
                 PROVE  ~c.sec[i].boot /\ c.sec[i].sid # 0 /\ c.sec[i].sid \notin c.srv
    OBVIOUS
  <2>3. i \in Unlisted(c)
    BY <1>4, <2>2 DEF Unlisted
  <2> QED
    BY <1>4, <1>6, <2>1, <2>2, <2>3 DEF Invalid
<1> HIDE DEF boot, reg, r, bs, sv, read
<1>7. NewBootstrapServer \in BootType
  <2>1. 0 \in 0 .. ExchangeLifetime + HoldOff
    BY BootstrapAssumption
  <2> QED
    BY <2>1 DEF NewBootstrapServer, BootType, BsStatus
<1>8. \A i \in reg : NewServer(c.sec[i].sid) \in ServerType
  <2>1. \A i \in reg : c.sec[i].sid \in ShortIds
    BY <1>3 DEF Context
  <2> QED
    BY <2>1 DEF NewServer, ServerType
<1>9. IsPartial(bs, Ids, BootType) /\ IsPartial(sv, Ids, ServerType)
  BY <1>3, <1>4, <1>7, <1>8 DEF IsPartial, Context
<1>10. DOMAIN bs \cap DOMAIN sv = {}
  BY <1>3, <1>4 DEF Context
<1>11. Context(r)
  BY <1>2, <1>9, <1>10 DEF Context
<1>12. Listing(c, r)
  <2>1. \A i \in Invalid(c) : i \in DOMAIN c.sec /\ ~c.sec[i].boot /\ c.sec[i].sid = 0
    BY DEF Invalid, Unlisted
  <2> QED
    BY <1>2, <1>3, <1>4, <1>5, <1>6, <2>1 DEF Listing
<1> QED
  BY <1>2, <1>11, <1>12 DEF r, AccountsStay

\* What prv_refreshServerList keeps, and what it makes anew of the accounts.
Refreshed(c, r) ==
  /\ \A i \in DOMAIN r.bs :
       /\ r.bs[i].status = "DEREGISTERED" /\ ~r.bs[i].dirty
       /\ \/ i \in DOMAIN c.bs /\ ~c.bs[i].dirty /\ r.bs[i].session = c.bs[i].session
          \/ i \in DOMAIN c.sec /\ c.sec[i].boot /\ ~r.bs[i].session
  /\ \A i \in DOMAIN r.servers :
       /\ ~r.servers[i].dirty
       /\ \/ i \in DOMAIN c.servers /\ r.servers[i] = c.servers[i]
          \/ i \in DOMAIN c.sec /\ ~c.sec[i].boot /\ c.sec[i].sid = r.servers[i].sid
  /\ Invalid(r) = {} => \A i \in DOMAIN c.sec :
       \/ i \in DOMAIN r.bs \cup DOMAIN r.servers
       \/ ~c.sec[i].boot /\ c.sec[i].sid # 0 /\ c.sec[i].sid \notin c.srv
  /\ \A i \in Invalid(r) : i \in DOMAIN c.sec /\ ~c.sec[i].boot /\ c.sec[i].sid = 0

\* prv_refreshServerList drops what is dirty, and reads what is not listed.
LEMMA RefreshServerList ==
  ASSUME NEW c, Context(c)
  PROVE  /\ Context(prv_refreshServerList(c))
         /\ AccountsStay(c, prv_refreshServerList(c))
         /\ prv_refreshServerList(c).state = c.state
         /\ Refreshed(c, prv_refreshServerList(c))
<1> DEFINE keep == {i \in DOMAIN c.bs : ~c.bs[i].dirty}
           bs   == [i \in keep |-> [c.bs[i] EXCEPT !.status = "DEREGISTERED"]]
           req  == [i \in Ids |-> IF i \in keep THEN c.req[i] ELSE 0]
           sv   == Restrict(c.servers, {i \in DOMAIN c.servers : ~c.servers[i].dirty})
           d    == [c EXCEPT !.bs = bs, !.req = req, !.servers = sv]
           r    == prv_refreshServerList(c)
<1>1. r = object_getServers(d)
  BY DEF prv_refreshServerList
<1>2. /\ Fields \subseteq DOMAIN d /\ d.state = c.state /\ d.prev = c.prev
      /\ d.sec = c.sec /\ d.srv = c.srv /\ d.bak = c.bak /\ d.req = req
      /\ d.bs = bs /\ d.servers = sv
  BY DEF Context, Fields
<1>3. /\ DOMAIN bs = keep
      /\ \A i \in DOMAIN bs : bs[i] = [c.bs[i] EXCEPT !.status = "DEREGISTERED"]
      /\ DOMAIN sv = {i \in DOMAIN c.servers : ~c.servers[i].dirty}
      /\ \A i \in DOMAIN sv : sv[i] = c.servers[i]
  BY DEF Restrict
<1>4. keep \subseteq DOMAIN c.bs /\ \A i \in keep : ~c.bs[i].dirty
  OBVIOUS
<1>5. req \in [Ids -> Nat]
  BY DEF Context
<1> HIDE DEF keep, bs, req, sv, d, r
<1>6. \A i \in keep : /\ bs[i] \in BootType /\ bs[i].status = "DEREGISTERED"
                      /\ ~bs[i].dirty /\ bs[i].session = c.bs[i].session
  <2>1. SUFFICES ASSUME NEW i \in keep
                 PROVE  /\ bs[i] \in BootType /\ bs[i].status = "DEREGISTERED"
                        /\ ~bs[i].dirty /\ bs[i].session = c.bs[i].session
    OBVIOUS
  <2>2. c.bs[i] \in BootType
    BY <1>4 DEF Context, IsPartial
  <2> QED
    BY <1>3, <1>4, <2>2 DEF BootType, BsStatus
<1>7. Context(d)
  <2>1. IsPartial(bs, Ids, BootType) /\ IsPartial(sv, Ids, ServerType)
    BY <1>3, <1>4, <1>6 DEF IsPartial, Context
  <2>2. DOMAIN bs \cap DOMAIN sv = {}
    BY <1>3, <1>4 DEF Context
  <2> QED
    BY <1>2, <1>5, <2>1, <2>2 DEF Context
<1>8. Context(r) /\ AccountsStay(d, r) /\ r.state = d.state /\ Listing(d, r)
  BY <1>1, <1>7, GetServers
<1>9. Refreshed(c, r)
  <2>1. \A i \in DOMAIN r.bs :
          /\ r.bs[i].status = "DEREGISTERED" /\ ~r.bs[i].dirty
          /\ \/ i \in DOMAIN c.bs /\ ~c.bs[i].dirty /\ r.bs[i].session = c.bs[i].session
             \/ i \in DOMAIN c.sec /\ c.sec[i].boot /\ ~r.bs[i].session
    BY <1>2, <1>3, <1>4, <1>6, <1>8 DEF Listing, NewBootstrapServer
  <2>2. \A i \in DOMAIN r.servers :
          /\ ~r.servers[i].dirty
          /\ \/ i \in DOMAIN c.servers /\ r.servers[i] = c.servers[i]
             \/ i \in DOMAIN c.sec /\ ~c.sec[i].boot /\ c.sec[i].sid = r.servers[i].sid
    <3>1. SUFFICES ASSUME NEW i \in DOMAIN r.servers
                   PROVE  /\ ~r.servers[i].dirty
                          /\ \/ i \in DOMAIN c.servers /\ r.servers[i] = c.servers[i]
                             \/ i \in DOMAIN c.sec /\ ~c.sec[i].boot /\ c.sec[i].sid = r.servers[i].sid
      OBVIOUS
    <3>2. \/ i \in DOMAIN sv /\ r.servers[i] = sv[i]
          \/ /\ i \in DOMAIN c.sec /\ ~c.sec[i].boot
             /\ r.servers[i] = NewServer(c.sec[i].sid)
      BY <1>2, <1>8, <3>1 DEF Listing
    <3>3. CASE i \in DOMAIN sv /\ r.servers[i] = sv[i]
      BY <1>3, <3>3
    <3>4. CASE /\ i \in DOMAIN c.sec /\ ~c.sec[i].boot
               /\ r.servers[i] = NewServer(c.sec[i].sid)
      <4>1. r.servers[i].sid = c.sec[i].sid /\ r.servers[i].dirty = FALSE
        BY <3>4 DEF NewServer
      <4> QED
        BY <3>4, <4>1
    <3> QED
      BY <3>2, <3>3, <3>4
  <2> QED
    BY <1>2, <1>8, <2>1, <2>2 DEF Listing, Refreshed
<1> QED
  BY <1>2, <1>8, <1>9 DEF r, AccountsStay

-----------------------------------------------------------------------------
(* The bootstrap of one server, and of all.                                *)

\* How the bootstrap of one server goes on, from b to e.
Steps(b, e) ==
  /\ e.dirty = b.dirty
  /\ b.status = "DEREGISTERED" => e.status = "HOLD_OFF"
  /\ b.status = "FINISHED" => e.status = "FINISHED"
  /\ e.status # "DEREGISTERED"
  /\ e.status \in {"FINISHED", "FAILED"} => ~e.session \/ e = b

\* What bootstrap_step makes of a server: its status changes along the bootstrap.
LEMMA StepServerType ==
  ASSUME NEW c, Context(c), NEW i \in DOMAIN c.bs, NEW up
  PROVE  StepServer(c, i, up) \in BootType /\ Steps(c.bs[i], StepServer(c, i, up))
<1> DEFINE b == c.bs[i]
           e == StepServer(c, i, up)
<1>1. /\ b \in BootType /\ b.status \in BsStatus
      /\ b.session \in BOOLEAN /\ b.dirty \in BOOLEAN
  BY DEF Context, IsPartial, BootType
<1>2. HoldOff \in 0 .. ExchangeLifetime + HoldOff
  BY BootstrapAssumption
<1> HIDE DEF b
<1>3. CASE b.status = "DEREGISTERED"
  <2>1. e = [b EXCEPT !.status = "HOLD_OFF", !.left = HoldOff]
    BY <1>3 DEF StepServer, b
  <2> QED
    BY <1>1, <1>2, <1>3, <2>1 DEF BootType, BsStatus, Steps, b
<1>4. CASE b.status = "HOLD_OFF" /\ b.left = 0
  <2>1. e = prv_requestBootstrap(c, i, up)
    BY <1>4 DEF StepServer, b
  <2>2. CASE up.obstacle = "query"
    <3>1. e = [b EXCEPT !.status = "FAILING"]
      BY <2>1, <2>2 DEF prv_requestBootstrap, b
    <3> QED
      BY <1>1, <1>4, <3>1 DEF BootType, BsStatus, Steps, b
  <2>3. CASE up.obstacle # "query" /\ ~Connects(c, i, up)
    <3>1. e = [b EXCEPT !.status = "FAILED"]
      BY <2>1, <2>3 DEF prv_requestBootstrap, b
    <3>2. b.session = FALSE
      BY <1>1, <2>3 DEF Connects, b
    <3> QED
      BY <1>1, <1>4, <3>1, <3>2 DEF BootType, BsStatus, Steps, b
  <2>4. CASE up.obstacle # "query" /\ Connects(c, i, up)
    <3> DEFINE st == IF up.obstacle = "none" THEN "INITIATED" ELSE "FAILING"
    <3>1. e = [b EXCEPT !.session = TRUE, !.status = st]
      BY <2>1, <2>4 DEF prv_requestBootstrap, b
    <3>2. st \in {"INITIATED", "FAILING"}
      OBVIOUS
    <3> HIDE DEF st
    <3> QED
      BY <1>1, <1>4, <3>1, <3>2 DEF BootType, BsStatus, Steps, b
  <2> QED
    BY <2>2, <2>3, <2>4
<1>5. CASE b.status = "PENDING" /\ b.left = 0
  <2>1. e = [b EXCEPT !.status = "FAILING"]
    BY <1>5 DEF StepServer, b
  <2> QED
    BY <1>1, <1>5, <2>1 DEF BootType, BsStatus, Steps, b
<1>6. CASE b.status = "FINISHING"
  <2>1. e = [b EXCEPT !.status = "FINISHED", !.session = FALSE]
    BY <1>6 DEF StepServer, b
  <2> QED
    BY <1>1, <1>6, <2>1 DEF BootType, BsStatus, Steps, b
<1>7. CASE b.status = "FAILING"
  <2>1. e = [b EXCEPT !.status = "FAILED", !.session = FALSE]
    BY <1>7 DEF StepServer, b
  <2> QED
    BY <1>1, <1>7, <2>1 DEF BootType, BsStatus, Steps, b
<1>8. CASE /\ b.status \notin {"DEREGISTERED", "FINISHING", "FAILING"}
           /\ ~(b.status = "HOLD_OFF" /\ b.left = 0) /\ ~(b.status = "PENDING" /\ b.left = 0)
  <2>1. e = b
    BY <1>8 DEF StepServer, b
  <2> QED
    BY <1>1, <1>8, <2>1 DEF Steps, BsStatus, b
<1> QED
  BY <1>1, <1>3, <1>4, <1>5, <1>6, <1>7, <1>8

\* bootstrap_step only changes the bootstrap servers and their requests.
LEMMA BootstrapStep ==
  ASSUME NEW c, Context(c), NEW up
  PROVE  LET d == bootstrap_step(c, up)
         IN  /\ Context(d) /\ AccountsStay(c, d)
             /\ d.state = c.state /\ d.servers = c.servers
             /\ DOMAIN d.bs = DOMAIN c.bs
             /\ \A i \in DOMAIN c.bs : Steps(c.bs[i], d.bs[i])
<1> DEFINE d == bootstrap_step(c, up)
           bs == [i \in DOMAIN c.bs |-> StepServer(c, i, up)]
           req == [i \in Ids |-> IF i \in DOMAIN c.bs /\ Requests(c, i, up)
                                 THEN c.req[i] + 1 ELSE c.req[i]]
<1>1. d = [c EXCEPT !.bs = bs, !.req = req]
  BY DEF bootstrap_step
<1>2. req \in [Ids -> Nat]
  BY DEF Context
<1>3. DOMAIN bs = DOMAIN c.bs /\ \A i \in DOMAIN bs : bs[i] = StepServer(c, i, up)
  OBVIOUS
<1>4. IsPartial(bs, Ids, BootType)
  BY <1>3, StepServerType DEF IsPartial, Context
<1> HIDE DEF bs, req
<1>5. /\ Fields \subseteq DOMAIN d /\ d.state = c.state /\ d.servers = c.servers
      /\ d.bs = bs /\ d.req = req /\ AccountsStay(c, d)
  BY <1>1 DEF Context, Fields, AccountsStay
<1> HIDE DEF d
<1>6. Context(d)
  BY <1>2, <1>3, <1>4, <1>5 DEF Context, AccountsStay
<1> QED
  BY <1>3, <1>5, <1>6, StepServerType DEF d

(***************************************************************************)
(* lwm2m_step: what is not marked to be read again, in d, was so in c, or  *)
(* was made of the account.                                                *)
(***************************************************************************)
Follows(c, d) ==
  /\ \A i \in DOMAIN d.bs :
       ~d.bs[i].dirty => \/ i \in DOMAIN c.bs /\ ~c.bs[i].dirty
                         \/ i \in DOMAIN c.sec /\ c.sec[i].boot
  /\ \A i \in DOMAIN d.servers :
       ~d.servers[i].dirty =>
         \/ /\ i \in DOMAIN c.servers /\ ~c.servers[i].dirty
            /\ c.servers[i].sid = d.servers[i].sid
         \/ /\ i \in DOMAIN c.sec /\ ~c.sec[i].boot
            /\ c.sec[i].sid = d.servers[i].sid

\* The bootstrap servers of d with a session had one in c.
NoNewSession(c, d) ==
  \A i \in DOMAIN d.bs : d.bs[i].session => i \in DOMAIN c.bs /\ c.bs[i].session

\* STATE_BOOTSTRAP_REQUIRED: every bootstrap server starts, if there is one.
LEMMA Required ==
  ASSUME NEW c, Context(c), NEW up
  PROVE  LET r == StepRequired(c, up)
         IN  /\ Context(r.c) /\ AccountsStay(c, r.c) /\ Follows(c, r.c)
             /\ r.c.servers = c.servers
             /\ \/ /\ r.ok = FALSE /\ DOMAIN c.bs = {} /\ DOMAIN r.c.bs = {}
                   /\ r.c.state = "BOOTSTRAP_REQUIRED"
                \/ /\ r.ok = TRUE /\ r.c.state = "BOOTSTRAPPING"
                   /\ DOMAIN r.c.bs = DOMAIN c.bs /\ DOMAIN c.bs # {}
                   /\ \A i \in DOMAIN c.bs : /\ r.c.bs[i].status = "HOLD_OFF"
                                             /\ r.c.bs[i].dirty = c.bs[i].dirty
<1> DEFINE r == StepRequired(c, up)
<1>1. CASE DOMAIN c.bs = {}
  <2> DEFINE d == [c EXCEPT !.state = "BOOTSTRAP_REQUIRED"]
  <2>1. r.c = d /\ r.ok = FALSE
    BY <1>1 DEF StepRequired, Failed
  <2>2. /\ Fields \subseteq DOMAIN d /\ d.state = "BOOTSTRAP_REQUIRED" /\ AccountsStay(c, d)
        /\ d.bs = c.bs /\ d.servers = c.servers /\ d.req = c.req
    BY DEF Context, Fields, AccountsStay
  <2> HIDE DEF d
  <2>3. Context(d)
    BY <2>2 DEF Context, AccountsStay, States
  <2>4. Follows(c, d)
    BY <1>1, <2>2 DEF Follows
  <2> QED
    BY <1>1, <2>1, <2>2, <2>3, <2>4
<1>2. CASE DOMAIN c.bs # {}
  <2> DEFINE bs == [i \in DOMAIN c.bs |->
                      [c.bs[i] EXCEPT !.status = "DEREGISTERED",
                                      !.session = @ \/ lwm2m_connect_server(c, i, up)]]
             s == bootstrap_start(c, up)
             b == bootstrap_step(s, up)
             d == [b EXCEPT !.state = "BOOTSTRAPPING"]
  <2>1. r.c = d /\ r.ok = TRUE
    BY <1>2 DEF StepRequired, Done
  <2>2. s = [c EXCEPT !.bs = bs]
    BY DEF bootstrap_start
  <2>3. DOMAIN bs = DOMAIN c.bs
    OBVIOUS
  <2>4. \A i \in DOMAIN c.bs :
          bs[i] \in BootType /\ bs[i].status = "DEREGISTERED" /\ bs[i].dirty = c.bs[i].dirty
    <3>1. SUFFICES ASSUME NEW i \in DOMAIN c.bs
                   PROVE  /\ bs[i] \in BootType /\ bs[i].status = "DEREGISTERED"
                          /\ bs[i].dirty = c.bs[i].dirty
      OBVIOUS
    <3> DEFINE up1 == c.bs[i].session \/ lwm2m_connect_server(c, i, up)
    <3>2. bs[i] = [c.bs[i] EXCEPT !.status = "DEREGISTERED", !.session = up1]
      BY <3>1
    <3>3. c.bs[i] \in BootType
      BY <3>1 DEF Context, IsPartial
    <3>4. up1 \in BOOLEAN
      OBVIOUS
    <3> HIDE DEF up1, bs
    <3> QED
      BY <3>2, <3>3, <3>4 DEF BootType, BsStatus
  <2> HIDE DEF bs, s, b, d
  <2>5. /\ Fields \subseteq DOMAIN s /\ s.state = c.state /\ s.servers = c.servers
        /\ s.bs = bs /\ s.req = c.req /\ AccountsStay(c, s)
    BY <2>2 DEF Context, Fields, AccountsStay
  <2>6. Context(s)
    BY <2>3, <2>4, <2>5 DEF Context, AccountsStay, IsPartial
  <2>7. /\ Context(b) /\ AccountsStay(s, b) /\ b.state = s.state /\ b.servers = s.servers
        /\ DOMAIN b.bs = DOMAIN s.bs /\ \A i \in DOMAIN s.bs : Steps(s.bs[i], b.bs[i])
    BY <2>6, BootstrapStep DEF b
  <2>8. /\ Fields \subseteq DOMAIN d /\ d.state = "BOOTSTRAPPING" /\ AccountsStay(b, d)
        /\ d.bs = b.bs /\ d.servers = b.servers /\ d.req = b.req
    BY <2>7 DEF Context, Fields, AccountsStay, d
  <2>9. Context(d)
    BY <2>7, <2>8 DEF Context, AccountsStay, States
  <2>10. \A i \in DOMAIN d.bs :
           /\ i \in DOMAIN c.bs /\ d.bs[i].status = "HOLD_OFF"
           /\ d.bs[i].dirty = c.bs[i].dirty
    BY <2>3, <2>4, <2>5, <2>7, <2>8 DEF Steps
  <2>11. AccountsStay(c, d) /\ d.servers = c.servers
    BY <2>5, <2>7, <2>8 DEF AccountsStay
  <2>12. Follows(c, d)
    BY <2>10, <2>11 DEF Follows
  <2> QED
    BY <1>2, <2>1, <2>3, <2>5, <2>7, <2>8, <2>9, <2>10, <2>11, <2>12
<1> QED
  BY <1>1, <1>2

\* registration_start only changes the statuses of servers.
LEMMA RegistrationStart ==
  ASSUME NEW c, Context(c)
  PROVE  LET d == registration_start(c)
         IN  /\ Context(d) /\ AccountsStay(c, d) /\ d.state = c.state /\ d.bs = c.bs
             /\ DOMAIN d.servers = DOMAIN c.servers
             /\ \A i \in DOMAIN d.servers : /\ d.servers[i].dirty = c.servers[i].dirty
                                            /\ d.servers[i].sid = c.servers[i].sid
<1> DEFINE d == registration_start(c)
           new(i) == IF c.servers[i].status \in {"DEREGISTERED", "REG_FAILED"}
                     THEN [c.servers[i] EXCEPT !.status = "REG_PENDING"] ELSE c.servers[i]
           sv == [i \in DOMAIN c.servers |-> new(i)]
<1>1. d = [c EXCEPT !.servers = sv]
  BY DEF registration_start
<1>2. \A i \in DOMAIN c.servers : /\ new(i) \in ServerType /\ new(i).dirty = c.servers[i].dirty
                                  /\ new(i).sid = c.servers[i].sid
  <2>1. \A i \in DOMAIN c.servers : c.servers[i] \in ServerType
    BY DEF Context, IsPartial
  <2> QED
    BY <2>1 DEF ServerType
<1>3. DOMAIN sv = DOMAIN c.servers /\ \A i \in DOMAIN c.servers : sv[i] = new(i)
  OBVIOUS
<1> HIDE DEF sv, new
<1>4. /\ Fields \subseteq DOMAIN d /\ d.state = c.state /\ d.bs = c.bs
      /\ d.servers = sv /\ d.req = c.req /\ AccountsStay(c, d)
  BY <1>1 DEF Context, Fields, AccountsStay
<1> HIDE DEF d
<1>5. Context(d)
  BY <1>2, <1>3, <1>4 DEF Context, AccountsStay, IsPartial
<1> QED
  BY <1>2, <1>3, <1>4, <1>5 DEF d

-----------------------------------------------------------------------------
(* The ways lwm2m_step goes, from context c to d.                          *)

\* The bootstrap, if one is going on, was accepted as finished.
Over(c) == c.state = "BOOTSTRAPPING" => bootstrap_getStatus(c) = "FINISHED"

\* No server is listed that was not.
NoNewServer(c, d) == d.servers = c.servers \/ DOMAIN d.servers = {}

\* What is marked was listed.
NoNewMark(c, d) == \A i \in DOMAIN d.bs : d.bs[i].dirty => i \in DOMAIN c.bs

\* A bootstrap begins, or begins again.
Started(c, d) ==
  /\ Over(c) /\ d.state = "BOOTSTRAPPING" /\ NoNewServer(c, d)
  /\ DOMAIN d.bs # {} /\ NoNewMark(c, d)
  /\ \A i \in DOMAIN d.bs : d.bs[i].status = "HOLD_OFF"

\* A bootstrap goes on.
Continued(c, d) ==
  /\ c.state = "BOOTSTRAPPING" /\ bootstrap_getStatus(c) = "PENDING"
  /\ d.state = "BOOTSTRAPPING" /\ d.servers = c.servers
  /\ DOMAIN d.bs = DOMAIN c.bs /\ \A i \in DOMAIN c.bs : Steps(c.bs[i], d.bs[i])

\* All accounts are read, and there is a server to register to.
AllRead(c, d) ==
  /\ c.state \in {"INITIAL", "BOOTSTRAPPING"} /\ Over(c)
  /\ d.state = "REGISTERING" /\ NoNewSession(c, d)
  /\ \A i \in DOMAIN d.bs : ~d.bs[i].dirty
  /\ \A i \in DOMAIN d.servers : ~d.servers[i].dirty
  /\ \A i \in DOMAIN c.sec :
       \/ i \in DOMAIN d.bs \cup DOMAIN d.servers
       \/ ~c.sec[i].boot /\ c.sec[i].sid # 0

\* Registering, or ready.
Stayed(c, d) ==
  /\ c.state \in {"REGISTERING", "READY"} /\ d.state \in {"REGISTERING", "READY"}
  /\ d.bs = c.bs /\ d.servers = c.servers

\* An account cannot be read.
Unread(c, d) ==
  /\ c.state \in {"INITIAL", "BOOTSTRAPPING"} /\ Over(c)
  /\ c.state = "BOOTSTRAPPING" => Undoes(c)
  /\ d.state = "INITIAL" /\ NoNewSession(c, d)
  /\ \A i \in DOMAIN d.bs : ~d.bs[i].dirty
  /\ \E i \in DOMAIN c.sec : ~c.sec[i].boot /\ c.sec[i].sid = 0

\* There is no bootstrap server to turn to.
Alone(c, d) ==
  /\ Over(c) /\ d.state = "BOOTSTRAP_REQUIRED" /\ DOMAIN d.bs = {} /\ NoNewServer(c, d)
  /\ c.state = "BOOTSTRAP_REQUIRED" => DOMAIN c.bs = {}
  /\ c.state = "BOOTSTRAPPING" =>
       /\ DOMAIN d.servers = {}
       /\ \A i \in DOMAIN c.sec : ~c.sec[i].boot /\ c.sec[i].sid \notin c.srv

\* Every bootstrap server has failed.
GaveUp(c, d) ==
  c.state = "BOOTSTRAPPING" /\ bootstrap_getStatus(c) = "FAILED" /\ d = c

\* One way or another, with what lwm2m_step returns.
Outcome(c, r) ==
  \/ r.ok = TRUE /\ (Started(c, r.c) \/ Continued(c, r.c) \/ AllRead(c, r.c) \/ Stayed(c, r.c))
  \/ r.ok = FALSE /\ (Unread(c, r.c) \/ Alone(c, r.c) \/ GaveUp(c, r.c))

\* STATE_INITIAL, at the start, after a rollback and after a bootstrap.
LEMMA Initial ==
  ASSUME NEW c, Context(c), NEW up, c.state \in {"INITIAL", "BOOTSTRAPPING"}, Over(c)
  PROVE  LET r == StepInitial(c, up)
         IN  Context(r.c) /\ AccountsStay(c, r.c) /\ Follows(c, r.c) /\ Outcome(c, r)
<1> DEFINE r == StepInitial(c, up)
           f == prv_refreshServerList(c)
<1>1. Context(f) /\ AccountsStay(c, f) /\ f.state = c.state /\ Refreshed(c, f)
  BY RefreshServerList
<1>2. Follows(c, f) /\ NoNewSession(c, f)
  BY <1>1 DEF Refreshed, Follows, NoNewSession
<1>3. CASE Invalid(f) # {}
  <2> DEFINE d == [f EXCEPT !.state = "INITIAL"]
  <2>1. r.c = d /\ r.ok = FALSE
    BY <1>3 DEF StepInitial, Failed
  <2>2. c.state = "BOOTSTRAPPING" => Undoes(c)
    BY <1>3 DEF Over, Undoes
  <2> HIDE DEF f
  <2>3. /\ Fields \subseteq DOMAIN d /\ d.state = "INITIAL" /\ AccountsStay(f, d)
        /\ d.bs = f.bs /\ d.servers = f.servers /\ d.req = f.req
    BY <1>1 DEF Context, Fields, AccountsStay
  <2> HIDE DEF d, r
  <2>4. Context(d)
    BY <1>1, <2>3 DEF Context, AccountsStay, States
  <2>5. AccountsStay(c, d) /\ Follows(c, d) /\ NoNewSession(c, d)
    BY <1>1, <1>2, <2>3 DEF AccountsStay, Follows, NoNewSession
  <2>6. Unread(c, d)
    BY <1>1, <1>3, <2>2, <2>3, <2>5 DEF Unread, Refreshed
  <2> QED
    BY <2>1, <2>4, <2>5, <2>6 DEF Outcome, r
<1>4. CASE Invalid(f) = {} /\ DOMAIN f.servers # {}
  <2> DEFINE g == registration_start(f)
             d == [g EXCEPT !.state = "REGISTERING"]
  <2>1. r.c = d /\ r.ok = TRUE
    BY <1>4 DEF StepInitial, Done
  <2> HIDE DEF f, g
  <2>2. /\ Context(g) /\ AccountsStay(f, g) /\ g.bs = f.bs
        /\ DOMAIN g.servers = DOMAIN f.servers
        /\ \A i \in DOMAIN g.servers : /\ g.servers[i].dirty = f.servers[i].dirty
                                       /\ g.servers[i].sid = f.servers[i].sid
    BY <1>1, RegistrationStart DEF g
  <2>3. /\ Fields \subseteq DOMAIN d /\ d.state = "REGISTERING" /\ AccountsStay(g, d)
        /\ d.bs = g.bs /\ d.servers = g.servers /\ d.req = g.req
    BY <2>2 DEF Context, Fields, AccountsStay
  <2> HIDE DEF d, r
  <2>4. Context(d)
    BY <2>2, <2>3 DEF Context, AccountsStay, States
  <2>5. AccountsStay(c, d) /\ NoNewSession(c, d)
    BY <1>1, <1>2, <2>2, <2>3 DEF AccountsStay, NoNewSession
  <2>6. Follows(c, d)
    BY <1>2, <2>2, <2>3 DEF Follows
  <2>7. AllRead(c, d)
    <3>1. \A i \in DOMAIN d.bs : ~d.bs[i].dirty
      BY <1>1, <2>2, <2>3 DEF Refreshed
    <3>2. \A i \in DOMAIN d.servers : ~d.servers[i].dirty
      BY <1>1, <2>2, <2>3 DEF Refreshed
    <3>3. \A i \in DOMAIN c.sec : \/ i \in DOMAIN d.bs \cup DOMAIN d.servers
                                  \/ ~c.sec[i].boot /\ c.sec[i].sid # 0
      BY <1>1, <1>4, <2>2, <2>3 DEF Refreshed
    <3> QED
      BY <2>3, <2>5, <3>1, <3>2, <3>3 DEF AllRead
  <2> QED
    BY <2>1, <2>4, <2>5, <2>6, <2>7 DEF Outcome, r
<1>5. CASE Invalid(f) = {} /\ DOMAIN f.servers = {}
  <2> DEFINE q == StepRequired(f, up)
  <2>1. r = q
    BY <1>5 DEF StepInitial
  <2> HIDE DEF f, q, r
  <2>2. /\ Context(q.c) /\ AccountsStay(f, q.c) /\ Follows(f, q.c)
        /\ q.c.servers = f.servers
        /\ \/ /\ q.ok = FALSE /\ DOMAIN f.bs = {} /\ DOMAIN q.c.bs = {}
              /\ q.c.state = "BOOTSTRAP_REQUIRED"
           \/ /\ q.ok = TRUE /\ q.c.state = "BOOTSTRAPPING"
              /\ DOMAIN q.c.bs = DOMAIN f.bs /\ DOMAIN f.bs # {}
              /\ \A i \in DOMAIN f.bs : /\ q.c.bs[i].status = "HOLD_OFF"
                                        /\ q.c.bs[i].dirty = f.bs[i].dirty
    BY <1>1, Required DEF q
  <2>3. AccountsStay(c, q.c)
    BY <1>1, <2>2 DEF AccountsStay
  <2>4. Follows(c, q.c)
    BY <1>1, <1>2, <1>5, <2>2 DEF Follows, AccountsStay
  <2>5. CASE q.ok = TRUE
    <3>1. NoNewMark(c, q.c)
      BY <1>1, <2>2, <2>5 DEF Refreshed, NoNewMark
    <3>2. Started(c, q.c)
      BY <1>5, <2>2, <2>5, <3>1 DEF Started, NoNewServer
    <3> QED
      BY <2>1, <2>2, <2>3, <2>4, <2>5, <3>2 DEF Outcome, r
  <2>6. CASE q.ok = FALSE
    <3>1. \A i \in DOMAIN c.sec : ~c.sec[i].boot /\ c.sec[i].sid \notin c.srv
      BY <1>1, <1>5, <2>2, <2>6 DEF Refreshed
    <3>2. Alone(c, q.c)
      BY <1>5, <2>2, <2>6, <3>1 DEF Alone, NoNewServer
    <3> QED
      BY <2>1, <2>2, <2>3, <2>4, <2>6, <3>2 DEF Outcome, r
  <2> QED
    BY <2>2, <2>5, <2>6
<1> QED
  BY <1>3, <1>4, <1>5

\* lwm2m_step goes one of these ways, and leaves the accounts alone.
LEMMA LwM2mStep ==
  ASSUME NEW c, Context(c), NEW up
  PROVE  LET r == lwm2m_step(c, up)
         IN  Context(r.c) /\ AccountsStay(c, r.c) /\ Follows(c, r.c) /\ Outcome(c, r)
<1> DEFINE r == lwm2m_step(c, up)
           Goal(q) == Context(q.c) /\ AccountsStay(c, q.c) /\ Follows(c, q.c) /\ Outcome(c, q)
<1>1. c.state \in States /\ Context(c)
  BY DEF Context
<1>2. Follows(c, c) /\ AccountsStay(c, c)
  BY DEF Follows, AccountsStay
<1>3. ASSUME c.state \notin {"INITIAL", "BOOTSTRAPPING"}
      PROVE  Goal(StepRequired(c, up))
  <2> DEFINE q == StepRequired(c, up)
  <2>1. /\ Context(q.c) /\ AccountsStay(c, q.c) /\ Follows(c, q.c)
        /\ q.c.servers = c.servers
        /\ \/ /\ q.ok = FALSE /\ DOMAIN c.bs = {} /\ DOMAIN q.c.bs = {}
              /\ q.c.state = "BOOTSTRAP_REQUIRED"
           \/ /\ q.ok = TRUE /\ q.c.state = "BOOTSTRAPPING"
              /\ DOMAIN q.c.bs = DOMAIN c.bs /\ DOMAIN c.bs # {}
              /\ \A i \in DOMAIN c.bs : /\ q.c.bs[i].status = "HOLD_OFF"
                                        /\ q.c.bs[i].dirty = c.bs[i].dirty
    BY Required
  <2> HIDE DEF q
  <2>2. (Started(c, q.c) /\ q.ok = TRUE) \/ (Alone(c, q.c) /\ q.ok = FALSE)
    BY <1>3, <2>1 DEF Started, Alone, Over, NoNewServer, NoNewMark
  <2>3. Outcome(c, q)
    BY <2>2 DEF Outcome
  <2> QED
    BY <2>1, <2>3 DEF q
<1>4. CASE c.state = "INITIAL"
  <2>1. r = StepInitial(c, up)
    BY <1>4 DEF lwm2m_step
  <2>2. Over(c)
    BY <1>4 DEF Over
  <2> QED
    BY <1>4, <2>1, <2>2, Initial
<1>5. CASE c.state = "BOOTSTRAP_REQUIRED"
  <2>1. r = StepRequired(c, up)
    BY <1>5 DEF lwm2m_step
  <2> QED
    BY <1>3, <1>5, <2>1
<1>6. CASE c.state = "BOOTSTRAPPING"
  <2>1. bootstrap_getStatus(c) \in {"PENDING", "FINISHED", "FAILED"}
    BY DEF bootstrap_getStatus
  <2>2. CASE bootstrap_getStatus(c) = "FINISHED"
    <3>1. r = StepInitial(c, up)
      BY <1>6, <2>2 DEF lwm2m_step
    <3>2. Over(c)
      BY <2>2 DEF Over
    <3> QED
      BY <1>6, <3>1, <3>2, Initial
  <2>3. CASE bootstrap_getStatus(c) = "FAILED"
    <3>1. r.ok = FALSE /\ r.c = c
      BY <1>6, <2>3 DEF lwm2m_step, Failed
    <3>2. GaveUp(c, r.c)
      BY <1>6, <2>3, <3>1 DEF GaveUp
    <3> HIDE DEF r
    <3> QED
      BY <1>1, <1>2, <3>1, <3>2 DEF Outcome, r
  <2>4. CASE bootstrap_getStatus(c) = "PENDING"
    <3> DEFINE d == bootstrap_step(c, up)
    <3>1. r.ok = TRUE /\ r.c = d
      BY <1>6, <2>4 DEF lwm2m_step, Done
    <3>2. /\ Context(d) /\ AccountsStay(c, d) /\ d.state = c.state /\ d.servers = c.servers
          /\ DOMAIN d.bs = DOMAIN c.bs /\ \A i \in DOMAIN c.bs : Steps(c.bs[i], d.bs[i])
      BY BootstrapStep
    <3> HIDE DEF d, r
    <3>3. Continued(c, d)
      BY <1>6, <2>4, <3>2 DEF Continued
    <3>4. Follows(c, d)
      BY <3>2 DEF Follows, Steps
    <3> QED
      BY <3>1, <3>2, <3>3, <3>4 DEF Outcome, r
  <2> QED
    BY <2>1, <2>2, <2>3, <2>4
<1>7. CASE c.state \in {"REGISTERING", "READY"}
  <2>1. registration_getStatus(c) \in {"REG_PENDING", "REGISTERED", "REG_FAILED"}
    BY DEF registration_getStatus
  <2>2. CASE registration_getStatus(c) = "REG_FAILED"
    <3>1. r = StepRequired(c, up)
      BY <1>7, <2>2 DEF lwm2m_step
    <3> QED
      BY <1>3, <1>7, <3>1
  <2>3. CASE registration_getStatus(c) # "REG_FAILED"
    <3> DEFINE d == [c EXCEPT !.state = "READY"]
    <3>1. r.ok = TRUE /\ (r.c = c \/ r.c = d)
      BY <1>7, <2>1, <2>3 DEF lwm2m_step, Done
    <3>2. /\ Fields \subseteq DOMAIN d /\ d.state = "READY" /\ AccountsStay(c, d)
          /\ d.bs = c.bs /\ d.servers = c.servers /\ d.req = c.req
      BY DEF Context, Fields, AccountsStay
    <3> HIDE DEF d, r
    <3>3. Context(d)
      BY <3>2 DEF Context, AccountsStay, States
    <3>4. Stayed(c, d) /\ Stayed(c, c)
      BY <1>7, <3>2 DEF Stayed
    <3>5. Follows(c, d)
      BY <3>2 DEF Follows
    <3> QED
      BY <1>1, <1>2, <3>1, <3>2, <3>3, <3>4, <3>5 DEF Outcome, r
  <2> QED
    BY <2>2, <2>3
<1> QED
  BY <1>1, <1>4, <1>5, <1>6, <1>7 DEF States

-----------------------------------------------------------------------------
(* The rest of sendData.                                                   *)

\* The servers of c are those of d, but for their status.
SameServers(c, d) ==
  /\ DOMAIN d.servers = DOMAIN c.servers
  /\ \A i \in DOMAIN c.servers : /\ d.servers[i].dirty = c.servers[i].dirty
                                 /\ d.servers[i].sid = c.servers[i].sid

\* A registration that fails may ask for a bootstrap.
LEMMA RegistrationsFailing ==
  ASSUME NEW c, Context(c), NEW S \in SUBSET DOMAIN c.servers
  PROVE  LET d == RegistrationsFail(c, S)
         IN  /\ Context(d) /\ AccountsStay(c, d) /\ d.bs = c.bs /\ d.req = c.req
             /\ SameServers(c, d)
             /\ d.state = c.state \/ d.state = "BOOTSTRAP_REQUIRED"
<1> DEFINE d == RegistrationsFail(c, S)
           new(i) == IF i \in S THEN [c.servers[i] EXCEPT !.status = "REG_FAILED"]
                     ELSE c.servers[i]
           sv == [i \in DOMAIN c.servers |-> new(i)]
           state == IF \E i \in S : c.servers[i].sid \in BootstrapOnFailure
                    THEN "BOOTSTRAP_REQUIRED" ELSE c.state
<1>1. d = [c EXCEPT !.servers = sv, !.state = state]
  BY DEF RegistrationsFail
<1>2. \A i \in DOMAIN c.servers : /\ new(i) \in ServerType /\ new(i).dirty = c.servers[i].dirty
                                  /\ new(i).sid = c.servers[i].sid
  <2>1. \A i \in DOMAIN c.servers : c.servers[i] \in ServerType
    BY DEF Context, IsPartial
  <2> QED
    BY <2>1 DEF ServerType
<1>3. DOMAIN sv = DOMAIN c.servers /\ \A i \in DOMAIN c.servers : sv[i] = new(i)
  OBVIOUS
<1>4. state = c.state \/ state = "BOOTSTRAP_REQUIRED"
  OBVIOUS
<1> HIDE DEF sv, new, state
<1>5. /\ Fields \subseteq DOMAIN d /\ d.state = state /\ d.bs = c.bs
      /\ d.servers = sv /\ d.req = c.req /\ AccountsStay(c, d)
  BY <1>1 DEF Context, Fields, AccountsStay
<1> HIDE DEF d
<1>6. Context(d)
  BY <1>2, <1>3, <1>4, <1>5 DEF Context, AccountsStay, IsPartial, States
<1> QED
  BY <1>2, <1>3, <1>4, <1>5, <1>6 DEF d, SameServers

\* A record of two objects is its two fields.
AccountsOf(c) == [sec |-> c.sec, srv |-> c.srv]

\* previousState follows the state, and the backup is made on entering BOOTSTRAPPING.
LEMMA UpdateInfo ==
  ASSUME NEW c, Context(c)
  PROVE  LET d == update_bootstrap_info(c)
         IN  /\ Context(d) /\ d.state = c.state /\ d.prev = c.state
             /\ d.sec = c.sec /\ d.srv = c.srv /\ d.bs = c.bs /\ d.servers = c.servers
             /\ d.req = c.req
             /\ d.bak = IF c.prev # c.state /\ c.state = "BOOTSTRAPPING"
                        THEN AccountsOf(c) ELSE c.bak
<1> DEFINE e == [c EXCEPT !.prev = c.state]
           f == [e EXCEPT !.bak = [sec |-> e.sec, srv |-> e.srv]]
           d == update_bootstrap_info(c)
<1>1. d = IF c.prev # c.state /\ c.state = "BOOTSTRAPPING" THEN f ELSE e
  BY DEF update_bootstrap_info, prv_backup_objects
<1>2. /\ Fields \subseteq DOMAIN e /\ e.state = c.state /\ e.prev = c.state
      /\ e.sec = c.sec /\ e.srv = c.srv /\ e.bs = c.bs /\ e.servers = c.servers
      /\ e.req = c.req /\ e.bak = c.bak
  BY DEF Context, Fields
<1> HIDE DEF e
<1>3. /\ Fields \subseteq DOMAIN f /\ f.state = c.state /\ f.prev = c.state
      /\ f.sec = c.sec /\ f.srv = c.srv /\ f.bs = c.bs /\ f.servers = c.servers
      /\ f.req = c.req /\ f.bak = AccountsOf(c)
  BY <1>2 DEF Fields, AccountsOf
<1> HIDE DEF f, d
<1>4. Context(e)
  BY <1>2 DEF Context
<1>5. Context(f)
  <2>1. f.bak.sec = c.sec /\ f.bak.srv = c.srv /\ f.bak = [sec |-> f.bak.sec, srv |-> f.bak.srv]
    BY <1>3 DEF AccountsOf
  <2> QED
    BY <1>3, <2>1 DEF Context
<1> QED
  BY <1>1, <1>2, <1>3, <1>4, <1>5 DEF d

\* The step was done: e is what lwm2m_step made of c, and hit is whether a bootstrap was
\* interrupted.
Kept(c, e, d, hit) ==
  /\ Started(c, e) \/ Continued(c, e) \/ AllRead(c, e) \/ Stayed(c, e)
  /\ d.sec = c.sec /\ d.srv = c.srv
  /\ d.state = e.state \/ d.state = "BOOTSTRAP_REQUIRED"
  /\ hit <=> e.state = "BOOTSTRAPPING" /\ d.state # "BOOTSTRAPPING"
  /\ d.prev = d.state
  /\ d.bak = IF c.prev # d.state /\ d.state = "BOOTSTRAPPING" THEN AccountsOf(c) ELSE c.bak

\* It failed during a bootstrap.
RolledBack(c, e, d, hit) ==
  /\ Unread(c, e) \/ Alone(c, e) \/ GaveUp(c, e)
  /\ c.prev = "BOOTSTRAPPING" /\ ~hit
  /\ d.sec = c.bak.sec /\ d.srv = c.bak.srv /\ d.bak = c.bak
  /\ d.state = "INITIAL" /\ d.prev = "INITIAL"

\* It failed otherwise.
Returned(c, e, d, hit) ==
  /\ Unread(c, e) \/ Alone(c, e) \/ GaveUp(c, e)
  /\ c.prev # "BOOTSTRAPPING" /\ d = e /\ ~hit

\* sendData goes one of three ways.
LEMMA SendData ==
  ASSUME NEW c, Context(c), NEW up, NEW lost, NEW r, r = lwm2m_step(c, up)
  PROVE  LET d == sendData(c, r, lost)
             hit == Interrupts(r, lost)
         IN  /\ Context(d) /\ d.req = r.c.req
             /\ \E e : /\ Context(e) /\ AccountsStay(c, e) /\ Follows(c, e)
                       /\ d.bs = e.bs /\ SameServers(e, d)
                       /\ Kept(c, e, d, hit) \/ RolledBack(c, e, d, hit) \/ Returned(c, e, d, hit)
<1> DEFINE e == r.c
           d == sendData(c, r, lost)
           hit == Interrupts(r, lost)
<1>1. Context(e) /\ AccountsStay(c, e) /\ Follows(c, e) /\ Outcome(c, r)
  BY LwM2mStep
<1>2. SameServers(e, e)
  BY DEF SameServers
<1>3. CASE r.ok = TRUE
  <2> DEFINE lose == {i \in DOMAIN e.servers \cap lost : e.servers[i].status = "REG_PENDING"}
             t == RegistrationsFail(e, lose)
  <2>1. d = update_bootstrap_info(t)
    BY <1>3 DEF sendData, transaction_step
  <2>2. Started(c, e) \/ Continued(c, e) \/ AllRead(c, e) \/ Stayed(c, e)
    BY <1>1, <1>3 DEF Outcome
  <2>9. hit <=> e.state = "BOOTSTRAPPING" /\ t.state # "BOOTSTRAPPING"
    BY <1>3 DEF Interrupts, transaction_step
  <2>3. lose \in SUBSET DOMAIN e.servers
    OBVIOUS
  <2> HIDE DEF e, d, lose, hit
  <2>4. /\ Context(t) /\ AccountsStay(e, t) /\ t.bs = e.bs /\ t.req = e.req
        /\ SameServers(e, t)
        /\ t.state = e.state \/ t.state = "BOOTSTRAP_REQUIRED"
    BY <1>1, <2>3, RegistrationsFailing
  <2> HIDE DEF t
  <2>5. /\ Context(d) /\ d.state = t.state /\ d.prev = t.state /\ d.req = t.req
        /\ d.sec = t.sec /\ d.srv = t.srv /\ d.bs = t.bs /\ d.servers = t.servers
        /\ d.bak = IF t.prev # t.state /\ t.state = "BOOTSTRAPPING"
                   THEN AccountsOf(t) ELSE t.bak
    BY <2>1, <2>4, UpdateInfo
  <2>6. AccountsOf(t) = AccountsOf(c) /\ t.bak = c.bak /\ t.prev = c.prev
    BY <1>1, <2>4 DEF AccountsStay, AccountsOf
  <2>7. SameServers(e, d)
    BY <2>4, <2>5 DEF SameServers
  <2>8. Kept(c, e, d, hit)
    BY <1>1, <2>2, <2>4, <2>5, <2>6, <2>9 DEF Kept, AccountsStay
  <2> QED
    BY <1>1, <2>4, <2>5, <2>7, <2>8 DEF d, e, hit
<1>4. CASE r.ok = FALSE /\ c.prev = "BOOTSTRAPPING"
  <2> DEFINE o == prv_restore_objects(e)
             q == [o EXCEPT !.state = "INITIAL"]
  <2>1. d = update_bootstrap_info(q)
    BY <1>4 DEF sendData
  <2>2. Unread(c, e) \/ Alone(c, e) \/ GaveUp(c, e)
    BY <1>1, <1>4 DEF Outcome
  <2>9. ~hit
    BY <1>4 DEF Interrupts
  <2> HIDE DEF e, d, hit
  <2>3. /\ Fields \subseteq DOMAIN o /\ o.sec = e.bak.sec /\ o.srv = e.bak.srv
        /\ o.bak = e.bak /\ o.prev = e.prev /\ o.bs = e.bs /\ o.servers = e.servers
        /\ o.req = e.req
    BY <1>1 DEF prv_restore_objects, Context, Fields
  <2> HIDE DEF o
  <2>4. /\ Fields \subseteq DOMAIN q /\ q.sec = e.bak.sec /\ q.srv = e.bak.srv
        /\ q.bak = e.bak /\ q.prev = e.prev /\ q.bs = e.bs /\ q.servers = e.servers
        /\ q.req = e.req /\ q.state = "INITIAL"
    BY <2>3 DEF Fields
  <2> HIDE DEF q
  <2>5. Context(q)
    BY <1>1, <2>4 DEF Context, States
  <2>6. /\ Context(d) /\ d.state = q.state /\ d.prev = q.state
        /\ d.sec = q.sec /\ d.srv = q.srv /\ d.bs = q.bs /\ d.servers = q.servers
        /\ d.req = q.req
        /\ d.bak = IF q.prev # q.state /\ q.state = "BOOTSTRAPPING"
                   THEN AccountsOf(q) ELSE q.bak
    BY <2>1, <2>5, UpdateInfo
  <2>7. RolledBack(c, e, d, hit)
    BY <1>1, <1>4, <2>2, <2>4, <2>6, <2>9 DEF RolledBack, AccountsStay
  <2>8. SameServers(e, d)
    BY <2>4, <2>6 DEF SameServers
  <2> QED
    BY <1>1, <2>4, <2>6, <2>7, <2>8 DEF d, e, hit
<1>5. CASE r.ok = FALSE /\ c.prev # "BOOTSTRAPPING"
  <2>1. d = e
    BY <1>5 DEF sendData
  <2>2. Returned(c, e, d, hit)
    BY <1>1, <1>5, <2>1 DEF Outcome, Returned, Interrupts
  <2> HIDE DEF d, e, hit
  <2>3. Context(d) /\ d.bs = e.bs /\ d.req = e.req /\ SameServers(e, d)
    BY <1>1, <1>2, <2>1
  <2> QED
    BY <1>1, <2>2, <2>3 DEF d, e, hit
<1>6. r.ok = TRUE \/ r.ok = FALSE
  BY <1>1 DEF Outcome
<1> QED
  BY <1>3, <1>4, <1>5, <1>6

-----------------------------------------------------------------------------
(***************************************************************************)
(* What the messages of a bootstrap server may do, from context c to d:    *)
(* the bootstrap goes on, what is listed is marked, and an account that    *)
(* changes is of a server that is marked.                                  *)
(***************************************************************************)
Moved(b, e) ==
  /\ e.session = b.session
  /\ \/ e.status = b.status
     \/ /\ b.status \in {"DEREGISTERED", "HOLD_OFF", "INITIATED", "PENDING"}
        /\ e.status \in {"PENDING", "FINISHING", "FAILING"}

\* The accounts of c that d has changed or deleted.
Touched(c, d) == {j \in DOMAIN c.sec : j \notin DOMAIN d.sec \/ d.sec[j] # c.sec[j]}

\* Only the marks of what is listed change, and what is in T is marked.
Marked(c, d, T) ==
  /\ DOMAIN d.bs = DOMAIN c.bs /\ DOMAIN d.servers = DOMAIN c.servers
  /\ \A j \in DOMAIN c.bs :
       Moved(c.bs[j], d.bs[j]) /\ (~d.bs[j].dirty => ~c.bs[j].dirty /\ j \notin T)
  /\ \A j \in DOMAIN c.servers :
       /\ d.servers[j].sid = c.servers[j].sid
       /\ ~d.servers[j].dirty => ~c.servers[j].dirty /\ j \notin T

\* A command may make an account of a bootstrap server at j.
MayBoot(j) ==
  \E m \in Commands : \E k \in DOMAIN m.accounts :
    m.accounts[k].boot /\ (m.op = "put_security" => m.id = j)

\* No server has more bootstrap requests than the bound.
FewRequests(c) == \A i \in Ids : c.req[i] <= MaxRequests

\* What one message, or several, may make of context c.
Edited(c, d) ==
  /\ Context(d) /\ (FewRequests(c) => FewRequests(d))
  /\ d.state = c.state /\ d.prev = c.prev /\ d.bak = c.bak
  /\ Marked(c, d, Touched(c, d))
  /\ \A j \in DOMAIN d.sec :
       d.sec[j].boot => (j \in DOMAIN c.sec /\ c.sec[j].boot) \/ MayBoot(j)

\* No bootstrap goes on.
SameStatus(c, d) == \A j \in DOMAIN c.bs : d.bs[j].status = c.bs[j].status

\* What a command does, and its parts: bootstraps stay where they are.
Performed(c, d) == Edited(c, d) /\ SameStatus(c, d)

\* An account as a command carries it.
Carried == [id : Ids, boot : BOOLEAN, sid : ShortIds \cup {0}, fails : BOOLEAN]

\* To do nothing is an edit.
LEMMA EditedSame ==
  ASSUME NEW c, Context(c) PROVE Edited(c, c)
BY DEF Edited, Marked, Touched, Moved

\* Two edits are one.
LEMMA EditedTransitive ==
  ASSUME NEW c, NEW d, NEW e, Edited(c, d), Edited(d, e)
  PROVE  Edited(c, e)
<1>1. Marked(c, d, Touched(c, d)) /\ Marked(d, e, Touched(d, e))
  BY DEF Edited
<1>2. Touched(c, e) \subseteq Touched(c, d) \cup Touched(d, e)
  BY DEF Touched
<1> HIDE DEF Touched
<1>3. \A j \in DOMAIN c.bs : Moved(c.bs[j], e.bs[j])
  <2>1. \A j \in DOMAIN c.bs : Moved(c.bs[j], d.bs[j]) /\ Moved(d.bs[j], e.bs[j])
    BY <1>1 DEF Marked
  <2> QED
    BY <2>1 DEF Moved
<1>4. \A j \in DOMAIN c.bs : ~e.bs[j].dirty => ~c.bs[j].dirty /\ j \notin Touched(c, e)
  BY <1>1, <1>2 DEF Marked
<1>5. \A j \in DOMAIN c.servers :
        /\ e.servers[j].sid = c.servers[j].sid
        /\ ~e.servers[j].dirty => ~c.servers[j].dirty /\ j \notin Touched(c, e)
  BY <1>1, <1>2 DEF Marked
<1>6. Marked(c, e, Touched(c, e))
  BY <1>1, <1>3, <1>4, <1>5 DEF Marked
<1>7. \A j \in DOMAIN e.sec :
        e.sec[j].boot => (j \in DOMAIN c.sec /\ c.sec[j].boot) \/ MayBoot(j)
  BY DEF Edited
<1> QED
  BY <1>6, <1>7 DEF Edited

\* To do nothing is to do what a command may.
LEMMA PerformedSame ==
  ASSUME NEW c, Context(c) PROVE Performed(c, c)
BY EditedSame DEF Performed, SameStatus

\* What two commands do is what one may do.
LEMMA PerformedTransitive ==
  ASSUME NEW c, NEW d, NEW e, Performed(c, d), Performed(d, e)
  PROVE  Performed(c, e)
<1>1. Edited(c, d) /\ Edited(d, e)
  BY DEF Performed
<1>2. Edited(c, e)
  BY <1>1, EditedTransitive
<1>3. DOMAIN d.bs = DOMAIN c.bs
  BY <1>1 DEF Edited, Marked
<1> QED
  BY <1>2, <1>3 DEF Performed, SameStatus

\* prv_tagServer marks a server.
LEMMA TagServer ==
  ASSUME NEW c, Context(c), NEW id
  PROVE  LET d == prv_tagServer(c, id)
         IN  /\ Context(d) /\ AccountsStay(c, d) /\ d.state = c.state /\ d.req = c.req
             /\ Marked(c, d, {id}) /\ SameStatus(c, d)
<1> DEFINE d == prv_tagServer(c, id)
           bs == [c.bs EXCEPT ![id] = [c.bs[id] EXCEPT !.dirty = TRUE]]
           sv == [c.servers EXCEPT ![id] = [c.servers[id] EXCEPT !.dirty = TRUE]]
<1>1. /\ \A j \in DOMAIN c.bs : c.bs[j] \in BootType
      /\ \A j \in DOMAIN c.servers : c.servers[j] \in ServerType
      /\ DOMAIN c.bs \cap DOMAIN c.servers = {}
      /\ DOMAIN c.bs \subseteq Ids /\ DOMAIN c.servers \subseteq Ids
  BY DEF Context, IsPartial
<1>2. CASE id \in DOMAIN c.bs
  <2>1. d = [c EXCEPT !.bs = bs]
    BY <1>2 DEF prv_tagServer
  <2>2. DOMAIN bs = DOMAIN c.bs
    OBVIOUS
  <2>3. bs[id] = [c.bs[id] EXCEPT !.dirty = TRUE] /\ \A j \in DOMAIN c.bs \ {id} : bs[j] = c.bs[j]
    BY <1>2
  <2> HIDE DEF bs
  <2>4. /\ bs[id] \in BootType /\ bs[id].dirty = TRUE
        /\ bs[id].session = c.bs[id].session /\ bs[id].status = c.bs[id].status
    <3>1. c.bs[id] \in BootType
      BY <1>1, <1>2
    <3> QED
      BY <2>3, <3>1 DEF BootType
  <2>5. /\ Fields \subseteq DOMAIN d /\ AccountsStay(c, d) /\ d.state = c.state
        /\ d.req = c.req /\ d.bs = bs /\ d.servers = c.servers
    BY <2>1 DEF Context, Fields, AccountsStay
  <2> HIDE DEF d
  <2>6. IsPartial(bs, Ids, BootType)
    BY <1>1, <2>2, <2>3, <2>4 DEF IsPartial
  <2>7. Context(d)
    BY <2>2, <2>5, <2>6 DEF Context, AccountsStay
  <2>8. Marked(c, d, {id})
    BY <1>1, <1>2, <2>2, <2>3, <2>4, <2>5 DEF Marked, Moved
  <2>9. SameStatus(c, d)
    BY <2>2, <2>3, <2>4, <2>5 DEF SameStatus
  <2> QED
    BY <2>5, <2>7, <2>8, <2>9 DEF d
<1>3. CASE id \notin DOMAIN c.bs /\ id \in DOMAIN c.servers
  <2>1. d = [c EXCEPT !.servers = sv]
    BY <1>3 DEF prv_tagServer
  <2>2. DOMAIN sv = DOMAIN c.servers
    OBVIOUS
  <2>3. /\ sv[id] = [c.servers[id] EXCEPT !.dirty = TRUE]
        /\ \A j \in DOMAIN c.servers \ {id} : sv[j] = c.servers[j]
    BY <1>3
  <2> HIDE DEF sv
  <2>4. sv[id] \in ServerType /\ sv[id].dirty = TRUE /\ sv[id].sid = c.servers[id].sid
    <3>1. c.servers[id] \in ServerType
      BY <1>1, <1>3
    <3> QED
      BY <2>3, <3>1 DEF ServerType
  <2>5. /\ Fields \subseteq DOMAIN d /\ AccountsStay(c, d) /\ d.state = c.state
        /\ d.req = c.req /\ d.bs = c.bs /\ d.servers = sv
    BY <2>1 DEF Context, Fields, AccountsStay
  <2> HIDE DEF d
  <2>6. IsPartial(sv, Ids, ServerType)
    BY <1>1, <2>2, <2>3, <2>4 DEF IsPartial
  <2>7. Context(d)
    BY <2>2, <2>5, <2>6 DEF Context, AccountsStay
  <2>8. Marked(c, d, {id})
    BY <1>1, <1>3, <2>2, <2>3, <2>4, <2>5 DEF Marked, Moved
  <2> QED
    BY <2>5, <2>7, <2>8 DEF d, SameStatus
<1>4. CASE id \notin DOMAIN c.bs /\ id \notin DOMAIN c.servers
  <2>1. d = c
    BY <1>4 DEF prv_tagServer
  <2>2. Marked(c, c, {id})
    BY <1>4 DEF Marked, Moved
  <2> QED
    BY <2>1, <2>2 DEF AccountsStay, SameStatus
<1> QED
  BY <1>2, <1>3, <1>4

\* prv_tagAllServer marks all servers but one bootstrap server.
LEMMA TagAllServer ==
  ASSUME NEW c, Context(c), NEW own \in DOMAIN c.bs
  PROVE  LET d == prv_tagAllServer(c, own)
         IN  /\ Context(d) /\ AccountsStay(c, d) /\ d.state = c.state /\ d.req = c.req
             /\ Marked(c, d, Ids \ {own}) /\ SameStatus(c, d)
<1> DEFINE d == prv_tagAllServer(c, own)
           bs == [j \in DOMAIN c.bs |-> [c.bs[j] EXCEPT !.dirty = c.bs[j].dirty \/ j # own]]
           sv == [j \in DOMAIN c.servers |-> [c.servers[j] EXCEPT !.dirty = TRUE]]
<1>1. d = [c EXCEPT !.bs = bs, !.servers = sv]
  BY DEF prv_tagAllServer
<1>2. DOMAIN bs = DOMAIN c.bs /\ DOMAIN sv = DOMAIN c.servers
  OBVIOUS
<1>3. /\ \A j \in DOMAIN c.bs : c.bs[j] \in BootType
      /\ \A j \in DOMAIN c.servers : c.servers[j] \in ServerType
      /\ DOMAIN c.bs \cap DOMAIN c.servers = {}
      /\ DOMAIN c.bs \subseteq Ids /\ DOMAIN c.servers \subseteq Ids
  BY DEF Context, IsPartial
<1>4. \A j \in DOMAIN c.bs : /\ bs[j] \in BootType /\ Moved(c.bs[j], bs[j])
                             /\ bs[j].status = c.bs[j].status
                             /\ ~bs[j].dirty => ~c.bs[j].dirty /\ j = own
  <2>1. SUFFICES ASSUME NEW j \in DOMAIN c.bs
                 PROVE  /\ bs[j] \in BootType /\ Moved(c.bs[j], bs[j])
                        /\ bs[j].status = c.bs[j].status
                        /\ ~bs[j].dirty => ~c.bs[j].dirty /\ j = own
    OBVIOUS
  <2> DEFINE flag == c.bs[j].dirty \/ j # own
  <2>2. bs[j] = [c.bs[j] EXCEPT !.dirty = flag] /\ flag \in BOOLEAN /\ c.bs[j] \in BootType
    BY <1>3, <2>1
  <2>3. ~flag => ~c.bs[j].dirty /\ j = own
    OBVIOUS
  <2> HIDE DEF flag, bs
  <2>4. /\ bs[j] \in BootType /\ bs[j].dirty = flag
        /\ bs[j].session = c.bs[j].session /\ bs[j].status = c.bs[j].status
    BY <2>2 DEF BootType
  <2> QED
    BY <2>3, <2>4 DEF Moved
<1>5. \A j \in DOMAIN c.servers : /\ sv[j] \in ServerType /\ sv[j].dirty = TRUE
                                  /\ sv[j].sid = c.servers[j].sid
  BY <1>3 DEF ServerType
<1> HIDE DEF bs, sv
<1>6. /\ Fields \subseteq DOMAIN d /\ AccountsStay(c, d) /\ d.state = c.state
      /\ d.req = c.req /\ d.bs = bs /\ d.servers = sv
  BY <1>1 DEF Context, Fields, AccountsStay
<1> HIDE DEF d
<1>7. IsPartial(bs, Ids, BootType) /\ IsPartial(sv, Ids, ServerType)
  BY <1>2, <1>3, <1>4, <1>5 DEF IsPartial
<1>8. Context(d)
  BY <1>2, <1>6, <1>7 DEF Context, AccountsStay
<1>9. Marked(c, d, Ids \ {own})
  BY <1>2, <1>3, <1>4, <1>5, <1>6 DEF Marked
<1>10. SameStatus(c, d)
  BY <1>4, <1>6 DEF SameStatus
<1> QED
  BY <1>6, <1>8, <1>9, <1>10 DEF d

-----------------------------------------------------------------------------
(* The edits of a command.                                                 *)

\* From c to d only accounts change.
AccountsOnly(c, d) ==
  /\ Context(d)
  /\ d.state = c.state /\ d.prev = c.prev /\ d.bak = c.bak /\ d.bs = c.bs
  /\ d.servers = c.servers /\ d.req = c.req

\* Other accounts of the Security Object.
LEMMA SetSec ==
  ASSUME NEW c, Context(c), NEW s, IsPartial(s, Ids, Account)
  PROVE  LET d == [c EXCEPT !.sec = s]
         IN  AccountsOnly(c, d) /\ d.sec = s /\ d.srv = c.srv
<1> DEFINE d == [c EXCEPT !.sec = s]
<1>1. /\ Fields \subseteq DOMAIN d /\ d.sec = s /\ d.srv = c.srv
      /\ d.state = c.state /\ d.prev = c.prev /\ d.bak = c.bak /\ d.bs = c.bs
      /\ d.servers = c.servers /\ d.req = c.req
  BY DEF Context, Fields
<1> HIDE DEF d
<1>2. Context(d)
  BY <1>1 DEF Context
<1> QED
  BY <1>1, <1>2 DEF d, AccountsOnly

\* Other instances of the Server Object.
LEMMA SetSrv ==
  ASSUME NEW c, Context(c), NEW s \in SUBSET ShortIds
  PROVE  LET d == [c EXCEPT !.srv = s]
         IN  AccountsOnly(c, d) /\ d.sec = c.sec /\ d.srv = s
<1> DEFINE d == [c EXCEPT !.srv = s]
<1>1. /\ Fields \subseteq DOMAIN d /\ d.sec = c.sec /\ d.srv = s
      /\ d.state = c.state /\ d.prev = c.prev /\ d.bak = c.bak /\ d.bs = c.bs
      /\ d.servers = c.servers /\ d.req = c.req
  BY DEF Context, Fields
<1> HIDE DEF d
<1>2. Context(d)
  BY <1>1 DEF Context
<1> QED
  BY <1>1, <1>2 DEF d, AccountsOnly

\* Accounts change and what is listed of them is marked.
LEMMA EditAndMark ==
  ASSUME NEW c, Context(c), NEW d, AccountsOnly(c, d), NEW e, NEW T,
         Context(e), AccountsStay(d, e), e.state = d.state, e.req = d.req,
         Marked(d, e, T), SameStatus(d, e),
         Touched(c, d) \cap (DOMAIN c.bs \cup DOMAIN c.servers) \subseteq T,
         \A j \in DOMAIN d.sec :
           d.sec[j].boot => (j \in DOMAIN c.sec /\ c.sec[j].boot) \/ MayBoot(j)
  PROVE  Performed(c, e)
<1>1. /\ e.state = c.state /\ e.prev = c.prev /\ e.bak = c.bak /\ e.sec = d.sec
      /\ e.req = c.req /\ d.bs = c.bs /\ d.servers = c.servers
  BY DEF AccountsOnly, AccountsStay
<1>2. Touched(c, e) = Touched(c, d)
  BY <1>1 DEF Touched
<1>3. Marked(c, e, Touched(c, e))
  BY <1>1, <1>2 DEF Marked
<1>4. SameStatus(c, e)
  BY <1>1 DEF SameStatus
<1> QED
  BY <1>1, <1>3, <1>4 DEF Performed, Edited, FewRequests

\* Accounts change, and none that is listed.
LEMMA EditUnlisted ==
  ASSUME NEW c, Context(c), NEW d, AccountsOnly(c, d),
         Touched(c, d) \cap (DOMAIN c.bs \cup DOMAIN c.servers) = {},
         \A j \in DOMAIN d.sec :
           d.sec[j].boot => (j \in DOMAIN c.sec /\ c.sec[j].boot) \/ MayBoot(j)
  PROVE  Performed(c, d)
<1>1. Marked(d, d, {}) /\ AccountsStay(d, d) /\ Context(d) /\ SameStatus(d, d)
  BY DEF Marked, Moved, AccountsStay, AccountsOnly, SameStatus
<1> QED
  BY <1>1, EditAndMark

\* prv_security_write changes one account or refuses.
LEMMA SecurityWrite ==
  ASSUME NEW c, Context(c), NEW id \in Ids, NEW a \in Carried, a.boot => MayBoot(id)
  PROVE  LET r == prv_security_write(c, id, a)
         IN  \/ r.done = FALSE /\ r.c = c
             \/ /\ r.done = TRUE /\ AccountsOnly(c, r.c) /\ r.c.srv = c.srv
                /\ Touched(c, r.c) \subseteq {id}
                /\ id \notin DOMAIN c.sec => Touched(c, r.c) = {}
                /\ \A j \in DOMAIN r.c.sec :
                     r.c.sec[j].boot => (j \in DOMAIN c.sec /\ c.sec[j].boot) \/ MayBoot(j)
<1> DEFINE new == [boot |-> a.boot, sid |-> a.sid]
           s == [j \in DOMAIN c.sec \cup {id} |-> IF j = id THEN new ELSE c.sec[j]]
           d == [c EXCEPT !.sec = s]
           r == prv_security_write(c, id, a)
<1>1. \/ r.done = FALSE /\ r.c = c
      \/ r.done = TRUE /\ r.c = d
  BY DEF prv_security_write, Refuse, Accept
<1>2. DOMAIN s = DOMAIN c.sec \cup {id} /\ s[id] = new
      /\ \A j \in DOMAIN c.sec \ {id} : s[j] = c.sec[j]
  OBVIOUS
<1>3. new \in Account /\ new.boot = a.boot
  BY DEF Account, Carried
<1> HIDE DEF s, new
<1>4. IsPartial(s, Ids, Account)
  BY <1>2, <1>3 DEF IsPartial, Context
<1>5. AccountsOnly(c, d) /\ d.sec = s /\ d.srv = c.srv
  BY <1>4, SetSec
<1> HIDE DEF d, r
<1>6. Touched(c, d) \subseteq {id} /\ (id \notin DOMAIN c.sec => Touched(c, d) = {})
  BY <1>2, <1>5 DEF Touched
<1>7. \A j \in DOMAIN d.sec :
        d.sec[j].boot => (j \in DOMAIN c.sec /\ c.sec[j].boot) \/ MayBoot(j)
  BY <1>2, <1>3, <1>5
<1> QED
  BY <1>1, <1>5, <1>6, <1>7 DEF r

\* A new account.
LEMMA WriteNew ==
  ASSUME NEW c, Context(c), NEW id \in Ids, id \notin DOMAIN c.sec,
         NEW a \in Carried, a.boot => MayBoot(id)
  PROVE  LET r == prv_security_create(c, id, a)
         IN  r.done \in BOOLEAN /\ Performed(c, r.c)
<1> DEFINE r == prv_security_write(c, id, a)
<1>1. \/ r.done = FALSE /\ r.c = c
      \/ /\ r.done = TRUE /\ AccountsOnly(c, r.c) /\ Touched(c, r.c) = {}
         /\ \A j \in DOMAIN r.c.sec :
              r.c.sec[j].boot => (j \in DOMAIN c.sec /\ c.sec[j].boot) \/ MayBoot(j)
  BY SecurityWrite
<1> HIDE DEF r
<1>2. Performed(c, r.c)
  BY <1>1, EditUnlisted, PerformedSame
<1> QED
  BY <1>1, <1>2 DEF prv_security_create, r

\* An account that is there is replaced, and its server marked.
LEMMA WriteOld ==
  ASSUME NEW c, Context(c), NEW id \in Ids, NEW a \in Carried, a.boot => MayBoot(id)
  PROVE  LET r == WriteTagged(c, id, a)
         IN  r.done \in BOOLEAN /\ Performed(c, r.c)
<1> DEFINE w == prv_security_write(c, id, a)
           r == WriteTagged(c, id, a)
           e == prv_tagServer(w.c, id)
<1>1. \/ w.done = FALSE /\ w.c = c
      \/ /\ w.done = TRUE /\ AccountsOnly(c, w.c) /\ Touched(c, w.c) \subseteq {id}
         /\ \A j \in DOMAIN w.c.sec :
              w.c.sec[j].boot => (j \in DOMAIN c.sec /\ c.sec[j].boot) \/ MayBoot(j)
  BY SecurityWrite
<1>2. r = IF w.done THEN Accept(e) ELSE w
  BY DEF WriteTagged
<1> HIDE DEF w, r
<1>3. CASE w.done = FALSE
  BY <1>1, <1>2, <1>3, PerformedSame DEF r
<1>4. CASE w.done = TRUE
  <2>1. Context(w.c)
    BY <1>1, <1>4 DEF AccountsOnly
  <2>2. /\ Context(e) /\ AccountsStay(w.c, e) /\ e.state = w.c.state /\ e.req = w.c.req
        /\ Marked(w.c, e, {id}) /\ SameStatus(w.c, e)
    BY <2>1, TagServer
  <2> HIDE DEF e
  <2>3. Performed(c, e)
    BY <1>1, <1>4, <2>2, EditAndMark
  <2>4. r.done = TRUE /\ r.c = e
    BY <1>2, <1>4 DEF Accept
  <2> QED
    BY <2>3, <2>4 DEF r
<1> QED
  BY <1>1, <1>3, <1>4

\* One instance of a PUT of the whole object.
LEMMA PutOneInstance ==
  ASSUME NEW c, NEW r, r.done \in BOOLEAN, Performed(c, r.c), NEW a \in Carried,
         a.boot => \A j : MayBoot(j)
  PROVE  PutInstance(r, a).done \in BOOLEAN /\ Performed(c, PutInstance(r, a).c)
<1>1. Context(r.c) /\ a.id \in Ids
  BY DEF Performed, Edited, Carried
<1>2. CASE ~r.done
  BY <1>2 DEF PutInstance
<1>3. CASE r.done /\ a.id \notin DOMAIN r.c.sec
  <2> DEFINE id == lwm2m_list_newId(r.c)
             q == prv_security_create(r.c, id, a)
  <2>1. PutInstance(r, a) = q
    BY <1>3 DEF PutInstance, object_isInstanceNew, object_createInstance
  <2>2. id \in Ids /\ id \notin DOMAIN r.c.sec
    <3>1. Ids \ DOMAIN r.c.sec \in SUBSET Nat /\ Ids \ DOMAIN r.c.sec # {}
      BY <1>1, <1>3, BootstrapAssumption
    <3> QED
      BY <3>1, MinOfNats DEF lwm2m_list_newId
  <2> HIDE DEF id
  <2>3. q.done \in BOOLEAN /\ Performed(r.c, q.c)
    BY <1>1, <2>2, WriteNew
  <2> HIDE DEF q
  <2>4. Performed(c, q.c)
    BY <2>3, PerformedTransitive
  <2> QED
    BY <2>1, <2>3, <2>4
<1>4. CASE r.done /\ a.id \in DOMAIN r.c.sec
  <2> DEFINE q == WriteTagged(r.c, a.id, a)
  <2>1. PutInstance(r, a) = q
    BY <1>4 DEF PutInstance, object_isInstanceNew
  <2>2. q.done \in BOOLEAN /\ Performed(r.c, q.c)
    BY <1>1, WriteOld
  <2> HIDE DEF q
  <2>3. Performed(c, q.c)
    BY <2>2, PerformedTransitive
  <2> QED
    BY <2>1, <2>2, <2>3
<1> QED
  BY <1>2, <1>3, <1>4

\* The recursive function of PutInstances is one step per instance.
LEMMA PutInstancesSteps ==
  ASSUME NEW c, NEW q, Len(q) \in Nat, q # <<>>
  PROVE  \E f : /\ PutInstances(c, q) = f[Len(q)]
                /\ f[0] = Accept(c)
                /\ \A k \in 1..Len(q) : f[k] = PutInstance(f[k - 1], q[k])
<1> DEFINE Is(f, n) == f = [k \in 0..n |-> IF k = 0 THEN Accept(c) ELSE PutInstance(f[k - 1], q[k])]
           Bad == {n \in Nat : ~ \E f : Is(f, n)}
<1>1. Bad = {}
  <2>1. SUFFICES ASSUME Bad # {} PROVE FALSE
    OBVIOUS
  <2>2. Bad \in SUBSET Nat
    OBVIOUS
  <2>3. PICK n \in Bad : \A m \in Bad : n <= m
    BY <2>1, <2>2, LeastNat
  <2>4. CASE n = 0
    <3> DEFINE f == [k \in 0..0 |-> Accept(c)]
    <3>1. Is(f, 0)
      OBVIOUS
    <3> QED
      BY <2>3, <2>4, <3>1
  <2>5. CASE n # 0
    <3>1. n \in Nat /\ n - 1 \in Nat /\ ~(n <= n - 1)
      BY <2>3, <2>5
    <3>2. n - 1 \notin Bad
      BY <2>3, <3>1
    <3>3. PICK g : Is(g, n - 1)
      BY <3>1, <3>2
    <3> DEFINE f == [k \in 0..n |-> IF k = n THEN PutInstance(g[n - 1], q[n]) ELSE g[k]]
    <3>4. \A k \in 0..(n - 1) : g[k] = IF k = 0 THEN Accept(c) ELSE PutInstance(g[k - 1], q[k])
      BY <3>3
    <3>5. f[n] = PutInstance(g[n - 1], q[n]) /\ \A k \in 0..(n - 1) : f[k] = g[k]
      BY <3>1
    <3>6. \A k \in 0..n : f[k] = IF k = 0 THEN Accept(c) ELSE PutInstance(f[k - 1], q[k])
      <4>1. SUFFICES ASSUME NEW k \in 0..n
                     PROVE  f[k] = IF k = 0 THEN Accept(c) ELSE PutInstance(f[k - 1], q[k])
        OBVIOUS
      <4>2. CASE k = n
        <5>1. n - 1 \in 0..(n - 1)
          BY <3>1
        <5>2. f[k - 1] = g[n - 1]
          BY <3>5, <4>2, <5>1
        <5> QED
          BY <2>5, <3>5, <4>2, <5>2
      <4>3. CASE k # n
        <5>1. k \in 0..(n - 1) /\ (k # 0 => k - 1 \in 0..(n - 1))
          BY <3>1, <4>1, <4>3
        <5> QED
          BY <3>4, <3>5, <5>1
      <4> QED
        BY <4>2, <4>3
    <3>7. f = [k \in 0..n |-> f[k]]
      OBVIOUS
    <3> HIDE DEF f
    <3>8. Is(f, n)
      BY <3>6, <3>7
    <3> QED
      BY <2>3, <3>8
  <2> QED
    BY <2>4, <2>5
<1>2. \E f : Is(f, Len(q))
  BY <1>1
<1> DEFINE f == CHOOSE f : Is(f, Len(q))
<1>3. Is(f, Len(q))
  BY <1>2
<1>4. PutInstances(c, q) = f[Len(q)]
  BY DEF PutInstances
<1> HIDE DEF f
<1>5. \A k \in 0..Len(q) : f[k] = IF k = 0 THEN Accept(c) ELSE PutInstance(f[k - 1], q[k])
  BY <1>3
<1>6. f[0] = Accept(c)
  <2>1. 0 \in 0..Len(q)
    OBVIOUS
  <2> QED
    BY <1>5, <2>1
<1>7. \A k \in 1..Len(q) : f[k] = PutInstance(f[k - 1], q[k])
  <2>1. \A k \in 1..Len(q) : k \in 0..Len(q) /\ k # 0
    OBVIOUS
  <2> QED
    BY <1>5, <2>1
<1> QED
  BY <1>4, <1>6, <1>7

\* A PUT of the whole object, by induction over its instances.
LEMMA PutAllInstances ==
  ASSUME NEW c, Context(c), NEW q \in Seq(Carried),
         \A k \in DOMAIN q : q[k].boot => \A j : MayBoot(j)
  PROVE  Performed(c, PutInstances(c, q).c)
<1>1. Len(q) \in Nat /\ DOMAIN q = 1..Len(q)
  OBVIOUS
<1>7. CASE q = <<>>
  <2>1. PutInstances(c, q).c = c
    BY <1>7 DEF PutInstances, Refuse
  <2> QED
    BY <2>1, PerformedSame
<1>8. SUFFICES ASSUME q # <<>> PROVE Performed(c, PutInstances(c, q).c)
  BY <1>7
<1>2. PICK f : /\ PutInstances(c, q) = f[Len(q)]
               /\ f[0] = Accept(c)
               /\ \A k \in 1..Len(q) : f[k] = PutInstance(f[k - 1], q[k])
  BY <1>1, <1>8, PutInstancesSteps
<1> DEFINE Good(k) == f[k].done \in BOOLEAN /\ Performed(c, f[k].c)
           Bad == {k \in 0..Len(q) : ~Good(k)}
<1>3. Good(0)
  BY <1>2, PerformedSame DEF Accept
<1>4. ASSUME NEW k \in 1..Len(q), Good(k - 1) PROVE Good(k)
  <2> DEFINE r == f[k - 1]
             a == q[k]
  <2>1. a \in Carried /\ (a.boot => \A j : MayBoot(j))
    BY <1>1, <1>4
  <2>2. r.done \in BOOLEAN /\ Performed(c, r.c)
    BY <1>4
  <2>3. f[k] = PutInstance(r, a)
    BY <1>2, <1>4
  <2> HIDE DEF r, a
  <2>4. PutInstance(r, a).done \in BOOLEAN /\ Performed(c, PutInstance(r, a).c)
    BY <2>1, <2>2, PutOneInstance
  <2> QED
    BY <2>3, <2>4
<1> HIDE DEF Good
<1>5. Bad = {}
  <2>1. SUFFICES ASSUME Bad # {} PROVE FALSE
    OBVIOUS
  <2>2. Bad \in SUBSET Nat
    BY <1>1
  <2>3. PICK k \in Bad : \A m \in Bad : k <= m
    BY <2>1, <2>2, LeastNat
  <2>4. k \in 0..Len(q) /\ ~Good(k) /\ k # 0
    BY <1>3, <2>3
  <2>5. k \in 1..Len(q) /\ k - 1 \in 0..Len(q) /\ ~(k <= k - 1)
    BY <1>1, <2>4
  <2>6. Good(k - 1)
    BY <2>3, <2>5
  <2> QED
    BY <1>4, <2>4, <2>5, <2>6
<1>6. Good(Len(q))
  BY <1>1, <1>5
<1> QED
  BY <1>2, <1>6 DEF Good

\* All accounts but that of one bootstrap server are deleted.
LEMMA DeletesAccounts ==
  ASSUME NEW c, Context(c), NEW i \in DOMAIN c.bs
  PROVE  LET d == DeleteAccounts(c, i)
         IN  Performed(c, d) /\ d.req = c.req
<1> DEFINE s == Restrict(c.sec, DOMAIN c.sec \cap {i})
           w == [c EXCEPT !.sec = s]
           d == prv_tagAllServer(w, i)
<1>1. DeleteAccounts(c, i) = d
  BY DEF DeleteAccounts
<1>2. DOMAIN s = DOMAIN c.sec \cap {i} /\ \A j \in DOMAIN s : s[j] = c.sec[j]
  BY DEF Restrict
<1> HIDE DEF s
<1>3. IsPartial(s, Ids, Account)
  BY <1>2 DEF IsPartial, Context
<1>4. AccountsOnly(c, w) /\ w.sec = s
  BY <1>3, SetSec
<1> HIDE DEF w
<1>5. Context(w) /\ i \in DOMAIN w.bs
  BY <1>4 DEF AccountsOnly
<1>6. /\ Context(d) /\ AccountsStay(w, d) /\ d.state = w.state /\ d.req = w.req
      /\ Marked(w, d, Ids \ {i}) /\ SameStatus(w, d)
  BY <1>5, TagAllServer
<1> HIDE DEF d
<1>7. Touched(c, w) \subseteq Ids \ {i}
  BY <1>2, <1>4 DEF Touched, Context, IsPartial
<1>8. \A j \in DOMAIN w.sec :
        w.sec[j].boot => (j \in DOMAIN c.sec /\ c.sec[j].boot) \/ MayBoot(j)
  BY <1>2, <1>4
<1>9. Performed(c, d)
  BY <1>4, <1>6, <1>7, <1>8, EditAndMark
<1> QED
  BY <1>1, <1>4, <1>6, <1>9 DEF AccountsOnly

\* One account is deleted, and its server marked.
LEMMA DeletesSecurity ==
  ASSUME NEW c, Context(c), NEW id
  PROVE  Performed(c, prv_tagServer(prv_security_delete(c, id), id))
<1> DEFINE s == Restrict(c.sec, DOMAIN c.sec \ {id})
           w == [c EXCEPT !.sec = s]
           d == prv_tagServer(w, id)
<1>1. prv_tagServer(prv_security_delete(c, id), id) = d
  BY DEF prv_security_delete
<1>2. DOMAIN s = DOMAIN c.sec \ {id} /\ \A j \in DOMAIN s : s[j] = c.sec[j]
  BY DEF Restrict
<1> HIDE DEF s
<1>3. IsPartial(s, Ids, Account)
  BY <1>2 DEF IsPartial, Context
<1>4. AccountsOnly(c, w) /\ w.sec = s
  BY <1>3, SetSec
<1> HIDE DEF w
<1>5. Context(w)
  BY <1>4 DEF AccountsOnly
<1>6. /\ Context(d) /\ AccountsStay(w, d) /\ d.state = w.state /\ d.req = w.req
      /\ Marked(w, d, {id}) /\ SameStatus(w, d)
  BY <1>5, TagServer
<1> HIDE DEF d
<1>7. Touched(c, w) \subseteq {id}
  BY <1>2, <1>4 DEF Touched
<1>8. \A j \in DOMAIN w.sec :
        w.sec[j].boot => (j \in DOMAIN c.sec /\ c.sec[j].boot) \/ MayBoot(j)
  BY <1>2, <1>4
<1>9. Performed(c, d)
  BY <1>4, <1>6, <1>7, <1>8, EditAndMark
<1> QED
  BY <1>1, <1>9

\* The Server Object changes.
LEMMA EditsServers ==
  ASSUME NEW c, Context(c), NEW s \in SUBSET ShortIds
  PROVE  Performed(c, [c EXCEPT !.srv = s])
<1> DEFINE d == [c EXCEPT !.srv = s]
<1>1. AccountsOnly(c, d) /\ d.sec = c.sec
  BY SetSrv
<1> HIDE DEF d
<1>2. Touched(c, d) = {}
  BY <1>1 DEF Touched
<1>3. Performed(c, d)
  BY <1>1, <1>2, EditUnlisted
<1> QED
  BY <1>3 DEF d

\* A PUT of one instance.
LEMMA PutsSecurity ==
  ASSUME NEW c, Context(c), NEW id \in Ids, NEW a \in Carried, a.boot => MayBoot(id)
  PROVE  Performed(c, PutSecurity(c, id, a).c)
<1>1. CASE id \notin DOMAIN c.sec
  <2>1. PutSecurity(c, id, a) = prv_security_create(c, id, a)
    BY <1>1 DEF PutSecurity, object_isInstanceNew
  <2>2. Performed(c, prv_security_create(c, id, a).c)
    BY <1>1, WriteNew
  <2> QED
    BY <2>1, <2>2
<1>2. CASE id \in DOMAIN c.sec
  <2>1. PutSecurity(c, id, a) = WriteTagged(c, id, a)
    BY <1>2 DEF PutSecurity, object_isInstanceNew
  <2>2. Performed(c, WriteTagged(c, id, a).c)
    BY WriteOld
  <2> QED
    BY <2>1, <2>2
<1> QED
  BY <1>1, <1>2

\* The commands that change something.
Operations == {"put_security", "put_accounts", "put_server", "delete_security",
               "delete_accounts", "delete_server", "delete_servers"}

\* Any command.
LEMMA Performs ==
  ASSUME NEW c, Context(c), NEW i \in DOMAIN c.bs, NEW m \in Commands
  PROVE  Performed(c, Perform(c, i, m).c)
<1> DEFINE r == Perform(c, i, m)
<1>1. /\ m.accounts \in Seq(Carried)
      /\ m.op = "put_security" => m.id \in Ids /\ Len(m.accounts) = 1
      /\ m.op = "put_server" => m.id \in ShortIds
  BY CommandAssumption DEF Carried
<1>2. c.srv \subseteq ShortIds
  BY DEF Context
<1>3. CASE m.op = "put_security"
  <2> DEFINE a == m.accounts[1]
  <2>1. r = PutSecurity(c, m.id, a)
    BY <1>3 DEF Perform
  <2>2. a \in Carried /\ 1 \in DOMAIN m.accounts
    <3> DEFINE q == m.accounts
    <3>1. q \in Seq(Carried) /\ Len(q) = 1
      BY <1>1, <1>3
    <3> HIDE DEF q
    <3>2. DOMAIN q = 1..1 /\ q \in [1..1 -> Carried]
      BY <3>1
    <3>3. 1 \in DOMAIN q /\ q[1] \in Carried
      BY <3>2
    <3> QED
      BY <3>3 DEF q
  <2>3. a.boot => MayBoot(m.id)
    BY <2>2 DEF MayBoot
  <2> HIDE DEF a, r
  <2>4. Performed(c, PutSecurity(c, m.id, a).c)
    BY <1>1, <1>3, <2>2, <2>3, PutsSecurity
  <2> QED
    BY <2>1, <2>4 DEF r
<1>4. CASE m.op = "put_accounts"
  <2>1. r = PutInstances(c, m.accounts)
    BY <1>4 DEF Perform
  <2>2. \A k \in DOMAIN m.accounts : m.accounts[k].boot => \A j : MayBoot(j)
    BY <1>4 DEF MayBoot
  <2>3. Performed(c, PutInstances(c, m.accounts).c)
    BY <1>1, <2>2, PutAllInstances
  <2> QED
    BY <2>1, <2>3
<1>5. CASE m.op = "put_server"
  <2> DEFINE s == c.srv \cup {m.id}
  <2>1. r.c = [c EXCEPT !.srv = s]
    BY <1>5 DEF Perform, Accept, prv_server_create
  <2>2. s \in SUBSET ShortIds
    BY <1>1, <1>2, <1>5
  <2> HIDE DEF s
  <2> QED
    BY <2>1, <2>2, EditsServers
<1>6. CASE m.op = "delete_security"
  <2>1. r.c = c \/ r.c = prv_tagServer(prv_security_delete(c, m.id), m.id)
    BY <1>6 DEF Perform, Accept, Refuse
  <2>2. Performed(c, prv_tagServer(prv_security_delete(c, m.id), m.id))
    BY DeletesSecurity
  <2> QED
    BY <2>1, <2>2, PerformedSame
<1>7. CASE m.op = "delete_accounts"
  <2>1. r.c = DeleteAccounts(c, i)
    BY <1>7 DEF Perform, Accept
  <2> QED
    BY <2>1, DeletesAccounts
<1>8. CASE m.op = "delete_server"
  <2> DEFINE s == c.srv \ {m.id}
  <2>1. r.c = c \/ r.c = [c EXCEPT !.srv = s]
    BY <1>8 DEF Perform, Accept, Refuse, prv_server_delete
  <2>2. s \in SUBSET ShortIds
    BY <1>2
  <2> HIDE DEF s
  <2>3. Performed(c, [c EXCEPT !.srv = s])
    BY <2>2, EditsServers
  <2> QED
    BY <2>1, <2>3, PerformedSame
<1>9. CASE m.op = "delete_servers"
  <2>1. r.c = [c EXCEPT !.srv = {}]
    BY <1>9 DEF Perform, Accept
  <2>2. Performed(c, [c EXCEPT !.srv = {}])
    BY EditsServers
  <2> QED
    BY <2>1, <2>2
<1>10. CASE m.op \notin Operations
  <2>1. r.c = c
    BY <1>10 DEF Perform, Operations, Refuse
  <2> QED
    BY <2>1, PerformedSame
<1> QED
  BY <1>3, <1>4, <1>5, <1>6, <1>7, <1>8, <1>9, <1>10 DEF Operations

\* DELETE of everything.
LEMMA HandleDeleteAll ==
  ASSUME NEW c, Context(c), NEW i \in DOMAIN c.bs
  PROVE  Performed(c, bootstrap_handleDeleteAll(c, i))
<1> DEFINE d == DeleteAccounts(c, i)
<1>1. Performed(c, d)
  BY DeletesAccounts
<1>2. bootstrap_handleDeleteAll(c, i) = [d EXCEPT !.srv = {}]
  BY DEF bootstrap_handleDeleteAll
<1> HIDE DEF d
<1>3. Context(d)
  BY <1>1 DEF Performed, Edited
<1>4. Performed(d, [d EXCEPT !.srv = {}])
  BY <1>3, EditsServers
<1> QED
  BY <1>1, <1>2, <1>4, PerformedTransitive

-----------------------------------------------------------------------------
(* The other steps of a bootstrap server.                                  *)

\* No bootstrap server is marked.
SameMarks(c, d) == \A j \in DOMAIN c.bs : d.bs[j].dirty = c.bs[j].dirty

\* One bootstrap server goes on.
LEMMA OneServerMoves ==
  ASSUME NEW c, Context(c), NEW i, NEW b, i \in DOMAIN c.bs => b \in BootType,
         i \in DOMAIN c.bs => Moved(c.bs[i], b) /\ b.dirty = c.bs[i].dirty
  PROVE  LET d == [c EXCEPT !.bs = [c.bs EXCEPT ![i] = b]]
         IN  /\ Edited(c, d) /\ AccountsStay(c, d) /\ SameMarks(c, d)
             /\ d.req = c.req
<1> DEFINE bs == [c.bs EXCEPT ![i] = b]
           d == [c EXCEPT !.bs = bs]
<1>1. DOMAIN bs = DOMAIN c.bs /\ \A j \in DOMAIN bs : bs[j] = IF j = i THEN b ELSE c.bs[j]
  OBVIOUS
<1> HIDE DEF bs
<1>2. IsPartial(bs, Ids, BootType)
  BY <1>1 DEF IsPartial, Context
<1>3. /\ Fields \subseteq DOMAIN d /\ AccountsStay(c, d) /\ d.state = c.state
      /\ d.req = c.req /\ d.bs = bs /\ d.servers = c.servers
  BY DEF Context, Fields, AccountsStay
<1> HIDE DEF d
<1>4. Context(d)
  BY <1>1, <1>2, <1>3 DEF Context, AccountsStay
<1>5. Touched(c, d) = {}
  BY <1>3 DEF Touched, AccountsStay
<1>6. Marked(c, d, {})
  BY <1>1, <1>3 DEF Marked, Moved
<1>7. Edited(c, d)
  BY <1>3, <1>4, <1>5, <1>6 DEF Edited, AccountsStay, FewRequests
<1> QED
  BY <1>1, <1>3, <1>7 DEF d, bs, SameMarks

\* A command makes the bootstrap pending, or gives it more time.
LEMMA CheckStatus ==
  ASSUME NEW c, Context(c), NEW i \in DOMAIN c.bs, Accepts(c, i)
  PROVE  /\ Edited(c, prv_checkServerStatus(c, i))
         /\ c.bs[i].status # "DEREGISTERED" =>
              prv_checkServerStatus(c, i).bs[i].status = "PENDING"
<1> DEFINE d == prv_checkServerStatus(c, i)
           b == c.bs[i]
           p == [b EXCEPT !.status = "PENDING"]
           q == [b EXCEPT !.left = ExchangeLifetime]
<1>1. \/ b.status \in {"HOLD_OFF", "INITIATED"} /\ d = [c EXCEPT !.bs = [c.bs EXCEPT ![i] = p]]
      \/ /\ b.status \in {"DEREGISTERED", "PENDING"}
         /\ d = [c EXCEPT !.bs = [c.bs EXCEPT ![i] = q]]
  BY DEF prv_checkServerStatus, Accepts
<1>2. b \in BootType
  BY DEF Context, IsPartial
<1>3. ExchangeLifetime \in 0 .. ExchangeLifetime + HoldOff
  BY BootstrapAssumption
<1>4. p \in BootType /\ p.dirty = b.dirty /\ p.session = b.session /\ p.status = "PENDING"
  BY <1>2 DEF BootType, BsStatus
<1>5. q \in BootType /\ q.dirty = b.dirty /\ q.session = b.session /\ q.status = b.status
  BY <1>2, <1>3 DEF BootType, BsStatus
<1> HIDE DEF p, q, d
<1>6. CASE b.status \in {"HOLD_OFF", "INITIATED"} /\ d = [c EXCEPT !.bs = [c.bs EXCEPT ![i] = p]]
  <2>1. Moved(c.bs[i], p)
    BY <1>4, <1>6 DEF Moved
  <2> HIDE DEF b
  <2>2. Edited(c, [c EXCEPT !.bs = [c.bs EXCEPT ![i] = p]])
    BY <1>4, <2>1, OneServerMoves DEF b
  <2>3. d.bs[i] = p
    BY <1>6 DEF Context, Fields
  <2> QED
    BY <1>4, <1>6, <2>2, <2>3 DEF d
<1>7. CASE /\ b.status \in {"DEREGISTERED", "PENDING"}
           /\ d = [c EXCEPT !.bs = [c.bs EXCEPT ![i] = q]]
  <2>1. Moved(c.bs[i], q)
    BY <1>5 DEF Moved
  <2>2. Edited(c, [c EXCEPT !.bs = [c.bs EXCEPT ![i] = q]])
    BY <1>5, <2>1, OneServerMoves DEF b
  <2>3. d.bs[i] = q
    BY <1>7 DEF Context, Fields
  <2> QED
    BY <1>5, <1>7, <2>2, <2>3 DEF d, b
<1> QED
  BY <1>1, <1>6, <1>7

\* A command, of a server whose bootstrap has begun: it leaves the state machine alone.
LEMMA HandleCommand ==
  ASSUME NEW c, Context(c), NEW i \in DOMAIN c.bs, Accepts(c, i),
         c.bs[i].status # "DEREGISTERED", NEW m \in Commands
  PROVE  Edited(c, bootstrap_handleCommand(c, i, m))
<1> DEFINE d == prv_checkServerStatus(c, i)
           r == Perform(d, i, m)
<1>1. Edited(c, d) /\ d.bs[i].status = "PENDING"
  BY CheckStatus
<1>2. bootstrap_handleCommand(c, i, m) =
        IF r.done /\ r.c.bs[i].status # "PENDING"
        THEN [r.c EXCEPT !.bs[i].status = "PENDING", !.state = "BOOTSTRAPPING"] ELSE r.c
  BY DEF bootstrap_handleCommand
<1> HIDE DEF d
<1>3. Context(d) /\ i \in DOMAIN d.bs
  BY <1>1 DEF Edited, Marked
<1>4. Performed(d, r.c)
  BY <1>3, Performs
<1> HIDE DEF r
<1>5. r.c.bs[i].status = "PENDING"
  BY <1>1, <1>3, <1>4 DEF Performed, SameStatus
<1>6. Edited(c, r.c)
  BY <1>1, <1>4, EditedTransitive DEF Performed
<1> QED
  BY <1>2, <1>5, <1>6

\* A finish is accepted, or not.
LEMMA HandleFinish ==
  ASSUME NEW c, Context(c), NEW i \in DOMAIN c.bs
  PROVE  LET d == bootstrap_handleFinish(c, i)
         IN  Edited(c, d)
<1> DEFINE d == bootstrap_handleFinish(c, i)
           p == [c.bs[i] EXCEPT !.status = "FINISHING"]
<1>1. \/ c.bs[i].status = "PENDING" /\ d = [c EXCEPT !.bs = [c.bs EXCEPT ![i] = p]]
      \/ d = c
  BY DEF bootstrap_handleFinish
<1>2. c.bs[i] \in BootType
  BY DEF Context, IsPartial
<1>3. /\ p \in BootType /\ p.dirty = c.bs[i].dirty /\ p.session = c.bs[i].session
      /\ p.status = "FINISHING"
  BY <1>2 DEF BootType, BsStatus
<1> HIDE DEF p, d
<1>4. CASE c.bs[i].status = "PENDING" /\ d = [c EXCEPT !.bs = [c.bs EXCEPT ![i] = p]]
  <2>1. Moved(c.bs[i], p)
    BY <1>3, <1>4 DEF Moved
  <2> DEFINE e == [c EXCEPT !.bs = [c.bs EXCEPT ![i] = p]]
  <2>2. Edited(c, e)
    BY <1>3, <2>1, OneServerMoves
  <2> HIDE DEF e
  <2>3. d = e
    BY <1>4 DEF e
  <2> QED
    BY <2>2, <2>3 DEF d
<1>5. CASE d = c
  BY <1>5, EditedSame DEF d
<1> QED
  BY <1>1, <1>4, <1>5

\* An answer to a bootstrap request, or none.
LEMMA HandleReply ==
  ASSUME NEW c, Context(c), NEW i, NEW answer
  PROVE  LET d == prv_handleBootstrapReply(c, i, answer)
         IN  /\ Edited(c, d) /\ AccountsStay(c, d) /\ SameMarks(c, d)
             /\ d.req = c.req
<1> DEFINE d == prv_handleBootstrapReply(c, i, answer)
           p == [c.bs[i] EXCEPT !.status = "PENDING", !.left = ExchangeLifetime]
           q == [c.bs[i] EXCEPT !.status = "FAILING"]
           dp == [c EXCEPT !.bs = [c.bs EXCEPT ![i] = p]]
           dq == [c EXCEPT !.bs = [c.bs EXCEPT ![i] = q]]
<1>1. d = c \/ (c.bs[i].status = "INITIATED" /\ (d = dp \/ d = dq))
  <2>1. CASE c.bs[i].status # "INITIATED"
    <3>1. d = c
      BY <2>1 DEF prv_handleBootstrapReply
    <3> QED
      BY <3>1
  <2>2. CASE c.bs[i].status = "INITIATED" /\ answer = "2.04"
    <3>1. d = dp
      BY <2>2 DEF prv_handleBootstrapReply
    <3> QED
      BY <2>2, <3>1
  <2>3. CASE c.bs[i].status = "INITIATED" /\ answer # "2.04"
    <3>1. d = dq
      BY <2>3 DEF prv_handleBootstrapReply
    <3> QED
      BY <2>3, <3>1
  <2> QED
    BY <2>1, <2>2, <2>3
<1>2. i \in DOMAIN c.bs => c.bs[i] \in BootType
  BY DEF Context, IsPartial
<1>3. ExchangeLifetime \in 0 .. ExchangeLifetime + HoldOff
  BY BootstrapAssumption
<1>4. ASSUME i \in DOMAIN c.bs
      PROVE  /\ p \in BootType /\ p.dirty = c.bs[i].dirty /\ p.session = c.bs[i].session
             /\ p.status = "PENDING"
             /\ q \in BootType /\ q.dirty = c.bs[i].dirty /\ q.session = c.bs[i].session
             /\ q.status = "FAILING"
  BY <1>2, <1>3, <1>4 DEF BootType, BsStatus
<1> HIDE DEF p, q, d
<1>5. CASE d = c
  BY <1>5, EditedSame DEF AccountsStay, SameMarks, d
<1>6. CASE c.bs[i].status = "INITIATED" /\ (d = dp \/ d = dq)
  <2>1. i \in DOMAIN c.bs => Moved(c.bs[i], p) /\ Moved(c.bs[i], q)
    BY <1>4, <1>6 DEF Moved
  <2>2. Edited(c, dp) /\ AccountsStay(c, dp) /\ SameMarks(c, dp) /\ dp.req = c.req
    BY <1>4, <2>1, OneServerMoves
  <2>3. Edited(c, dq) /\ AccountsStay(c, dq) /\ SameMarks(c, dq) /\ dq.req = c.req
    BY <1>4, <2>1, OneServerMoves
  <2> HIDE DEF dp, dq
  <2> QED
    BY <1>6, <2>2, <2>3 DEF d
<1> QED
  BY <1>1, <1>5, <1>6

\* The number of requests is no part of what is edited.
LEMMA RequestEnds ==
  ASSUME NEW c, NEW d, Edited(c, d), NEW i, d.req[i] > 0, i \in Ids
  PROVE  LET e == [d EXCEPT !.req[i] = @ - 1]
         IN  Edited(c, e) /\ AccountsStay(d, e) /\ e.bs = d.bs
<1> DEFINE n == d.req[i] - 1
           req == [d.req EXCEPT ![i] = n]
           e == [d EXCEPT !.req = req]
<1>1. Context(d) /\ d.req \in [Ids -> Nat]
  BY DEF Edited, Context
<1>2. d.req[i] \in Nat
  BY <1>1
<1>3. n \in Nat
  BY <1>2
<1>4. n < d.req[i]
  BY <1>2
<1> HIDE DEF n
<1>5. req \in [Ids -> Nat] /\ \A j \in Ids : req[j] = IF j = i THEN n ELSE d.req[j]
  BY <1>1, <1>3
<1> HIDE DEF req
<1>6. /\ Fields \subseteq DOMAIN e /\ AccountsStay(d, e) /\ e.state = d.state
      /\ e.req = req /\ e.bs = d.bs /\ e.servers = d.servers
  BY <1>1 DEF Context, Fields, AccountsStay
<1> HIDE DEF e
<1>7. Context(e)
  BY <1>1, <1>5, <1>6 DEF Context, AccountsStay
<1>8. Touched(c, e) = Touched(c, d)
  BY <1>6 DEF Touched, AccountsStay
<1> HIDE DEF Touched
<1>9. Marked(c, e, Touched(c, e))
  BY <1>6, <1>8 DEF Edited, Marked
<1>10. FewRequests(d) => FewRequests(e)
  BY <1>2, <1>3, <1>5, <1>6, <1>4, BootstrapAssumption DEF FewRequests
<1>11. Edited(c, e)
  BY <1>6, <1>7, <1>9, <1>10 DEF Edited, AccountsStay
<1> QED
  BY <1>6, <1>11 DEF e, req, n

\* Time passes.
LEMMA TimePasses ==
  ASSUME NEW c, Context(c), NEW d,
         d = [c EXCEPT !.bs = [i \in DOMAIN c.bs |->
                LET left == c.bs[i].left
                IN  [c.bs[i] EXCEPT !.left = IF left > 0 THEN left - 1 ELSE 0]]]
  PROVE  Edited(c, d) /\ AccountsStay(c, d) /\ SameMarks(c, d)
<1> DEFINE less(i) == IF c.bs[i].left > 0 THEN c.bs[i].left - 1 ELSE 0
           new(i) == [c.bs[i] EXCEPT !.left = less(i)]
           bs == [i \in DOMAIN c.bs |-> new(i)]
<1>1. d = [c EXCEPT !.bs = bs]
  OBVIOUS
<1>2. \A i \in DOMAIN c.bs : /\ new(i) \in BootType /\ Moved(c.bs[i], new(i))
                             /\ new(i).dirty = c.bs[i].dirty
  <2>1. SUFFICES ASSUME NEW i \in DOMAIN c.bs
                 PROVE  /\ new(i) \in BootType /\ Moved(c.bs[i], new(i))
                        /\ new(i).dirty = c.bs[i].dirty
    OBVIOUS
  <2>2. c.bs[i] \in BootType
    BY <2>1 DEF Context, IsPartial
  <2>3. c.bs[i].left \in 0 .. ExchangeLifetime + HoldOff /\ ExchangeLifetime + HoldOff \in Nat
    BY <2>2, BootstrapAssumption DEF BootType
  <2>4. less(i) \in 0 .. ExchangeLifetime + HoldOff
    BY <2>3
  <2> HIDE DEF less
  <2>5. /\ new(i) \in BootType /\ new(i).dirty = c.bs[i].dirty
        /\ new(i).status = c.bs[i].status /\ new(i).session = c.bs[i].session
    BY <2>2, <2>4 DEF BootType
  <2> HIDE DEF new
  <2> QED
    BY <2>5 DEF Moved
<1>3. DOMAIN bs = DOMAIN c.bs /\ \A i \in DOMAIN c.bs : bs[i] = new(i)
  OBVIOUS
<1> HIDE DEF bs, new
<1>4. /\ Fields \subseteq DOMAIN d /\ AccountsStay(c, d) /\ d.state = c.state
      /\ d.req = c.req /\ d.bs = bs /\ d.servers = c.servers
  BY <1>1 DEF Context, Fields, AccountsStay
<1>5. Context(d)
  BY <1>2, <1>3, <1>4 DEF Context, AccountsStay, IsPartial
<1>6. Touched(c, d) = {}
  BY <1>4 DEF Touched, AccountsStay
<1>7. Marked(c, d, {})
  BY <1>2, <1>3, <1>4 DEF Marked
<1>8. Edited(c, d)
  BY <1>4, <1>5, <1>6, <1>7 DEF Edited, AccountsStay, FewRequests
<1>9. SameMarks(c, d)
  BY <1>2, <1>3, <1>4 DEF SameMarks
<1> QED
  BY <1>4, <1>8, <1>9

-----------------------------------------------------------------------------
(***************************************************************************)
(* Every step is one of three: sendData, an edit by a bootstrap server, or *)
(* a registration that goes on.                                            *)
(***************************************************************************)
\* A bootstrap was interrupted in the last turn.
Interrupted == interrupted = "now"

Sent ==
  /\ \E e : /\ Context(e) /\ AccountsStay(cx, e) /\ Follows(cx, e)
            /\ cx'.bs = e.bs /\ SameServers(e, cx')
            /\ \/ Kept(cx, e, cx', Interrupted') \/ RolledBack(cx, e, cx', Interrupted')
               \/ Returned(cx, e, cx', Interrupted')
  /\ undone' = (undone \/ Undoes(cx))
  /\ interrupted' = "never" => interrupted = "never"

\* A bootstrap server edits the accounts, or its bootstrap goes on.
Edits ==
  /\ Edited(cx, cx') /\ undone' = undone /\ interrupted' = interrupted
  /\ \/ AccountsStay(cx, cx') /\ SameMarks(cx, cx')
     \/ \E i \in DOMAIN cx.bs : cx.bs[i].session

\* A registration goes on.
Registered ==
  /\ AccountsStay(cx, cx') /\ cx'.bs = cx.bs /\ SameServers(cx, cx')
  /\ cx'.state = cx.state \/ cx'.state = "BOOTSTRAP_REQUIRED"
  /\ cx'.req = cx.req /\ undone' = undone /\ interrupted' = interrupted

\* A registration succeeds or is lost.
LEMMA SetStatus ==
  ASSUME NEW c, Context(c), NEW i \in DOMAIN c.servers,
         NEW st \in {"REG_PENDING", "REGISTERED"}
  PROVE  LET d == [c EXCEPT !.servers[i].status = st]
         IN  /\ Context(d) /\ AccountsStay(c, d) /\ d.bs = c.bs /\ d.state = c.state
             /\ d.req = c.req /\ SameServers(c, d)
<1> DEFINE s == [c.servers[i] EXCEPT !.status = st]
           sv == [c.servers EXCEPT ![i] = s]
           d == [c EXCEPT !.servers = sv]
<1>1. c.servers[i] \in ServerType
  BY DEF Context, IsPartial
<1>2. s \in ServerType /\ s.dirty = c.servers[i].dirty /\ s.sid = c.servers[i].sid
  BY <1>1 DEF ServerType
<1> HIDE DEF s
<1>3. DOMAIN sv = DOMAIN c.servers /\ \A j \in DOMAIN sv : sv[j] = IF j = i THEN s ELSE c.servers[j]
  OBVIOUS
<1> HIDE DEF sv
<1>4. /\ Fields \subseteq DOMAIN d /\ AccountsStay(c, d) /\ d.state = c.state
      /\ d.req = c.req /\ d.bs = c.bs /\ d.servers = sv
  BY DEF Context, Fields, AccountsStay
<1> HIDE DEF d
<1>5. Context(d) /\ SameServers(c, d)
  BY <1>2, <1>3, <1>4 DEF Context, AccountsStay, IsPartial, SameServers
<1> QED
  BY <1>4, <1>5 DEF d, sv, s

\* Each action is one of the three; sending makes no more requests than the bound.
LEMMA SendStep ==
  ASSUME Context(cx), Send PROVE Context(cx') /\ FewRequests(cx') /\ Sent
<1>1. PICK up, lost, r :
        /\ r = lwm2m_step(cx, up)
        /\ \A i \in Ids : r.c.req[i] <= MaxRequests
        /\ cx' = sendData(cx, r, lost) /\ undone' = (undone \/ Undoes(cx))
        /\ interrupted' = IF Interrupts(r, lost) THEN "now"
                          ELSE IF interrupted = "never" THEN "never" ELSE "before"
  BY DEF Send
<1> DEFINE d == sendData(cx, r, lost)
           hit == Interrupts(r, lost)
<1>2. /\ Context(d) /\ d.req = r.c.req
      /\ \E e : /\ Context(e) /\ AccountsStay(cx, e) /\ Follows(cx, e)
                /\ d.bs = e.bs /\ SameServers(e, d)
                /\ Kept(cx, e, d, hit) \/ RolledBack(cx, e, d, hit) \/ Returned(cx, e, d, hit)
  BY <1>1, SendData
<1>3. cx' = d /\ (interrupted' = "never" => interrupted = "never")
  BY <1>1
<1>4. Interrupted' <=> hit
  BY <1>1 DEF Interrupted
<1> HIDE DEF d, hit
<1>5. PICK e : /\ Context(e) /\ AccountsStay(cx, e) /\ Follows(cx, e)
               /\ d.bs = e.bs /\ SameServers(e, d)
               /\ Kept(cx, e, d, hit) \/ RolledBack(cx, e, d, hit) \/ Returned(cx, e, d, hit)
  BY <1>2
<1>6. \/ Kept(cx, e, cx', Interrupted') \/ RolledBack(cx, e, cx', Interrupted')
      \/ Returned(cx, e, cx', Interrupted')
  BY <1>3, <1>4, <1>5 DEF Kept, RolledBack, Returned
<1>7. FewRequests(cx')
  BY <1>1, <1>2, <1>3 DEF FewRequests
<1> QED
  BY <1>1, <1>2, <1>3, <1>5, <1>6, <1>7 DEF Sent

\* A server with a session has begun a bootstrap.
SessionStatus == \A i \in DOMAIN cx.bs : cx.bs[i].session => cx.bs[i].status # "DEREGISTERED"

\* A command, accepted or ignored.
LEMMA CommandStep ==
  ASSUME Context(cx), SessionStatus, NEW i \in Ids, Command(i) \/ DeleteAll(i)
  PROVE  Edits
<1>1. /\ i \in DOMAIN cx.bs /\ cx.bs[i].session
      /\ undone' = undone /\ interrupted' = interrupted
  BY DEF Command, DeleteAll, Receives, utils_findBootstrapServer
<1>2. cx.bs[i].status # "DEREGISTERED"
  BY <1>1 DEF SessionStatus
<1>3. CASE ~Accepts(cx, i)
  <2>1. cx' = cx
    BY <1>3 DEF Command, DeleteAll
  <2> QED
    BY <1>1, <2>1, EditedSame DEF Edits
<1>4. CASE Accepts(cx, i) /\ \E m \in Commands : cx' = bootstrap_handleCommand(cx, i, m)
  <2>1. PICK m \in Commands : cx' = bootstrap_handleCommand(cx, i, m)
    BY <1>4
  <2>2. Edited(cx, bootstrap_handleCommand(cx, i, m))
    BY <1>1, <1>2, <1>4, HandleCommand
  <2> QED
    BY <1>1, <2>1, <2>2 DEF Edits
<1>5. CASE /\ Accepts(cx, i)
           /\ cx' = bootstrap_handleDeleteAll(prv_checkServerStatus(cx, i), i)
  <2> DEFINE d == prv_checkServerStatus(cx, i)
  <2>1. Edited(cx, d)
    BY <1>1, <1>5, CheckStatus
  <2>2. cx' = bootstrap_handleDeleteAll(d, i)
    BY <1>5
  <2> HIDE DEF d
  <2>3. Context(d) /\ i \in DOMAIN d.bs
    BY <1>1, <2>1 DEF Edited, Marked
  <2>4. Edited(d, cx')
    BY <2>2, <2>3, HandleDeleteAll DEF Performed
  <2>5. Edited(cx, cx')
    BY <2>1, <2>4, EditedTransitive
  <2> QED
    BY <1>1, <2>5 DEF Edits
<1> QED
  BY <1>3, <1>4, <1>5 DEF Command, DeleteAll

\* A finish message.
LEMMA FinishStep ==
  ASSUME Context(cx), NEW i \in Ids, FinishMessage(i)
  PROVE  Edits
<1>1. /\ i \in DOMAIN cx.bs /\ cx.bs[i].session
      /\ undone' = undone /\ interrupted' = interrupted /\ cx' = bootstrap_handleFinish(cx, i)
  BY DEF FinishMessage, Receives, utils_findBootstrapServer
<1>2. Edited(cx, bootstrap_handleFinish(cx, i))
  BY <1>1, HandleFinish
<1> QED
  BY <1>1, <1>2 DEF Edits

\* The answer to a bootstrap request.
LEMMA ReplyStep ==
  ASSUME Context(cx), NEW i \in Ids, Reply(i)
  PROVE  Edits
<1>1. PICK answer :
        cx' = [prv_handleBootstrapReply(cx, i, answer) EXCEPT !.req[i] = @ - 1]
  BY DEF Reply
<1>2. cx.req[i] > 0 /\ undone' = undone /\ interrupted' = interrupted
  BY DEF Reply
<1> DEFINE d == prv_handleBootstrapReply(cx, i, answer)
<1>3. Edited(cx, d) /\ AccountsStay(cx, d) /\ SameMarks(cx, d) /\ d.req = cx.req
  BY HandleReply
<1>4. cx' = [d EXCEPT !.req[i] = @ - 1]
  BY <1>1
<1> HIDE DEF d
<1> DEFINE e == [d EXCEPT !.req[i] = @ - 1]
<1>5. Edited(cx, e) /\ AccountsStay(d, e) /\ e.bs = d.bs
  BY <1>2, <1>3, RequestEnds
<1>6. cx' = e
  BY <1>4
<1> HIDE DEF e
<1>7. AccountsStay(cx, e) /\ SameMarks(cx, e)
  BY <1>3, <1>5 DEF AccountsStay, SameMarks
<1> QED
  BY <1>2, <1>5, <1>6, <1>7 DEF Edits

\* Time passes for all bootstrap servers.
LEMMA TickStep ==
  ASSUME Context(cx), Tick
  PROVE  Edits
<1>1. undone' = undone /\ interrupted' = interrupted
  BY DEF Tick
<1>2. Edited(cx, cx') /\ AccountsStay(cx, cx') /\ SameMarks(cx, cx')
  BY TimePasses DEF Tick
<1> QED
  BY <1>1, <1>2 DEF Edits

\* A registration succeeds, is lost or fails.
LEMMA RegistersStep ==
  ASSUME Context(cx), NEW i \in Ids, Registers(i)
  PROVE  Context(cx') /\ Registered
<1>1. i \in DOMAIN cx.servers /\ undone' = undone /\ interrupted' = interrupted
  BY DEF Registers
<1>2. \/ \E st \in {"REG_PENDING", "REGISTERED"} : cx' = [cx EXCEPT !.servers[i].status = st]
      \/ cx' = RegistrationsFail(cx, {i})
  BY DEF Registers
<1>3. CASE \E st \in {"REG_PENDING", "REGISTERED"} : cx' = [cx EXCEPT !.servers[i].status = st]
  <2>1. PICK st \in {"REG_PENDING", "REGISTERED"} : cx' = [cx EXCEPT !.servers[i].status = st]
    BY <1>3
  <2> DEFINE d == [cx EXCEPT !.servers[i].status = st]
  <2>2. /\ Context(d) /\ AccountsStay(cx, d) /\ d.bs = cx.bs /\ d.state = cx.state
        /\ d.req = cx.req /\ SameServers(cx, d)
    BY <1>1, SetStatus
  <2>3. cx' = d
    BY <2>1
  <2> HIDE DEF d
  <2> QED
    BY <1>1, <2>2, <2>3 DEF Registered
<1>4. CASE cx' = RegistrationsFail(cx, {i})
  <2> DEFINE d == RegistrationsFail(cx, {i})
  <2>1. {i} \in SUBSET DOMAIN cx.servers
    BY <1>1
  <2>2. /\ Context(d) /\ AccountsStay(cx, d) /\ d.bs = cx.bs
        /\ d.req = cx.req /\ SameServers(cx, d)
        /\ d.state = cx.state \/ d.state = "BOOTSTRAP_REQUIRED"
    BY <2>1, RegistrationsFailing
  <2> HIDE DEF d
  <2> QED
    BY <1>1, <1>4, <2>2 DEF Registered, d
<1> QED
  BY <1>2, <1>3, <1>4

\* A step of Next, or none.
LEMMA NextStep ==
  ASSUME Context(cx), SessionStatus, [Next]_vars
  PROVE  Context(cx') /\ (Sent \/ Edits \/ Registered)
<1>1. CASE UNCHANGED vars
  <2>1. cx' = cx /\ undone' = undone /\ interrupted' = interrupted
    BY <1>1 DEF vars
  <2> QED
    BY <2>1, EditedSame DEF Edits, AccountsStay, SameMarks
<1>2. CASE Send
  BY <1>2, SendStep
<1>3. CASE Tick
  BY <1>3, TickStep DEF Edits, Edited
<1>4. CASE \E i \in Ids : Command(i) \/ DeleteAll(i) \/ FinishMessage(i) \/ Reply(i)
  BY <1>4, CommandStep, FinishStep, ReplyStep DEF Edits, Edited
<1>5. CASE \E i \in Ids : Registers(i)
  BY <1>5, RegistersStep
<1> QED
  BY <1>1, <1>2, <1>3, <1>4, <1>5 DEF Next

\* At the start nothing is listed.
LEMMA InitContext == Init => Context(cx) /\ DOMAIN cx.bs = {} /\ DOMAIN cx.servers = {}
<1> SUFFICES ASSUME Init PROVE Context(cx) /\ DOMAIN cx.bs = {} /\ DOMAIN cx.servers = {}
  OBVIOUS
<1>1. /\ Fields \subseteq DOMAIN cx
      /\ cx.state = "INITIAL" /\ cx.prev = "INITIAL" /\ cx.sec = FirstSec /\ cx.srv = FirstSrv
      /\ cx.bak = [sec |-> FirstSec, srv |-> FirstSrv] /\ cx.bs = <<>> /\ cx.servers = <<>>
      /\ cx.req = [i \in Ids |-> 0]
  BY DEF Init, Fields
<1>2. DOMAIN cx.bs = {} /\ DOMAIN cx.servers = {}
  BY <1>1
<1>3. cx.req \in [Ids -> Nat]
  BY <1>1
<1>4. cx.bak.sec = FirstSec /\ cx.bak.srv = FirstSrv
  BY <1>1
<1> QED
  BY <1>1, <1>2, <1>3, <1>4, BootstrapAssumption DEF Context, States, IsPartial

-----------------------------------------------------------------------------
(* What holds of every state.                                              *)

\* There are never more requests than the bound.
LEMMA RequestsFew ==
  ASSUME Context(cx), SessionStatus, FewRequests(cx), [Next]_vars
  PROVE  FewRequests(cx')
<1>1. CASE UNCHANGED vars
  BY <1>1 DEF vars, FewRequests
<1>2. CASE Send
  BY <1>2, SendStep
<1>3. CASE Tick
  BY <1>3, TickStep DEF Edits, Edited
<1>4. CASE \E i \in Ids : Command(i) \/ DeleteAll(i) \/ FinishMessage(i) \/ Reply(i)
  BY <1>4, CommandStep, FinishStep, ReplyStep DEF Edits, Edited
<1>5. CASE \E i \in Ids : Registers(i)
  <2>1. cx'.req = cx.req
    BY <1>5, RegistersStep DEF Registered
  <2> QED
    BY <2>1 DEF FewRequests
<1> QED
  BY <1>1, <1>2, <1>3, <1>4, <1>5 DEF Next

\* The counters and the histories.
Counters ==
  /\ sent \in 0 .. MaxCommands /\ undone \in BOOLEAN
  /\ interrupted \in {"never", "now", "before"}

\* The counters stay in their bounds.
LEMMA CountersStep == Counters /\ [Next]_vars => Counters'
<1> SUFFICES ASSUME Counters, [Next]_vars PROVE Counters'
  OBVIOUS
<1>1. CASE UNCHANGED vars
  BY <1>1 DEF vars, Counters
<1>2. CASE Send
  BY <1>2 DEF Send, Counters
<1>3. CASE Tick
  BY <1>3 DEF Tick, Counters
<1>4. ASSUME NEW i \in Ids, Receives(i)
      PROVE  Counters'
  BY <1>4, BootstrapAssumption DEF Receives, Counters
<1>5. CASE \E i \in Ids : Command(i) \/ DeleteAll(i) \/ FinishMessage(i)
  <2>1. PICK i \in Ids : Command(i) \/ DeleteAll(i) \/ FinishMessage(i)
    BY <1>5
  <2>2. Receives(i)
    BY <2>1 DEF Command, DeleteAll, FinishMessage
  <2> QED
    BY <1>4, <2>2
<1>6. CASE \E i \in Ids : Reply(i) \/ Registers(i)
  BY <1>6 DEF Reply, Registers, Counters
<1> QED
  BY <1>1, <1>2, <1>3, <1>5, <1>6 DEF Next

\* What TypeOK says.
LEMMA TypeMeaning == Context(cx) /\ FewRequests(cx) /\ Counters => TypeOK
<1> SUFFICES ASSUME Context(cx), FewRequests(cx), Counters PROVE TypeOK
  OBVIOUS
<1>1. cx.req \in [Ids -> 0 .. MaxRequests]
  BY BootstrapAssumption DEF Context, FewRequests
<1> QED
  BY <1>1 DEF Context, Counters, TypeOK, States, BootType, ServerType

-----------------------------------------------------------------------------
(***************************************************************************)
(* The list of servers follows the accounts. While a bootstrap is open, it *)
(* also follows the accounts of the backup, which a rollback brings back.  *)
(***************************************************************************)

\* previousState follows the state, but for a registration that asks for a bootstrap.
PrevFollows ==
  /\ cx.state = "BOOTSTRAPPING" => Open
  /\ Open => cx.state \in {"BOOTSTRAPPING", "BOOTSTRAP_REQUIRED"}
  /\ Interrupted => cx.state = "BOOTSTRAP_REQUIRED" /\ ~Open

\* The servers of c that are not marked are of the accounts in s.
ServersOf(c, s) ==
  \A i \in DOMAIN c.servers :
    ~c.servers[i].dirty => i \in DOMAIN s /\ ~s[i].boot /\ s[i].sid = c.servers[i].sid

\* Until a bootstrap is undone that was accepted as finished.
ListsFollow ==
  ~undone => ServersOf(cx, cx.sec) /\ (Open => ServersOf(cx, cx.bak.sec))

\* No step parts previousState from the state.
LEMMA PrevFollowsStep ==
  ASSUME PrevFollows, Sent \/ Edits \/ Registered
  PROVE  PrevFollows'
<1>1. CASE Sent
  <2>1. PICK e : /\ Context(e) /\ AccountsStay(cx, e) /\ Follows(cx, e)
                 /\ cx'.bs = e.bs /\ SameServers(e, cx')
                 /\ \/ Kept(cx, e, cx', Interrupted') \/ RolledBack(cx, e, cx', Interrupted')
                    \/ Returned(cx, e, cx', Interrupted')
    BY <1>1 DEF Sent
  <2>2. CASE Kept(cx, e, cx', Interrupted')
    BY <2>2 DEF Kept, PrevFollows, Open
  <2>3. CASE RolledBack(cx, e, cx', Interrupted')
    BY <2>3 DEF RolledBack, PrevFollows, Open
  <2>4. CASE Returned(cx, e, cx', Interrupted')
    <3>1. cx' = e /\ cx.prev # "BOOTSTRAPPING" /\ e.prev = cx.prev
      BY <2>1, <2>4 DEF Returned, AccountsStay
    <3>2. e.state \in {"INITIAL", "BOOTSTRAP_REQUIRED"}
      BY <2>4 DEF Returned, Unread, Alone, GaveUp, PrevFollows, Open
    <3> QED
      BY <2>4, <3>1, <3>2 DEF Returned, PrevFollows, Open
  <2> QED
    BY <2>1, <2>2, <2>3, <2>4
<1>2. CASE Edits
  BY <1>2 DEF Edits, Edited, PrevFollows, Open, Interrupted
<1>3. CASE Registered
  BY <1>3 DEF Registered, AccountsStay, PrevFollows, Open, Interrupted
<1> QED
  BY <1>1, <1>2, <1>3

\* What follows the accounts of c goes on following them when lwm2m_step reads accounts.
LEMMA ServersRead ==
  ASSUME NEW c, NEW e, Follows(c, e), ServersOf(c, c.sec)
  PROVE  ServersOf(e, c.sec)
BY DEF Follows, ServersOf

\* A server that goes on is of the same account.
LEMMA ServersGoOn ==
  ASSUME NEW c, NEW d, SameServers(c, d), NEW s, ServersOf(c, s)
  PROVE  ServersOf(d, s)
BY DEF SameServers, ServersOf

\* No step but the one that undoes a bootstrap parts the list from the accounts.
LEMMA ListsFollowStep ==
  ASSUME Context(cx), PrevFollows, ListsFollow, Sent \/ Edits \/ Registered
  PROVE  ListsFollow'
<1> SUFFICES ASSUME ~undone'
             PROVE  ServersOf(cx', cx'.sec) /\ (Open' => ServersOf(cx', cx'.bak.sec))
  BY DEF ListsFollow
<1>1. ~undone
  BY DEF Sent, Edits, Registered
<1>2. ServersOf(cx, cx.sec) /\ (Open => ServersOf(cx, cx.bak.sec))
  BY <1>1 DEF ListsFollow
<1>3. CASE Sent
  <2>1. PICK e : /\ Context(e) /\ AccountsStay(cx, e) /\ Follows(cx, e)
                 /\ cx'.bs = e.bs /\ SameServers(e, cx')
                 /\ \/ Kept(cx, e, cx', Interrupted') \/ RolledBack(cx, e, cx', Interrupted')
                    \/ Returned(cx, e, cx', Interrupted')
    BY <1>3 DEF Sent
  <2>2. ~Undoes(cx)
    BY <1>3 DEF Sent
  <2>3. ServersOf(e, cx.sec)
    BY <1>2, <2>1, ServersRead
  <2>4. NoNewServer(cx, e) /\ Open => ServersOf(e, cx.bak.sec)
    BY <1>2 DEF NoNewServer, ServersOf
  <2>5. CASE Kept(cx, e, cx', Interrupted')
    <3>1. ServersOf(e, cx'.sec)
      BY <2>3, <2>5 DEF Kept
    <3>2. ASSUME Open' PROVE ServersOf(e, cx'.bak.sec)
      <4>1. cx'.state = "BOOTSTRAPPING" /\ e.state = "BOOTSTRAPPING"
        BY <2>5, <3>2 DEF Kept, Open
      <4>2. NoNewServer(cx, e)
        BY <2>5, <4>1 DEF Kept, Started, Continued, AllRead, Stayed, NoNewServer
      <4>3. CASE Open
        <5>1. cx'.bak = cx.bak
          BY <2>5, <4>3 DEF Kept, Open
        <5> QED
          BY <2>4, <4>2, <4>3, <5>1
      <4>4. CASE ~Open
        <5>1. cx'.bak.sec = cx.sec
          BY <2>5, <4>1, <4>4 DEF Kept, Open, AccountsOf
        <5> QED
          BY <2>3, <5>1
      <4> QED
        BY <4>3, <4>4
    <3> QED
      BY <2>1, <3>1, <3>2, ServersGoOn
  <2>6. CASE RolledBack(cx, e, cx', Interrupted')
    <3>1. Open /\ ~Open' /\ cx'.sec = cx.bak.sec
      BY <2>6 DEF RolledBack, Open
    <3>2. NoNewServer(cx, e)
      BY <2>2, <2>6, <3>1 DEF RolledBack, Unread, Alone, GaveUp, NoNewServer, PrevFollows
    <3>3. ServersOf(e, cx'.sec)
      BY <2>4, <3>1, <3>2
    <3> QED
      BY <2>1, <3>1, <3>3, ServersGoOn
  <2>7. CASE Returned(cx, e, cx', Interrupted')
    <3>1. ~Open /\ ~Open' /\ cx'.sec = cx.sec
      BY <2>1, <2>7 DEF Returned, AccountsStay, Open
    <3> QED
      BY <2>1, <2>3, <3>1, ServersGoOn
  <2> QED
    BY <2>1, <2>5, <2>6, <2>7
<1>4. CASE Edits
  <2>1. Marked(cx, cx', Touched(cx, cx')) /\ cx'.prev = cx.prev /\ cx'.bak = cx.bak
    BY <1>4 DEF Edits, Edited
  <2>2. \A i \in DOMAIN cx'.servers :
          /\ i \in DOMAIN cx.servers /\ cx'.servers[i].sid = cx.servers[i].sid
          /\ ~cx'.servers[i].dirty => ~cx.servers[i].dirty /\ i \notin Touched(cx, cx')
    BY <2>1 DEF Marked
  <2>3. ServersOf(cx', cx'.sec)
    BY <1>2, <2>2 DEF ServersOf, Touched
  <2>4. Open' => ServersOf(cx', cx'.bak.sec)
    BY <1>2, <2>1, <2>2 DEF ServersOf, Open
  <2> QED
    BY <2>3, <2>4
<1>5. CASE Registered
  BY <1>2, <1>5, ServersGoOn DEF Registered, AccountsStay, Open
<1> QED
  BY <1>3, <1>4, <1>5

-----------------------------------------------------------------------------
(***************************************************************************)
(* Sessions: none is open unless the client is bootstrapping or about to   *)
(* start again, and then none of a server that has finished or failed.     *)
(***************************************************************************)
Busy == cx.state = "BOOTSTRAPPING" \/ Open \/ Interrupted

Sessions ==
  /\ ~Busy => \A i \in DOMAIN cx.bs : ~cx.bs[i].session
  /\ Busy =>
       \A i \in DOMAIN cx.bs :
         /\ cx.bs[i].status # "DEREGISTERED"
         /\ cx.bs[i].status \in {"FINISHED", "FAILED"} => ~cx.bs[i].session

\* A server with a session has begun a bootstrap.
LEMMA SessionsBegun == Sessions => SessionStatus
BY DEF Sessions, SessionStatus

\* When bootstrap_getStatus is no longer pending, no session is open.
LEMMA OverClosed ==
  ASSUME Context(cx), Sessions, cx.state = "BOOTSTRAPPING",
         bootstrap_getStatus(cx) # "PENDING"
  PROVE  \A i \in DOMAIN cx.bs : ~cx.bs[i].session
<1>1. \A i \in DOMAIN cx.bs : cx.bs[i].status \in BsStatus
  BY DEF Context, IsPartial, BootType
<1>2. \A i \in DOMAIN cx.bs :
        cx.bs[i].status \notin {"HOLD_OFF", "INITIATED", "PENDING", "FINISHING", "FAILING"}
  BY DEF bootstrap_getStatus
<1> QED
  BY <1>1, <1>2 DEF Sessions, BsStatus

\* No step opens a session that bootstrap_step would not close.
LEMMA SessionsStep ==
  ASSUME Context(cx), PrevFollows, Sessions, Sent \/ Edits \/ Registered
  PROVE  Sessions'
<1>1. CASE Sent
  <2>1. PICK e : /\ Context(e) /\ AccountsStay(cx, e) /\ Follows(cx, e)
                 /\ cx'.bs = e.bs /\ SameServers(e, cx')
                 /\ \/ Kept(cx, e, cx', Interrupted') \/ RolledBack(cx, e, cx', Interrupted')
                    \/ Returned(cx, e, cx', Interrupted')
    BY <1>1 DEF Sent
  <2> DEFINE Closed == \A i \in DOMAIN e.bs : ~e.bs[i].session
             OnItsWay == \A i \in DOMAIN e.bs :
                           /\ e.bs[i].status # "DEREGISTERED"
                           /\ e.bs[i].status \in {"FINISHED", "FAILED"} => ~e.bs[i].session
  <2>2. (Closed /\ ~Busy') \/ (OnItsWay /\ Busy') => Sessions'
    BY <2>1 DEF Sessions
  <2>3. NoNewSession(cx, e) /\ Over(cx) /\ cx.state \in {"INITIAL", "BOOTSTRAPPING"} => Closed
    <3> SUFFICES ASSUME NoNewSession(cx, e), Over(cx), cx.state \in {"INITIAL", "BOOTSTRAPPING"}
                 PROVE  Closed
      OBVIOUS
    <3>1. \A i \in DOMAIN cx.bs : ~cx.bs[i].session
      <4>1. CASE cx.state = "BOOTSTRAPPING"
        BY <4>1, OverClosed DEF Over
      <4>2. CASE cx.state = "INITIAL"
        BY <4>2 DEF Sessions, Busy, PrevFollows
      <4> QED
        BY <4>1, <4>2
    <3> QED
      BY <3>1 DEF NoNewSession
  <2>4. Unread(cx, e) \/ Alone(cx, e) => Closed /\ e.state # "BOOTSTRAPPING"
    BY <2>3 DEF Unread, Alone
  <2>5. GaveUp(cx, e) => Closed /\ e = cx
    BY OverClosed DEF GaveUp
  <2>6. CASE Kept(cx, e, cx', Interrupted')
    <3>1. /\ cx'.state = e.state \/ cx'.state = "BOOTSTRAP_REQUIRED"
          /\ Busy' <=> e.state = "BOOTSTRAPPING"
      BY <2>6 DEF Kept, Busy, Open
    <3>2. CASE Started(cx, e)
      BY <2>2, <3>1, <3>2 DEF Started
    <3>3. CASE Continued(cx, e)
      <4>1. Busy /\ Busy'
        BY <3>1, <3>3 DEF Continued, Busy
      <4>2. OnItsWay
        BY <3>3, <4>1 DEF Continued, Sessions, Steps
      <4> QED
        BY <2>2, <4>1, <4>2
    <3>4. CASE AllRead(cx, e)
      BY <2>2, <2>3, <3>1, <3>4 DEF AllRead
    <3>5. CASE Stayed(cx, e)
      <4>1. ~Busy /\ ~Busy' /\ e.bs = cx.bs
        BY <3>1, <3>5 DEF Stayed, Busy, PrevFollows
      <4> QED
        BY <2>2, <4>1 DEF Sessions
    <3> QED
      BY <2>6, <3>2, <3>3, <3>4, <3>5 DEF Kept
  <2>7. CASE RolledBack(cx, e, cx', Interrupted')
    <3>1. Closed /\ ~Busy'
      BY <2>4, <2>5, <2>7 DEF RolledBack, Busy, Open
    <3> QED
      BY <2>2, <3>1
  <2>8. CASE Returned(cx, e, cx', Interrupted')
    <3>1. cx' = e /\ ~Open /\ ~Interrupted'
      BY <2>8 DEF Returned, Open
    <3>2. Closed /\ e.state # "BOOTSTRAPPING"
      BY <2>4, <2>8, <3>1 DEF Returned, GaveUp, PrevFollows
    <3>3. ~Busy'
      BY <2>1, <3>1, <3>2 DEF AccountsStay, Busy, Open
    <3> QED
      BY <2>2, <3>2, <3>3
  <2> QED
    BY <2>1, <2>6, <2>7, <2>8
<1>2. CASE Edits
  <2>1. Marked(cx, cx', Touched(cx, cx')) /\ (Busy' <=> Busy)
    BY <1>2 DEF Edits, Edited, Busy, Open, Interrupted
  <2>2. DOMAIN cx'.bs = DOMAIN cx.bs /\ \A i \in DOMAIN cx.bs : Moved(cx.bs[i], cx'.bs[i])
    BY <2>1 DEF Marked
  <2> QED
    BY <2>1, <2>2 DEF Moved, Sessions
<1>3. CASE Registered
  <2>1. cx'.bs = cx.bs /\ (Busy' <=> Busy)
    BY <1>3 DEF Registered, AccountsStay, PrevFollows, Busy, Open, Interrupted
  <2> QED
    BY <2>1 DEF Sessions
<1> QED
  BY <1>1, <1>2, <1>3

\* What the proofs below rest on.
Inv == Context(cx) /\ PrevFollows /\ ListsFollow /\ Sessions

\* It holds at the start.
LEMMA InvInit == Init => Inv
<1> SUFFICES ASSUME Init PROVE Inv
  OBVIOUS
<1>1. cx.state = "INITIAL" /\ cx.prev = "INITIAL" /\ interrupted = "never"
  BY DEF Init
<1>2. Context(cx) /\ DOMAIN cx.bs = {} /\ DOMAIN cx.servers = {}
  BY InitContext
<1>3. PrevFollows /\ Sessions
  BY <1>1, <1>2 DEF PrevFollows, Sessions, Open, Interrupted
<1>4. ListsFollow
  BY <1>2 DEF ListsFollow, ServersOf
<1> QED
  BY <1>2, <1>3, <1>4 DEF Inv

\* What is listed follows the accounts and, while a bootstrap is open, their backup;
\* previousState follows the state; sessions are those of a bootstrap that is going on.
THEOREM InvCorrect == Spec => []Inv
<1>1. Init => Inv
  BY InvInit
<1>2. Inv /\ [Next]_vars => Inv'
  <2> SUFFICES ASSUME Inv, [Next]_vars PROVE Inv'
    OBVIOUS
  <2>1. Context(cx') /\ (Sent \/ Edits \/ Registered)
    BY NextStep, SessionsBegun DEF Inv
  <2>2. PrevFollows' /\ ListsFollow' /\ Sessions'
    BY <2>1, PrevFollowsStep, ListsFollowStep, SessionsStep DEF Inv
  <2> QED
    BY <2>1, <2>2 DEF Inv, Context
<1> QED
  BY <1>1, <1>2, PTL DEF Spec

\* The state has its type: accounts, listed servers and their backup are of known
\* instances, and no server has more bootstrap requests under way than the bound.
THEOREM TypeCorrect == Spec => []TypeOK
<1>1. Init => Context(cx) /\ FewRequests(cx) /\ Counters
  <2> SUFFICES ASSUME Init PROVE Context(cx) /\ FewRequests(cx) /\ Counters
    OBVIOUS
  <2>1. \A i \in Ids : cx.req[i] = 0
    BY DEF Init
  <2>2. FewRequests(cx)
    BY <2>1, BootstrapAssumption DEF FewRequests
  <2>3. Counters
    <3>1. sent = 0 /\ undone = FALSE /\ interrupted = "never"
      BY DEF Init
    <3>2. 0 \in 0 .. MaxCommands
      BY BootstrapAssumption
    <3> QED
      BY <3>1, <3>2 DEF Counters
  <2> QED
    BY <2>2, <2>3, InitContext
<1>2. Inv /\ FewRequests(cx) /\ Counters /\ [Next]_vars => (FewRequests(cx) /\ Counters)'
  <2> SUFFICES ASSUME Inv, FewRequests(cx), Counters, [Next]_vars
               PROVE  (FewRequests(cx) /\ Counters)'
    OBVIOUS
  <2>1. FewRequests(cx') /\ Counters'
    BY RequestsFew, CountersStep, SessionsBegun DEF Inv
  <2> QED
    BY <2>1 DEF FewRequests
<1>3. Inv /\ FewRequests(cx) /\ Counters => TypeOK
  BY TypeMeaning DEF Inv
<1> QED
  BY <1>1, <1>2, <1>3, InvCorrect, PTL DEF Spec

\* Until a finished bootstrap is undone, a listed server that is not marked has its
\* account, through all writes, deletions and rollbacks.
THEOREM ServersFollow == Spec => []ServersMatchAccounts
<1>1. Inv => ServersMatchAccounts
  BY DEF Inv, ListsFollow, ServersOf, ServersMatchAccounts, OldServersRestarted
<1> QED
  BY <1>1, InvCorrect, PTL

\* A bootstrap server has no session, and so can change no account, unless the client is
\* bootstrapping or is about to start again.
THEOREM SessionsEnd == Spec => []SessionsClosed
<1>1. Inv => SessionsClosed
  BY DEF Inv, Sessions, Busy, PrevFollows, Interrupted, SessionsClosed
<1> QED
  BY <1>1, InvCorrect, PTL

-----------------------------------------------------------------------------
(***************************************************************************)
(* Bootstrapping implements the account store, step by step.               *)
(***************************************************************************)
HasFinished(c) == \E i \in DOMAIN c.bs : c.bs[i].status = "FINISHED"

\* What lwm2m_step reads can be read, if what is listed is of the accounts.
LEMMA AllReadable ==
  ASSUME Context(cx), NEW e, Context(e), Follows(cx, e), AllRead(cx, e), ListFollows
  PROVE  Readable(Now)
<1>1. SUFFICES ASSUME NEW i \in DOMAIN cx.sec PROVE cx.sec[i].boot \/ cx.sec[i].sid # 0
  BY DEF Readable, Now
<1>2. CASE i \in DOMAIN e.bs
  <2>1. ~e.bs[i].dirty
    BY <1>2 DEF AllRead
  <2> QED
    BY <1>2, <2>1 DEF Follows, ListFollows
<1>3. CASE i \in DOMAIN e.servers
  <2>1. ~e.servers[i].dirty
    BY <1>3 DEF AllRead
  <2>2. \A j \in DOMAIN cx.servers : cx.servers[j].sid \in ShortIds
    BY DEF Context, IsPartial, ServerType
  <2>3. 0 \notin ShortIds
    BY BootstrapAssumption
  <2>4. CASE i \in DOMAIN cx.servers /\ ~cx.servers[i].dirty
    <3>1. cx.sec[i].sid = cx.servers[i].sid
      BY <2>4 DEF ListFollows, OldServersRestarted
    <3> QED
      BY <2>2, <2>3, <2>4, <3>1
  <2>5. CASE cx.sec[i].sid = e.servers[i].sid
    <3>1. e.servers[i].sid \in ShortIds
      BY <1>3 DEF Context, IsPartial, ServerType
    <3> QED
      BY <2>3, <2>5, <3>1
  <2> QED
    BY <1>3, <2>1, <2>4, <2>5 DEF Follows
<1>4. CASE i \notin DOMAIN e.bs \cup DOMAIN e.servers
  BY <1>4 DEF AllRead
<1> QED
  BY <1>2, <1>3, <1>4

\* A bootstrap begins.
LEMMA StoreBegins ==
  ASSUME cx.prev # "BOOTSTRAPPING", cx'.prev = "BOOTSTRAPPING",
         cx'.sec = cx.sec, cx'.srv = cx.srv, cx'.bak = AccountsOf(cx),
         ~HasFinished(cx')
  PROVE  Store!Begin
BY DEF Store!Begin, Open, Now, AccountsOf, HasFinished

\* Nothing is done to the store.
LEMMA StoreStays ==
  ASSUME cx'.prev = cx.prev \/ (cx.prev # "BOOTSTRAPPING" /\ cx'.prev # "BOOTSTRAPPING"),
         cx'.sec = cx.sec, cx'.srv = cx.srv,
         cx.prev = "BOOTSTRAPPING" => cx'.bak = cx.bak /\ (HasFinished(cx') <=> HasFinished(cx))
  PROVE  UNCHANGED Store!avars
BY DEF Store!avars, Open, Now, HasFinished

\* A bootstrap server is accepted as finished.
LEMMA StoreFinishes ==
  ASSUME cx.prev = "BOOTSTRAPPING", cx'.prev = "BOOTSTRAPPING",
         cx'.sec = cx.sec, cx'.srv = cx.srv, cx'.bak = cx.bak,
         HasFinished(cx')
  PROVE  Store!Finish
BY DEF Store!Finish, Open, Now, HasFinished

\* The bootstrap begins again.
LEMMA StoreAgain ==
  ASSUME cx.prev = "BOOTSTRAPPING", cx'.prev = "BOOTSTRAPPING",
         cx'.sec = cx.sec, cx'.srv = cx.srv, cx'.bak = cx.bak,
         HasFinished(cx), ~HasFinished(cx')
  PROVE  Store!Again
BY DEF Store!Again, Open, Now, HasFinished

\* The accounts are kept.
LEMMA StoreCommits ==
  ASSUME cx.prev = "BOOTSTRAPPING", cx'.prev # "BOOTSTRAPPING",
         cx'.sec = cx.sec, cx'.srv = cx.srv, HasFinished(cx),
         ListFollows => Readable(Now)
  PROVE  Store!Commit
BY DEF Store!Commit, Open, Now, HasFinished

\* The old accounts are restored.
LEMMA StoreAborts ==
  ASSUME Context(cx), cx.prev = "BOOTSTRAPPING", cx'.prev # "BOOTSTRAPPING",
         cx'.sec = cx.bak.sec, cx'.srv = cx.bak.srv,
         ~(HasFinished(cx) /\ Readable(Now) /\ HasServer(Now))
  PROVE  Store!Abort
<1>1. Now' = cx.bak
  BY DEF Now, Context
<1> QED
  BY <1>1 DEF Store!Abort, Open, HasFinished

\* Accounts are edited, or nothing happens.
LEMMA StoreEdits ==
  ASSUME cx.prev = "BOOTSTRAPPING", cx'.prev = "BOOTSTRAPPING", cx'.bak = cx.bak,
         HasFinished(cx') <=> HasFinished(cx)
  PROVE  Store!Edit \/ UNCHANGED Store!avars
BY DEF Store!Edit, Store!avars, Open, Now, HasFinished

\* A bootstrap is interrupted.
LEMMA StoreInterrupts ==
  ASSUME cx.prev = "BOOTSTRAPPING", cx'.prev # "BOOTSTRAPPING",
         cx'.sec = cx.sec, cx'.srv = cx.srv, interrupted' = "now"
  PROVE  Store!Interrupt
BY DEF Store!Interrupt, Open, Now

\* After that, accounts may be edited until the next one begins.
LEMMA StoreLeaks ==
  ASSUME cx.prev # "BOOTSTRAPPING", cx'.prev # "BOOTSTRAPPING", interrupted = "now"
  PROVE  Store!Leak \/ UNCHANGED Store!avars
BY DEF Store!Leak, Store!avars, Open, Now

\* Every step of sendData is one of the store's.
LEMMA SentStored ==
  ASSUME Inv, Sent
  PROVE  Store!ANext \/ UNCHANGED Store!avars
<1>1. /\ Context(cx) /\ PrevFollows
      /\ cx.state = "BOOTSTRAPPING" => cx.prev = "BOOTSTRAPPING"
      /\ cx.prev = "BOOTSTRAPPING" => cx.state \in {"BOOTSTRAPPING", "BOOTSTRAP_REQUIRED"}
  BY DEF Inv, PrevFollows, Open
<1>2. PICK e : /\ Context(e) /\ AccountsStay(cx, e) /\ Follows(cx, e)
               /\ cx'.bs = e.bs /\ SameServers(e, cx')
               /\ \/ Kept(cx, e, cx', Interrupted') \/ RolledBack(cx, e, cx', Interrupted')
                  \/ Returned(cx, e, cx', Interrupted')
  BY DEF Sent
<1>3. HasFinished(cx') <=> HasFinished(e)
  BY <1>2 DEF HasFinished
<1>4. Over(cx) /\ cx.state = "BOOTSTRAPPING" => HasFinished(cx)
  BY DEF Over, bootstrap_getStatus, HasFinished
<1>5. CASE Kept(cx, e, cx', Interrupted')
  <2>1. /\ cx'.sec = cx.sec /\ cx'.srv = cx.srv
        /\ cx'.prev = e.state \/ cx'.prev = "BOOTSTRAP_REQUIRED"
        /\ cx'.bak = IF cx.prev # cx'.prev /\ cx'.prev = "BOOTSTRAPPING"
                     THEN AccountsOf(cx) ELSE cx.bak
    BY <1>5 DEF Kept
  <2>2. CASE e.state = "BOOTSTRAPPING" /\ cx'.prev # "BOOTSTRAPPING"
    <3>1. interrupted' = "now"
      BY <1>5, <2>2 DEF Kept, Interrupted
    <3>2. CASE cx.prev = "BOOTSTRAPPING"
      BY <2>1, <2>2, <3>1, <3>2, StoreInterrupts DEF Store!ANext
    <3>3. CASE cx.prev # "BOOTSTRAPPING"
      BY <2>1, <2>2, <3>3, StoreStays
    <3> QED
      BY <3>2, <3>3
  <2>3. CASE Started(cx, e) /\ cx'.prev = "BOOTSTRAPPING"
    <3>1. ~HasFinished(cx')
      BY <1>3, <2>3 DEF Started, HasFinished
    <3>2. CASE cx.prev = "BOOTSTRAPPING"
      <4>1. cx'.bak = cx.bak
        BY <2>1, <2>3, <3>2
      <4>2. CASE HasFinished(cx)
        BY <2>1, <2>3, <3>1, <3>2, <4>1, <4>2, StoreAgain DEF Store!ANext
      <4>3. CASE ~HasFinished(cx)
        BY <2>1, <2>3, <3>1, <3>2, <4>1, <4>3, StoreStays
      <4> QED
        BY <4>2, <4>3
    <3>3. CASE cx.prev # "BOOTSTRAPPING"
      BY <2>1, <2>3, <3>1, <3>3, StoreBegins DEF Store!ANext
    <3> QED
      BY <3>2, <3>3
  <2>4. CASE Continued(cx, e) /\ cx'.prev = "BOOTSTRAPPING"
    <3>1. cx.prev = "BOOTSTRAPPING" /\ cx'.bak = cx.bak
      BY <1>1, <2>1, <2>4 DEF Continued
    <3>2. HasFinished(cx) => HasFinished(e)
      BY <2>4 DEF Continued, Steps, HasFinished
    <3>3. CASE HasFinished(e)
      <4>1. Store!Finish
        BY <1>3, <2>1, <2>4, <3>1, <3>3, StoreFinishes
      <4> QED
        BY <4>1 DEF Store!ANext
    <3>4. CASE ~HasFinished(e)
      BY <1>3, <2>1, <2>4, <3>1, <3>2, <3>4, StoreStays
    <3> QED
      BY <3>3, <3>4
  <2>5. CASE AllRead(cx, e)
    <3>1. cx'.prev # "BOOTSTRAPPING" /\ Over(cx) /\ cx.state \in {"INITIAL", "BOOTSTRAPPING"}
      BY <2>1, <2>5 DEF AllRead
    <3>2. CASE cx.prev = "BOOTSTRAPPING"
      <4>1. HasFinished(cx)
        BY <1>1, <1>4, <3>1, <3>2
      <4>2. ListFollows => Readable(Now)
        BY <1>1, <1>2, <2>5, AllReadable
      <4>3. Store!Commit
        BY <2>1, <3>1, <3>2, <4>1, <4>2, StoreCommits
      <4> QED
        BY <4>3 DEF Store!ANext
    <3>3. CASE cx.prev # "BOOTSTRAPPING"
      BY <2>1, <3>1, <3>3, StoreStays
    <3> QED
      BY <3>2, <3>3
  <2>6. CASE Stayed(cx, e)
    <3>1. cx'.prev # "BOOTSTRAPPING" /\ cx.prev # "BOOTSTRAPPING"
      BY <1>1, <2>1, <2>6 DEF Stayed
    <3> QED
      BY <2>1, <3>1, StoreStays
  <2> QED
    BY <1>5, <2>2, <2>3, <2>4, <2>5, <2>6 DEF Kept, Started, Continued
<1>6. CASE RolledBack(cx, e, cx', Interrupted')
  <2>1. /\ cx.prev = "BOOTSTRAPPING" /\ cx'.prev # "BOOTSTRAPPING"
        /\ cx'.sec = cx.bak.sec /\ cx'.srv = cx.bak.srv
    BY <1>6 DEF RolledBack
  <2>2. CASE Unread(cx, e)
    BY <1>1, <2>1, <2>2, StoreAborts DEF Unread, Readable, Now, Store!ANext
  <2>3. CASE Alone(cx, e)
    <3>1. CASE cx.state = "BOOTSTRAPPING"
      <4>1. \A i \in DOMAIN cx.sec : ~cx.sec[i].boot /\ cx.sec[i].sid \notin cx.srv
        BY <2>3, <3>1 DEF Alone
      <4>2. ~HasServer(Now)
        BY <4>1 DEF HasServer, Now
      <4> QED
        BY <1>1, <2>1, <4>2, StoreAborts DEF Store!ANext
    <3>2. CASE cx.state = "BOOTSTRAP_REQUIRED"
      <4>1. ~HasFinished(cx)
        BY <2>3, <3>2 DEF Alone, HasFinished
      <4> QED
        BY <1>1, <2>1, <4>1, StoreAborts DEF Store!ANext
    <3> QED
      BY <1>1, <2>1, <3>1, <3>2
  <2>4. CASE GaveUp(cx, e)
    <3>1. ~HasFinished(cx)
      BY <2>4 DEF GaveUp, bootstrap_getStatus, HasFinished
    <3>2. Store!Abort
      BY <1>1, <2>1, <3>1, StoreAborts
    <3> QED
      BY <3>2 DEF Store!ANext
  <2> QED
    BY <1>6, <2>2, <2>3, <2>4 DEF RolledBack
<1>7. CASE Returned(cx, e, cx', Interrupted')
  <2>1. cx'.prev = cx.prev /\ cx'.sec = cx.sec /\ cx'.srv = cx.srv /\ cx.prev # "BOOTSTRAPPING"
    BY <1>2, <1>7 DEF Returned, AccountsStay
  <2> QED
    BY <2>1, StoreStays
<1> QED
  BY <1>2, <1>5, <1>6, <1>7

\* An edit of a bootstrap server is one of the store's, and nothing else touches it.
LEMMA EditsStored ==
  ASSUME Inv, Edits \/ Registered
  PROVE  Store!ANext \/ UNCHANGED Store!avars
<1>1. CASE Edits
  <2>1. Marked(cx, cx', Touched(cx, cx')) /\ cx'.prev = cx.prev /\ cx'.bak = cx.bak
    BY <1>1 DEF Edits, Edited
  <2>2. DOMAIN cx'.bs = DOMAIN cx.bs /\ \A i \in DOMAIN cx.bs : Moved(cx.bs[i], cx'.bs[i])
    BY <2>1 DEF Marked
  <2>3. HasFinished(cx') <=> HasFinished(cx)
    BY <2>2 DEF Moved, HasFinished
  <2>4. CASE AccountsStay(cx, cx')
    BY <2>1, <2>3, <2>4, StoreStays DEF AccountsStay
  <2>5. CASE \E i \in DOMAIN cx.bs : cx.bs[i].session
    <3>1. cx.prev = "BOOTSTRAPPING" \/ interrupted = "now"
      BY <2>5 DEF Inv, Sessions, Busy, PrevFollows, Open, Interrupted
    <3>2. CASE cx.prev = "BOOTSTRAPPING"
      <4>1. Store!Edit \/ UNCHANGED Store!avars
        BY <2>1, <2>3, <3>2, StoreEdits
      <4> QED
        BY <4>1 DEF Store!ANext
    <3>3. CASE cx.prev # "BOOTSTRAPPING"
      <4>1. Store!Leak \/ UNCHANGED Store!avars
        BY <2>1, <3>1, <3>3, StoreLeaks
      <4> QED
        BY <4>1 DEF Store!ANext
    <3> QED
      BY <3>2, <3>3
  <2> QED
    BY <1>1, <2>4, <2>5 DEF Edits
<1>2. CASE Registered
  <2>1. HasFinished(cx') <=> HasFinished(cx)
    BY <1>2 DEF Registered, HasFinished
  <2> QED
    BY <1>2, <2>1, StoreStays DEF Registered, AccountsStay
<1> QED
  BY <1>1, <1>2

\* Bootstrapping edits the accounts in a transaction, as AccountStore has it: with the
\* backup and the rollback of sendData, every step is one of the store's or leaves it
\* alone.
THEOREM Transactional == Spec => AccountsTransactional
<1>1. Init => Store!AInit
  <2> SUFFICES ASSUME Init PROVE Store!AInit
    OBVIOUS
  <2>1. cx.prev # "BOOTSTRAPPING"
    BY DEF Init
  <2> QED
    BY <2>1 DEF Store!AInit, Open
<1>2. Inv /\ [Next]_vars => [Store!ANext]_(Store!avars)
  <2> SUFFICES ASSUME Inv, [Next]_vars
               PROVE  Store!ANext \/ UNCHANGED Store!avars
    OBVIOUS
  <2>1. Sent \/ Edits \/ Registered
    BY NextStep, SessionsBegun DEF Inv
  <2> QED
    BY <2>1, SentStored, EditsStored
<1> QED
  BY <1>1, <1>2, InvCorrect, PTL DEF Spec, AccountsTransactional, Store!ASpec

-----------------------------------------------------------------------------
(***************************************************************************)
(* The bootstrap server's own account, if there can be only one, b, and as *)
(* long as no bootstrap is interrupted. A bootstrap begins with b listed,  *)
(* so that the backup has its account.                                     *)
(***************************************************************************)
OnlyBoot(b, s) == \A i \in DOMAIN s : s[i].boot => i = b

\* Accounts s have that of b.
HasOwn(b, s) == b \in DOMAIN s /\ s[b].boot

\* The accounts, the backup and the list of bootstrap servers agree on b.
OwnAccount(b) ==
  interrupted = "never" =>
    /\ OnlyBoot(b, cx.sec) /\ OnlyBoot(b, cx.bak.sec)
    /\ \A i \in DOMAIN cx.bs : ~cx.bs[i].dirty => i \in DOMAIN cx.sec /\ cx.sec[i].boot
    /\ Open => HasOwn(b, cx.bak.sec)
    /\ ~Open /\ DOMAIN cx.bs # {} => HasOwn(b, cx.sec)

\* sendData, with its backup and rollback, keeps b.
LEMMA OwnAccountSent ==
  ASSUME Inv, NEW b, OwnAccount(b), Sent
  PROVE  OwnAccount(b)'
<1> SUFFICES ASSUME interrupted' = "never" PROVE OwnAccount(b)'
  BY DEF OwnAccount
<1>1. /\ OnlyBoot(b, cx.sec) /\ OnlyBoot(b, cx.bak.sec)
      /\ \A i \in DOMAIN cx.bs : ~cx.bs[i].dirty => i \in DOMAIN cx.sec /\ cx.sec[i].boot
      /\ Open => HasOwn(b, cx.bak.sec)
      /\ ~Open /\ DOMAIN cx.bs # {} => HasOwn(b, cx.sec)
  BY DEF Sent, OwnAccount
<1>2. PICK e : /\ Context(e) /\ AccountsStay(cx, e) /\ Follows(cx, e)
               /\ cx'.bs = e.bs /\ SameServers(e, cx')
               /\ \/ Kept(cx, e, cx', Interrupted') \/ RolledBack(cx, e, cx', Interrupted')
                  \/ Returned(cx, e, cx', Interrupted')
  BY DEF Sent
<1>3. \A i \in DOMAIN e.bs : ~e.bs[i].dirty => i \in DOMAIN cx.sec /\ cx.sec[i].boot /\ i = b
  BY <1>1, <1>2 DEF Follows, OnlyBoot
<1>4. \A i \in DOMAIN e.bs : ~e.bs[i].dirty => HasOwn(b, cx.sec)
  BY <1>3 DEF HasOwn
<1>5. PrevFollows
  BY DEF Inv
<1>6. CASE Kept(cx, e, cx', Interrupted')
  <2>1. ~(e.state = "BOOTSTRAPPING" /\ cx'.state # "BOOTSTRAPPING")
    BY <1>6 DEF Kept, Interrupted
  <2>2. /\ cx'.sec = cx.sec /\ cx'.prev = cx'.state
        /\ cx'.state = e.state \/ cx'.state = "BOOTSTRAP_REQUIRED"
        /\ cx'.bak = IF cx.prev # cx'.state /\ cx'.state = "BOOTSTRAPPING"
                     THEN AccountsOf(cx) ELSE cx.bak
    BY <1>6 DEF Kept
  <2>3. OnlyBoot(b, cx'.bak.sec)
    BY <1>1, <2>2 DEF AccountsOf
  <2>4. ASSUME cx'.prev = "BOOTSTRAPPING" PROVE HasOwn(b, cx'.bak.sec)
    <3>1. CASE cx.prev = "BOOTSTRAPPING"
      BY <1>1, <2>2, <2>4, <3>1 DEF Open
    <3>2. CASE cx.prev # "BOOTSTRAPPING"
      <4>1. cx'.bak.sec = cx.sec
        BY <2>2, <2>4, <3>2 DEF AccountsOf
      <4>2. DOMAIN e.bs # {} /\ NoNewMark(cx, e)
        BY <1>5, <1>6, <2>2, <2>4, <3>2
           DEF Kept, Started, Continued, AllRead, Stayed, PrevFollows, Open
      <4>3. CASE \A i \in DOMAIN e.bs : e.bs[i].dirty
        BY <1>1, <3>2, <4>1, <4>2, <4>3 DEF NoNewMark, Open
      <4> QED
        BY <1>4, <4>1, <4>3
    <3> QED
      BY <3>1, <3>2
  <2>5. ASSUME cx'.prev # "BOOTSTRAPPING", DOMAIN e.bs # {} PROVE HasOwn(b, cx.sec)
    <3>1. AllRead(cx, e) \/ Stayed(cx, e)
      BY <1>6, <2>1, <2>2, <2>5 DEF Kept, Started, Continued
    <3>2. CASE AllRead(cx, e)
      BY <1>4, <2>5, <3>2 DEF AllRead
    <3>3. CASE Stayed(cx, e)
      BY <1>1, <1>5, <2>5, <3>3 DEF Stayed, PrevFollows
    <3> QED
      BY <3>1, <3>2, <3>3
  <2> QED
    BY <1>1, <1>2, <1>3, <2>2, <2>3, <2>4, <2>5 DEF OwnAccount, Open
<1>7. CASE RolledBack(cx, e, cx', Interrupted')
  <2>1. /\ cx.prev = "BOOTSTRAPPING" /\ cx'.prev = "INITIAL"
        /\ cx'.sec = cx.bak.sec /\ cx'.bak = cx.bak
    BY <1>7 DEF RolledBack
  <2>2. HasOwn(b, cx.bak.sec)
    BY <1>1, <2>1 DEF Open
  <2> QED
    BY <1>1, <1>2, <1>3, <2>1, <2>2 DEF OwnAccount, Open, HasOwn
<1>8. CASE Returned(cx, e, cx', Interrupted')
  <2>1. /\ cx' = e /\ e.sec = cx.sec /\ e.bak = cx.bak /\ e.prev = cx.prev
        /\ cx.prev # "BOOTSTRAPPING"
    BY <1>2, <1>8 DEF Returned, AccountsStay
  <2>2. DOMAIN e.bs # {} => HasOwn(b, cx.sec)
    BY <1>4, <1>5, <1>8, <2>1 DEF Returned, Unread, Alone, GaveUp, PrevFollows, Open
  <2> QED
    BY <1>1, <1>3, <2>1, <2>2 DEF OwnAccount, Open
<1> QED
  BY <1>2, <1>6, <1>7, <1>8

\* The commands keep b or mark it.
LEMMA OwnAccountEdits ==
  ASSUME Inv, NEW b, \A j \in Ids : MayBoot(j) => j = b, OwnAccount(b), Edits
  PROVE  OwnAccount(b)'
<1> SUFFICES ASSUME interrupted' = "never" PROVE OwnAccount(b)'
  BY DEF OwnAccount
<1>1. /\ interrupted = "never"
      /\ OnlyBoot(b, cx.sec) /\ OnlyBoot(b, cx.bak.sec)
      /\ \A i \in DOMAIN cx.bs : ~cx.bs[i].dirty => i \in DOMAIN cx.sec /\ cx.sec[i].boot
      /\ Open => HasOwn(b, cx.bak.sec)
      /\ ~Open /\ DOMAIN cx.bs # {} => HasOwn(b, cx.sec)
  BY DEF Edits, OwnAccount
<1>2. /\ Context(cx') /\ Marked(cx, cx', Touched(cx, cx'))
      /\ cx'.prev = cx.prev /\ cx'.bak = cx.bak
      /\ \A j \in DOMAIN cx'.sec :
           cx'.sec[j].boot => (j \in DOMAIN cx.sec /\ cx.sec[j].boot) \/ MayBoot(j)
  BY DEF Edits, Edited
<1>3. DOMAIN cx'.sec \subseteq Ids
  BY <1>2 DEF Context, IsPartial
<1>4. OnlyBoot(b, cx'.sec)
  BY <1>1, <1>2, <1>3 DEF OnlyBoot
<1>5. DOMAIN cx'.bs = DOMAIN cx.bs
  BY <1>2 DEF Marked
<1>6. \A i \in DOMAIN cx'.bs : ~cx'.bs[i].dirty => ~cx.bs[i].dirty /\ i \notin Touched(cx, cx')
  BY <1>2 DEF Marked
<1>7. \A i \in DOMAIN cx'.bs : ~cx'.bs[i].dirty => i \in DOMAIN cx'.sec /\ cx'.sec[i].boot
  BY <1>1, <1>5, <1>6 DEF Touched
<1>8. ASSUME ~Open PROVE cx'.sec = cx.sec
  <2>1. \A i \in DOMAIN cx.bs : ~cx.bs[i].session
    BY <1>1, <1>8 DEF Inv, Sessions, Busy, PrevFollows, Interrupted
  <2> QED
    BY <2>1 DEF Edits, AccountsStay
<1> QED
  BY <1>1, <1>2, <1>4, <1>5, <1>7, <1>8 DEF OwnAccount, Open

\* Deleting all accounts leaves a client that can be bootstrapped: the account of a
\* bootstrap server that is listed and not marked is there, as long as no bootstrap is
\* interrupted. It holds if there is one instance of the Security Object, b, at which a
\* bootstrap server is ever configured.
THEOREM OwnAccountKept ==
  ASSUME NEW b, OnlyBoot(b, FirstSec), \A j \in Ids : MayBoot(j) => j = b
  PROVE  Spec => []BootstrapAccountKept
<1>1. Init => OwnAccount(b)
  <2> SUFFICES ASSUME Init PROVE OwnAccount(b)
    OBVIOUS
  <2>1. cx.prev = "INITIAL" /\ cx.sec = FirstSec /\ cx.bak.sec = FirstSec
    BY DEF Init
  <2>2. DOMAIN cx.bs = {}
    BY InitContext
  <2> QED
    BY <2>1, <2>2 DEF OwnAccount, Open
<1>2. Inv /\ OwnAccount(b) /\ [Next]_vars => OwnAccount(b)'
  <2> SUFFICES ASSUME Inv, OwnAccount(b), [Next]_vars PROVE OwnAccount(b)'
    OBVIOUS
  <2>1. Sent \/ Edits \/ Registered
    BY NextStep, SessionsBegun DEF Inv
  <2>2. CASE Registered
    BY <2>2 DEF Registered, AccountsStay, OwnAccount, Open
  <2> QED
    BY <2>1, <2>2, OwnAccountSent, OwnAccountEdits
<1>3. OwnAccount(b) => BootstrapAccountKept
  BY DEF OwnAccount, BootstrapAccountKept
<1> QED
  BY <1>1, <1>2, <1>3, InvCorrect, PTL DEF Spec
=============================================================================

---------------------------- MODULE ClientProofs ----------------------------
(***************************************************************************)
(* Theorems about module Client: types, the requests a waiting status has, *)
(* the accounts behind the server lists, giving up, and the registrations  *)
(* kept, for every set of accounts, commands, times and faults.            *)
(***************************************************************************)
EXTENDS Client, NaturalLemmas

USE ResourceAssumption, TimerAssumption, ExchangeAssumption, BoundAssumption

-----------------------------------------------------------------------------
(* Numbers that are not in use                                              *)

\* Among n + 1 numbers one is not among n.
LEMMA PigeonHole ==
    ASSUME NEW S, IsFiniteSet(S)
    PROVE  \E k \in 1 .. Cardinality(S) + 1 : k \notin S
<1> DEFINE n == Cardinality(S)
           I == 1 .. n + 1
<1>1. n \in Nat
  BY FS_CardinalityType
<1>2. IsFiniteSet(I) /\ Cardinality(I) = n + 1
  <2>1. 1 \in Int /\ n + 1 \in Int /\ 1 <= n + 1
    BY <1>1
  <2> HIDE DEF n
  <2> QED
    BY <2>1, FS_Interval, <1>1
<1>3. SUFFICES ASSUME I \subseteq S PROVE FALSE
  OBVIOUS
<1>4. Cardinality(I) <= Cardinality(S)
  BY <1>3, FS_Subset
<1> QED
  BY <1>1, <1>2, <1>4

LEMMA FreshIs ==
    ASSUME NEW S, IsFiniteSet(S)
    PROVE  Fresh(S) \in Nat \ {0} /\ Fresh(S) \notin S
<1>1. Cardinality(S) \in Nat
  BY FS_CardinalityType
<1>2. \E k \in 1 .. Cardinality(S) + 1 : k \notin S
  BY PigeonHole
<1>3. Fresh(S) \in 1 .. Cardinality(S) + 1 /\ Fresh(S) \notin S
  BY <1>2 DEF Fresh
<1> QED
  BY <1>1, <1>3

LEMMA NewIdIs ==
    ASSUME NEW S, IsFiniteSet(S)
    PROVE  lwm2m_list_newId(S) \notin S
<1> DEFINE T == {k \in Nat : k \notin S}
<1>0. Cardinality(S) \in Nat
  BY FS_CardinalityType
<1>1. T # {}
  <2>1. PICK k \in 1 .. Cardinality(S) + 1 : k \notin S
    BY PigeonHole
  <2> QED
    BY <1>0, <2>1
<1>2. PICK m \in T : \A k \in T : m <= k
  <2>1. T \in SUBSET Nat
    OBVIOUS
  <2> HIDE DEF T
  <2> QED BY <1>1, <2>1, NatMin
<1>3. 0 .. m - 1 \subseteq S
  BY <1>2
<1>4. m <= Cardinality(S)
  <2>1. CASE m = 0
    BY <1>0, <2>1
  <2>2. CASE m # 0
    <3>1. 0 \in Int /\ m - 1 \in Int /\ m \in Nat
      BY <1>2
    <3>2. IsFiniteSet(0 .. m - 1) /\ Cardinality(0 .. m - 1) = m
      BY <2>2, <3>1, FS_Interval
    <3>3. Cardinality(0 .. m - 1) <= Cardinality(S)
      BY <1>3, FS_Subset
    <3> QED
      BY <3>2, <3>3
  <2> QED
    BY <2>1, <2>2
<1>5. m \in 0 .. Cardinality(S) /\ m \notin S /\ 0 .. m - 1 \subseteq S
  BY <1>0, <1>2, <1>3, <1>4
<1> QED
  BY <1>5 DEF lwm2m_list_newId

LEMMA MinIs ==
    ASSUME NEW S \in SUBSET Nat, S # {}
    PROVE  Min(S) \in S /\ \A x \in S : Min(S) <= x
  BY NatMin DEF Min

LEMMA MaxOfTwo ==
    ASSUME NEW a \in Int, NEW b \in Int
    PROVE  Max({a, b}) = IF a >= b THEN a ELSE b
<1>1. \E x \in {a, b} : \A y \in {a, b} : x >= y
  OBVIOUS
<1>2. Max({a, b}) \in {a, b} /\ Max({a, b}) >= a /\ Max({a, b}) >= b
  BY <1>1 DEF Max
<1> QED
  BY <1>2

-----------------------------------------------------------------------------
(* The state of the client                                                  *)

EntryFields == {"node", "status", "registration", "lifetime", "shortID", "inst", "attempt",
                "sequence", "session", "location", "dirty", "uri", "dropped"}

\* An entry of serverList or of bootstrapServerList.
IsEntry(s) ==
    /\ DOMAIN s = EntryFields
    /\ s.registration \in Int /\ s.lifetime \in Nat /\ s.session \in Nat
    /\ s.attempt \in 0 .. 254 /\ s.sequence \in 0 .. 254
    /\ s.location \in BOOLEAN /\ s.dirty \in BOOLEAN
    /\ s.dropped \in {"none"} \cup GoesOn

\* What a status of serverList says of the other fields.
IsServer(s) ==
    /\ IsEntry(s) /\ s.status \in Statuses /\ s.lifetime <= MaxLife
    /\ Managed(s) => s.session # 0 /\ s.location
    /\ s.status = "REG_PENDING" => s.session # 0 /\ s.attempt >= 1
    /\ s.status = "DEREG_PENDING" => s.location
    /\ s.status = "REG_HOLD_OFF" => s.attempt <= 253 /\ (s.attempt = 0 => s.sequence <= 253)
    /\ s.status = "REGISTERED" => s.registration \in -Horizon .. 0

IsBsServer(s) == IsEntry(s) /\ s.status \in BsStatuses

IsTransaction(t) ==
    /\ t \in [n : {t.n}, kind : Kinds, id : {t.id}, node : {t.node}, session : {t.session},
              life : Nat, at : -Horizon .. 0, more : Int, freed : {t.freed},
              answer : {t.answer}]
    /\ t.kind = "register" => t.life <= MaxLife

IsRecord(c) ==
    c \in [state : {c.state}, sec : {c.sec}, serverObj : {c.serverObj}, servers : {c.servers},
           bs : {c.bs}, trans : {c.trans}, torn : {c.torn}]

IsContext(c) ==
    /\ IsRecord(c)
    /\ c.state \in States
    /\ AreAccounts(c.sec, c.serverObj)
    /\ IsObject(c.servers) /\ \A i \in DOMAIN c.servers : IsServer(c.servers[i])
    /\ IsObject(c.bs) /\ \A i \in DOMAIN c.bs : IsBsServer(c.bs[i])
    /\ DOMAIN c.servers \cap DOMAIN c.bs = {}
    /\ IsFiniteSet(c.trans) /\ \A t \in c.trans : IsTransaction(t)

\* The fields of a context with another value for one of them.
LEMMA RecordServers ==
    ASSUME NEW c, IsRecord(c), NEW f
    PROVE  LET d == [c EXCEPT !.servers = f]
           IN  IsRecord(d) /\ d.servers = f /\ d.state = c.state /\ d.sec = c.sec
               /\ d.serverObj = c.serverObj /\ d.bs = c.bs /\ d.trans = c.trans /\ d.torn = c.torn
  BY DEF IsRecord

LEMMA RecordBs ==
    ASSUME NEW c, IsRecord(c), NEW f
    PROVE  LET d == [c EXCEPT !.bs = f]
           IN  IsRecord(d) /\ d.bs = f /\ d.state = c.state /\ d.sec = c.sec
               /\ d.serverObj = c.serverObj /\ d.servers = c.servers /\ d.trans = c.trans
               /\ d.torn = c.torn
  BY DEF IsRecord

LEMMA RecordState ==
    ASSUME NEW c, IsRecord(c), NEW st
    PROVE  LET d == [c EXCEPT !.state = st]
           IN  IsRecord(d) /\ d.state = st /\ d.bs = c.bs /\ d.sec = c.sec
               /\ d.serverObj = c.serverObj /\ d.servers = c.servers /\ d.trans = c.trans
               /\ d.torn = c.torn
  BY DEF IsRecord

LEMMA ServerFieldsAre ==
    Range(ServerFields) = {"shortID", "lifetime", "binding", "order", "delay", "blocking",
                  "bootstrap", "attempts", "attemptDelay", "sequenceDelay", "sequences"}
  BY DEF Range, ServerFields

LEMMA SecurityFieldsAre ==
    Range(SecurityFields) = {"uri", "bootstrap", "shortID", "holdOff"}
  BY DEF Range, SecurityFields

\* A resource of the Server object can be read, or it is not there.
LEMMA ResourceIs ==
    ASSUME NEW c, IsContext(c), NEW i \in DOMAIN c.servers, NEW r \in Range(ServerFields)
    PROVE  Resource(c, i, r) = Absent \/ IsValue(r, Resource(c, i, r))
  BY DEF Resource, IsContext, AreAccounts, IsServerInstance

LEMMA NumberIs ==
    ASSUME NEW c, IsContext(c), NEW i \in DOMAIN c.servers,
           NEW r \in {"order", "delay", "attempts", "attemptDelay", "sequenceDelay", "sequences"},
           NEW v \in Nat
    PROVE  /\ Resource(c, i, r) # Bad
           /\ Default(Resource(c, i, r), v) \in Nat
  BY ResourceIs, ServerFieldsAre DEF IsValue, Default

-----------------------------------------------------------------------------
(* Entries                                                                  *)

\* e is entry s but for the fields F.
Differs(s, e, F) == DOMAIN e = EntryFields /\ \A f \in EntryFields \ F : e[f] = s[f]

LEMMA StatusIs ==
    ASSUME NEW s, IsEntry(s), NEW st
    PROVE  LET e == [s EXCEPT !.status = st]
           IN  IsEntry(e) /\ Differs(s, e, {"status"}) /\ e.status = st
<1> DEFINE e == [s EXCEPT !.status = st]
<1>1. Differs(s, e, {"status"}) /\ e.status = st
  BY DEF Differs, IsEntry, EntryFields
<1> HIDE DEF e
<1>2. IsEntry(e)
  BY <1>1 DEF Differs, IsEntry, EntryFields
<1> QED
  BY <1>1, <1>2 DEF e

LEMMA StartedIs ==
    ASSUME NEW c, IsContext(c), NEW i \in DOMAIN c.servers
    PROVE  LET s == prv_startRegistration(c, i, now)
           IN  /\ IsServer(s) /\ s.status = "REG_HOLD_OFF"
               /\ Differs(c.servers[i], s, {"attempt", "sequence", "status", "registration"})
<1> DEFINE s == c.servers[i]
           e == prv_startRegistration(c, i, now)
           n == Default(Resource(c, i, "delay"), 0)
<1>1. IsServer(s) /\ IsEntry(s)
  BY DEF IsContext, IsServer
<1>2. n \in Nat
  BY NumberIs
<1>3. /\ Differs(s, e, {"attempt", "sequence", "status", "registration"})
      /\ e.attempt = 0 /\ e.sequence = 0 /\ e.status = "REG_HOLD_OFF" /\ e.registration = now + n
  <2> HIDE DEF n
  <2> QED
    BY <1>1 DEF prv_startRegistration, Differs, IsEntry, EntryFields, n
<1>4. now + n \in Int
  BY <1>2 DEF now
<1> HIDE DEF s, e, n
<1>5. IsEntry(e)
  BY <1>1, <1>3, <1>4 DEF Differs, IsEntry, EntryFields
<1>6. IsServer(e)
  BY <1>1, <1>3, <1>5 DEF Differs, EntryFields, IsServer, Statuses, Managed
<1> QED
  BY <1>3, <1>6 DEF s, e

\* The counters of an entry that is not in use begin again.
LEMMA ResetIs ==
    ASSUME NEW s, IsServer(s), s.status \in {"DEREGISTERED", "REG_FAILED"}
    PROVE  LET e == [s EXCEPT !.attempt = 0, !.sequence = 0]
           IN  IsServer(e) /\ Differs(s, e, {"attempt", "sequence"})
<1> DEFINE e == [s EXCEPT !.attempt = 0, !.sequence = 0]
<1>1. IsEntry(s)
  BY DEF IsServer
<1>2. Differs(s, e, {"attempt", "sequence"}) /\ e.attempt = 0 /\ e.sequence = 0
  BY <1>1 DEF Differs, IsEntry, EntryFields
<1> HIDE DEF e
<1>3. IsEntry(e)
  BY <1>1, <1>2 DEF Differs, IsEntry, EntryFields
<1>4. IsServer(e)
  BY <1>2, <1>3 DEF Differs, EntryFields, IsServer, Statuses, Managed
<1> QED
  BY <1>2, <1>4 DEF e

-----------------------------------------------------------------------------
(* Contexts, and what a call may change in them                             *)

LEMMA ServersIs ==
    ASSUME NEW c, IsContext(c), NEW f, IsObject(f), \A i \in DOMAIN f : IsServer(f[i]),
           DOMAIN f \cap DOMAIN c.bs = {}
    PROVE  IsContext([c EXCEPT !.servers = f])
  BY RecordServers DEF IsContext

LEMMA BsIs ==
    ASSUME NEW c, IsContext(c), NEW f, IsObject(f), \A i \in DOMAIN f : IsBsServer(f[i]),
           DOMAIN c.servers \cap DOMAIN f = {}
    PROVE  IsContext([c EXCEPT !.bs = f])
  BY RecordBs DEF IsContext

LEMMA StateIs ==
    ASSUME NEW c, IsContext(c), NEW st \in States
    PROVE  IsContext([c EXCEPT !.state = st])
  BY RecordState DEF IsContext

\* The accounts are as they were.
SameAccounts(c, d) == d.sec = c.sec /\ d.serverObj = c.serverObj /\ d.torn = c.torn

\* And so are the entries, but for how far they got.
SameList(f, g) ==
    /\ DOMAIN g = DOMAIN f
    /\ \A i \in DOMAIN f : g[i].node = f[i].node /\ g[i].uri = f[i].uri /\ g[i].dirty = f[i].dirty

SameEntries(c, d) ==
    SameAccounts(c, d) /\ SameList(c.servers, d.servers) /\ SameList(c.bs, d.bs)

\* No entry becomes registered.
NoneRegistered(c, d) ==
    \A i \in DOMAIN d.servers : d.servers[i].status = "REGISTERED" =>
        /\ i \in DOMAIN c.servers /\ c.servers[i].status = "REGISTERED"
        /\ d.servers[i].registration = c.servers[i].registration
        /\ d.servers[i].lifetime = c.servers[i].lifetime

\* Transactions are new or the ones there were.
AddsOnly(c, d) ==
    c.trans \subseteq d.trans /\ \A t \in d.trans \ c.trans : t.at = now /\ t.answer = "none"

Quiet(c, d) == SameEntries(c, d) /\ NoneRegistered(c, d) /\ AddsOnly(c, d)

LEMMA QuietTwice ==
    ASSUME NEW c, NEW d, NEW e, Quiet(c, d), Quiet(d, e)
    PROVE  Quiet(c, e)
<1>1. SameEntries(c, e)
  BY DEF Quiet, SameEntries, SameAccounts, SameList
<1>2. NoneRegistered(c, e)
  BY DEF Quiet, NoneRegistered
<1>3. AddsOnly(c, e)
  BY DEF Quiet, AddsOnly
<1> QED
  BY <1>1, <1>2, <1>3 DEF Quiet

-----------------------------------------------------------------------------
(* Registrations: starting them                                             *)

\* Entry e is s, or s was idle and e is idle or held off.
StartedFrom(s, e) ==
    e = s \/ /\ s.status \in {"DEREGISTERED", "REG_FAILED"}
             /\ e.status \in {s.status, "REG_HOLD_OFF"}
             /\ Differs(s, e, {"attempt", "sequence", "status", "registration"})

LEMMA StartIs ==
    ASSUME NEW c, IsContext(c), NEW restart \in BOOLEAN
    PROVE  LET r == registration_start(c, restart, now)
               f == r.ctx.servers
           IN  /\ IsContext(r.ctx) /\ r.ok /\ SameAccounts(c, r.ctx)
               /\ r.ctx.bs = c.bs /\ r.ctx.trans = c.trans /\ r.ctx.state = c.state
               /\ DOMAIN f = DOMAIN c.servers
               /\ \A i \in DOMAIN c.servers : IsServer(f[i]) /\ StartedFrom(c.servers[i], f[i])
<1> DEFINE S == Startable(c, restart)
           visited == {i \in S : \A j \in S : j < i => ~ReadFails(c, j)}
           first == FirstOrdered(c, visited)
           started == {i \in visited \ {j \in visited : Ordered(c, j)} : ~ReadFails(c, i)}
                      \cup {i \in first : Resource(c, i, "delay") # Bad}
           g == [i \in DOMAIN c.servers |->
                   IF i \in started THEN prv_startRegistration(c, i, now)
                   ELSE IF i \in visited
                        THEN [c.servers[i] EXCEPT !.attempt = 0, !.sequence = 0]
                        ELSE c.servers[i]]
           r == registration_start(c, restart, now)
<1>1. r.ctx = [c EXCEPT !.servers = g]
      /\ r.ok = (IF first # {} THEN first \subseteq started ELSE \A i \in S : ~ReadFails(c, i))
  BY DEF registration_start
<1>2. \A i \in S : i \in DOMAIN c.servers /\ c.servers[i].status \in {"DEREGISTERED", "REG_FAILED"}
  BY DEF Startable
<1>3. visited \subseteq S /\ first \subseteq visited /\ started \subseteq visited
  BY DEF FirstOrdered
<1>4. \A i \in S : ~ReadFails(c, i) /\ Resource(c, i, "delay") # Bad
  BY <1>2, NumberIs DEF ReadFails, prv_getRegistrationOrder
<1>5. r.ok
  <2>1. first \subseteq started
    BY <1>3, <1>4
  <2> QED
    BY <1>1, <1>4, <2>1
<1>6. ASSUME NEW i \in DOMAIN c.servers
      PROVE  IsServer(g[i]) /\ StartedFrom(c.servers[i], g[i])
  <2>0. IsServer(c.servers[i])
    BY DEF IsContext
  <2>1. CASE i \in started
    <3>1. g[i] = prv_startRegistration(c, i, now)
      BY <2>1
    <3> QED
      BY <1>2, <1>3, <2>1, <3>1, StartedIs DEF StartedFrom
  <2>2. CASE i \in visited \ started
    <3>1. g[i] = [c.servers[i] EXCEPT !.attempt = 0, !.sequence = 0]
      BY <2>2
    <3>2. c.servers[i].status \in {"DEREGISTERED", "REG_FAILED"}
      BY <1>2, <1>3, <2>2
    <3> HIDE DEF g
    <3>3. IsServer(g[i]) /\ Differs(c.servers[i], g[i], {"attempt", "sequence"})
      BY ZenonT(60), <2>0, <3>1, <3>2, ResetIs
    <3>4. g[i].status = c.servers[i].status
      BY <3>3 DEF Differs, EntryFields
    <3>5. Differs(c.servers[i], g[i], {"attempt", "sequence", "status", "registration"})
      BY <3>3 DEF Differs
    <3> QED
      BY <3>2, <3>3, <3>4, <3>5 DEF StartedFrom
  <2>3. CASE i \notin visited
    <3>1. g[i] = c.servers[i]
      BY <1>3, <2>3
    <3> QED
      BY <2>0, <3>1 DEF StartedFrom
  <2> QED
    BY <2>1, <2>2, <2>3
<1>7. DOMAIN g = DOMAIN c.servers /\ IsObject(g) /\ DOMAIN g \cap DOMAIN c.bs = {}
  BY DEF IsObject, IsContext
<1> HIDE DEF g, r
<1>8. /\ r.ctx.servers = g /\ SameAccounts(c, r.ctx)
      /\ r.ctx.bs = c.bs /\ r.ctx.trans = c.trans /\ r.ctx.state = c.state
  <2>1. IsRecord(c)
    BY DEF IsContext
  <2> QED
    BY <1>1, <2>1, RecordServers DEF SameAccounts
<1>9. IsContext(r.ctx)
  BY <1>1, <1>6, <1>7, ServersIs
<1> QED
  BY <1>5, <1>6, <1>7, <1>8, <1>9 DEF r

-----------------------------------------------------------------------------
(* Transactions                                                             *)

LEMMA RangeFinite ==
    ASSUME NEW S, IsFiniteSet(S), NEW f, f = [x \in S |-> f[x]]
    PROVE  IsFiniteSet(Range(f))
<1>1. f \in Surjection(S, Range(f))
  <2>1. DOMAIN f = S
    OBVIOUS
  <2>2. f \in [S -> Range(f)]
    BY <2>1 DEF Range
  <2>3. \A y \in Range(f) : \E x \in S : f[x] = y
    BY <2>1 DEF Range
  <2> QED
    BY <2>2, <2>3 DEF Surjection
<1> QED
  BY <1>1, FS_Surjection

LEMMA NewSessionIs ==
    ASSUME NEW c, IsContext(c), NEW i
    PROVE  NewSession(c, i) \in Nat \ {0}
<1> DEFINE S == {u \in c.trans : u.id = i}
           f == [t \in S |-> t.session]
<1>1. IsFiniteSet(S)
  <2>1. IsFiniteSet(c.trans) /\ S \in SUBSET c.trans
    BY DEF IsContext
  <2> QED
    BY <2>1, FS_Subset
<1>2. Range(f) = {t.session : t \in S}
  BY DEF Range
<1>3. f = [t \in S |-> f[t]]
  OBVIOUS
<1> HIDE DEF f, S
<1>4. IsFiniteSet({t.session : t \in S})
  BY <1>1, <1>2, <1>3, RangeFinite
<1> QED
  BY <1>4, FreshIs DEF NewSession, S

\* The result of a server's step: an entry and the kinds of its messages.
IsStep(r) ==
    /\ IsEntry(r.server) /\ r.trans \subseteq Kinds /\ IsFiniteSet(r.trans)
    /\ "register" \in r.trans => r.server.lifetime <= MaxLife

LEMMA NewTransactionIs ==
    ASSUME NEW c, NEW k \in Kinds, NEW i, NEW s, IsEntry(s), k = "register" => s.lifetime <= MaxLife
    PROVE  LET t == NewTransaction(c, k, i, s, now)
           IN  /\ IsTransaction(t) /\ t.kind = k /\ t.id = i /\ t.node = s.node
               /\ t.session = s.session /\ t.at = now /\ t.answer = "none"
  BY DEF NewTransaction, IsTransaction, IsEntry, EntryFields, now

LEMMA NewTransactionsAre ==
    ASSUME NEW c, NEW steps, IsObject(steps), \A i \in DOMAIN steps : IsStep(steps[i])
    PROVE  /\ IsFiniteSet(NewTransactions(c, steps, now))
           /\ \A t \in NewTransactions(c, steps, now) :
                IsTransaction(t) /\ t.at = now /\ t.answer = "none"
           /\ \A i \in DOMAIN steps : \A k \in steps[i].trans :
                \E t \in NewTransactions(c, steps, now) :
                    /\ t.kind = k /\ t.id = i /\ t.node = steps[i].server.node
                    /\ t.session = steps[i].server.session
<1> DEFINE N(k, i) == NewTransaction(c, k, i, steps[i].server, now)
           T(i) == {N(k, i) : k \in steps[i].trans}
           g == [i \in DOMAIN steps |-> T(i)]
           new == NewTransactions(c, steps, now)
<1>1. new = UNION {T(i) : i \in DOMAIN steps}
  BY DEF NewTransactions
<1>2. ASSUME NEW i \in DOMAIN steps, NEW k \in steps[i].trans
      PROVE  /\ IsTransaction(N(k, i)) /\ N(k, i).kind = k /\ N(k, i).id = i
             /\ N(k, i).node = steps[i].server.node /\ N(k, i).session = steps[i].server.session
             /\ N(k, i).at = now /\ N(k, i).answer = "none"
  <2>1. /\ k \in Kinds /\ IsEntry(steps[i].server)
        /\ k = "register" => steps[i].server.lifetime <= MaxLife
    BY DEF IsStep
  <2> QED
    BY <2>1, NewTransactionIs
<1> HIDE DEF N
<1>3. ASSUME NEW i \in DOMAIN steps
      PROVE  IsFiniteSet(T(i))
  <2> DEFINE h == [k \in steps[i].trans |-> N(k, i)]
  <2>1. Range(h) = T(i) /\ h = [k \in steps[i].trans |-> h[k]]
    BY DEF Range
  <2>2. IsFiniteSet(steps[i].trans)
    BY DEF IsStep
  <2> HIDE DEF h
  <2> QED
    BY <2>1, <2>2, RangeFinite
<1> HIDE DEF T
<1>4. IsFiniteSet(UNION {T(i) : i \in DOMAIN steps})
  <2>1. Range(g) = {T(i) : i \in DOMAIN steps} /\ g = [i \in DOMAIN steps |-> g[i]]
    BY DEF Range
  <2>2. IsFiniteSet(DOMAIN steps)
    BY DEF IsObject
  <2> HIDE DEF g
  <2>3. IsFiniteSet({T(i) : i \in DOMAIN steps})
    BY <2>1, <2>2, RangeFinite
  <2> QED
    BY <1>3, <2>3, FS_UNION
<1>5. \A t \in new : \E i \in DOMAIN steps : \E k \in steps[i].trans : t = N(k, i)
  BY <1>1 DEF T
<1>6. \A i \in DOMAIN steps : \A k \in steps[i].trans : N(k, i) \in new
  BY <1>1 DEF T
<1> QED
  BY <1>1, <1>2, <1>4, <1>5, <1>6

-----------------------------------------------------------------------------
(* Waiting for an answer                                                    *)

\* The requests whose answer ends a status.
WaitsFor(st) ==
    CASE st = "REG_PENDING"        -> {"register"}
      [] st = "REG_UPDATE_PENDING" -> {"update", "fullUpdate"}
      [] st = "DEREG_PENDING"      -> {"deregister"}
      [] st = "BS_INITIATED"       -> {"bootstrap"}
      [] OTHER                     -> {}

Waiting == {"REG_PENDING", "REG_UPDATE_PENDING", "DEREG_PENDING", "BS_INITIATED"}

\* The last request for this status was answered, and nothing sent after the answer.
WaitsInVain(s) == s.status \in {"REG_PENDING", "REG_UPDATE_PENDING"} /\ s.dropped \in GoesOn

\* A transaction that ends the status of entry s, number i.
Awaited(T, s, i) ==
    \/ WaitsInVain(s)
    \/ \E t \in T : /\ t.kind \in WaitsFor(s.status) /\ t.id = i
                    /\ t.node = s.node /\ t.session = s.session

ListAwaits(T, f) == \A i \in DOMAIN f : f[i].status \in Waiting => Awaited(T, f[i], i)

Good(c) == IsContext(c) /\ ListAwaits(c.trans, c.servers) /\ ListAwaits(c.trans, c.bs)

LEMMA AwaitsMore ==
    ASSUME NEW T, NEW U, T \subseteq U, NEW f, ListAwaits(T, f)
    PROVE  ListAwaits(U, f)
  BY DEF ListAwaits, Awaited

\* g waits for no more than f.
LEMMA AwaitsLess ==
    ASSUME NEW T, NEW f, ListAwaits(T, f), NEW g,
           \A i \in DOMAIN g : g[i].status \in Waiting =>
                /\ i \in DOMAIN f /\ g[i].status = f[i].status
                /\ g[i].node = f[i].node /\ g[i].session = f[i].session
                /\ g[i].dropped = f[i].dropped
    PROVE  ListAwaits(T, g)
<1> SUFFICES ASSUME NEW i \in DOMAIN g, g[i].status \in Waiting
             PROVE  Awaited(T, g[i], i)
  BY DEF ListAwaits
<1>1. /\ i \in DOMAIN f /\ g[i].status = f[i].status
      /\ g[i].node = f[i].node /\ g[i].session = f[i].session
      /\ g[i].dropped = f[i].dropped
  OBVIOUS
<1>2. Awaited(T, f[i], i)
  BY <1>1 DEF ListAwaits
<1> QED
  BY <1>1, <1>2 DEF Awaited, WaitsInVain

\* The step of a server whose entry was s.
StepOf(s, r) ==
    /\ IsStep(r) /\ Differs(s, r.server, {"status", "session", "attempt", "sequence", "registration",
                                              "dropped"})
    /\ r.server.status \in Waiting =>
         \/ /\ s.status = r.server.status /\ s.session = r.server.session
            /\ s.dropped = r.server.dropped
         \/ r.trans \cap WaitsFor(r.server.status) # {}

\* The steps of the entries of a list.
LEMMA StepsAwait ==
    ASSUME NEW c, IsContext(c), NEW f, IsObject(f), ListAwaits(c.trans, f),
           NEW steps, IsObject(steps), DOMAIN steps = DOMAIN f,
           \A i \in DOMAIN f : StepOf(f[i], steps[i])
    PROVE  LET T == c.trans \cup NewTransactions(c, steps, now)
               g == [i \in DOMAIN steps |-> steps[i].server]
           IN  /\ IsFiniteSet(T) /\ \A t \in T : IsTransaction(t)
               /\ c.trans \subseteq T
               /\ \A t \in T \ c.trans : t.at = now /\ t.answer = "none"
               /\ ListAwaits(T, g) /\ SameList(f, g) /\ IsObject(g)
<1> DEFINE N == NewTransactions(c, steps, now)
           T == c.trans \cup N
           g == [i \in DOMAIN steps |-> steps[i].server]
<1>1. \A i \in DOMAIN steps : IsStep(steps[i])
  BY DEF StepOf
<1>2. /\ IsFiniteSet(N)
      /\ \A t \in N : IsTransaction(t) /\ t.at = now /\ t.answer = "none"
      /\ \A i \in DOMAIN steps : \A k \in steps[i].trans :
           \E t \in N : /\ t.kind = k /\ t.id = i /\ t.node = steps[i].server.node
                        /\ t.session = steps[i].server.session
  BY <1>1, NewTransactionsAre
<1> HIDE DEF N
<1>3. IsFiniteSet(T) /\ \A t \in T : IsTransaction(t)
  <2>1. IsFiniteSet(c.trans) /\ \A t \in c.trans : IsTransaction(t)
    BY DEF IsContext
  <2> QED
    BY <1>2, <2>1, FS_Union
<1>4. SameList(f, g)
  BY DEF SameList, StepOf, Differs, EntryFields
<1>5. IsObject(g)
  BY DEF IsObject
<1>6. ASSUME NEW i \in DOMAIN steps, steps[i].server.status \in Waiting
      PROVE  Awaited(T, steps[i].server, i)
  <2> DEFINE s == steps[i].server
  <2>1. s.node = f[i].node
    BY DEF StepOf, Differs, EntryFields
  <2>2. CASE f[i].status = s.status /\ f[i].session = s.session /\ f[i].dropped = s.dropped
    <3>1. Awaited(c.trans, f[i], i)
      BY <1>6, <2>2 DEF ListAwaits
    <3> QED
      BY <2>1, <2>2, <3>1 DEF Awaited, WaitsInVain
  <2>3. CASE steps[i].trans \cap WaitsFor(s.status) # {}
    BY <1>2, <2>3 DEF Awaited
  <2> QED
    BY <1>6, <2>2, <2>3 DEF StepOf
<1>7. ListAwaits(T, g)
  BY <1>6 DEF ListAwaits
<1> QED
  BY <1>2, <1>3, <1>4, <1>5, <1>7 DEF N

LEMMA RecordTrans ==
    ASSUME NEW c, IsRecord(c), NEW T
    PROVE  LET d == [c EXCEPT !.trans = T]
           IN  IsRecord(d) /\ d.trans = T /\ d.state = c.state /\ d.bs = c.bs /\ d.sec = c.sec
               /\ d.serverObj = c.serverObj /\ d.servers = c.servers /\ d.torn = c.torn
  BY DEF IsRecord

\* The steps of the servers of a context.
AreSteps(c, steps) ==
    /\ IsObject(steps) /\ DOMAIN steps = DOMAIN c.servers
    /\ \A i \in DOMAIN c.servers :
         /\ StepOf(c.servers[i], steps[i]) /\ IsServer(steps[i].server)
         /\ steps[i].server.status = "REGISTERED" =>
              /\ c.servers[i].status = "REGISTERED"
              /\ steps[i].server.registration = c.servers[i].registration

AreBsSteps(c, steps) ==
    /\ IsObject(steps) /\ DOMAIN steps = DOMAIN c.bs
    /\ \A i \in DOMAIN c.bs : StepOf(c.bs[i], steps[i]) /\ steps[i].server.status \in BsStatuses

LEMMA AfterStepsIs ==
    ASSUME NEW c, Good(c), NEW steps, AreSteps(c, steps)
    PROVE  LET d == AfterSteps(c, steps, now)
           IN  Good(d) /\ Quiet(c, d) /\ d.bs = c.bs /\ d.state = c.state
<1> DEFINE T == c.trans \cup NewTransactions(c, steps, now)
           g == [i \in DOMAIN steps |-> steps[i].server]
           d == AfterSteps(c, steps, now)
<1>0. /\ IsObject(steps) /\ DOMAIN steps = DOMAIN c.servers
      /\ IsRecord(c) /\ IsContext(c) /\ IsObject(c.servers)
      /\ ListAwaits(c.trans, c.servers) /\ ListAwaits(c.trans, c.bs)
  BY DEF Good, IsContext, AreSteps
<1>1. /\ IsFiniteSet(T) /\ \A t \in T : IsTransaction(t)
      /\ c.trans \subseteq T
      /\ \A t \in T \ c.trans : t.at = now /\ t.answer = "none"
      /\ ListAwaits(T, g) /\ SameList(c.servers, g) /\ IsObject(g)
  BY <1>0, StepsAwait DEF AreSteps
<1>2. d = [c EXCEPT !.servers = g, !.trans = T]
  BY DEF AfterSteps
<1>3. /\ DOMAIN g = DOMAIN c.servers
      /\ \A i \in DOMAIN g : /\ IsServer(g[i])
                             /\ g[i].status = "REGISTERED" =>
                                  /\ c.servers[i].status = "REGISTERED"
                                  /\ g[i].registration = c.servers[i].registration
                                  /\ g[i].lifetime = c.servers[i].lifetime
  BY DEF StepOf, Differs, EntryFields, AreSteps
<1> HIDE DEF d, g, T
<1>5. /\ IsRecord(d) /\ d.servers = g /\ d.trans = T /\ d.state = c.state /\ d.bs = c.bs
      /\ d.sec = c.sec /\ d.serverObj = c.serverObj /\ d.torn = c.torn
  BY <1>0, <1>2 DEF IsRecord
<1>6. IsContext(d)
  BY <1>0, <1>1, <1>3, <1>5 DEF IsContext
<1>7. ListAwaits(T, c.bs)
  BY <1>0, <1>1, AwaitsMore
<1>8. Good(d)
  BY <1>1, <1>5, <1>6, <1>7 DEF Good
<1>9. Quiet(c, d)
  <2>1. SameEntries(c, d)
    BY <1>1, <1>5 DEF SameEntries, SameAccounts, SameList
  <2>2. NoneRegistered(c, d)
    BY <1>3, <1>5 DEF NoneRegistered
  <2>3. AddsOnly(c, d)
    BY <1>1, <1>5 DEF AddsOnly
  <2> QED
    BY <2>1, <2>2, <2>3 DEF Quiet
<1> QED
  BY <1>5, <1>8, <1>9 DEF d

LEMMA AfterBsStepsIs ==
    ASSUME NEW c, Good(c), NEW steps, AreBsSteps(c, steps)
    PROVE  LET d == AfterBsSteps(c, steps, now)
           IN  Good(d) /\ Quiet(c, d) /\ d.servers = c.servers /\ d.state = c.state
<1> DEFINE T == c.trans \cup NewTransactions(c, steps, now)
           g == [i \in DOMAIN steps |-> steps[i].server]
           d == AfterBsSteps(c, steps, now)
<1>0. /\ IsObject(steps) /\ DOMAIN steps = DOMAIN c.bs
      /\ IsRecord(c) /\ IsContext(c) /\ IsObject(c.bs)
      /\ ListAwaits(c.trans, c.servers) /\ ListAwaits(c.trans, c.bs)
  BY DEF Good, IsContext, AreBsSteps
<1>1. /\ IsFiniteSet(T) /\ \A t \in T : IsTransaction(t)
      /\ c.trans \subseteq T
      /\ \A t \in T \ c.trans : t.at = now /\ t.answer = "none"
      /\ ListAwaits(T, g) /\ SameList(c.bs, g) /\ IsObject(g)
  BY <1>0, StepsAwait DEF AreBsSteps
<1>2. d = [c EXCEPT !.bs = g, !.trans = T]
  BY DEF AfterBsSteps
<1>3. /\ DOMAIN g = DOMAIN c.bs
      /\ \A i \in DOMAIN g : IsBsServer(g[i])
  BY DEF StepOf, IsStep, IsBsServer, AreBsSteps
<1> HIDE DEF d, g, T
<1>5. /\ IsRecord(d) /\ d.bs = g /\ d.trans = T /\ d.state = c.state /\ d.servers = c.servers
      /\ d.sec = c.sec /\ d.serverObj = c.serverObj /\ d.torn = c.torn
  BY <1>0, <1>2 DEF IsRecord
<1>6. IsContext(d)
  BY <1>0, <1>1, <1>3, <1>5 DEF IsContext
<1>7. ListAwaits(T, c.servers)
  BY <1>0, <1>1, AwaitsMore
<1>8. Good(d)
  BY <1>1, <1>5, <1>6, <1>7 DEF Good
<1>9. Quiet(c, d)
  <2>1. SameEntries(c, d)
    BY <1>1, <1>5 DEF SameEntries, SameAccounts, SameList
  <2>2. NoneRegistered(c, d)
    BY <1>3, <1>5 DEF NoneRegistered
  <2>3. AddsOnly(c, d)
    BY <1>1, <1>5 DEF AddsOnly
  <2> QED
    BY <2>1, <2>2, <2>3 DEF Quiet
<1> QED
  BY <1>5, <1>8, <1>9 DEF d

-----------------------------------------------------------------------------
(* The steps of the servers                                                 *)

\* An entry that stays as it is sends nothing.
LEMMA SameStep ==
    ASSUME NEW s, IsEntry(s)
    PROVE  StepOf(s, [server |-> s, trans |-> {}])
  BY FS_EmptySet DEF StepOf, IsStep, Differs, IsEntry

LEMMA OpenIs ==
    ASSUME NEW c, IsContext(c), NEW i, NEW s, IsEntry(s)
    PROVE  LET e == IF s.session # 0 THEN s ELSE [s EXCEPT !.session = NewSession(c, i)]
           IN  IsEntry(e) /\ Differs(s, e, {"session"}) /\ e.session # 0
<1> DEFINE e == IF s.session # 0 THEN s ELSE [s EXCEPT !.session = NewSession(c, i)]
<1>1. NewSession(c, i) \in Nat \ {0}
  BY NewSessionIs
<1>2. Differs(s, e, {"session"}) /\ e.session \in Nat \ {0}
  BY <1>1 DEF Differs, IsEntry, EntryFields
<1> HIDE DEF e
<1>3. IsEntry(e)
  BY <1>2 DEF Differs, IsEntry, EntryFields
<1> QED
  BY <1>2, <1>3 DEF e

LEMMA RegisterIs ==
    ASSUME NEW c, IsContext(c), NEW i \in DOMAIN c.servers, NEW fate,
           c.servers[i].status = "REG_HOLD_OFF"
    PROVE  LET r == prv_register(c, i, fate)
           IN  /\ StepOf(c.servers[i], r) /\ IsServer(r.server)
               /\ r.server.status \in {"REG_HOLD_OFF", "REG_PENDING"}
<1> DEFINE s == c.servers[i]
           o == IF s.session # 0 THEN s ELSE [s EXCEPT !.session = NewSession(c, i)]
           e == [o EXCEPT !.sequence = IF s.attempt = 0 THEN @ + 1 ELSE @,
                          !.attempt = @ + 1, !.status = "REG_PENDING", !.dropped = "none"]
           r == prv_register(c, i, fate)
<1>1. IsServer(s) /\ IsEntry(s)
  BY DEF IsContext, IsServer
<1>2. IsEntry(o) /\ Differs(s, o, {"session"}) /\ o.session # 0
  BY <1>1, OpenIs
<1>3. \/ r = [server |-> s, trans |-> {}]
      \/ r = [server |-> o, trans |-> {}]
      \/ r = [server |-> e, trans |-> {"register"}]
  BY DEF prv_register
<1> HIDE DEF r
<1>4. CASE r = [server |-> s, trans |-> {}]
  BY <1>1, <1>4, SameStep DEF r
<1>5. CASE r = [server |-> o, trans |-> {}]
  <2>0. s.status = "REG_HOLD_OFF"
    OBVIOUS
  <2> HIDE DEF o, s
  <2>1. IsServer(o) /\ o.status = "REG_HOLD_OFF"
    BY <1>1, <1>2, <2>0 DEF IsServer, Differs, EntryFields, Managed
  <2>2. r.server = o /\ r.trans = {}
    BY <1>5
  <2>3. StepOf(s, r)
    BY <1>2, <2>1, <2>2, FS_EmptySet DEF StepOf, IsStep, Differs, Waiting
  <2> QED
    BY <2>1, <2>2, <2>3 DEF s, r
<1>6. CASE r = [server |-> e, trans |-> {"register"}]
  <2>0. s.status = "REG_HOLD_OFF"
    OBVIOUS
  <2> HIDE DEF o, s
  <2>1. /\ o.attempt = s.attempt /\ o.sequence = s.sequence /\ o.attempt <= 253
        /\ s.attempt = 0 => o.sequence <= 253
    BY <1>1, <1>2, <2>0 DEF IsServer, Differs, EntryFields
  <2>2. /\ Differs(o, e, {"sequence", "attempt", "status", "dropped"}) /\ e.status = "REG_PENDING"
        /\ e.attempt = o.attempt + 1 /\ e.dropped = "none"
        /\ e.sequence = IF s.attempt = 0 THEN o.sequence + 1 ELSE o.sequence
    BY <1>2 DEF Differs, IsEntry, EntryFields
  <2> HIDE DEF e
  <2>3. IsEntry(e) /\ e.attempt >= 1 /\ e.session # 0
    BY <1>2, <2>1, <2>2 DEF IsEntry, Differs, EntryFields
  <2>4. e.lifetime = s.lifetime /\ s.lifetime <= MaxLife
    BY <1>1, <1>2, <2>2 DEF Differs, EntryFields, IsServer
  <2>5. IsServer(e)
    BY <2>2, <2>3, <2>4 DEF IsServer, Statuses, Managed
  <2>6. Differs(s, e, {"status", "session", "attempt", "sequence", "registration", "dropped"})
    BY <1>2, <2>2 DEF Differs
  <2>7. r.server = e /\ r.trans = {"register"}
    BY <1>6
  <2>8. IsStep(r)
    <3>1. IsFiniteSet({"register"}) /\ "register" \in Kinds
      BY FS_Singleton DEF Kinds
    <3> QED
      BY <2>3, <2>4, <2>7, <3>1 DEF IsStep
  <2>9. StepOf(s, r)
    BY <2>2, <2>6, <2>7, <2>8 DEF StepOf, WaitsFor
  <2> QED
    BY <2>2, <2>5, <2>7, <2>9 DEF s, r
<1> QED
  BY <1>3, <1>4, <1>5, <1>6

\* A status that sends one message, on the session there is.
LEMMA StatusStep ==
    ASSUME NEW s, IsEntry(s), NEW st, NEW k \in WaitsFor(st) \cap Kinds, k # "register"
    PROVE  StepOf(s, [server |-> [s EXCEPT !.status = st], trans |-> {k}])
<1> DEFINE e == [s EXCEPT !.status = st]
           r == [server |-> e, trans |-> {k}]
<1>1. IsEntry(e) /\ Differs(s, e, {"status"}) /\ e.status = st
  BY StatusIs
<1>2. r.server = e /\ r.trans = {k}
  OBVIOUS
<1> HIDE DEF e, r
<1>3. IsStep(r)
  <2>1. IsFiniteSet({k})
    BY FS_Singleton
  <2> QED
    BY <1>1, <1>2, <2>1 DEF IsStep
<1>4. StepOf(s, r)
  BY <1>1, <1>2, <1>3 DEF StepOf, Differs
<1> QED
  BY <1>4 DEF e, r

LEMMA RequestStep ==
    ASSUME NEW s, IsEntry(s), NEW st, NEW k \in WaitsFor(st) \cap Kinds, k # "register"
    PROVE  LET e == [s EXCEPT !.status = st, !.dropped = "none"]
           IN  /\ StepOf(s, [server |-> e, trans |-> {k}]) /\ IsEntry(e)
               /\ Differs(s, e, {"status", "dropped"}) /\ e.status = st
<1> DEFINE e == [s EXCEPT !.status = st, !.dropped = "none"]
           r == [server |-> e, trans |-> {k}]
<1>1. Differs(s, e, {"status", "dropped"}) /\ e.status = st /\ e.dropped = "none"
  BY DEF Differs, IsEntry, EntryFields
<1>2. r.server = e /\ r.trans = {k}
  OBVIOUS
<1> HIDE DEF e, r
<1>3. IsEntry(e)
  BY <1>1 DEF Differs, IsEntry, EntryFields
<1>4. IsStep(r)
  <2>1. IsFiniteSet({k})
    BY FS_Singleton
  <2> QED
    BY <1>2, <1>3, <2>1 DEF IsStep
<1>5. StepOf(s, r)
  BY <1>1, <1>2, <1>4 DEF StepOf, Differs
<1> QED
  BY <1>1, <1>3, <1>5 DEF e, r

LEMMA UpdateIs ==
    ASSUME NEW c, IsContext(c), NEW i \in DOMAIN c.servers, NEW fate, NEW objects \in BOOLEAN,
           Managed(c.servers[i])
    PROVE  LET r == prv_updateRegistration(c, i, objects, fate)
           IN  /\ StepOf(c.servers[i], r) /\ IsServer(r.server)
               /\ r.server.status \in {c.servers[i].status, "REG_UPDATE_PENDING"}
               /\ r.server.registration = c.servers[i].registration
<1> DEFINE s == c.servers[i]
           e == [s EXCEPT !.status = "REG_UPDATE_PENDING", !.dropped = "none"]
           k == IF objects THEN "fullUpdate" ELSE "update"
           r == prv_updateRegistration(c, i, objects, fate)
<1>1. IsServer(s) /\ IsEntry(s) /\ Managed(s)
  BY DEF IsContext, IsServer
<1>2. \/ r = [server |-> s, trans |-> {}]
      \/ r = [server |-> e, trans |-> {k}]
  BY DEF prv_updateRegistration
<1>4. k \in WaitsFor("REG_UPDATE_PENDING") \cap Kinds /\ k # "register"
  BY DEF WaitsFor, Kinds
<1> HIDE DEF s, k, r
<1>3. IsEntry(e) /\ Differs(s, e, {"status", "dropped"}) /\ e.status = "REG_UPDATE_PENDING"
  BY <1>1, <1>4, RequestStep
<1>5. StepOf(s, [server |-> e, trans |-> {k}])
  BY <1>1, <1>4, RequestStep
<1>6. StepOf(s, [server |-> s, trans |-> {}])
  BY <1>1, SameStep
<1> HIDE DEF e
<1>7. IsServer(e) /\ e.registration = s.registration
  BY <1>1, <1>3 DEF IsServer, Differs, EntryFields, Managed, Statuses
<1> QED
  BY <1>1, <1>2, <1>3, <1>5, <1>6, <1>7 DEF s, r

LEMMA DeregisterIs ==
    ASSUME NEW c, IsContext(c), NEW i \in DOMAIN c.servers, NEW fate
    PROVE  LET r == registration_deregister(c, i, fate)
           IN  /\ StepOf(c.servers[i], r) /\ IsServer(r.server)
               /\ r.server.status \in {c.servers[i].status, "DEREG_PENDING"}
               /\ r.server.registration = c.servers[i].registration
<1> DEFINE s == c.servers[i]
           e == [s EXCEPT !.status = "DEREG_PENDING"]
           r == registration_deregister(c, i, fate)
<1>1. IsServer(s) /\ IsEntry(s)
  BY DEF IsContext, IsServer
<1>2. \/ r = [server |-> s, trans |-> {}]
      \/ r = [server |-> e, trans |-> {"deregister"}] /\ s.location
  BY DEF registration_deregister, Deregisters
<1>3. IsEntry(e) /\ Differs(s, e, {"status"}) /\ e.status = "DEREG_PENDING"
  BY <1>1, StatusIs
<1>4. "deregister" \in WaitsFor("DEREG_PENDING") \cap Kinds
  BY DEF WaitsFor, Kinds
<1> HIDE DEF s, r
<1>5. StepOf(s, [server |-> e, trans |-> {"deregister"}])
  BY <1>1, <1>4, StatusStep
<1>6. StepOf(s, [server |-> s, trans |-> {}])
  BY <1>1, SameStep
<1> HIDE DEF e
<1>7. e.registration = s.registration /\ (s.location => IsServer(e))
  BY <1>1, <1>3 DEF IsServer, Differs, EntryFields, Managed, Statuses
<1> QED
  BY <1>1, <1>2, <1>3, <1>5, <1>6, <1>7 DEF s, r

LEMMA SessionClosed ==
    ASSUME NEW s, IsEntry(s), NEW st, st \notin Waiting
    PROVE  LET e == [s EXCEPT !.status = st, !.session = 0]
           IN  /\ StepOf(s, [server |-> e, trans |-> {}]) /\ e.status = st
               /\ Differs(s, e, {"status", "session"})
<1> DEFINE e == [s EXCEPT !.status = st, !.session = 0]
           r == [server |-> e, trans |-> {}]
<1>1. Differs(s, e, {"status", "session"}) /\ e.status = st /\ e.session = 0
  BY DEF Differs, IsEntry, EntryFields
<1>2. r.server = e /\ r.trans = {}
  OBVIOUS
<1> HIDE DEF e, r
<1>3. IsEntry(e)
  BY <1>1 DEF Differs, IsEntry, EntryFields
<1>4. StepOf(s, r)
  BY <1>1, <1>2, <1>3, FS_EmptySet DEF StepOf, IsStep, Differs
<1> QED
  BY <1>1, <1>4 DEF e, r

LEMMA StepServerIs ==
    ASSUME NEW c, IsContext(c), NEW i \in DOMAIN c.servers, NEW fate
    PROVE  LET r == StepServer(c, i, fate, now)
           IN  /\ StepOf(c.servers[i], r) /\ IsServer(r.server)
               /\ r.server.status = "REGISTERED" =>
                    /\ c.servers[i].status = "REGISTERED"
                    /\ r.server.registration = c.servers[i].registration
<1> DEFINE s == c.servers[i]
           r == StepServer(c, i, fate, now)
           e == [s EXCEPT !.session = 0]
<1>1. IsServer(s) /\ IsEntry(s)
  BY DEF IsContext, IsServer
<1>2. CASE r = [server |-> s, trans |-> {}]
  BY <1>1, <1>2, SameStep
<1>3. CASE s.status = "REG_HOLD_OFF" /\ r = prv_register(c, i, fate)
  BY <1>3, RegisterIs
<1>4. CASE Managed(s) /\ \E o \in BOOLEAN : r = prv_updateRegistration(c, i, o, fate)
  BY <1>4, UpdateIs
<1>5. CASE s.status = "REG_FAILED" /\ r = [server |-> e, trans |-> {}]
  <2>0. e = [s EXCEPT !.status = "REG_FAILED", !.session = 0]
    <3>1. DOMAIN s = EntryFields
      BY <1>1 DEF IsEntry
    <3> HIDE DEF s
    <3> QED
      BY <1>5, <3>1
  <2>1. "REG_FAILED" \notin Waiting
    BY DEF Waiting
  <2> HIDE DEF s, e, r
  <2>2. /\ StepOf(s, [server |-> e, trans |-> {}]) /\ e.status = "REG_FAILED"
        /\ Differs(s, e, {"status", "session"})
    BY <1>1, <2>0, <2>1, SessionClosed
  <2>3. IsEntry(e)
    BY <2>2 DEF StepOf, IsStep
  <2>4. IsServer(e)
    BY <1>1, <2>2, <2>3 DEF IsServer, Differs, EntryFields, Managed, Statuses
  <2> QED
    BY <1>5, <2>2, <2>4 DEF s, r
<1> QED
  BY <1>2, <1>3, <1>4, <1>5 DEF StepServer, Managed

\* registration_step and lwm2m_deregister: the servers send what they have to.
LEMMA RegistrationStepIs ==
    ASSUME NEW c, Good(c), NEW fate
    PROVE  LET d == registration_step(c, fate, now)
           IN  Good(d) /\ Quiet(c, d) /\ d.bs = c.bs /\ d.state = c.state
<1> DEFINE steps == [i \in DOMAIN c.servers |-> StepServer(c, i, fate, now)]
<1>1. IsContext(c) /\ IsObject(c.servers)
  BY DEF Good, IsContext
<1>2. IsObject(steps) /\ DOMAIN steps = DOMAIN c.servers
  BY <1>1 DEF IsObject
<1>3. AreSteps(c, steps)
  BY <1>1, <1>2, StepServerIs DEF AreSteps
<1>4. registration_step(c, fate, now) = AfterSteps(c, steps, now)
  BY DEF registration_step
<1> HIDE DEF steps
<1> QED
  BY <1>3, <1>4, AfterStepsIs

LEMMA DeregisterAllIs ==
    ASSUME NEW c, Good(c), NEW fate
    PROVE  LET d == lwm2m_deregister(c, fate)
           IN  Good(d) /\ Quiet(c, d) /\ d.bs = c.bs /\ d.state = c.state
<1> DEFINE steps == [i \in DOMAIN c.servers |-> registration_deregister(c, i, fate)]
<1>1. IsContext(c) /\ IsObject(c.servers)
  BY DEF Good, IsContext
<1>2. IsObject(steps) /\ DOMAIN steps = DOMAIN c.servers
  BY <1>1 DEF IsObject
<1>3. AreSteps(c, steps)
  BY <1>1, <1>2, DeregisterIs DEF AreSteps
<1>4. lwm2m_deregister(c, fate) = AfterSteps(c, steps, now)
  BY DEF lwm2m_deregister
<1> HIDE DEF steps
<1> QED
  BY <1>3, <1>4, AfterStepsIs

\* Starting registrations is quiet, and lets nobody wait.
LEMMA StartIsQuiet ==
    ASSUME NEW c, Good(c), NEW restart \in BOOLEAN
    PROVE  LET r == registration_start(c, restart, now)
           IN  /\ r.ok /\ Good(r.ctx) /\ Quiet(c, r.ctx)
               /\ r.ctx.bs = c.bs /\ r.ctx.trans = c.trans /\ r.ctx.state = c.state
<1> DEFINE r == registration_start(c, restart, now)
           d == r.ctx
<1>1. /\ IsContext(d) /\ r.ok /\ SameAccounts(c, d)
      /\ d.bs = c.bs /\ d.trans = c.trans /\ d.state = c.state
      /\ DOMAIN d.servers = DOMAIN c.servers
      /\ \A i \in DOMAIN c.servers : StartedFrom(c.servers[i], d.servers[i])
  BY StartIs DEF Good
<1> HIDE DEF d
<1>2. ASSUME NEW i \in DOMAIN c.servers
      PROVE  /\ d.servers[i].node = c.servers[i].node /\ d.servers[i].uri = c.servers[i].uri
             /\ d.servers[i].dirty = c.servers[i].dirty
             /\ d.servers[i].session = c.servers[i].session
             /\ d.servers[i].status \in Waiting => d.servers[i].status = c.servers[i].status
             /\ d.servers[i].dropped = c.servers[i].dropped
             /\ d.servers[i].status = "REGISTERED" => d.servers[i] = c.servers[i]
  BY <1>1 DEF StartedFrom, Differs, EntryFields, Waiting
<1>3. ListAwaits(c.trans, c.servers) /\ ListAwaits(c.trans, c.bs)
  BY DEF Good
<1>4. ListAwaits(c.trans, d.servers)
  BY <1>1, <1>2, <1>3, AwaitsLess
<1>5. Good(d)
  BY <1>1, <1>3, <1>4 DEF Good
<1>6. Quiet(c, d)
  BY <1>1, <1>2 DEF Quiet, SameEntries, SameList, NoneRegistered, AddsOnly
<1> QED
  BY <1>1, <1>5, <1>6 DEF d

LEMMA RequestIs ==
    ASSUME NEW c, IsContext(c), NEW i \in DOMAIN c.bs, NEW fate, c.bs[i].status = "BS_HOLD_OFF"
    PROVE  LET r == prv_requestBootstrap(c, i, fate)
           IN  StepOf(c.bs[i], r) /\ r.server.status \in BsStatuses
<1> DEFINE s == c.bs[i]
           o == IF s.session # 0 THEN s ELSE [s EXCEPT !.session = NewSession(c, i)]
           fails(e, st) == [server |-> [e EXCEPT !.status = st], trans |-> {}]
           asks == [server |-> [o EXCEPT !.status = "BS_INITIATED"], trans |-> {"bootstrap"}]
           r == prv_requestBootstrap(c, i, fate)
<1>1. IsEntry(s)
  BY DEF IsContext, IsBsServer
<1>2. IsEntry(o) /\ Differs(s, o, {"session"}) /\ o.session # 0
  BY <1>1, OpenIs
<1>3. \/ r = fails(s, "BS_FAILED") \/ r = fails(o, "BS_FAILING")
      \/ r = [server |-> o, trans |-> {}] \/ r = asks
  BY DEF prv_requestBootstrap
<1>4. ASSUME NEW e, IsEntry(e), Differs(s, e, {"session"}), NEW st \in {"BS_FAILED", "BS_FAILING"}
      PROVE  StepOf(s, fails(e, st)) /\ fails(e, st).server.status = st
  <2> DEFINE g == [e EXCEPT !.status = st]
  <2>1. IsEntry(g) /\ Differs(e, g, {"status"}) /\ g.status = st
    BY <1>4, StatusIs
  <2>2. fails(e, st).server = g /\ fails(e, st).trans = {}
    OBVIOUS
  <2> HIDE DEF g, fails, s
  <2> QED
    BY <1>4, <2>1, <2>2, FS_EmptySet DEF StepOf, IsStep, Differs, Waiting
<1>5. CASE r = fails(s, "BS_FAILED") \/ r = fails(o, "BS_FAILING")
  <2>1. Differs(s, s, {"session"})
    BY <1>1 DEF IsEntry, Differs
  <2> HIDE DEF o, s, r, fails
  <2>2. StepOf(s, r) /\ r.server.status \in {"BS_FAILED", "BS_FAILING"}
    BY <1>1, <1>2, <1>4, <1>5, <2>1
  <2> QED
    BY <2>2 DEF s, r, BsStatuses
<1>6. CASE r = [server |-> o, trans |-> {}]
  <2>0. s.status = "BS_HOLD_OFF"
    OBVIOUS
  <2> HIDE DEF o, s, r
  <2>1. r.server = o /\ r.trans = {} /\ o.status = "BS_HOLD_OFF"
    BY <1>2, <1>6, <2>0 DEF Differs, EntryFields
  <2>2. StepOf(s, r)
    BY <1>2, <2>1, FS_EmptySet DEF StepOf, IsStep, Differs, Waiting
  <2> QED
    BY <2>1, <2>2 DEF s, r, BsStatuses
<1>7. CASE r = asks
  <2> DEFINE e == [o EXCEPT !.status = "BS_INITIATED"]
  <2>1. IsEntry(e) /\ Differs(o, e, {"status"}) /\ e.status = "BS_INITIATED"
    BY <1>2, StatusIs
  <2>2. r.server = e /\ r.trans = {"bootstrap"}
    BY <1>7
  <2>3. IsFiniteSet({"bootstrap"}) /\ "bootstrap" \in Kinds
    BY FS_Singleton DEF Kinds
  <2> HIDE DEF e, s, o, r
  <2>4. IsStep(r)
    BY <2>1, <2>2, <2>3 DEF IsStep
  <2>5. Differs(s, e, {"status", "session", "attempt", "sequence", "registration", "dropped"})
    BY <1>2, <2>1 DEF Differs
  <2>6. StepOf(s, r)
    BY <2>1, <2>2, <2>4, <2>5 DEF StepOf, WaitsFor
  <2> QED
    BY <2>1, <2>2, <2>6 DEF s, r, BsStatuses
<1> QED
  BY <1>3, <1>5, <1>6, <1>7

LEMMA StepBsIs ==
    ASSUME NEW c, IsContext(c), NEW i \in DOMAIN c.bs, NEW fate
    PROVE  LET r == StepBs(c, i, fate, now)
           IN  StepOf(c.bs[i], r) /\ r.server.status \in BsStatuses
<1> DEFINE s == c.bs[i]
           r == StepBs(c, i, fate, now)
           n == now + s.lifetime
           held == [s EXCEPT !.status = "BS_HOLD_OFF", !.registration = n]
           ends(st) == [server |-> [s EXCEPT !.status = st, !.session = 0], trans |-> {}]
           to(st) == [server |-> [s EXCEPT !.status = st], trans |-> {}]
<1>1. IsEntry(s) /\ s.status \in BsStatuses
  BY DEF IsContext, IsBsServer
<1>2. \/ r = [server |-> held, trans |-> {}]
      \/ s.status = "BS_HOLD_OFF" /\ r = prv_requestBootstrap(c, i, fate)
      \/ \E st \in {"BS_FINISHED", "BS_FAILED"} : r = ends(st)
      \/ \E st \in {"BS_FAILING", s.status} : r = to(st)
  BY DEF StepBs
<1>3. CASE r = [server |-> held, trans |-> {}]
  <2>1. n \in Int
    BY <1>1 DEF IsEntry, now
  <2> HIDE DEF s, r, n
  <2>2. /\ Differs(s, held, {"status", "registration"}) /\ held.status = "BS_HOLD_OFF"
        /\ held.registration = n
    BY <1>1 DEF Differs, IsEntry, EntryFields
  <2>3. r.server = held /\ r.trans = {}
    BY <1>3
  <2> HIDE DEF held
  <2>4. IsEntry(held)
    BY <1>1, <2>1, <2>2 DEF Differs, IsEntry, EntryFields
  <2>5. StepOf(s, r)
    BY <2>2, <2>3, <2>4, FS_EmptySet DEF StepOf, IsStep, Differs, Waiting
  <2> QED
    BY <2>2, <2>3, <2>5 DEF s, r, BsStatuses
<1>4. CASE s.status = "BS_HOLD_OFF" /\ r = prv_requestBootstrap(c, i, fate)
  BY <1>4, RequestIs
<1>5. CASE \E st \in {"BS_FINISHED", "BS_FAILED"} : r = ends(st)
  <2>1. PICK st \in {"BS_FINISHED", "BS_FAILED"} : r = ends(st)
    BY <1>5
  <2>2. st \notin Waiting /\ st \in BsStatuses
    BY DEF Waiting, BsStatuses
  <2> HIDE DEF s, r
  <2>3. StepOf(s, r) /\ r.server.status = st
    BY <1>1, <2>1, <2>2, SessionClosed
  <2> QED
    BY <2>2, <2>3 DEF s, r
<1>6. CASE \E st \in {"BS_FAILING", s.status} : r = to(st)
  <2>1. PICK st \in {"BS_FAILING", s.status} : r = to(st)
    BY <1>6
  <2> DEFINE e == [s EXCEPT !.status = st]
  <2>2. IsEntry(e) /\ Differs(s, e, {"status"}) /\ e.status = st
    BY <1>1, StatusIs
  <2>3. r.server = e /\ r.trans = {}
    BY <2>1
  <2>4. st \in BsStatuses /\ (st \in Waiting => s.status = st)
    BY <1>1 DEF BsStatuses, Waiting
  <2> HIDE DEF s, r, e
  <2>5. StepOf(s, r)
    BY <2>2, <2>3, <2>4, FS_EmptySet DEF StepOf, IsStep, Differs, EntryFields
  <2> QED
    BY <2>2, <2>3, <2>4, <2>5 DEF s, r
<1> QED
  BY <1>2, <1>3, <1>4, <1>5, <1>6

LEMMA BootstrapStepIs ==
    ASSUME NEW c, Good(c), NEW fate
    PROVE  LET d == bootstrap_step(c, fate, now)
           IN  Good(d) /\ Quiet(c, d) /\ d.servers = c.servers /\ d.state = c.state
<1> DEFINE steps == [i \in DOMAIN c.bs |-> StepBs(c, i, fate, now)]
<1>1. IsContext(c) /\ IsObject(c.bs)
  BY DEF Good, IsContext
<1>2. IsObject(steps) /\ DOMAIN steps = DOMAIN c.bs
  BY <1>1 DEF IsObject
<1>3. AreBsSteps(c, steps)
  BY <1>1, <1>2, StepBsIs DEF AreBsSteps
<1>4. bootstrap_step(c, fate, now) = AfterBsSteps(c, steps, now)
  BY DEF bootstrap_step
<1> HIDE DEF steps
<1> QED
  BY <1>3, <1>4, AfterBsStepsIs

LEMMA BootstrapStartIs ==
    ASSUME NEW c, Good(c), NEW fate
    PROVE  LET d == bootstrap_start(c, fate)
           IN  /\ Good(d) /\ Quiet(c, d) /\ d.servers = c.servers /\ d.state = c.state
               /\ d.trans = c.trans
<1> DEFINE e(i) == Restarted(c, i, fate)
           g == [i \in DOMAIN c.bs |-> e(i)]
           d == bootstrap_start(c, fate)
<1>1. /\ IsContext(c) /\ IsRecord(c) /\ ListAwaits(c.trans, c.servers)
  BY DEF Good, IsContext
<1>2. d = [c EXCEPT !.bs = g]
  BY DEF bootstrap_start
<1>3. ASSUME NEW i \in DOMAIN c.bs
      PROVE  /\ IsBsServer(e(i)) /\ e(i).status = "DEREGISTERED"
             /\ Differs(c.bs[i], e(i), {"status", "session"})
  <2> DEFINE s == c.bs[i]
             n == IF s.session = 0 /\ fate # "unconnected" THEN NewSession(c, i) ELSE s.session
             x == [s EXCEPT !.status = "DEREGISTERED", !.session = n]
  <2>1. IsEntry(s) /\ NewSession(c, i) \in Nat
    BY <1>1, NewSessionIs DEF IsContext, IsBsServer
  <2>2. n \in Nat
    BY <2>1 DEF IsEntry
  <2>3. x = e(i)
    BY DEF Restarted
  <2> HIDE DEF s, n
  <2>4. Differs(s, x, {"status", "session"}) /\ x.status = "DEREGISTERED" /\ x.session = n
    BY <2>1 DEF Differs, IsEntry, EntryFields
  <2> HIDE DEF x, e
  <2>5. IsBsServer(x)
    BY <2>1, <2>2, <2>4 DEF Differs, IsEntry, EntryFields, IsBsServer, BsStatuses
  <2> QED
    BY <2>3, <2>4, <2>5 DEF s
<1> HIDE DEF e
<1>4. /\ DOMAIN g = DOMAIN c.bs /\ IsObject(g) /\ SameList(c.bs, g)
      /\ \A i \in DOMAIN g : IsBsServer(g[i]) /\ g[i].status = "DEREGISTERED"
  <2>1. IsFiniteSet(DOMAIN c.bs)
    BY <1>1 DEF IsContext, IsObject
  <2> QED
    BY <1>3, <2>1 DEF IsObject, SameList, Differs, EntryFields
<1>5. DOMAIN c.servers \cap DOMAIN g = {}
  BY <1>1, <1>4 DEF IsContext
<1> HIDE DEF g, d
<1>6. IsContext(d)
  BY <1>1, <1>2, <1>4, <1>5, BsIs
<1>7. /\ d.bs = g /\ d.state = c.state /\ d.sec = c.sec /\ d.serverObj = c.serverObj
      /\ d.servers = c.servers /\ d.trans = c.trans /\ d.torn = c.torn
  BY <1>1, <1>2, RecordBs
<1>8. Good(d)
  BY <1>1, <1>4, <1>6, <1>7 DEF Good, ListAwaits, Waiting
<1>9. Quiet(c, d)
  BY <1>4, <1>7 DEF Quiet, SameEntries, SameAccounts, SameList, NoneRegistered, AddsOnly
<1> QED
  BY <1>7, <1>8, <1>9 DEF d

-----------------------------------------------------------------------------
(* The server lists                                                         *)

\* Entry k of list f is the account of a server, or of a bootstrap server.
Made(sec, f, k, boot) ==
    k \in DOMAIN sec /\ ~f[k].dirty /\ f[k].uri = sec[k].uri /\ sec[k].bootstrap = boot

\* A list with entries of accounts added.
Extends(sec, f, g, boot) ==
    /\ DOMAIN f \subseteq DOMAIN g
    /\ \A k \in DOMAIN g :
         IF k \in DOMAIN f THEN g[k] = f[k]
         ELSE g[k].status = "DEREGISTERED" /\ Made(sec, g, k, boot)

LEMMA RefusedSame ==
    ASSUME NEW c, NEW d, SameAccounts(c, d), NEW k
    PROVE  Refused(c, k) <=> Refused(d, k)
  BY DEF SameAccounts, Refused, prv_findServerInstance, prv_getMandatoryInfo

LEMMA NewServerIs ==
    ASSUME NEW c, NEW k
    PROVE  LET s == NewServer(c, k)
           IN  /\ IsEntry(s) /\ s.status = "DEREGISTERED" /\ s.uri = c.sec[k].uri
               /\ ~s.dirty /\ s.lifetime = 0
  BY DEF NewServer, IsEntry, EntryFields

LEMMA AccountIs ==
    ASSUME NEW c, IsContext(c), NEW k \in DOMAIN c.sec,
           c.sec[k].bootstrap \/ prv_findServerInstance(c, c.sec[k].shortID) # {}
    PROVE  LET s == Account(c, k)
           IN  /\ s.status = "DEREGISTERED" /\ s.uri = c.sec[k].uri /\ ~s.dirty
               /\ IF c.sec[k].bootstrap THEN IsBsServer(s) ELSE IsServer(s)
<1> DEFINE n == NewServer(c, k)
           a == Account(c, k)
<1>1. IsEntry(n) /\ n.status = "DEREGISTERED" /\ n.uri = c.sec[k].uri /\ ~n.dirty
  BY NewServerIs
<1>2. IsSecurity(c.sec[k]) /\ \A m \in DOMAIN c.serverObj : IsServerInstance(c.serverObj[m])
  BY DEF IsContext, AreAccounts
<1> HIDE DEF n
<1>3. CASE c.sec[k].bootstrap
  <2> DEFINE h == c.sec[k].holdOff
             e == [n EXCEPT !.lifetime = h]
  <2>1. h \in Nat
    BY <1>2, SecurityFieldsAre DEF IsSecurity, IsValue
  <2>2. a = e
    BY <1>3 DEF Account, n
  <2> HIDE DEF h, a
  <2>3. Differs(n, e, {"lifetime"}) /\ e.lifetime = h
    BY <1>1 DEF Differs, IsEntry, EntryFields
  <2> HIDE DEF e
  <2>4. IsEntry(e)
    BY <1>1, <2>1, <2>3 DEF Differs, IsEntry, EntryFields
  <2> QED
    BY <1>1, <1>3, <2>2, <2>3, <2>4 DEF a, Differs, EntryFields, IsBsServer, BsStatuses
<1>4. CASE ~c.sec[k].bootstrap
  <2> DEFINE F == prv_findServerInstance(c, c.sec[k].shortID)
             m == CHOOSE m \in F : TRUE
             l == c.serverObj[m].lifetime
             e == [n EXCEPT !.shortID = c.sec[k].shortID, !.inst = m, !.lifetime = l]
  <2>1. m \in F /\ F \subseteq DOMAIN c.serverObj
    BY <1>4 DEF prv_findServerInstance, Least
  <2>2. l \in 0 .. MaxLife
    BY <1>2, <2>1 DEF IsServerInstance, IsValue
  <2>3. a = e
    BY <1>4 DEF Account, n
  <2> HIDE DEF m, l, a
  <2>4. Differs(n, e, {"shortID", "inst", "lifetime"}) /\ e.lifetime = l
    BY <1>1 DEF Differs, IsEntry, EntryFields
  <2> HIDE DEF e
  <2>5. IsEntry(e)
    BY <1>1, <2>2, <2>4 DEF Differs, IsEntry, EntryFields
  <2>6. e.status = "DEREGISTERED" /\ e.uri = c.sec[k].uri /\ ~e.dirty
    BY <1>1, <2>4 DEF Differs, EntryFields
  <2>7. IsServer(e)
    BY <2>2, <2>4, <2>5, <2>6 DEF IsServer, Managed, Statuses
  <2> QED
    BY <1>4, <2>3, <2>6, <2>7 DEF a
<1> QED
  BY <1>3, <1>4

\* Listing adds accounts that no entry has yet.
LEMMA ListingIs ==
    ASSUME NEW c, IsContext(c), NEW f, IsObject(f), NEW S, S \subseteq DOMAIN c.sec,
           S \cap DOMAIN f = {}, NEW boot \in BOOLEAN,
           \A k \in S : /\ c.sec[k].bootstrap = boot
                        /\ ~boot => prv_findServerInstance(c, c.sec[k].shortID) # {}
    PROVE  LET g == Listing(c, f, S)
           IN  /\ IsObject(g) /\ Extends(c.sec, f, g, boot) /\ DOMAIN g = DOMAIN f \cup S
               /\ \A k \in S : IF boot THEN IsBsServer(g[k]) ELSE IsServer(g[k])
<1> DEFINE g == Listing(c, f, S)
<1>1. DOMAIN g = DOMAIN f \cup S /\ g = [k \in DOMAIN g |-> g[k]]
  BY DEF Listing
<1>2. IsFiniteSet(DOMAIN f \cup S)
  <2>1. IsFiniteSet(DOMAIN f) /\ IsFiniteSet(DOMAIN c.sec) /\ S \in SUBSET DOMAIN c.sec
    BY DEF IsContext, IsObject, AreAccounts
  <2> QED
    BY <2>1, FS_Subset, FS_Union
<1>3. /\ \A k \in DOMAIN f : g[k] = f[k]
      /\ \A k \in S : g[k] = Account(c, k)
  BY DEF Listing
<1> HIDE DEF g
<1>4. ASSUME NEW k \in S
      PROVE  /\ g[k].status = "DEREGISTERED" /\ Made(c.sec, g, k, boot)
             /\ IF boot THEN IsBsServer(g[k]) ELSE IsServer(g[k])
  <2>1. k \in DOMAIN c.sec /\ c.sec[k].bootstrap = boot
    OBVIOUS
  <2>2. c.sec[k].bootstrap \/ prv_findServerInstance(c, c.sec[k].shortID) # {}
    BY <2>1
  <2>3. /\ g[k].status = "DEREGISTERED" /\ g[k].uri = c.sec[k].uri /\ ~g[k].dirty
        /\ IF c.sec[k].bootstrap THEN IsBsServer(g[k]) ELSE IsServer(g[k])
    BY <1>3, <2>1, <2>2, AccountIs
  <2> QED
    BY <2>1, <2>3 DEF Made
<1>5. Extends(c.sec, f, g, boot)
  BY <1>1, <1>3, <1>4 DEF Extends
<1> QED
  BY <1>1, <1>2, <1>4, <1>5 DEF g, IsObject

\* object_getServers adds entries, and if it does not stop those of all bootstrap
\* servers.
LEMMA GetServersIs ==
    ASSUME NEW c, Good(c)
    PROVE  LET r == object_getServers(c, FALSE)
               d == r.ctx
           IN  /\ Good(d) /\ SameAccounts(c, d) /\ d.state = c.state /\ d.trans = c.trans
               /\ Extends(c.sec, c.servers, d.servers, FALSE)
               /\ Extends(c.sec, c.bs, d.bs, TRUE)
               /\ ~r.ok => \E k \in DOMAIN c.sec : Refused(c, k)
               /\ r.ok => \A k \in DOMAIN c.sec : c.sec[k].bootstrap =>
                            k \in DOMAIN d.bs \/ k \in DOMAIN c.servers
<1> DEFINE new     == DOMAIN c.sec \ (DOMAIN c.bs \cup DOMAIN c.servers)
           visited == {k \in new : \A j \in new : j <= k => ~Refused(c, j)}
           boot    == {k \in visited : c.sec[k].bootstrap}
           usable  == {k \in visited \ boot : prv_findServerInstance(c, c.sec[k].shortID) # {}}
           f == Listing(c, c.servers, usable)
           g == Listing(c, c.bs, boot)
           r == object_getServers(c, FALSE)
           d == r.ctx
<1>1. d = [c EXCEPT !.bs = g, !.servers = f] /\ r.ok = (visited = new)
  BY DEF object_getServers
<1>2. /\ IsContext(c) /\ IsRecord(c) /\ IsObject(c.servers) /\ IsObject(c.bs)
      /\ ListAwaits(c.trans, c.servers) /\ ListAwaits(c.trans, c.bs)
      /\ DOMAIN c.servers \cap DOMAIN c.bs = {}
      /\ \A k \in DOMAIN c.sec : c.sec[k].bootstrap \in BOOLEAN
  BY SecurityFieldsAre DEF Good, IsContext, AreAccounts, IsSecurity, IsValue
<1>3. /\ visited \subseteq new /\ boot \subseteq visited /\ usable \subseteq visited
      /\ boot \cap usable = {}
  OBVIOUS
<1>4. ~r.ok => \E k \in DOMAIN c.sec : Refused(c, k)
  BY <1>1
<1>5. r.ok => \A k \in DOMAIN c.sec : c.sec[k].bootstrap =>
                k \in boot \/ k \in DOMAIN c.servers \/ k \in DOMAIN c.bs
  BY <1>1
<1>6. /\ IsObject(f) /\ Extends(c.sec, c.servers, f, FALSE)
      /\ DOMAIN f = DOMAIN c.servers \cup usable /\ \A k \in usable : IsServer(f[k])
  <2>1. /\ usable \subseteq DOMAIN c.sec /\ usable \cap DOMAIN c.servers = {}
        /\ \A k \in usable : /\ c.sec[k].bootstrap = FALSE
                             /\ prv_findServerInstance(c, c.sec[k].shortID) # {}
    BY <1>2
  <2> HIDE DEF usable
  <2> QED
    BY <1>2, <2>1, ListingIs
<1>7. /\ IsObject(g) /\ Extends(c.sec, c.bs, g, TRUE)
      /\ DOMAIN g = DOMAIN c.bs \cup boot /\ \A k \in boot : IsBsServer(g[k])
  <2>1. /\ boot \subseteq DOMAIN c.sec /\ boot \cap DOMAIN c.bs = {}
        /\ \A k \in boot : c.sec[k].bootstrap = TRUE
    BY <1>2
  <2> HIDE DEF boot
  <2> QED
    BY <1>2, <2>1, ListingIs
<1>8. DOMAIN f \cap DOMAIN g = {}
  BY <1>2, <1>3, <1>6, <1>7
<1> HIDE DEF f, g, boot, usable, visited, new, d, r
<1>9. /\ d.bs = g /\ d.servers = f /\ d.state = c.state /\ d.sec = c.sec
      /\ d.serverObj = c.serverObj /\ d.trans = c.trans /\ d.torn = c.torn /\ IsRecord(d)
  BY <1>1, <1>2 DEF IsRecord
<1>10. \A k \in DOMAIN f : IsServer(f[k])
  BY <1>2, <1>6 DEF IsContext, Extends
<1>11. \A k \in DOMAIN g : IsBsServer(g[k])
  BY <1>2, <1>7 DEF IsContext, Extends
<1>12. IsContext(d)
  BY <1>2, <1>6, <1>7, <1>8, <1>9, <1>10, <1>11 DEF IsContext
<1>13. ListAwaits(c.trans, f) /\ ListAwaits(c.trans, g)
  <2>1. \A k \in DOMAIN f : f[k].status \in Waiting => k \in DOMAIN c.servers /\ f[k] = c.servers[k]
    BY <1>6 DEF Extends, Waiting
  <2>2. \A k \in DOMAIN g : g[k].status \in Waiting => k \in DOMAIN c.bs /\ g[k] = c.bs[k]
    BY <1>7 DEF Extends, Waiting
  <2> QED
    BY <1>2, <2>1, <2>2 DEF ListAwaits
<1>14. Good(d)
  BY <1>9, <1>12, <1>13 DEF Good
<1>15. r.ok => \A k \in DOMAIN c.sec : c.sec[k].bootstrap => k \in DOMAIN g \/ k \in DOMAIN c.servers
  BY <1>5, <1>7
<1> QED
  BY <1>4, <1>6, <1>7, <1>9, <1>14, <1>15 DEF SameAccounts, d, r

\* Every entry of g that is not marked is one of f, or newly made from its account.
Renews(sec, f, g, boot) ==
    \A k \in DOMAIN g :
        \/ g[k].dirty
        \/ k \in DOMAIN f /\ ~f[k].dirty /\ g[k].uri = f[k].uri
        \/ Made(sec, g, k, boot) /\ (k \in DOMAIN f => f[k].dirty)

Renewed(c, d) ==
    /\ SameAccounts(c, d) /\ NoneRegistered(c, d) /\ AddsOnly(c, d)
    /\ Renews(c.sec, c.servers, d.servers, FALSE) /\ Renews(c.sec, c.bs, d.bs, TRUE)

\* Every bootstrap server is listed.
Knows(c) ==
    \A k \in DOMAIN c.sec : c.sec[k].bootstrap =>
        k \in DOMAIN c.bs \/ (k \in DOMAIN c.servers /\ ~c.servers[k].dirty)

LEMMA QuietRenews ==
    ASSUME NEW c, NEW d, Quiet(c, d)
    PROVE  Renewed(c, d)
  BY DEF Quiet, SameEntries, SameList, Renewed, Renews

LEMMA RenewedQuiet ==
    ASSUME NEW c, NEW d, NEW e, Renewed(c, d), Quiet(d, e)
    PROVE  Renewed(c, e)
<1>1. SameAccounts(c, e)
  BY DEF Renewed, Quiet, SameEntries, SameAccounts
<1>2. NoneRegistered(c, e)
  BY DEF Renewed, Quiet, NoneRegistered
<1>3. AddsOnly(c, e)
  BY DEF Renewed, Quiet, AddsOnly
<1>4. SameList(d.servers, e.servers) /\ SameList(d.bs, e.bs)
  BY DEF Quiet, SameEntries
<1>5. Renews(c.sec, c.servers, e.servers, FALSE)
  BY <1>4 DEF Renewed, Renews, SameList, Made
<1>6. Renews(c.sec, c.bs, e.bs, TRUE)
  BY <1>4 DEF Renewed, Renews, SameList, Made
<1> QED
  BY <1>1, <1>2, <1>3, <1>5, <1>6 DEF Renewed

LEMMA KnowsQuiet ==
    ASSUME NEW c, NEW d, Quiet(c, d), Knows(c)
    PROVE  Knows(d)
<1>1. /\ d.sec = c.sec /\ DOMAIN d.bs = DOMAIN c.bs /\ DOMAIN d.servers = DOMAIN c.servers
      /\ \A k \in DOMAIN c.servers : d.servers[k].dirty = c.servers[k].dirty
  BY DEF Quiet, SameEntries, SameList, SameAccounts
<1> SUFFICES ASSUME NEW k \in DOMAIN c.sec, c.sec[k].bootstrap
             PROVE  k \in DOMAIN d.bs \/ (k \in DOMAIN d.servers /\ ~d.servers[k].dirty)
  BY <1>1 DEF Knows
<1> QED
  BY <1>1 DEF Knows

LEMMA RefreshIs ==
    ASSUME NEW c, Good(c)
    PROVE  LET r == prv_refreshServerList(c)
           IN  /\ Good(r.ctx) /\ Renewed(c, r.ctx) /\ r.ctx.state = c.state
               /\ ~r.ok => \E k \in DOMAIN c.sec : Refused(c, k)
               /\ r.ok => Knows(r.ctx)
<1> DEFINE Keep(list) == {i \in DOMAIN list : ~list[i].dirty}
           e(i) == [c.bs[i] EXCEPT !.status = "DEREGISTERED"]
           g == [i \in Keep(c.bs) |-> e(i)]
           f == Restrict(c.servers, Keep(c.servers))
           b == [c EXCEPT !.bs = g, !.servers = f]
           r == prv_refreshServerList(c)
           d == r.ctx
<1>1. r = object_getServers(b, FALSE)
  BY DEF prv_refreshServerList
<1>2. /\ IsContext(c) /\ IsRecord(c) /\ IsObject(c.servers) /\ IsObject(c.bs)
      /\ ListAwaits(c.trans, c.servers) /\ DOMAIN c.servers \cap DOMAIN c.bs = {}
      /\ \A i \in DOMAIN c.bs : IsEntry(c.bs[i])
  BY DEF Good, IsContext, IsBsServer
<1>3. ASSUME NEW i \in DOMAIN c.bs
      PROVE  /\ IsBsServer(e(i)) /\ e(i).status = "DEREGISTERED"
             /\ e(i).uri = c.bs[i].uri /\ e(i).dirty = c.bs[i].dirty
  <2>1. IsEntry(e(i)) /\ Differs(c.bs[i], e(i), {"status"}) /\ e(i).status = "DEREGISTERED"
    BY <1>2, StatusIs
  <2> HIDE DEF e
  <2> QED
    BY <2>1 DEF IsBsServer, BsStatuses, Differs, EntryFields
<1> HIDE DEF e
<1>4. /\ DOMAIN g = Keep(c.bs) /\ g = [i \in DOMAIN g |-> g[i]]
      /\ \A i \in DOMAIN g : /\ i \in DOMAIN c.bs /\ ~c.bs[i].dirty
                             /\ IsBsServer(g[i]) /\ g[i].status = "DEREGISTERED"
                             /\ g[i].uri = c.bs[i].uri /\ ~g[i].dirty
  BY <1>3
<1>5. /\ DOMAIN f = Keep(c.servers) /\ f = [i \in DOMAIN f |-> f[i]]
      /\ \A i \in DOMAIN f : i \in DOMAIN c.servers /\ ~c.servers[i].dirty /\ f[i] = c.servers[i]
  BY DEF Restrict
<1>6. IsFiniteSet(Keep(c.bs)) /\ IsFiniteSet(Keep(c.servers))
  <2>1. /\ IsFiniteSet(DOMAIN c.bs) /\ IsFiniteSet(DOMAIN c.servers)
        /\ Keep(c.bs) \in SUBSET DOMAIN c.bs /\ Keep(c.servers) \in SUBSET DOMAIN c.servers
    BY <1>2 DEF IsObject
  <2> QED
    BY <2>1, FS_Subset
<1>7. b = [c EXCEPT !.bs = g, !.servers = f]
  OBVIOUS
<1> HIDE DEF f, g, b, Keep, r
<1>8. /\ b.bs = g /\ b.servers = f /\ b.state = c.state /\ b.sec = c.sec
      /\ b.serverObj = c.serverObj /\ b.trans = c.trans /\ b.torn = c.torn /\ IsRecord(b)
  BY <1>2, <1>7 DEF IsRecord
<1>9. IsContext(b)
  <2>1. IsObject(f) /\ IsObject(g) /\ DOMAIN f \cap DOMAIN g = {}
    BY <1>2, <1>4, <1>5, <1>6 DEF IsObject
  <2>2. \A i \in DOMAIN f : IsServer(f[i])
    BY <1>2, <1>5 DEF IsContext
  <2> QED
    BY <1>2, <1>4, <1>8, <2>1, <2>2 DEF IsContext
<1>10. Good(b)
  <2>1. ListAwaits(c.trans, f)
    BY <1>2, <1>5 DEF ListAwaits
  <2>2. ListAwaits(c.trans, g)
    BY <1>4 DEF ListAwaits, Waiting
  <2> QED
    BY <1>8, <1>9, <2>1, <2>2 DEF Good
<1>11. /\ Good(d) /\ SameAccounts(b, d) /\ d.state = b.state /\ d.trans = b.trans
       /\ Extends(b.sec, b.servers, d.servers, FALSE) /\ Extends(b.sec, b.bs, d.bs, TRUE)
       /\ ~r.ok => \E k \in DOMAIN b.sec : Refused(b, k)
       /\ r.ok => \A k \in DOMAIN b.sec : b.sec[k].bootstrap =>
                    k \in DOMAIN d.bs \/ k \in DOMAIN b.servers
  BY <1>1, <1>10, GetServersIs
<1> HIDE DEF d
<1>12. SameAccounts(c, d) /\ SameAccounts(c, b)
  BY <1>8, <1>11 DEF SameAccounts
<1>13. ~r.ok => \E k \in DOMAIN c.sec : Refused(c, k)
  BY <1>8, <1>11, <1>12, RefusedSame
<1>14. r.ok => Knows(d)
  <2>1. /\ d.sec = c.sec /\ b.sec = c.sec
        /\ \A k \in DOMAIN f : k \in DOMAIN d.servers /\ ~d.servers[k].dirty
    BY <1>5, <1>8, <1>11, <1>12 DEF Extends, SameAccounts
  <2> SUFFICES ASSUME r.ok, NEW k \in DOMAIN c.sec, c.sec[k].bootstrap
               PROVE  k \in DOMAIN d.bs \/ (k \in DOMAIN d.servers /\ ~d.servers[k].dirty)
    BY <2>1 DEF Knows
  <2> QED
    BY <1>8, <1>11, <2>1
<1>15. NoneRegistered(c, d)
  BY <1>5, <1>8, <1>11 DEF NoneRegistered, Extends
<1>16. AddsOnly(c, d)
  BY <1>8, <1>11 DEF AddsOnly
<1>17. Renews(c.sec, c.servers, d.servers, FALSE)
  <2> SUFFICES ASSUME NEW k \in DOMAIN d.servers
               PROVE  \/ k \in DOMAIN c.servers /\ ~c.servers[k].dirty
                         /\ d.servers[k].uri = c.servers[k].uri
                      \/ /\ Made(c.sec, d.servers, k, FALSE)
                         /\ k \in DOMAIN c.servers => c.servers[k].dirty
    BY DEF Renews
  <2>1. CASE k \in DOMAIN f
    BY <1>5, <1>8, <1>11, <2>1 DEF Extends
  <2>2. CASE k \notin DOMAIN f
    <3>1. k \in DOMAIN c.servers => c.servers[k].dirty
      BY <1>5, <2>2 DEF Keep
    <3> QED
      BY <1>8, <1>11, <2>2, <3>1 DEF Extends
  <2> QED
    BY <2>1, <2>2
<1>18. Renews(c.sec, c.bs, d.bs, TRUE)
  <2> SUFFICES ASSUME NEW k \in DOMAIN d.bs
               PROVE  \/ k \in DOMAIN c.bs /\ ~c.bs[k].dirty
                         /\ d.bs[k].uri = c.bs[k].uri
                      \/ /\ Made(c.sec, d.bs, k, TRUE)
                         /\ k \in DOMAIN c.bs => c.bs[k].dirty
    BY DEF Renews
  <2>1. CASE k \in DOMAIN g
    BY <1>4, <1>8, <1>11, <2>1 DEF Extends
  <2>2. CASE k \notin DOMAIN g
    <3>1. k \in DOMAIN c.bs => c.bs[k].dirty
      BY <1>4, <2>2 DEF Keep
    <3> QED
      BY <1>8, <1>11, <2>2, <3>1 DEF Extends
  <2> QED
    BY <2>1, <2>2
<1> QED
  BY <1>8, <1>11, <1>12, <1>13, <1>14, <1>15, <1>16, <1>17, <1>18 DEF Renewed, d, r

LEMMA QuietRenewed ==
    ASSUME NEW c, NEW d, NEW e, Quiet(c, d), Renewed(d, e)
    PROVE  Renewed(c, e)
<1>1. SameAccounts(c, e) /\ d.sec = c.sec
  BY DEF Renewed, Quiet, SameEntries, SameAccounts
<1>2. NoneRegistered(c, e)
  BY DEF Renewed, Quiet, NoneRegistered
<1>3. AddsOnly(c, e)
  BY DEF Renewed, Quiet, AddsOnly
<1>4. SameList(c.servers, d.servers) /\ SameList(c.bs, d.bs)
  BY DEF Quiet, SameEntries
<1>5. Renews(c.sec, c.servers, e.servers, FALSE)
  BY <1>1, <1>4 DEF Renewed, Renews, SameList
<1>6. Renews(c.sec, c.bs, e.bs, TRUE)
  BY <1>1, <1>4 DEF Renewed, Renews, SameList
<1> QED
  BY <1>1, <1>2, <1>3, <1>5, <1>6 DEF Renewed

LEMMA StateIsQuiet ==
    ASSUME NEW c, Good(c), NEW st \in States
    PROVE  LET d == [c EXCEPT !.state = st]
           IN  /\ Good(d) /\ Quiet(c, d) /\ d.state = st /\ d.bs = c.bs /\ d.servers = c.servers
               /\ d.sec = c.sec /\ d.trans = c.trans
<1> DEFINE d == [c EXCEPT !.state = st]
<1>1. IsRecord(c) /\ IsContext(c)
  BY DEF Good, IsContext
<1>2. /\ IsContext(d) /\ d.state = st /\ d.bs = c.bs /\ d.sec = c.sec
      /\ d.serverObj = c.serverObj /\ d.servers = c.servers /\ d.trans = c.trans /\ d.torn = c.torn
  BY <1>1, RecordState, StateIs
<1> HIDE DEF d
<1>3. Good(d)
  BY <1>2 DEF Good
<1>4. Quiet(c, d)
  BY <1>2 DEF Quiet, SameEntries, SameAccounts, SameList, NoneRegistered, AddsOnly
<1> QED
  BY <1>2, <1>3, <1>4 DEF d

-----------------------------------------------------------------------------
(* The cases of the switch in lwm2m_step                                    *)

\* Without a bootstrap server in the list there is none in the accounts, but for
\* those that another entry hides.
Secure(c) == DOMAIN c.bs = {} => Knows(c)

SomeRefused(c) == \E k \in DOMAIN c.sec : Refused(c, k)

\* What the cases of the switch make of c.
Switched(c, r) ==
    /\ Good(r.ctx) /\ Renewed(c, r.ctx) /\ r.wakes \subseteq Nat
    /\ r.ok \in BOOLEAN
    /\ r.ok => Secure(r.ctx) /\ r.ctx.state # "INITIAL"
    /\ ~r.ok => \/ DOMAIN r.ctx.bs = {} /\ Secure(r.ctx)
                \/ SomeRefused(c)
                \/ c.state = "BOOTSTRAPPING" /\ bootstrap_getStatus(c) = "BS_FAILED"

LEMMA SecureQuiet ==
    ASSUME NEW c, NEW d, Quiet(c, d), Secure(c)
    PROVE  Secure(d)
<1>1. DOMAIN d.bs = DOMAIN c.bs
  BY DEF Quiet, SameEntries, SameList
<1> QED
  BY <1>1, KnowsQuiet DEF Secure

LEMMA BootstrapWakesAre ==
    ASSUME NEW c, IsContext(c)
    PROVE  BootstrapWakes(c, now) \subseteq Nat
<1>1. ASSUME NEW i \in DOMAIN c.bs
      PROVE  /\ c.bs[i].lifetime \in Nat
             /\ c.bs[i].registration > now => c.bs[i].registration - now \in Nat
  BY DEF IsContext, IsBsServer, IsEntry, now
<1> QED
  BY <1>1 DEF BootstrapWakes

LEMMA BootstrapsIs ==
    ASSUME NEW c, Good(c), Secure(c), c.state = "BOOTSTRAPPING", NEW fate
    PROVE  LET r == Bootstraps(c, fate)
           IN  /\ Good(r.ctx) /\ Quiet(c, r.ctx) /\ Secure(r.ctx) /\ r.ok
               /\ r.wakes \subseteq Nat /\ r.ctx.state = "BOOTSTRAPPING"
<1> DEFINE d == bootstrap_step(c, fate, now)
           r == Bootstraps(c, fate)
<1>1. r.ctx = d /\ r.ok /\ r.wakes = BootstrapWakes(c, now)
  BY DEF Bootstraps
<1>2. Good(d) /\ Quiet(c, d) /\ d.state = c.state
  BY BootstrapStepIs
<1>3. BootstrapWakes(c, now) \subseteq Nat
  BY BootstrapWakesAre DEF Good
<1> HIDE DEF d
<1> QED
  BY <1>1, <1>2, <1>3, SecureQuiet

LEMMA BootstrapRequiredIs ==
    ASSUME NEW c, Good(c), Secure(c), NEW fate
    PROVE  LET r == StepBootstrapRequired(c, fate)
           IN  Switched(c, r) /\ Quiet(c, r.ctx)
<1> DEFINE r == StepBootstrapRequired(c, fate)
<1>1. CASE DOMAIN c.bs = {}
  <2>1. r.ctx = c /\ r.ok = FALSE /\ r.wakes = {}
    BY <1>1 DEF StepBootstrapRequired, Unavailable
  <2>2. Quiet(c, c)
    BY DEF Quiet, SameEntries, SameAccounts, SameList, NoneRegistered, AddsOnly
  <2> HIDE DEF r
  <2> QED
    BY <1>1, <2>1, <2>2, QuietRenews DEF Switched, r
<1>2. CASE DOMAIN c.bs # {}
  <2> DEFINE b == bootstrap_start(c, fate)
             d == [b EXCEPT !.state = "BOOTSTRAPPING"]
  <2>1. Good(b) /\ Quiet(c, b)
    BY BootstrapStartIs
  <2>2. Good(d) /\ Quiet(b, d) /\ d.state = "BOOTSTRAPPING"
    BY <2>1, StateIsQuiet DEF States
  <2>3. r = Bootstraps(d, fate)
    BY <1>2 DEF StepBootstrapRequired
  <2> HIDE DEF b, d, r
  <2>4. Quiet(c, d) /\ Secure(d)
    BY <2>1, <2>2, QuietTwice, SecureQuiet
  <2>5. /\ Good(r.ctx) /\ Quiet(d, r.ctx) /\ Secure(r.ctx) /\ r.ok
        /\ r.wakes \subseteq Nat /\ r.ctx.state = "BOOTSTRAPPING"
    BY <2>2, <2>3, <2>4, BootstrapsIs
  <2>6. Quiet(c, r.ctx) /\ Renewed(c, r.ctx)
    BY <2>4, <2>5, QuietTwice, QuietRenews
  <2>7. r.ok \in BOOLEAN
    BY <2>3 DEF Bootstraps
  <2> QED
    BY <2>5, <2>6, <2>7 DEF Switched, r
<1> QED
  BY <1>1, <1>2

LEMMA RegisterRequiredIs ==
    ASSUME NEW c, Good(c), Secure(c)
    PROVE  LET r == StepRegisterRequired(c)
           IN  /\ Good(r.ctx) /\ Quiet(c, r.ctx) /\ Secure(r.ctx) /\ r.ok /\ r.ok \in BOOLEAN
               /\ r.wakes = {} /\ r.ctx.state = "REGISTERING"
<1> DEFINE q == registration_start(c, TRUE, now)
           d == [q.ctx EXCEPT !.state = "REGISTERING"]
           r == StepRegisterRequired(c)
<1>1. q.ok /\ Good(q.ctx) /\ Quiet(c, q.ctx)
  BY StartIsQuiet
<1>2. r.ctx = d /\ r.ok = TRUE /\ r.wakes = {}
  BY <1>1 DEF StepRegisterRequired, Registers, Continues
<1> HIDE DEF q
<1>3. Good(d) /\ Quiet(q.ctx, d) /\ d.state = "REGISTERING"
  BY <1>1, StateIsQuiet DEF States
<1> HIDE DEF d, r
<1>4. Quiet(c, d) /\ Secure(d)
  BY <1>1, <1>3, QuietTwice, SecureQuiet
<1> QED
  BY <1>2, <1>3, <1>4 DEF r

LEMMA SwitchedAfter ==
    ASSUME NEW c, NEW d, NEW r, Quiet(c, d), Switched(d, r), d.state # "BOOTSTRAPPING"
    PROVE  Switched(c, r)
<1>1. SameAccounts(c, d) /\ d.sec = c.sec
  BY DEF Quiet, SameEntries, SameAccounts
<1>2. SomeRefused(d) => SomeRefused(c)
  BY <1>1, RefusedSame DEF SomeRefused
<1>3. Renewed(c, r.ctx)
  BY QuietRenewed DEF Switched
<1> QED
  BY <1>2, <1>3 DEF Switched

LEMMA InitialIs ==
    ASSUME NEW c, Good(c), NEW fate
    PROVE  Switched(c, StepInitial(c, fate))
<1> DEFINE q == prv_refreshServerList(c)
           b == q.ctx
           r == StepInitial(c, fate)
<1>1. /\ Good(b) /\ Renewed(c, b)
      /\ ~q.ok => SomeRefused(c)
      /\ q.ok => Knows(b)
  BY RefreshIs DEF SomeRefused
<1>2. r = Refreshed(q, fate)
  BY DEF StepInitial
<1> HIDE DEF q, r
<1>3. CASE ~q.ok
  <2>1. r.ctx = b /\ r.ok = FALSE /\ r.wakes = {}
    BY <1>2, <1>3 DEF Refreshed, Unavailable
  <2> QED
    BY <1>1, <1>3, <2>1 DEF Switched, r
<1>4. CASE q.ok /\ DOMAIN b.servers # {}
  <2> DEFINE d == [b EXCEPT !.state = "REGISTER_REQUIRED"]
  <2>1. Good(d) /\ Quiet(b, d)
    BY <1>1, StateIsQuiet DEF States
  <2>2. r = StepRegisterRequired(d)
    BY <1>2, <1>4 DEF Refreshed
  <2> HIDE DEF d, b
  <2>3. Secure(d)
    BY <1>1, <1>4, <2>1, KnowsQuiet DEF Secure
  <2>4. /\ Good(r.ctx) /\ Quiet(d, r.ctx) /\ Secure(r.ctx) /\ r.ok /\ r.ok \in BOOLEAN
        /\ r.wakes = {} /\ r.ctx.state = "REGISTERING"
    BY <2>1, <2>2, <2>3, RegisterRequiredIs
  <2>5. Renewed(c, r.ctx)
    BY <1>1, <2>1, <2>4, RenewedQuiet, QuietTwice
  <2> QED
    BY <2>4, <2>5 DEF Switched, r
<1>5. CASE q.ok /\ DOMAIN b.servers = {}
  <2> DEFINE d == [b EXCEPT !.state = "BOOTSTRAP_REQUIRED"]
  <2>1. Good(d) /\ Quiet(b, d) /\ d.state = "BOOTSTRAP_REQUIRED"
    BY <1>1, StateIsQuiet DEF States
  <2>2. r = StepBootstrapRequired(d, fate)
    BY <1>2, <1>5 DEF Refreshed
  <2> HIDE DEF d, b
  <2>3. Secure(d)
    BY <1>1, <1>5, <2>1, KnowsQuiet DEF Secure
  <2>4. Switched(d, r) /\ Quiet(d, r.ctx)
    BY <2>1, <2>2, <2>3, BootstrapRequiredIs
  <2>5. Renewed(c, r.ctx)
    BY <1>1, <2>1, <2>4, RenewedQuiet, QuietTwice
  <2>6. SomeRefused(d) => SomeRefused(c)
    <3>1. SameAccounts(c, d) /\ d.sec = c.sec
      BY <1>1, <2>1 DEF Quiet, SameEntries, SameAccounts, Renewed
    <3> QED
      BY <3>1, RefusedSame DEF SomeRefused
  <2> QED
    BY <2>1, <2>4, <2>5, <2>6 DEF Switched, r
<1> QED
  BY <1>3, <1>4, <1>5

LEMMA ContinuesIs ==
    ASSUME NEW c, NEW d, Good(d), Quiet(c, d), Secure(c), d.state # "INITIAL"
    PROVE  Switched(c, Continues(d))
<1> DEFINE r == Continues(d)
<1>1. r.ctx = d /\ r.ok = TRUE /\ r.wakes = {}
  BY DEF Continues
<1>2. Renewed(c, d) /\ Secure(d)
  BY QuietRenews, SecureQuiet
<1> HIDE DEF r
<1> QED
  BY <1>1, <1>2 DEF Switched, r

LEMMA SwitchIs ==
    ASSUME NEW c, Good(c), NEW fate, c.state # "INITIAL" => Secure(c)
    PROVE  Switched(c, Switch(c, fate))
<1> DEFINE To(st) == [c EXCEPT !.state = st]
           r == Switch(c, fate)
<1>0. c.state \in States
  BY DEF Good, IsContext
<1>1. ASSUME NEW st \in States
      PROVE  /\ Good(To(st)) /\ Quiet(c, To(st)) /\ To(st).state = st
             /\ Secure(c) => Secure(To(st))
  <2>1. Good(To(st)) /\ Quiet(c, To(st)) /\ To(st).state = st
    BY StateIsQuiet
  <2> HIDE DEF To
  <2> QED
    BY <2>1, SecureQuiet
<1>2. Quiet(c, c)
  BY DEF Quiet, SameEntries, SameAccounts, SameList, NoneRegistered, AddsOnly
<1>3. Secure(c) => Switched(c, StepBootstrapRequired(To("BOOTSTRAP_REQUIRED"), fate))
  <2> DEFINE d == To("BOOTSTRAP_REQUIRED")
  <2>1. Good(d) /\ Quiet(c, d) /\ d.state = "BOOTSTRAP_REQUIRED" /\ (Secure(c) => Secure(d))
    BY <1>1 DEF States
  <2> HIDE DEF d
  <2> QED
    BY <2>1, BootstrapRequiredIs, SwitchedAfter DEF d
<1>4. CASE c.state = "INITIAL"
  BY <1>4, InitialIs DEF Switch
<1>5. CASE c.state = "BOOTSTRAP_REQUIRED"
  BY <1>5, BootstrapRequiredIs DEF Switch
<1>6. CASE c.state = "BOOTSTRAPPING"
  <2>0. r = StepBootstrapping(c, fate)
    BY <1>6 DEF Switch
  <2>1. CASE bootstrap_getStatus(c) = "BS_FINISHED"
    <3> DEFINE d == To("INITIAL")
    <3>1. Good(d) /\ Quiet(c, d) /\ d.state = "INITIAL"
      BY <1>1 DEF States
    <3>2. r = StepInitial(d, fate)
      BY <2>0, <2>1 DEF StepBootstrapping
    <3> HIDE DEF d, r
    <3> QED
      BY <3>1, <3>2, InitialIs, SwitchedAfter DEF r
  <2>2. CASE bootstrap_getStatus(c) = "BS_FAILED"
    <3>1. r = Unavailable(c)
      BY <2>0, <2>2 DEF StepBootstrapping
    <3>2. r.ctx = c /\ r.ok = FALSE /\ r.wakes = {}
      BY <3>1 DEF Unavailable
    <3> HIDE DEF r
    <3> QED
      BY <1>2, <1>6, <2>2, <3>2, QuietRenews DEF Switched, r
  <2>3. CASE bootstrap_getStatus(c) \notin {"BS_FINISHED", "BS_FAILED"}
    <3>1. r = Bootstraps(c, fate)
      BY <2>0, <2>3 DEF StepBootstrapping
    <3>2. r.ok = TRUE
      BY <3>1 DEF Bootstraps
    <3> HIDE DEF r
    <3>3. /\ Good(r.ctx) /\ Quiet(c, r.ctx) /\ Secure(r.ctx)
          /\ r.wakes \subseteq Nat /\ r.ctx.state = "BOOTSTRAPPING"
      BY <1>6, <3>1, BootstrapsIs
    <3> QED
      BY <3>2, <3>3, QuietRenews DEF Switched, r
  <2> QED
    BY <2>1, <2>2, <2>3
<1>7. CASE c.state = "REGISTER_REQUIRED"
  <2>1. r = StepRegisterRequired(c)
    BY <1>7 DEF Switch
  <2> HIDE DEF r
  <2>2. /\ Good(r.ctx) /\ Quiet(c, r.ctx) /\ Secure(r.ctx) /\ r.ok /\ r.ok \in BOOLEAN
        /\ r.wakes = {} /\ r.ctx.state = "REGISTERING"
    BY <1>7, <2>1, RegisterRequiredIs
  <2> QED
    BY <2>2, QuietRenews DEF Switched, r
<1>8. CASE c.state = "REGISTERING"
  <2>1. \/ r = Continues(To("READY")) \/ r = Continues(c)
        \/ r = StepBootstrapRequired(To("BOOTSTRAP_REQUIRED"), fate)
    BY <1>8 DEF Switch, StepRegistering
  <2>2. /\ Good(To("READY")) /\ Quiet(c, To("READY")) /\ To("READY").state # "INITIAL"
    BY <1>1 DEF States
  <2> HIDE DEF r, To
  <2> QED
    BY <1>2, <1>3, <1>8, <2>1, <2>2, ContinuesIs DEF r
<1>9. CASE c.state = "READY"
  <2>1. \/ r = Continues(c)
        \/ r = StepBootstrapRequired(To("BOOTSTRAP_REQUIRED"), fate)
    BY <1>9 DEF Switch, StepReady
  <2> HIDE DEF r, To
  <2> QED
    BY <1>2, <1>3, <1>9, <2>1, ContinuesIs DEF r
<1> QED
  BY <1>0, <1>4, <1>5, <1>6, <1>7, <1>8, <1>9 DEF States

LEMMA NextUpdateIs ==
    ASSUME NEW s, IsEntry(s)
    PROVE  NextUpdate(s) \in Int
<1>1. s.registration \in Int /\ s.lifetime \in Nat
  BY DEF IsEntry
<1>2. s.lifetime \div 2 \in Int /\ s.lifetime - MaxTransmitWait \in Int
  BY <1>1
<1> QED
  BY <1>1, <1>2 DEF NextUpdate

LEMMA RegistrationWakesAre ==
    ASSUME NEW c, IsContext(c)
    PROVE  /\ RegistrationWakes(c) \subseteq Nat
           /\ \A i \in DOMAIN c.servers :
                c.servers[i].status = "REGISTERED" /\ NextUpdate(c.servers[i]) > now =>
                    NextUpdate(c.servers[i]) \in RegistrationWakes(c)
<1>1. \A i \in DOMAIN c.servers : \A d \in ServerDue(c.servers[i]) : d \in Int
  <2> SUFFICES ASSUME NEW i \in DOMAIN c.servers
               PROVE  c.servers[i].registration \in Int /\ NextUpdate(c.servers[i]) \in Int
    BY DEF ServerDue
  <2>1. IsEntry(c.servers[i])
    BY DEF IsContext, IsServer
  <2> QED
    BY <2>1, NextUpdateIs DEF IsEntry
<1>2. RegistrationWakes(c) \subseteq Nat
  BY <1>1 DEF RegistrationWakes, now
<1>3. \A i \in DOMAIN c.servers : c.servers[i].status = "REGISTERED" =>
        NextUpdate(c.servers[i]) \in ServerDue(c.servers[i])
  BY DEF ServerDue
<1> QED
  BY <1>2, <1>3 DEF RegistrationWakes

\* lwm2m_step: what the switch makes, and when the next call is due.
Stepped(c, r) ==
    /\ Switched(c, r)
    /\ r.ok => /\ r.ctx.trans # {} => 1 \in r.wakes
               /\ \A i \in DOMAIN r.ctx.servers :
                    LET s == r.ctx.servers[i]
                    IN  s.status = "REGISTERED" /\ NextUpdate(s) > now => NextUpdate(s) \in r.wakes

LEMMA StepIs ==
    ASSUME NEW c, Good(c), NEW fate, c.state # "INITIAL" => Secure(c)
    PROVE  Stepped(c, lwm2m_step(c, fate))
<1> DEFINE q == Switch(c, fate)
           r == lwm2m_step(c, fate)
           b == q.ctx
           d == registration_step(b, fate, now)
<1>1. Switched(c, q)
  BY SwitchIs
<1>2. r = IF q.ok THEN Waking(q, d) ELSE q
  BY DEF lwm2m_step, AfterSwitch
<1> HIDE DEF q, r
<1>3. CASE ~q.ok
  BY <1>1, <1>2, <1>3 DEF Stepped, r
<1>4. CASE q.ok
  <2>1. /\ r.ctx = d /\ r.ok = TRUE
        /\ r.wakes = q.wakes \cup RegistrationWakes(b) \cup TransactionWakes(d)
    BY <1>2, <1>4 DEF Waking
  <2>2. Good(b) /\ IsContext(b) /\ Renewed(c, b) /\ Secure(b) /\ b.state # "INITIAL"
    BY <1>1, <1>4 DEF Switched, Good
  <2>3. Good(d) /\ Quiet(b, d) /\ d.state = b.state
    BY <2>2, RegistrationStepIs
  <2>4. /\ RegistrationWakes(b) \subseteq Nat
        /\ \A i \in DOMAIN b.servers :
             b.servers[i].status = "REGISTERED" /\ NextUpdate(b.servers[i]) > now =>
                 NextUpdate(b.servers[i]) \in RegistrationWakes(b)
    BY <2>2, RegistrationWakesAre
  <2> HIDE DEF b, d
  <2>5. Renewed(c, d) /\ Secure(d)
    BY <2>2, <2>3, RenewedQuiet, SecureQuiet
  <2>6. /\ TransactionWakes(d) \subseteq Nat
        /\ d.trans # {} => 1 \in TransactionWakes(d)
    BY DEF TransactionWakes
  <2>7. Switched(c, r)
    BY <1>1, <2>1, <2>2, <2>3, <2>4, <2>5, <2>6 DEF Switched
  <2>8. ASSUME NEW i \in DOMAIN d.servers,
               d.servers[i].status = "REGISTERED", NextUpdate(d.servers[i]) > now
        PROVE  NextUpdate(d.servers[i]) \in r.wakes
    <3>1. /\ i \in DOMAIN b.servers /\ b.servers[i].status = "REGISTERED"
          /\ d.servers[i].registration = b.servers[i].registration
          /\ d.servers[i].lifetime = b.servers[i].lifetime
      BY <2>3, <2>8 DEF Quiet, NoneRegistered
    <3>2. NextUpdate(d.servers[i]) = NextUpdate(b.servers[i])
      BY <3>1 DEF NextUpdate
    <3> QED
      BY <2>1, <2>4, <2>8, <3>1, <3>2
  <2>9. d.trans # {} => 1 \in r.wakes
    BY <2>1, <2>6
  <2> QED
    BY <2>1, <2>7, <2>8, <2>9 DEF Stepped, r
<1> QED
  BY <1>3, <1>4

-----------------------------------------------------------------------------
(* Replies                                                                  *)

LEMMA SetServerIs ==
    ASSUME NEW c, IsContext(c), NEW i \in DOMAIN c.servers, NEW s, IsServer(s)
    PROVE  LET d == SetServer(c, i, s)
           IN  /\ IsContext(d) /\ SameAccounts(c, d) /\ d.state = c.state /\ d.bs = c.bs
               /\ d.trans = c.trans /\ DOMAIN d.servers = DOMAIN c.servers
               /\ d.servers[i] = s /\ \A j \in DOMAIN c.servers \ {i} : d.servers[j] = c.servers[j]
<1> DEFINE f == [c.servers EXCEPT ![i] = s]
           d == SetServer(c, i, s)
<1>1. d = [c EXCEPT !.servers = f]
  BY DEF SetServer
<1>2. IsRecord(c) /\ IsObject(c.servers) /\ DOMAIN c.servers \cap DOMAIN c.bs = {}
  BY DEF IsContext
<1>3. /\ DOMAIN f = DOMAIN c.servers /\ f = [j \in DOMAIN f |-> f[j]]
      /\ f[i] = s /\ \A j \in DOMAIN c.servers \ {i} : f[j] = c.servers[j]
  OBVIOUS
<1> HIDE DEF f, d
<1>4. IsObject(f) /\ DOMAIN f \cap DOMAIN c.bs = {} /\ \A j \in DOMAIN f : IsServer(f[j])
  BY <1>2, <1>3 DEF IsObject, IsContext
<1>5. IsContext(d)
  BY <1>1, <1>4, ServersIs
<1>6. /\ d.servers = f /\ SameAccounts(c, d) /\ d.state = c.state /\ d.bs = c.bs /\ d.trans = c.trans
  BY <1>1, <1>2, RecordServers DEF SameAccounts
<1> QED
  BY <1>3, <1>5, <1>6 DEF d

LEMMA SetBsIs ==
    ASSUME NEW c, IsContext(c), NEW i \in DOMAIN c.bs, NEW s, IsBsServer(s)
    PROVE  LET d == SetBs(c, i, s)
           IN  /\ IsContext(d) /\ SameAccounts(c, d) /\ d.state = c.state /\ d.servers = c.servers
               /\ d.trans = c.trans /\ DOMAIN d.bs = DOMAIN c.bs
               /\ d.bs[i] = s /\ \A j \in DOMAIN c.bs \ {i} : d.bs[j] = c.bs[j]
<1> DEFINE f == [c.bs EXCEPT ![i] = s]
           d == SetBs(c, i, s)
<1>1. d = [c EXCEPT !.bs = f]
  BY DEF SetBs
<1>2. IsRecord(c) /\ IsObject(c.bs) /\ DOMAIN c.servers \cap DOMAIN c.bs = {}
  BY DEF IsContext
<1>3. /\ DOMAIN f = DOMAIN c.bs /\ f = [j \in DOMAIN f |-> f[j]]
      /\ f[i] = s /\ \A j \in DOMAIN c.bs \ {i} : f[j] = c.bs[j]
  OBVIOUS
<1> HIDE DEF f, d
<1>4. IsObject(f) /\ DOMAIN c.servers \cap DOMAIN f = {} /\ \A j \in DOMAIN f : IsBsServer(f[j])
  BY <1>2, <1>3 DEF IsObject, IsContext
<1>5. IsContext(d)
  BY <1>1, <1>4, BsIs
<1>6. /\ d.bs = f /\ SameAccounts(c, d) /\ d.state = c.state /\ d.servers = c.servers
      /\ d.trans = c.trans
  BY <1>1, <1>2, RecordBs DEF SameAccounts
<1> QED
  BY <1>3, <1>5, <1>6 DEF d

\* Entry e is s but for where its registration has got to, and neither waits nor is
\* registered.
Halted(s, e) ==
    /\ IsServer(e) /\ e.status \in {"DEREGISTERED", "REG_FAILED", "REG_HOLD_OFF"}
    /\ Differs(s, e, {"attempt", "sequence", "status", "registration"})

LEMMA FailedIs ==
    ASSUME NEW s, IsServer(s)
    PROVE  Halted(s, [s EXCEPT !.status = "REG_FAILED"])
<1> DEFINE e == [s EXCEPT !.status = "REG_FAILED"]
<1>1. IsEntry(e) /\ Differs(s, e, {"status"}) /\ e.status = "REG_FAILED"
  BY StatusIs DEF IsServer
<1> HIDE DEF e
<1>2. IsServer(e)
  BY <1>1 DEF IsServer, Differs, EntryFields, Managed, Statuses
<1>3. Halted(s, e)
  BY <1>1, <1>2 DEF Halted, Differs
<1> QED
  BY <1>3 DEF e

LEMMA HeldOffIs ==
    ASSUME NEW s, IsServer(s), NEW n \in Int, s.attempt <= 253, s.attempt >= 1
    PROVE  Halted(s, [s EXCEPT !.status = "REG_HOLD_OFF", !.registration = n])
<1> DEFINE e == [s EXCEPT !.status = "REG_HOLD_OFF", !.registration = n]
<1>0. IsEntry(s)
  BY DEF IsServer
<1>1. Differs(s, e, {"status", "registration"}) /\ e.status = "REG_HOLD_OFF" /\ e.registration = n
  BY <1>0 DEF IsEntry, Differs, EntryFields
<1> HIDE DEF e
<1>2. IsEntry(e)
  BY <1>0, <1>1 DEF IsEntry, Differs, EntryFields
<1>3. IsServer(e)
  BY <1>1, <1>2 DEF IsServer, Differs, EntryFields, Managed, Statuses
<1>4. Halted(s, e)
  BY <1>1, <1>3 DEF Halted, Differs
<1> QED
  BY <1>4 DEF e

LEMMA NextSequenceIs ==
    ASSUME NEW s, IsServer(s), NEW n \in Int, s.sequence <= 253
    PROVE  Halted(s, [s EXCEPT !.registration = n, !.status = "REG_HOLD_OFF", !.attempt = 0])
<1> DEFINE e == [s EXCEPT !.registration = n, !.status = "REG_HOLD_OFF", !.attempt = 0]
<1>0. IsEntry(s)
  BY DEF IsServer
<1>1. /\ Differs(s, e, {"status", "registration", "attempt"}) /\ e.status = "REG_HOLD_OFF"
      /\ e.registration = n /\ e.attempt = 0
  BY <1>0 DEF IsEntry, Differs, EntryFields
<1> HIDE DEF e
<1>2. IsEntry(e)
  BY <1>0, <1>1 DEF IsEntry, Differs, EntryFields
<1>3. IsServer(e)
  BY <1>1, <1>2 DEF IsServer, Differs, EntryFields, Managed, Statuses
<1>4. Halted(s, e)
  BY <1>1, <1>3 DEF Halted, Differs
<1> QED
  BY <1>4 DEF e

LEMMA AttemptLimitIs ==
    ASSUME NEW c, IsContext(c), NEW i \in DOMAIN c.servers
    PROVE  LET l == prv_getRegistrationAttemptLimit(c, i)
           IN  l.limit \in 0 .. 254 /\ l.delay \in Nat
<1> DEFINE n == Default(Resource(c, i, "attempts"), Attempts)
           m == Default(Resource(c, i, "attemptDelay"), AttemptDelay)
<1>1. n \in Nat /\ m \in Nat
  BY NumberIs
<1> HIDE DEF n, m
<1>2. Bad \notin {n, m}
  BY <1>1
<1>3. Min({n, 254}) \in Nat /\ Min({n, 254}) <= 254
  <2>1. {n, 254} \in SUBSET Nat /\ {n, 254} # {} /\ 254 \in {n, 254}
    BY <1>1
  <2> QED
    BY <2>1, MinIs
<1>4. prv_getRegistrationAttemptLimit(c, i) = [limit |-> Min({n, 254}), delay |-> m]
  BY <1>2 DEF prv_getRegistrationAttemptLimit, n, m
<1> QED
  BY <1>1, <1>3, <1>4

LEMMA SequenceLimitIs ==
    ASSUME NEW c, IsContext(c), NEW i \in DOMAIN c.servers
    PROVE  LET l == prv_getRegistrationSequenceLimit(c, i)
           IN  l.limit \in 0 .. 254 /\ l.delay \in Nat
<1> DEFINE n == Default(Resource(c, i, "sequences"), 1)
           m == Default(Resource(c, i, "sequenceDelay"), SequenceDelay)
<1>1. n \in Nat /\ m \in Nat
  BY NumberIs
<1> HIDE DEF n, m
<1>2. Bad \notin {n, m}
  BY <1>1
<1>3. Min({n, 254}) \in Nat /\ Min({n, 254}) <= 254
  <2>1. {n, 254} \in SUBSET Nat /\ {n, 254} # {} /\ 254 \in {n, 254}
    BY <1>1
  <2> QED
    BY <2>1, MinIs
<1>4. prv_getRegistrationSequenceLimit(c, i) = [limit |-> Min({n, 254}), delay |-> m]
  BY <1>2 DEF prv_getRegistrationSequenceLimit, n, m
<1> QED
  BY <1>1, <1>3, <1>4

LEMMA ShiftIs ==
    ASSUME NEW n \in Nat
    PROVE  Shift(n) \in Int
  BY ShiftedPositive DEF Shift

\* A registration fails: entry i halts, and others that were idle may.
Halts(c, d, i) ==
    /\ IsContext(d) /\ SameAccounts(c, d) /\ d.bs = c.bs /\ d.trans = c.trans
    /\ d.state \in {c.state, "BOOTSTRAP_REQUIRED"}
    /\ DOMAIN d.servers = DOMAIN c.servers
    /\ Halted(c.servers[i], d.servers[i])
    /\ \A j \in DOMAIN c.servers \ {i} :
         \/ d.servers[j] = c.servers[j]
         \/ /\ c.servers[j].status \in {"DEREGISTERED", "REG_FAILED"}
            /\ Halted(c.servers[j], d.servers[j])

LEMMA HaltsNow ==
    ASSUME NEW c, NEW b, NEW i \in DOMAIN c.servers, IsContext(b), SameAccounts(c, b),
           b.bs = c.bs, b.trans = c.trans, b.state = c.state, DOMAIN b.servers = DOMAIN c.servers,
           \A j \in DOMAIN c.servers :
                \/ b.servers[j] = c.servers[j]
                \/ /\ c.servers[j].status \in {"DEREGISTERED", "REG_FAILED"}
                   /\ Halted(c.servers[j], b.servers[j]),
           NEW e, Halted(c.servers[i], e)
    PROVE  Halts(c, SetServer(b, i, e), i)
<1> DEFINE d == SetServer(b, i, e)
<1>1. IsServer(e) /\ i \in DOMAIN b.servers
  BY DEF Halted
<1>2. /\ IsContext(d) /\ SameAccounts(b, d) /\ d.state = b.state /\ d.bs = b.bs
      /\ d.trans = b.trans /\ DOMAIN d.servers = DOMAIN b.servers
      /\ d.servers[i] = e /\ \A j \in DOMAIN b.servers \ {i} : d.servers[j] = b.servers[j]
  BY <1>1, SetServerIs
<1> HIDE DEF d
<1>3. Halts(c, d, i)
  BY <1>2 DEF Halts, SameAccounts
<1> QED
  BY <1>3 DEF d

\* The ordered servers behind one that blocks them fail with it.
LEMMA BlockedIs ==
    ASSUME NEW c, NEW b, NEW i \in DOMAIN c.servers, Halts(c, b, i), b.servers[i].status = "REG_FAILED",
           NEW S
    PROVE  Halts(c, [b EXCEPT !.servers =
                        [j \in DOMAIN b.servers |->
                            IF b.servers[j].status = "DEREGISTERED" /\ j \in S
                            THEN [b.servers[j] EXCEPT !.status = "REG_FAILED"]
                            ELSE b.servers[j]]], i)
<1> DEFINE f == [j \in DOMAIN b.servers |->
                    IF b.servers[j].status = "DEREGISTERED" /\ j \in S
                    THEN [b.servers[j] EXCEPT !.status = "REG_FAILED"] ELSE b.servers[j]]
           d == [b EXCEPT !.servers = f]
<1>1. /\ IsContext(b) /\ IsRecord(b) /\ IsObject(b.servers)
      /\ DOMAIN b.servers \cap DOMAIN b.bs = {} /\ \A j \in DOMAIN b.servers : IsServer(b.servers[j])
  BY DEF Halts, IsContext
<1>2. /\ DOMAIN f = DOMAIN b.servers /\ f = [j \in DOMAIN f |-> f[j]]
  OBVIOUS
<1>3. ASSUME NEW j \in DOMAIN b.servers
      PROVE  /\ IsServer(f[j])
             /\ \/ f[j] = b.servers[j]
                \/ b.servers[j].status = "DEREGISTERED" /\ Halted(b.servers[j], f[j])
  <2> DEFINE e == [b.servers[j] EXCEPT !.status = "REG_FAILED"]
  <2>1. Halted(b.servers[j], e) /\ IsServer(e)
    BY <1>1, FailedIs DEF Halted
  <2>2. f[j] = b.servers[j] \/ (b.servers[j].status = "DEREGISTERED" /\ f[j] = e)
    OBVIOUS
  <2> HIDE DEF e, f
  <2> QED
    BY <1>1, <2>1, <2>2
<1> HIDE DEF f
<1>4. IsObject(f) /\ DOMAIN f \cap DOMAIN b.bs = {}
  BY <1>1, <1>2 DEF IsObject
<1>5. d = [b EXCEPT !.servers = f]
  OBVIOUS
<1> HIDE DEF d
<1>6. IsContext(d)
  BY <1>1, <1>2, <1>3, <1>4, <1>5, ServersIs
<1>7. /\ d.servers = f /\ SameAccounts(b, d) /\ d.state = b.state /\ d.bs = b.bs /\ d.trans = b.trans
  BY <1>1, <1>5, RecordServers DEF SameAccounts
<1>8. ASSUME NEW j \in DOMAIN c.servers \ {i}
      PROVE  \/ f[j] = c.servers[j]
             \/ /\ c.servers[j].status \in {"DEREGISTERED", "REG_FAILED"}
                /\ Halted(c.servers[j], f[j])
  <2>1. j \in DOMAIN b.servers
    BY DEF Halts
  <2>2. CASE f[j] = b.servers[j]
    BY <2>2 DEF Halts
  <2>3. CASE b.servers[j].status = "DEREGISTERED" /\ Halted(b.servers[j], f[j])
    <3>1. CASE b.servers[j] = c.servers[j]
      BY <2>3, <3>1
    <3>2. CASE /\ c.servers[j].status \in {"DEREGISTERED", "REG_FAILED"}
               /\ Halted(c.servers[j], b.servers[j])
      BY <2>3, <3>2 DEF Halted, Differs
    <3> QED
      BY <3>1, <3>2 DEF Halts
  <2> QED
    BY <1>3, <2>1, <2>2, <2>3
<1>9. f[i] = b.servers[i] /\ Halted(c.servers[i], f[i])
  <2>1. i \in DOMAIN b.servers /\ Halted(c.servers[i], b.servers[i])
    BY DEF Halts
  <2> QED
    BY <1>3, <2>1
<1>10. /\ SameAccounts(c, b) /\ b.state \in {c.state, "BOOTSTRAP_REQUIRED"} /\ b.bs = c.bs
       /\ b.trans = c.trans /\ DOMAIN b.servers = DOMAIN c.servers
  BY DEF Halts
<1>11. SameAccounts(c, d)
  BY <1>7, <1>10 DEF SameAccounts
<1>12. Halts(c, d, i)
  BY <1>2, <1>6, <1>7, <1>8, <1>9, <1>10, <1>11 DEF Halts
<1> QED
  BY <1>12 DEF d, f

LEMMA SequenceFailureIs ==
    ASSUME NEW c, IsContext(c), NEW i \in DOMAIN c.servers, c.servers[i].status = "REG_PENDING"
    PROVE  Halts(c, prv_handleRegistrationSequenceFailure(c, i, now), i)
<1> DEFINE s == c.servers[i]
           b(skip) == IF skip THEN registration_start(c, FALSE, now).ctx ELSE c
           limit == prv_getRegistrationSequenceLimit(c, i)
           held == [s EXCEPT !.registration = now + limit.delay, !.status = "REG_HOLD_OFF", !.attempt = 0]
           failed(skip) == SetServer(b(skip), i, [s EXCEPT !.status = "REG_FAILED"])
           d == prv_handleRegistrationSequenceFailure(c, i, now)
           F == {j \in DOMAIN c.servers : Ordered(c, j)}
           blocked(e) == [e EXCEPT !.servers =
                            [j \in DOMAIN e.servers |->
                                IF e.servers[j].status = "DEREGISTERED" /\ j \in F
                                THEN [e.servers[j] EXCEPT !.status = "REG_FAILED"] ELSE e.servers[j]]]
<1>1. IsServer(s) /\ IsEntry(s)
  BY DEF IsContext, IsServer
<1>2. ASSUME NEW skip \in BOOLEAN
      PROVE  /\ IsContext(b(skip)) /\ SameAccounts(c, b(skip)) /\ b(skip).bs = c.bs
             /\ b(skip).trans = c.trans /\ b(skip).state = c.state
             /\ DOMAIN b(skip).servers = DOMAIN c.servers
             /\ \A j \in DOMAIN c.servers :
                  \/ b(skip).servers[j] = c.servers[j]
                  \/ /\ c.servers[j].status \in {"DEREGISTERED", "REG_FAILED"}
                     /\ Halted(c.servers[j], b(skip).servers[j])
  <2>1. CASE skip
    <3> DEFINE x == registration_start(c, FALSE, now).ctx
    <3>1. /\ IsContext(x) /\ SameAccounts(c, x) /\ x.bs = c.bs /\ x.trans = c.trans
          /\ x.state = c.state /\ DOMAIN x.servers = DOMAIN c.servers
          /\ \A j \in DOMAIN c.servers :
               IsServer(x.servers[j]) /\ StartedFrom(c.servers[j], x.servers[j])
      BY StartIs
    <3>2. b(skip) = x
      BY <2>1
    <3> HIDE DEF x
    <3>3. \A j \in DOMAIN c.servers :
               \/ x.servers[j] = c.servers[j]
               \/ /\ c.servers[j].status \in {"DEREGISTERED", "REG_FAILED"}
                  /\ Halted(c.servers[j], x.servers[j])
      BY <3>1 DEF StartedFrom, Halted
    <3> QED
      BY <3>1, <3>2, <3>3
  <2>2. CASE ~skip
    BY <2>2 DEF SameAccounts
  <2> QED
    BY <2>1, <2>2
<1>3. /\ limit.limit \in 0 .. 254 /\ limit.delay \in Nat
  BY SequenceLimitIs
<1>4. \E skip \in BOOLEAN :
        \/ d = failed(skip)
        \/ s.sequence < limit.limit /\ d = SetServer(b(skip), i, held)
        \/ d = [failed(skip) EXCEPT !.state = "BOOTSTRAP_REQUIRED"]
        \/ d = blocked(failed(skip))
  <2> DEFINE skip == /\ Ordered(c, i) /\ prv_getRegistrationFailureBlocking(c, i) = FALSE
                     /\ s.sequence = 1
  <2>1. skip \in BOOLEAN
    OBVIOUS
  <2>2. DOMAIN failed(skip).servers = DOMAIN c.servers
    <3>1. /\ IsContext(b(skip)) /\ DOMAIN b(skip).servers = DOMAIN c.servers
          /\ IsServer([s EXCEPT !.status = "REG_FAILED"])
      BY <1>1, <1>2, <2>1, FailedIs DEF Halted
    <3> HIDE DEF b, s, skip
    <3> QED
      BY <3>1, SetServerIs DEF s
  <2>3. blocked(failed(skip)) =
          [failed(skip) EXCEPT !.servers =
            [j \in DOMAIN failed(skip).servers |->
              IF failed(skip).servers[j].status = "DEREGISTERED" /\ Ordered(c, j)
              THEN [failed(skip).servers[j] EXCEPT !.status = "REG_FAILED"]
              ELSE failed(skip).servers[j]]]
    <3> HIDE DEF failed, skip
    <3> QED
      BY <2>2
  <2> HIDE DEF blocked
  <2> QED
    BY <2>1, <2>3 DEF prv_handleRegistrationSequenceFailure
<1>5. PICK skip \in BOOLEAN :
        \/ d = failed(skip)
        \/ s.sequence < limit.limit /\ d = SetServer(b(skip), i, held)
        \/ d = [failed(skip) EXCEPT !.state = "BOOTSTRAP_REQUIRED"]
        \/ d = blocked(failed(skip))
  BY <1>4
<1> HIDE DEF b, d, limit, F
<1>6. Halts(c, failed(skip), i) /\ failed(skip).servers[i].status = "REG_FAILED"
  <2> DEFINE x == b(skip)
             e == [s EXCEPT !.status = "REG_FAILED"]
  <2>1. Halted(s, e) /\ IsServer(e) /\ e.status = "REG_FAILED"
    BY <1>1, FailedIs, StatusIs DEF Halted
  <2> HIDE DEF x, e
  <2>2. Halts(c, SetServer(x, i, e), i)
    BY <1>2, <2>1, HaltsNow DEF x
  <2>3. SetServer(x, i, e).servers[i] = e
    BY <1>2, <2>1, SetServerIs DEF x
  <2> QED
    BY <2>1, <2>2, <2>3 DEF x, e
<1>7. CASE s.sequence < limit.limit /\ d = SetServer(b(skip), i, held)
  <2>1. now + limit.delay \in Int /\ s.sequence <= 253
    <3> DEFINE q == s.sequence
               l == limit.limit
               w == limit.delay
    <3>1. q \in 0 .. 254 /\ q < l
      BY <1>1, <1>7 DEF IsEntry
    <3>2. l \in 0 .. 254 /\ w \in Nat
      BY <1>3
    <3> HIDE DEF q, l, w
    <3>3. now + w \in Int /\ q <= 253
      BY <3>1, <3>2 DEF now
    <3> QED
      BY <3>3 DEF q, w
  <2> DEFINE x == b(skip)
  <2> HIDE DEF s
  <2>2. Halted(s, held)
    BY <1>1, <2>1, NextSequenceIs
  <2> HIDE DEF x, held
  <2>3. Halts(c, SetServer(x, i, held), i)
    BY <1>2, <2>2, HaltsNow DEF x, s
  <2> QED
    BY <1>7, <2>3 DEF x, d
<1> HIDE DEF failed
<1>8. CASE d = [failed(skip) EXCEPT !.state = "BOOTSTRAP_REQUIRED"]
  <2> DEFINE x == failed(skip)
  <2>1. IsContext(x) /\ IsRecord(x) /\ "BOOTSTRAP_REQUIRED" \in States
    BY <1>6 DEF Halts, IsContext, States
  <2> HIDE DEF x
  <2>2. /\ IsContext(d) /\ d.state = "BOOTSTRAP_REQUIRED" /\ d.bs = x.bs /\ d.servers = x.servers
        /\ SameAccounts(x, d) /\ d.trans = x.trans
    BY <1>8, <2>1, StateIs, RecordState DEF x, SameAccounts
  <2>3. Halts(c, d, i)
    BY <1>6, <2>2 DEF x, Halts, SameAccounts
  <2> QED
    BY <2>3 DEF d
<1>9. CASE d = blocked(failed(skip))
  <2> DEFINE x == failed(skip)
  <2>1. Halts(c, x, i) /\ x.servers[i].status = "REG_FAILED"
    BY <1>6
  <2> HIDE DEF x
  <2>2. Halts(c, d, i)
    BY <1>9, <2>1, BlockedIs DEF x
  <2> QED
    BY <2>2 DEF d
<1> QED
  BY <1>5, <1>6, <1>7, <1>8, <1>9 DEF d

LEMMA AttemptFailureIs ==
    ASSUME NEW c, IsContext(c), NEW i \in DOMAIN c.servers, c.servers[i].status = "REG_PENDING"
    PROVE  Halts(c, prv_handleRegistrationAttemptFailure(c, i, now), i)
<1> DEFINE s == c.servers[i]
           limit == prv_getRegistrationAttemptLimit(c, i)
           n == now + limit.delay * Shift(s.attempt - 1)
           d == prv_handleRegistrationAttemptFailure(c, i, now)
           failed == [s EXCEPT !.status = "REG_FAILED"]
           held == [s EXCEPT !.status = "REG_HOLD_OFF", !.registration = n]
<1>1. IsServer(s) /\ IsEntry(s) /\ s.attempt >= 1 /\ s.attempt \in 0 .. 254
  <2> HIDE DEF limit, n, d, failed, held
  <2>1. IsServer(s) /\ s.status = "REG_PENDING"
    BY DEF IsContext
  <2> HIDE DEF s
  <2>2. IsEntry(s) /\ s.attempt >= 1
    BY <2>1 DEF IsServer
  <2> QED
    BY <2>1, <2>2 DEF IsEntry
<1>2. limit.limit \in 0 .. 254 /\ limit.delay \in Nat
  BY AttemptLimitIs
<1>3. \/ d = SetServer(c, i, failed)
      \/ d = prv_handleRegistrationSequenceFailure(c, i, now)
      \/ s.attempt < limit.limit /\ d = SetServer(c, i, held)
  <2> HIDE DEF s, failed, held, n
  <2>1. \/ d = SetServer(c, i, failed)
        \/ d = prv_handleRegistrationSequenceFailure(c, i, now)
        \/ ~(s.attempt >= limit.limit) /\ d = SetServer(c, i, held)
    BY DEF prv_handleRegistrationAttemptFailure, s, failed, held, n
  <2> HIDE DEF limit, d
  <2>2. s.attempt \in Int /\ limit.limit \in Int
    <3>1. s.attempt \in 0 .. 254 /\ limit.limit \in 0 .. 254
      BY <1>1, <1>2
    <3> QED
      BY <3>1
  <2>3. ~(s.attempt >= limit.limit) => s.attempt < limit.limit
    BY <2>2
  <2> QED
    BY <2>1, <2>3
<1> HIDE DEF limit, d
<1>4. SameAccounts(c, c)
  BY DEF SameAccounts
<1>5. CASE d = SetServer(c, i, failed)
  <2>1. Halted(s, failed)
    BY <1>1, FailedIs
  <2> HIDE DEF failed
  <2> QED
    BY <1>4, <1>5, <2>1, HaltsNow DEF d
<1>6. CASE d = prv_handleRegistrationSequenceFailure(c, i, now)
  BY <1>6, SequenceFailureIs DEF d
<1>7. CASE s.attempt < limit.limit /\ d = SetServer(c, i, held)
  <2>1. s.attempt <= 253 /\ s.attempt - 1 \in Nat
    <3> DEFINE a == s.attempt
               b == limit.limit
    <3>1. a \in 0 .. 254 /\ b \in 0 .. 254 /\ a >= 1 /\ a < b
      BY <1>1, <1>2, <1>7
    <3> HIDE DEF a, b
    <3>2. a <= 253 /\ a - 1 \in Nat
      BY <3>1
    <3> QED
      BY <3>2 DEF a
  <2>2. n \in Int
    <3> DEFINE x == Shift(s.attempt - 1)
    <3>1. x \in Int
      BY <2>1, ShiftIs
    <3> HIDE DEF x
    <3>2. limit.delay * x \in Int
      BY <1>2, <3>1
    <3> QED
      BY <3>2 DEF x, now
  <2> HIDE DEF s, n
  <2>3. Halted(s, held)
    BY <1>1, <2>1, <2>2, HeldOffIs
  <2> HIDE DEF held
  <2> QED
    BY <1>4, <1>7, <2>3, HaltsNow DEF d, s
<1> QED
  BY <1>3, <1>5, <1>6, <1>7

\* A bootstrap is under way.
Busy == {"BS_HOLD_OFF", "BS_INITIATED", "BS_PENDING", "BS_FINISHING", "BS_FAILING"}

StaysBusy(f, g) == \A j \in DOMAIN f : f[j].status \in Busy => j \in DOMAIN g /\ g[j].status \in Busy

\* List g waits for no answer but those that f waits for.
KeepsWaiting(f, g) ==
    \A j \in DOMAIN g : g[j].status \in Waiting =>
        /\ j \in DOMAIN f /\ g[j].status = f[j].status
        /\ g[j].node = f[j].node /\ g[j].session = f[j].session
        /\ g[j].dropped = f[j].dropped

\* What a callback does for server i; granted if the answer says it is registered.
Answers(c, d, i, granted) ==
    /\ IsContext(d) /\ SameEntries(c, d) /\ d.trans = c.trans
    /\ d.state \in {c.state, "BOOTSTRAP_REQUIRED"}
    /\ KeepsWaiting(c.servers, d.servers) /\ KeepsWaiting(c.bs, d.bs) /\ StaysBusy(c.bs, d.bs)
    /\ \A j \in DOMAIN d.servers : d.servers[j].status = "REGISTERED" =>
         \/ /\ c.servers[j].status = "REGISTERED"
            /\ d.servers[j].registration = c.servers[j].registration
            /\ d.servers[j].lifetime = c.servers[j].lifetime
         \/ granted /\ j = i /\ d.servers[j].registration = now

LEMMA AnswersTwice ==
    ASSUME NEW c, NEW d, NEW e, NEW i, NEW g, Answers(c, d, i, g), Answers(d, e, i, FALSE)
    PROVE  Answers(c, e, i, g)
<1>1. SameEntries(c, e)
  BY DEF Answers, SameEntries, SameAccounts, SameList
<1>2. KeepsWaiting(c.servers, e.servers) /\ KeepsWaiting(c.bs, e.bs) /\ StaysBusy(c.bs, e.bs)
  BY DEF Answers, KeepsWaiting, StaysBusy
<1>3. \A j \in DOMAIN e.servers : e.servers[j].status = "REGISTERED" =>
         \/ /\ c.servers[j].status = "REGISTERED"
            /\ e.servers[j].registration = c.servers[j].registration
            /\ e.servers[j].lifetime = c.servers[j].lifetime
         \/ g /\ j = i /\ e.servers[j].registration = now
  <2>1. DOMAIN e.servers = DOMAIN d.servers
    BY DEF Answers, SameEntries, SameList
  <2> QED
    BY <2>1 DEF Answers
<1> QED
  BY <1>1, <1>2, <1>3 DEF Answers

LEMMA AnswersSame ==
    ASSUME NEW c, IsContext(c), NEW i, NEW g
    PROVE  Answers(c, c, i, g)
  BY DEF Answers, SameEntries, SameAccounts, SameList, KeepsWaiting, StaysBusy

LEMMA HaltsAnswers ==
    ASSUME NEW c, NEW d, NEW i \in DOMAIN c.servers, Halts(c, d, i)
    PROVE  Answers(c, d, i, FALSE) /\ d.servers[i].status \notin Waiting
<1>1. ASSUME NEW j \in DOMAIN c.servers
      PROVE  d.servers[j] = c.servers[j] \/ Halted(c.servers[j], d.servers[j])
  BY DEF Halts
<1>2. SameEntries(c, d)
  BY <1>1 DEF Halts, SameEntries, SameList, Halted, Differs, EntryFields
<1>3. KeepsWaiting(c.servers, d.servers)
  BY <1>1 DEF Halts, KeepsWaiting, Halted, Waiting
<1>4. KeepsWaiting(c.bs, d.bs) /\ StaysBusy(c.bs, d.bs)
  BY DEF Halts, KeepsWaiting, StaysBusy
<1>5. \A j \in DOMAIN d.servers : d.servers[j].status = "REGISTERED" => d.servers[j] = c.servers[j]
  BY <1>1 DEF Halts, Halted
<1>6. d.servers[i].status \notin Waiting
  BY DEF Halts, Halted, Waiting
<1> QED
  BY <1>2, <1>3, <1>4, <1>5, <1>6 DEF Halts, Answers

\* An answer that changes entry i alone.
LEMMA AnswersOne ==
    ASSUME NEW c, IsContext(c), NEW i \in DOMAIN c.servers, NEW e, IsServer(e),
           Differs(c.servers[i], e, {"registration", "status", "location"}),
           e.status \in Waiting => e.status = c.servers[i].status,
           e.status = "REGISTERED" => e.registration = now
    PROVE  LET d == SetServer(c, i, e)
           IN  /\ \A g \in BOOLEAN : (e.status = "REGISTERED" => g) => Answers(c, d, i, g)
               /\ d.servers[i] = e
<1> DEFINE d == SetServer(c, i, e)
<1>1. /\ IsContext(d) /\ SameAccounts(c, d) /\ d.state = c.state /\ d.bs = c.bs
      /\ d.trans = c.trans /\ DOMAIN d.servers = DOMAIN c.servers
      /\ d.servers[i] = e /\ \A j \in DOMAIN c.servers \ {i} : d.servers[j] = c.servers[j]
  BY SetServerIs
<1> HIDE DEF d
<1>2. e.node = c.servers[i].node /\ e.uri = c.servers[i].uri /\ e.dirty = c.servers[i].dirty
      /\ e.session = c.servers[i].session /\ e.dropped = c.servers[i].dropped
  BY DEF Differs, EntryFields
<1>3. SameEntries(c, d)
  BY <1>1, <1>2 DEF SameEntries, SameList
<1>4. KeepsWaiting(c.servers, d.servers) /\ KeepsWaiting(c.bs, d.bs) /\ StaysBusy(c.bs, d.bs)
  BY <1>1, <1>2 DEF KeepsWaiting, StaysBusy
<1>5. ASSUME NEW g \in BOOLEAN, e.status = "REGISTERED" => g
      PROVE  Answers(c, d, i, g)
  <2>1. \A j \in DOMAIN d.servers : d.servers[j].status = "REGISTERED" =>
             \/ d.servers[j] = c.servers[j]
             \/ g /\ j = i /\ d.servers[j].registration = now
    BY <1>1, <1>5
  <2> QED
    BY <1>1, <1>3, <1>4, <2>1 DEF Answers
<1> QED
  BY <1>1, <1>5 DEF d

\* Starting further registrations ends no waiting and registers nobody.
LEMMA StartAnswers ==
    ASSUME NEW c, IsContext(c), NEW restart \in BOOLEAN, NEW i \in DOMAIN c.servers
    PROVE  LET d == registration_start(c, restart, now).ctx
           IN  Answers(c, d, i, FALSE) /\ (c.servers[i].status = "REGISTERED" => d.servers[i] = c.servers[i])
<1> DEFINE d == registration_start(c, restart, now).ctx
<1>1. /\ IsContext(d) /\ SameAccounts(c, d) /\ d.bs = c.bs /\ d.trans = c.trans
      /\ d.state = c.state /\ DOMAIN d.servers = DOMAIN c.servers
      /\ \A j \in DOMAIN c.servers : StartedFrom(c.servers[j], d.servers[j])
  BY StartIs
<1> HIDE DEF d
<1>2. SameEntries(c, d)
  BY <1>1 DEF SameEntries, SameList, StartedFrom, Differs, EntryFields
<1>3. KeepsWaiting(c.servers, d.servers)
  BY <1>1 DEF KeepsWaiting, StartedFrom, Waiting
<1>4. KeepsWaiting(c.bs, d.bs) /\ StaysBusy(c.bs, d.bs)
  BY <1>1 DEF KeepsWaiting, StaysBusy
<1>5. \A j \in DOMAIN d.servers : d.servers[j].status = "REGISTERED" => d.servers[j] = c.servers[j]
  BY <1>1 DEF StartedFrom
<1>6. c.servers[i].status = "REGISTERED" => d.servers[i] = c.servers[i]
  BY <1>1 DEF StartedFrom
<1>7. Answers(c, d, i, FALSE)
  BY <1>1, <1>2, <1>3, <1>4, <1>5 DEF Answers
<1> QED
  BY <1>6, <1>7 DEF d

\* An entry with another time stamp, and perhaps another status.
LEMMA StampedIs ==
    ASSUME NEW s, IsServer(s)
    PROVE  LET e == [s EXCEPT !.registration = now]
           IN  IsServer(e) /\ Differs(s, e, {"registration"}) /\ e.registration = now
<1> DEFINE e == [s EXCEPT !.registration = now]
<1>1. Differs(s, e, {"registration"}) /\ e.registration = now /\ IsEntry(s)
  BY DEF IsServer, Differs, IsEntry, EntryFields
<1> HIDE DEF e
<1>2. IsEntry(e)
  BY <1>1 DEF Differs, IsEntry, EntryFields, now
<1>3. now \in -Horizon .. 0
  BY DEF now
<1>4. IsServer(e)
  BY <1>1, <1>2, <1>3 DEF Differs, EntryFields, IsServer, Managed
<1> QED
  BY <1>1, <1>4 DEF e

LEMMA RegisteredIs ==
    ASSUME NEW s, IsServer(s), s.session # 0, NEW e,
           Differs(s, e, {"registration", "status", "location"}), e.registration = now,
           e.status = "REGISTERED", e.location = TRUE
    PROVE  IsServer(e)
<1>1. IsEntry(s)
  BY DEF IsServer
<1>2. IsEntry(e)
  <2>1. e.location \in BOOLEAN
    BY Zenon
  <2> QED
    BY <1>1, <2>1 DEF Differs, IsEntry, EntryFields, now
<1>3. now \in -Horizon .. 0
  BY DEF now
<1>4. e.session = s.session /\ e.lifetime = s.lifetime
  BY DEF Differs, EntryFields
<1> QED
  BY <1>2, <1>3, <1>4 DEF IsServer, Managed, Statuses

LEMMA RegistrationReplyIs ==
    ASSUME NEW c, IsContext(c), NEW i \in DOMAIN c.servers, NEW code
    PROVE  LET d == prv_handleRegistrationReply(c, i, code, now)
           IN  /\ Answers(c, d, i, code = "2.01")
               /\ code \notin GoesOn => d.servers[i].status # "REG_PENDING"
<1> DEFINE s == c.servers[i]
           stamped == [s EXCEPT !.registration = now]
           e == [stamped EXCEPT !.status = "REGISTERED", !.location = TRUE]
           b == SetServer(c, i, stamped)
           r == SetServer(c, i, e)
           d == prv_handleRegistrationReply(c, i, code, now)
<1> SUFFICES /\ Answers(c, d, i, code = "2.01")
             /\ code \notin GoesOn => d.servers[i].status # "REG_PENDING"
  OBVIOUS
<1>1. IsServer(s)
  BY DEF IsContext
<1>2. CASE s.status # "REG_PENDING"
  <2>1. d = c
    BY <1>2 DEF prv_handleRegistrationReply
  <2> QED
    BY <1>2, <2>1, AnswersSame
<1>3. CASE s.status = "REG_PENDING"
  <2>1. /\ IsServer(stamped) /\ Differs(s, stamped, {"registration"}) /\ stamped.registration = now
    BY <1>1, StampedIs
  <2>2. stamped.status = "REG_PENDING"
    BY <1>3, <2>1 DEF Differs, EntryFields
  <2>3. /\ IsServer(e) /\ Differs(s, e, {"registration", "status", "location"})
        /\ e.registration = now /\ e.status = "REGISTERED"
    <3>1. s.session # 0 /\ IsEntry(s)
      BY <1>1, <1>3 DEF IsServer
    <3>2. /\ Differs(s, e, {"registration", "status", "location"}) /\ e.registration = now
          /\ e.status = "REGISTERED" /\ e.location = TRUE
      BY <3>1 DEF Differs, IsEntry, EntryFields
    <3> HIDE DEF s, e
    <3> QED
      BY <1>1, <3>1, <3>2, RegisteredIs
  <2>4. \/ code \in GoesOn /\ d = b
        \/ code = "2.01" /\ d \in {r, registration_start(r, FALSE, now).ctx}
        \/ code \notin GoesOn /\ d = prv_handleRegistrationAttemptFailure(b, i, now)
    BY <1>3 DEF prv_handleRegistrationReply, GoesOn
  <2> HIDE DEF s, stamped, e, d
  <2>5. \A g \in BOOLEAN : Answers(c, b, i, g) /\ b.servers[i] = stamped
    <3>1. Differs(s, stamped, {"registration", "status", "location"})
      BY <2>1 DEF Differs
    <3> QED
      BY <1>3, <2>1, <2>2, <3>1, AnswersOne DEF s
  <2>6. \A g \in BOOLEAN : g => Answers(c, r, i, g) /\ r.servers[i] = e
    <3>1. e.status \notin Waiting
      BY <2>3 DEF Waiting
    <3>2. /\ \A g \in BOOLEAN : (e.status = "REGISTERED" => g) => Answers(c, r, i, g)
          /\ r.servers[i] = e
      BY <2>3, <3>1, AnswersOne DEF s
    <3> HIDE DEF r
    <3> QED
      BY <3>2, Zenon
  <2> HIDE DEF b, r
  <2>7. CASE code \in GoesOn /\ d = b
    BY <2>5, <2>7
  <2>8. CASE code = "2.01" /\ d \in {r, registration_start(r, FALSE, now).ctx}
    <3>0. Answers(c, r, i, code = "2.01") /\ r.servers[i] = e
      BY <2>6, <2>8
    <3>1. Answers(c, r, i, code = "2.01") /\ IsContext(r) /\ i \in DOMAIN r.servers
      BY <3>0 DEF Answers, SameEntries, SameList
    <3>2. CASE d = r
      BY <2>3, <3>0, <3>1, <3>2
    <3>3. CASE d = registration_start(r, FALSE, now).ctx
      <4>1. Answers(r, d, i, FALSE) /\ d.servers[i] = r.servers[i]
        BY <2>3, <3>0, <3>1, <3>3, StartAnswers
      <4>2. Answers(c, d, i, code = "2.01")
        BY <3>1, <4>1, AnswersTwice
      <4> QED
        BY <2>3, <3>0, <4>1, <4>2
    <3> QED
      BY <2>8, <3>2, <3>3
  <2>9. CASE code \notin GoesOn /\ d = prv_handleRegistrationAttemptFailure(b, i, now)
    <3>1. Answers(c, b, i, code = "2.01") /\ IsContext(b) /\ i \in DOMAIN b.servers
      BY <2>5 DEF Answers, SameEntries, SameList
    <3>2. Halts(b, d, i)
      BY <2>2, <2>5, <2>9, <3>1, AttemptFailureIs
    <3>3. Answers(b, d, i, FALSE) /\ d.servers[i].status \notin Waiting
      BY <3>1, <3>2, HaltsAnswers
    <3>4. Answers(c, d, i, code = "2.01")
      BY <3>1, <3>3, AnswersTwice
    <3> QED
      BY <3>3, <3>4 DEF Waiting
  <2> QED
    BY <2>4, <2>7, <2>8, <2>9
<1> QED
  BY <1>2, <1>3

LEMMA UpdateReplyIs ==
    ASSUME NEW c, IsContext(c), NEW i \in DOMAIN c.servers, NEW code
    PROVE  LET d == prv_handleRegistrationUpdateReply(c, i, code, now)
           IN  /\ Answers(c, d, i, code = "2.04")
               /\ code \notin GoesOn => d.servers[i].status # "REG_UPDATE_PENDING"
<1> DEFINE s == c.servers[i]
           e == [s EXCEPT !.registration = now]
           ok == [e EXCEPT !.status = "REGISTERED"]
           failed == [e EXCEPT !.status = "REG_FAILED"]
           d == prv_handleRegistrationUpdateReply(c, i, code, now)
<1> SUFFICES /\ Answers(c, d, i, code = "2.04")
             /\ code \notin GoesOn => d.servers[i].status # "REG_UPDATE_PENDING"
  OBVIOUS
<1>1. IsServer(s)
  BY DEF IsContext
<1>2. CASE s.status # "REG_UPDATE_PENDING"
  <2>1. d = c
    BY <1>2 DEF prv_handleRegistrationUpdateReply
  <2> QED
    BY <1>2, <2>1, AnswersSame
<1>3. CASE s.status = "REG_UPDATE_PENDING"
  <2>1. /\ IsServer(e) /\ Differs(s, e, {"registration"}) /\ e.registration = now
    BY <1>1, StampedIs
  <2>2. e.status = "REG_UPDATE_PENDING"
    BY <1>3, <2>1 DEF Differs, EntryFields
  <2>3. \/ code \in GoesOn /\ d = SetServer(c, i, e)
        \/ code = "2.04" /\ d = SetServer(c, i, ok)
        \/ code \notin GoesOn /\ d = SetServer(c, i, failed)
    BY <1>3 DEF prv_handleRegistrationUpdateReply
  <2> HIDE DEF s, e, d
  <2>4. \A st \in {"REGISTERED", "REG_FAILED"} : LET x == [e EXCEPT !.status = st]
                                                 IN  /\ IsServer(x) /\ x.status = st /\ x.registration = now
                                                     /\ Differs(s, x, {"registration", "status", "location"})
    <3> TAKE st \in {"REGISTERED", "REG_FAILED"}
    <3> DEFINE x == [e EXCEPT !.status = st]
    <3>1. IsEntry(x) /\ Differs(e, x, {"status"}) /\ x.status = st
      BY <2>1, StatusIs DEF IsServer
    <3> HIDE DEF x
    <3>2. /\ x.session = e.session /\ x.location = e.location /\ x.lifetime = e.lifetime
          /\ x.registration = now
      BY <2>1, <3>1 DEF Differs, EntryFields
    <3>3. now \in -Horizon .. 0
      BY DEF now
    <3>4. IsServer(x)
      BY <2>1, <2>2, <3>1, <3>2, <3>3 DEF IsServer, Managed, Statuses
    <3>5. Differs(s, x, {"registration", "status", "location"})
      BY <2>1, <3>1 DEF Differs, EntryFields
    <3> QED
      BY <3>1, <3>2, <3>4, <3>5 DEF x
  <2>5. /\ IsServer(ok) /\ ok.status = "REGISTERED" /\ ok.registration = now
        /\ Differs(s, ok, {"registration", "status", "location"})
    BY <2>4
  <2>6. /\ IsServer(failed) /\ failed.status = "REG_FAILED"
        /\ Differs(s, failed, {"registration", "status", "location"})
    BY <2>4
  <2> HIDE DEF ok, failed
  <2>7. CASE code \in GoesOn /\ d = SetServer(c, i, e)
    <3>1. Differs(s, e, {"registration", "status", "location"})
      BY <2>1 DEF Differs
    <3>2. \A g \in BOOLEAN : Answers(c, d, i, g)
      BY <1>3, <2>1, <2>2, <2>7, <3>1, AnswersOne DEF s
    <3> QED
      BY <2>7, <3>2
  <2>8. CASE code = "2.04" /\ d = SetServer(c, i, ok)
    <3>1. ok.status \notin Waiting
      BY <2>5 DEF Waiting
    <3>2. \A g \in BOOLEAN : g => Answers(c, d, i, g) /\ d.servers[i] = ok
      <4>1. /\ \A g \in BOOLEAN : (ok.status = "REGISTERED" => g) => Answers(c, d, i, g)
            /\ d.servers[i] = ok
        BY <2>5, <2>8, <3>1, AnswersOne DEF s
      <4> QED
        BY <4>1, Zenon
    <3> QED
      BY <2>5, <2>8, <3>2
  <2>9. CASE code \notin GoesOn /\ d = SetServer(c, i, failed)
    <3>1. failed.status \notin Waiting
      BY <2>6 DEF Waiting
    <3>2. \A g \in BOOLEAN : Answers(c, d, i, g) /\ d.servers[i] = failed
      BY <2>6, <2>9, <3>1, AnswersOne DEF s
    <3> QED
      BY <2>6, <2>9, <3>2
  <2> QED
    BY <2>3, <2>7, <2>8, <2>9
<1> QED
  BY <1>2, <1>3

LEMMA DeregistrationReplyIs ==
    ASSUME NEW c, IsContext(c), NEW i \in DOMAIN c.servers
    PROVE  LET d == prv_handleDeregistrationReply(c, i)
           IN  Answers(c, d, i, FALSE) /\ d.servers[i].status # "DEREG_PENDING"
<1> DEFINE s == c.servers[i]
           e == [s EXCEPT !.status = "DEREGISTERED"]
           d == prv_handleDeregistrationReply(c, i)
<1> SUFFICES Answers(c, d, i, FALSE) /\ d.servers[i].status # "DEREG_PENDING"
  OBVIOUS
<1>1. IsServer(s) /\ IsEntry(s)
  BY DEF IsContext, IsServer
<1>2. IsEntry(e) /\ Differs(s, e, {"status"}) /\ e.status = "DEREGISTERED"
  BY <1>1, StatusIs
<1>3. \/ s.status = "DEREG_PENDING" /\ d = SetServer(c, i, e)
      \/ s.status # "DEREG_PENDING" /\ d = c
  BY DEF prv_handleDeregistrationReply
<1> HIDE DEF s, e, d
<1>4. Differs(s, e, {"registration", "status", "location"}) /\ e.lifetime = s.lifetime
  BY <1>2 DEF Differs, EntryFields
<1>5. IsServer(e)
  BY <1>1, <1>2, <1>4 DEF IsServer, Managed, Statuses
<1>6. CASE s.status = "DEREG_PENDING" /\ d = SetServer(c, i, e)
  <2>1. e.status \notin Waiting
    BY <1>2 DEF Waiting
  <2>2. \A g \in BOOLEAN : Answers(c, d, i, g) /\ d.servers[i] = e
    BY <1>2, <1>4, <1>5, <1>6, <2>1, AnswersOne DEF s
  <2> QED
    BY <1>2, <2>2
<1>7. CASE s.status # "DEREG_PENDING" /\ d = c
  BY <1>7, AnswersSame DEF s
<1> QED
  BY <1>3, <1>6, <1>7

LEMMA BootstrapReplyIs ==
    ASSUME NEW c, IsContext(c), NEW i \in DOMAIN c.bs, NEW code
    PROVE  LET d == prv_handleBootstrapReply(c, i, code, now)
           IN  Answers(c, d, i, FALSE) /\ d.bs[i].status # "BS_INITIATED"
<1> DEFINE s == c.bs[i]
           d == prv_handleBootstrapReply(c, i, code, now)
           pending == [s EXCEPT !.status = "BS_PENDING", !.registration = now + ExchangeLifetime]
           failing == [s EXCEPT !.status = "BS_FAILING"]
<1> SUFFICES Answers(c, d, i, FALSE) /\ d.bs[i].status # "BS_INITIATED"
  OBVIOUS
<1>1. IsBsServer(s) /\ IsEntry(s)
  BY DEF IsContext, IsBsServer
<1>2. CASE s.status # "BS_INITIATED"
  <2>1. d = c
    BY <1>2 DEF prv_handleBootstrapReply
  <2> QED
    BY <1>2, <2>1, AnswersSame
<1>3. CASE s.status = "BS_INITIATED"
  <2>1. \E e \in {pending, failing} : d = SetBs(c, i, e)
    BY <1>3 DEF prv_handleBootstrapReply
  <2>2. ASSUME NEW e \in {pending, failing}
        PROVE  /\ IsBsServer(e) /\ Differs(s, e, {"status", "registration"})
               /\ e.status \in {"BS_PENDING", "BS_FAILING"}
    <3>1. /\ Differs(s, e, {"status", "registration"}) /\ e.status \in {"BS_PENDING", "BS_FAILING"}
          /\ e.registration \in {s.registration, now + ExchangeLifetime}
      BY <1>1, <2>2 DEF Differs, IsEntry, EntryFields
    <3>2. now + ExchangeLifetime \in Int
      BY DEF now
    <3>3. e.registration \in Int
      BY <1>1, <3>1, <3>2 DEF IsEntry
    <3>4. IsEntry(e)
      BY <1>1, <3>1, <3>3 DEF Differs, IsEntry, EntryFields
    <3> QED
      BY <3>1, <3>4 DEF IsBsServer, BsStatuses
  <2>3. PICK e : /\ d = SetBs(c, i, e) /\ IsBsServer(e) /\ Differs(s, e, {"status", "registration"})
                 /\ e.status \in {"BS_PENDING", "BS_FAILING"}
    BY <2>1, <2>2
  <2> HIDE DEF s, d, pending, failing
  <2>4. /\ IsContext(d) /\ SameAccounts(c, d) /\ d.state = c.state /\ d.servers = c.servers
        /\ d.trans = c.trans /\ DOMAIN d.bs = DOMAIN c.bs
        /\ d.bs[i] = e /\ \A j \in DOMAIN c.bs \ {i} : d.bs[j] = c.bs[j]
    BY <2>3, SetBsIs
  <2>5. e.node = s.node /\ e.uri = s.uri /\ e.dirty = s.dirty
    BY <2>3 DEF Differs, EntryFields
  <2>6. SameEntries(c, d)
    BY <2>4, <2>5 DEF SameEntries, SameList, s
  <2>7. KeepsWaiting(c.servers, d.servers) /\ KeepsWaiting(c.bs, d.bs) /\ StaysBusy(c.bs, d.bs)
    BY <2>3, <2>4 DEF KeepsWaiting, StaysBusy, Waiting, Busy
  <2> QED
    BY <2>3, <2>4, <2>6, <2>7 DEF Answers
<1> QED
  BY <1>2, <1>3

-----------------------------------------------------------------------------
(* Callbacks                                                                *)

SameRequest(t, u) == u.kind = t.kind /\ u.id = t.id /\ u.node = t.node /\ u.session = t.session

\* Transactions that take the place of others are waited for instead of them.
LEMMA AwaitsOthers ==
    ASSUME NEW T, NEW U, NEW f, NEW g, ListAwaits(T, f), KeepsWaiting(f, g),
           \A t \in T : \E u \in U : SameRequest(t, u)
    PROVE  ListAwaits(U, g)
<1> SUFFICES ASSUME NEW j \in DOMAIN g, g[j].status \in Waiting
             PROVE  Awaited(U, g[j], j)
  BY DEF ListAwaits
<1>1. /\ j \in DOMAIN f /\ g[j].status = f[j].status
      /\ g[j].node = f[j].node /\ g[j].session = f[j].session
      /\ g[j].dropped = f[j].dropped
  BY DEF KeepsWaiting
<1>0. CASE WaitsInVain(f[j])
  BY <1>0, <1>1 DEF Awaited, WaitsInVain
<1> SUFFICES ASSUME ~WaitsInVain(f[j])
             PROVE  Awaited(U, g[j], j)
  BY <1>0
<1>2. PICK t \in T : /\ t.kind \in WaitsFor(f[j].status) /\ t.id = j
                     /\ t.node = f[j].node /\ t.session = f[j].session
  BY <1>1 DEF ListAwaits, Awaited
<1>3. PICK u \in U : SameRequest(t, u)
  BY <1>2
<1> QED
  BY <1>1, <1>2, <1>3 DEF Awaited, SameRequest

\* A transaction that nobody waits for may go.
LEMMA AwaitsWithout ==
    ASSUME NEW T, NEW t, NEW f, NEW g, ListAwaits(T, f), KeepsWaiting(f, g),
           t.id \in DOMAIN g => t.kind \notin WaitsFor(g[t.id].status)
    PROVE  ListAwaits(T \ {t}, g)
<1> SUFFICES ASSUME NEW j \in DOMAIN g, g[j].status \in Waiting
             PROVE  Awaited(T \ {t}, g[j], j)
  BY DEF ListAwaits
<1>1. /\ j \in DOMAIN f /\ g[j].status = f[j].status
      /\ g[j].node = f[j].node /\ g[j].session = f[j].session
      /\ g[j].dropped = f[j].dropped
  BY DEF KeepsWaiting
<1>0. CASE WaitsInVain(f[j])
  BY <1>0, <1>1 DEF Awaited, WaitsInVain
<1> SUFFICES ASSUME ~WaitsInVain(f[j])
             PROVE  Awaited(T \ {t}, g[j], j)
  BY <1>0
<1>2. PICK u \in T : /\ u.kind \in WaitsFor(f[j].status) /\ u.id = j
                     /\ u.node = f[j].node /\ u.session = f[j].session
  BY <1>1 DEF ListAwaits, Awaited
<1>3. u # t
  BY <1>1, <1>2
<1> QED
  BY <1>1, <1>2, <1>3 DEF Awaited

\* The answer to transaction t with this code makes its server registered.
Grants(t, code) ==
    \/ t.kind = "register" /\ code = "2.01"
    \/ t.kind \in {"update", "fullUpdate"} /\ code = "2.04"

\* No status waits for t.
NotAwaited(d, t) ==
    /\ t.id \in DOMAIN d.servers => t.kind \notin WaitsFor(d.servers[t.id].status)
    /\ t.id \in DOMAIN d.bs => t.kind \notin WaitsFor(d.bs[t.id].status)

\* What the callback of t leaves.
Called(c, d, t, code) ==
    /\ Answers([c EXCEPT !.trans = @ \ {t}], d, t.id, Grants(t, code))
    /\ code \notin GoesOn \/ t.kind \in {"deregister", "bootstrap"} => NotAwaited(d, t)

LEMMA WithoutIs ==
    ASSUME NEW c, IsContext(c), NEW t
    PROVE  LET d == [c EXCEPT !.trans = @ \ {t}]
           IN  /\ IsContext(d) /\ SameAccounts(c, d) /\ d.state = c.state /\ d.servers = c.servers
               /\ d.bs = c.bs /\ d.trans = c.trans \ {t}
<1> DEFINE d == [c EXCEPT !.trans = c.trans \ {t}]
<1>1. IsRecord(c) /\ IsFiniteSet(c.trans \ {t})
  BY FS_Subset DEF IsContext
<1>2. IsRecord(d) /\ d.trans = c.trans \ {t} /\ d.state = c.state /\ d.bs = c.bs /\ d.sec = c.sec
               /\ d.serverObj = c.serverObj /\ d.servers = c.servers /\ d.torn = c.torn
  BY <1>1, RecordTrans
<1>3. [c EXCEPT !.trans = @ \ {t}] = d
  OBVIOUS
<1> HIDE DEF d
<1>4. IsContext(d)
  BY <1>1, <1>2 DEF IsContext
<1> QED
  BY <1>2, <1>3, <1>4 DEF SameAccounts

LEMMA CallbackIs ==
    ASSUME Good(ctx), NEW t \in ctx.trans, NodeLives(t), NEW code
    PROVE  Called(ctx, Callback(t, code), t, code)
<1> DEFINE c == [ctx EXCEPT !.trans = @ \ {t}]
           i == t.id
           d == Callback(t, code)
<1>1. IsContext(c) /\ c.servers = ctx.servers /\ c.bs = ctx.bs
  BY WithoutIs DEF Good
<1>2. t.kind \in Kinds
  BY DEF Good, IsContext, IsTransaction
<1>3. \A b : /\ IsContext(b) =>
                  /\ \A j \in DOMAIN b.servers : b.servers[j].status # "BS_INITIATED"
                  /\ \A j \in DOMAIN b.bs :
                       b.bs[j].status \notin {"REG_PENDING", "REG_UPDATE_PENDING", "DEREG_PENDING"}
             /\ IsContext(b) => DOMAIN b.servers \cap DOMAIN b.bs = {}
  BY DEF IsContext, IsServer, IsBsServer, Statuses, BsStatuses
<1>4. DOMAIN c.servers \cap DOMAIN c.bs = {}
  BY <1>1, <1>3
<1>5. i \in (IF t.kind = "bootstrap" THEN DOMAIN c.bs ELSE DOMAIN c.servers)
  BY <1>1 DEF NodeLives, Entry
<1>6. CASE t.kind = "register"
  <2>1. d = prv_handleRegistrationReply(c, i, code, now)
    BY <1>6 DEF Callback
  <2> HIDE DEF c, d, i
  <2>2. /\ Answers(c, d, i, code = "2.01")
        /\ code \notin GoesOn => d.servers[i].status # "REG_PENDING"
    BY <1>1, <1>5, <1>6, <2>1, RegistrationReplyIs
  <2>3. Answers(c, d, i, Grants(t, code)) /\ IsContext(d)
    BY <1>6, <2>2 DEF Answers, Grants
  <2> QED
    BY <1>3, <1>6, <2>2, <2>3 DEF Called, NotAwaited, WaitsFor, c, d, i
<1>7. CASE t.kind \in {"update", "fullUpdate"}
  <2>1. d = prv_handleRegistrationUpdateReply(c, i, code, now)
    BY <1>7 DEF Callback
  <2> HIDE DEF c, d, i
  <2>2. /\ Answers(c, d, i, code = "2.04")
        /\ code \notin GoesOn => d.servers[i].status # "REG_UPDATE_PENDING"
    BY <1>1, <1>5, <1>7, <2>1, UpdateReplyIs
  <2>3. Answers(c, d, i, Grants(t, code)) /\ IsContext(d)
    BY <1>7, <2>2 DEF Answers, Grants
  <2> QED
    BY <1>3, <1>7, <2>2, <2>3 DEF Called, NotAwaited, WaitsFor, c, d, i
<1>8. CASE t.kind = "deregister"
  <2>1. d = prv_handleDeregistrationReply(c, i)
    BY <1>8 DEF Callback
  <2> HIDE DEF c, d, i
  <2>2. Answers(c, d, i, FALSE) /\ d.servers[i].status # "DEREG_PENDING"
    BY <1>1, <1>5, <1>8, <2>1, DeregistrationReplyIs
  <2>3. Answers(c, d, i, Grants(t, code)) /\ IsContext(d)
    BY <1>8, <2>2 DEF Answers, Grants
  <2> QED
    BY <1>3, <1>8, <2>2, <2>3 DEF Called, NotAwaited, WaitsFor, c, d, i
<1>9. CASE t.kind = "bootstrap"
  <2>1. d = prv_handleBootstrapReply(c, i, code, now)
    BY <1>9 DEF Callback
  <2> HIDE DEF c, d, i
  <2>2. Answers(c, d, i, FALSE) /\ d.bs[i].status # "BS_INITIATED"
    BY <1>1, <1>5, <1>9, <2>1, BootstrapReplyIs
  <2>3. Answers(c, d, i, Grants(t, code)) /\ IsContext(d)
    BY <1>9, <2>2 DEF Answers, Grants
  <2> QED
    BY <1>3, <1>9, <2>2, <2>3 DEF Called, NotAwaited, WaitsFor, c, d, i
<1> QED
  BY <1>2, <1>6, <1>7, <1>8, <1>9 DEF Kinds

\* What an answer, or giving up waiting for one, leaves behind.
Handled(c, d, t, code) ==
    /\ Good(d) /\ SameEntries(c, d) /\ d.state \in {c.state, "BOOTSTRAP_REQUIRED"}
    /\ StaysBusy(c.bs, d.bs)
    /\ \A u \in d.trans : u \in c.trans \/ (u.at = now /\ u.answer = "none")
    /\ \A j \in DOMAIN d.servers : d.servers[j].status = "REGISTERED" =>
         \/ /\ c.servers[j].status = "REGISTERED"
            /\ d.servers[j].registration = c.servers[j].registration
            /\ d.servers[j].lifetime = c.servers[j].lifetime
         \/ Grants(t, code) /\ j = t.id /\ d.servers[j].registration = now

\* The facts about a callback in terms of the context before it.
LEMMA CalledMeans ==
    ASSUME NEW c, Good(c), NEW t \in c.trans, NEW d, NEW code, Called(c, d, t, code)
    PROVE  /\ IsContext(d) /\ SameEntries(c, d) /\ d.trans = c.trans \ {t}
           /\ d.state \in {c.state, "BOOTSTRAP_REQUIRED"}
           /\ KeepsWaiting(c.servers, d.servers) /\ KeepsWaiting(c.bs, d.bs) /\ StaysBusy(c.bs, d.bs)
           /\ \A j \in DOMAIN d.servers : d.servers[j].status = "REGISTERED" =>
                \/ /\ c.servers[j].status = "REGISTERED"
                   /\ d.servers[j].registration = c.servers[j].registration
                   /\ d.servers[j].lifetime = c.servers[j].lifetime
                \/ Grants(t, code) /\ j = t.id /\ d.servers[j].registration = now
<1> DEFINE b == [c EXCEPT !.trans = @ \ {t}]
<1>1. /\ SameAccounts(c, b) /\ b.state = c.state /\ b.servers = c.servers
      /\ b.bs = c.bs /\ b.trans = c.trans \ {t}
  BY WithoutIs DEF Good
<1>2. Answers(b, d, t.id, Grants(t, code))
  BY DEF Called
<1> HIDE DEF b
<1>3. SameEntries(c, d)
  BY <1>1, <1>2 DEF Answers, SameEntries, SameAccounts
<1> QED
  BY <1>1, <1>2, <1>3 DEF Answers

LEMMA CalledGood ==
    ASSUME NEW c, Good(c), NEW t \in c.trans, NEW d, NEW code, Called(c, d, t, code),
           NotAwaited(d, t)
    PROVE  Handled(c, d, t, code)
<1>1. /\ IsContext(d) /\ SameEntries(c, d) /\ d.trans = c.trans \ {t}
      /\ d.state \in {c.state, "BOOTSTRAP_REQUIRED"}
      /\ KeepsWaiting(c.servers, d.servers) /\ KeepsWaiting(c.bs, d.bs) /\ StaysBusy(c.bs, d.bs)
      /\ \A j \in DOMAIN d.servers : d.servers[j].status = "REGISTERED" =>
                \/ /\ c.servers[j].status = "REGISTERED"
                   /\ d.servers[j].registration = c.servers[j].registration
                   /\ d.servers[j].lifetime = c.servers[j].lifetime
                \/ Grants(t, code) /\ j = t.id /\ d.servers[j].registration = now
  BY CalledMeans
<1>2. /\ t.id \in DOMAIN d.servers => t.kind \notin WaitsFor(d.servers[t.id].status)
      /\ t.id \in DOMAIN d.bs => t.kind \notin WaitsFor(d.bs[t.id].status)
  BY DEF NotAwaited
<1>3. ListAwaits(c.trans, c.servers) /\ ListAwaits(c.trans, c.bs)
  BY DEF Good
<1> DEFINE T == c.trans
           f == c.servers
           g == d.servers
           x == c.bs
           y == d.bs
<1>4. KeepsWaiting(f, g) /\ KeepsWaiting(x, y)
  BY <1>1
<1> HIDE DEF T, f, g, x, y
<1>5. ListAwaits(T \ {t}, g)
  BY <1>2, <1>3, <1>4, AwaitsWithout DEF T, f, g
<1>6. ListAwaits(T \ {t}, y)
  BY <1>2, <1>3, <1>4, AwaitsWithout DEF T, x, y
<1> QED
  BY <1>1, <1>5, <1>6 DEF Handled, Good, T, g, y

\* A transaction in the place of another.
Replaces(t, u) ==
    /\ SameRequest(t, u) /\ IsTransaction(u) /\ u.life = t.life

LEMMA SentAgainIs ==
    ASSUME NEW t, IsTransaction(t), NEW more \in Int
    PROVE  LET u == SentAgain(t, more) IN Replaces(t, u) /\ u.at = now /\ u.answer = "none"
<1> DEFINE u == SentAgain(t, more)
           b == t.freed \/ FreesPayload(t)
<1>1. 0 \in -Horizon .. 0
  OBVIOUS
<1>a. u = [t EXCEPT !.more = more, !.at = 0, !.answer = "none", !.freed = b]
  BY DEF SentAgain, now
<1>b. t = [n |-> t.n, kind |-> t.kind, id |-> t.id, node |-> t.node, session |-> t.session,
              life |-> t.life, at |-> t.at, more |-> t.more, freed |-> t.freed,
              answer |-> t.answer]
  BY DEF IsTransaction
<1> HIDE DEF u, b
<1>3. /\ u.n = t.n /\ u.kind = t.kind /\ u.id = t.id /\ u.node = t.node /\ u.session = t.session
      /\ u.life = t.life /\ u.at = 0 /\ u.more = more /\ u.answer = "none"
      /\ u = [n |-> t.n, kind |-> t.kind, id |-> t.id, node |-> t.node, session |-> t.session,
              life |-> t.life, at |-> 0, more |-> more, freed |-> b, answer |-> "none"]
  BY <1>a, <1>b
<1>4. IsTransaction(u)
  BY <1>1, <1>3 DEF IsTransaction
<1> QED
  BY <1>3, <1>4 DEF u, Replaces, SameRequest, now

LEMMA FollowingIs ==
    ASSUME NEW t, IsTransaction(t), NEW u \in Following(t)
    PROVE  Replaces(t, u) /\ u.at = now /\ u.answer = "none"
<1>1. t.more \in Int
  BY DEF IsTransaction
<1>2. t.more - 1 \in Int /\ Blocks \in Int
  BY <1>1
<1>3. Max({t.more - 1, 0}) \in Int
  BY <1>2, MaxOfTwo
<1>4. \E more \in Int : u = SentAgain(t, more)
  BY <1>1, <1>2, <1>3 DEF Following
<1> QED
  BY <1>4, SentAgainIs

LEMMA CalledNext ==
    ASSUME NEW c, Good(c), NEW t \in c.trans, NEW d, NEW code, Called(c, d, t, code), NEW u,
           Replaces(t, u), u.at = now, u.answer = "none"
    PROVE  Handled(c, [d EXCEPT !.trans = @ \cup {u}], t, code)
<1> DEFINE T == d.trans \cup {u}
           e == [d EXCEPT !.trans = T]
<1>1. /\ IsContext(d) /\ SameEntries(c, d) /\ d.trans = c.trans \ {t}
      /\ d.state \in {c.state, "BOOTSTRAP_REQUIRED"}
      /\ KeepsWaiting(c.servers, d.servers) /\ KeepsWaiting(c.bs, d.bs) /\ StaysBusy(c.bs, d.bs)
      /\ \A j \in DOMAIN d.servers : d.servers[j].status = "REGISTERED" =>
                \/ /\ c.servers[j].status = "REGISTERED"
                   /\ d.servers[j].registration = c.servers[j].registration
                   /\ d.servers[j].lifetime = c.servers[j].lifetime
                \/ Grants(t, code) /\ j = t.id /\ d.servers[j].registration = now
  BY CalledMeans
<1>2. Replaces(t, u) /\ u.at = now /\ u.answer = "none"
  OBVIOUS
<1>3. e = [d EXCEPT !.trans = @ \cup {u}]
  OBVIOUS
<1>4. IsFiniteSet(T) /\ \A x \in T : IsTransaction(x)
  <2>1. IsFiniteSet(T)
    BY <1>1, FS_AddElement DEF IsContext
  <2> QED
    BY <1>1, <1>2, <2>1 DEF IsContext, Replaces
<1> HIDE DEF T
<1>5. IsRecord(d) /\ IsRecord(e) /\ e.trans = T /\ e.state = d.state /\ e.bs = d.bs /\ e.sec = d.sec
               /\ e.serverObj = d.serverObj /\ e.servers = d.servers /\ e.torn = d.torn
  <2>1. IsRecord(d)
    BY <1>1 DEF IsContext
  <2> QED
    BY <2>1, RecordTrans
<1> HIDE DEF e
<1>6. IsContext(e)
  BY <1>1, <1>4, <1>5 DEF IsContext
<1>7. \A x \in c.trans : \E y \in T : SameRequest(x, y)
  <2> TAKE x \in c.trans
  <2>1. CASE x = t
    BY <1>2, <2>1 DEF T, Replaces
  <2>2. CASE x # t
    BY <1>1, <2>2 DEF T, SameRequest
  <2> QED
    BY <2>1, <2>2
<1>8. ListAwaits(T, d.servers) /\ ListAwaits(T, d.bs)
  BY <1>1, <1>7, AwaitsOthers DEF Good
<1>9. SameEntries(c, e)
  BY <1>1, <1>5 DEF SameEntries, SameAccounts
<1>10. Handled(c, e, t, code)
  BY <1>1, <1>2, <1>5, <1>6, <1>8, <1>9 DEF Handled, Good, T
<1> QED
  BY <1>3, <1>10

\* Nothing takes the place of a transaction whose answer the status goes on waiting for.
LEMMA CalledInVain ==
    ASSUME NEW c, Good(c), NEW t \in c.trans, NEW d, NEW code \in GoesOn, Called(c, d, t, code),
           t.id \in DOMAIN d.servers, d.servers[t.id].status \in {"REG_PENDING", "REG_UPDATE_PENDING"}
    PROVE  Handled(c, SetServer(d, t.id, [d.servers[t.id] EXCEPT !.dropped = code]), t, code)
<1> DEFINE i == t.id
           s == d.servers[i]
           x == [s EXCEPT !.dropped = code]
           e == SetServer(d, i, x)
<1>1. /\ IsContext(d) /\ SameEntries(c, d) /\ d.trans = c.trans \ {t}
      /\ d.state \in {c.state, "BOOTSTRAP_REQUIRED"}
      /\ KeepsWaiting(c.servers, d.servers) /\ KeepsWaiting(c.bs, d.bs) /\ StaysBusy(c.bs, d.bs)
      /\ \A j \in DOMAIN d.servers : d.servers[j].status = "REGISTERED" =>
                \/ /\ c.servers[j].status = "REGISTERED"
                   /\ d.servers[j].registration = c.servers[j].registration
                   /\ d.servers[j].lifetime = c.servers[j].lifetime
                \/ Grants(t, code) /\ j = t.id /\ d.servers[j].registration = now
  BY CalledMeans
<1>2. IsServer(s) /\ IsEntry(s) /\ s.status \in {"REG_PENDING", "REG_UPDATE_PENDING"}
  BY <1>1 DEF IsContext, IsServer
<1>3. Differs(s, x, {"dropped"}) /\ x.dropped = code
  <2> HIDE DEF s
  <2> QED
    BY <1>2 DEF Differs, IsEntry, EntryFields
<1> HIDE DEF s, x
<1>4. IsEntry(x)
  BY <1>2, <1>3 DEF Differs, IsEntry, EntryFields
<1>5. IsServer(x) /\ x.status = s.status /\ x.node = s.node /\ x.uri = s.uri /\ x.dirty = s.dirty
  BY <1>2, <1>3, <1>4 DEF Differs, EntryFields, IsServer, Managed
<1>6. /\ IsContext(e) /\ SameAccounts(d, e) /\ e.state = d.state /\ e.bs = d.bs
      /\ e.trans = d.trans /\ DOMAIN e.servers = DOMAIN d.servers
      /\ e.servers[i] = x /\ \A j \in DOMAIN d.servers \ {i} : e.servers[j] = d.servers[j]
  BY <1>1, <1>5, SetServerIs
<1> HIDE DEF e
<1>7. SameEntries(d, e)
  BY <1>5, <1>6 DEF SameEntries, SameList, s
<1>8. SameEntries(c, e)
  BY <1>1, <1>7 DEF SameEntries, SameAccounts, SameList
<1>9. ListAwaits(e.trans, e.bs)
  <2>1. t.id \notin DOMAIN d.bs
    BY <1>1 DEF IsContext
  <2>2. ListAwaits(c.trans, c.bs)
    BY DEF Good
  <2>3. ListAwaits(c.trans \ {t}, d.bs)
    BY <1>1, <2>1, <2>2, AwaitsWithout
  <2> QED
    BY <1>1, <1>6, <2>3
<1>10. ASSUME NEW j \in DOMAIN e.servers, e.servers[j].status \in Waiting
       PROVE  Awaited(e.trans, e.servers[j], j)
  <2>1. CASE j = i
    BY <1>2, <1>3, <1>5, <1>6, <2>1 DEF Awaited, WaitsInVain
  <2>2. CASE j # i
    <3>1. e.servers[j] = d.servers[j] /\ j \in DOMAIN d.servers
      BY <1>6, <2>2
    <3>2. /\ j \in DOMAIN c.servers /\ d.servers[j].status = c.servers[j].status
          /\ d.servers[j].node = c.servers[j].node /\ d.servers[j].session = c.servers[j].session
          /\ d.servers[j].dropped = c.servers[j].dropped
      BY <1>1, <1>10, <3>1 DEF KeepsWaiting
    <3>3. Awaited(c.trans, c.servers[j], j)
      BY <1>10, <3>1, <3>2 DEF Good, ListAwaits
    <3>4. CASE WaitsInVain(c.servers[j])
      BY <3>1, <3>2, <3>4 DEF Awaited, WaitsInVain
    <3>5. CASE ~WaitsInVain(c.servers[j])
      <4>1. PICK u \in c.trans : /\ u.kind \in WaitsFor(c.servers[j].status) /\ u.id = j
                                /\ u.node = c.servers[j].node /\ u.session = c.servers[j].session
        BY <3>3, <3>5 DEF Awaited
      <4>2. u \in e.trans
        BY <1>1, <1>6, <2>2, <4>1
      <4> QED
        BY <3>1, <3>2, <4>1, <4>2 DEF Awaited
    <3> QED
      BY <3>4, <3>5
  <2> QED
    BY <2>1, <2>2
<1>11. Good(e)
  BY <1>6, <1>9, <1>10 DEF Good, ListAwaits
<1>12. \A j \in DOMAIN e.servers : e.servers[j].status = "REGISTERED" =>
         j \in DOMAIN d.servers /\ e.servers[j] = d.servers[j]
  BY <1>2, <1>5, <1>6
<1>13. StaysBusy(c.bs, e.bs) /\ e.state \in {c.state, "BOOTSTRAP_REQUIRED"}
  BY <1>1, <1>6
<1>14. \A u \in e.trans : u \in c.trans
  BY <1>1, <1>6
<1> QED
  BY <1>1, <1>8, <1>11, <1>12, <1>13, <1>14 DEF Handled, e, x, s

LEMMA UnfollowedIs ==
    ASSUME NEW c, Good(c), NEW t \in c.trans, NEW d, Called(c, d, t, t.answer),
           t.kind # "bootstrap" => t.id \in DOMAIN d.servers
    PROVE  Handled(c, Unfollowed(d, t), t, t.answer)
<1> DEFINE waits == /\ t.answer \in GoesOn
                    /\ \/ t.kind = "register" /\ d.servers[t.id].status = "REG_PENDING"
                       \/ t.kind \in {"update", "fullUpdate"}
                          /\ d.servers[t.id].status = "REG_UPDATE_PENDING"
<1>1. t.kind \in Kinds
  BY DEF Good, IsContext, IsTransaction
<1>2. t.kind \in {"deregister", "bootstrap"} \/ t.answer \notin GoesOn => NotAwaited(d, t)
  BY DEF Called
<1>3. IsContext(d)
  BY CalledMeans
<1>4. CASE ~waits
  <2>1. Unfollowed(d, t) = d
    BY <1>4 DEF Unfollowed
  <2>2. NotAwaited(d, t)
    <3> SUFFICES ASSUME t.kind \in {"register", "update", "fullUpdate"}, t.answer \in GoesOn
                 PROVE  NotAwaited(d, t)
      BY <1>1, <1>2 DEF Kinds
    <3>1. t.id \in DOMAIN d.bs => d.bs[t.id].status \notin {"REG_PENDING", "REG_UPDATE_PENDING"}
      BY <1>3 DEF IsContext, IsBsServer, BsStatuses
    <3> QED
      BY <1>4, <3>1 DEF NotAwaited, WaitsFor
  <2> QED
    BY <2>1, <2>2, CalledGood
<1>5. CASE waits /\ t.id \in DOMAIN d.servers
  <2>1. Unfollowed(d, t) = SetServer(d, t.id, [d.servers[t.id] EXCEPT !.dropped = t.answer])
    BY <1>5 DEF Unfollowed
  <2> QED
    BY <1>5, <2>1, CalledInVain
<1>6. waits => t.id \in DOMAIN d.servers
  OBVIOUS
<1> QED
  BY <1>4, <1>5, <1>6

LEMMA ExpireIs ==
    ASSUME Good(ctx), Expire
    PROVE  \E t \in ctx.trans : Handled(ctx, ctx', t, "none")
<1>1. PICK t \in ctx.trans : NodeLives(t) /\ ctx' = Callback(t, "none")
  BY DEF Expire
<1>2. Called(ctx, ctx', t, "none") /\ "none" \notin GoesOn
  BY <1>1, CallbackIs DEF GoesOn
<1>3. NotAwaited(ctx', t)
  BY <1>2 DEF Called
<1> QED
  BY <1>1, <1>2, <1>3, CalledGood

LEMMA DeliverIs ==
    ASSUME Good(ctx), Deliver
    PROVE  \E t \in ctx.trans : Handled(ctx, ctx', t, t.answer)
<1>1. PICK t \in ctx.trans :
        /\ SessionLives(t)
        /\ \/ ctx' = Unfollowed(Callback(t, t.answer), t)
           \/ \E u \in Following(t) :
                ctx' = [Callback(t, t.answer) EXCEPT !.trans = @ \cup {u}]
  BY DEF Deliver
<1>2. NodeLives(t)
  BY <1>1 DEF SessionLives
<1> DEFINE d == Callback(t, t.answer)
<1>3. Called(ctx, d, t, t.answer)
  BY <1>2, CallbackIs
<1>4. IsTransaction(t)
  BY DEF Good, IsContext
<1>0. t.kind # "bootstrap" => t.id \in DOMAIN d.servers
  <2>1. t.kind # "bootstrap" => t.id \in DOMAIN ctx.servers
    BY <1>2 DEF NodeLives, Entry
  <2>2. DOMAIN d.servers = DOMAIN ctx.servers
    BY <1>3, CalledMeans DEF SameEntries, SameList
  <2> QED
    BY <2>1, <2>2
<1> HIDE DEF d
<1>5. CASE ctx' = Unfollowed(d, t)
  BY <1>0, <1>3, <1>5, UnfollowedIs
<1>6. CASE \E u \in Following(t) : ctx' = [d EXCEPT !.trans = @ \cup {u}]
  BY <1>3, <1>4, <1>6, FollowingIs, CalledNext
<1> QED
  BY <1>1, <1>5, <1>6 DEF d

-----------------------------------------------------------------------------
(* The servers, and time                                                    *)

LEMMA RequestsAre ==
    ASSUME NEW c, Good(c), NEW T, IsFiniteSet(T), \A u \in T : IsTransaction(u),
           \A t \in c.trans : \E u \in T : SameRequest(t, u)
    PROVE  LET d == [c EXCEPT !.trans = T]
           IN  /\ Good(d) /\ SameAccounts(c, d) /\ d.state = c.state /\ d.servers = c.servers
               /\ d.bs = c.bs /\ d.trans = T
<1> DEFINE d == [c EXCEPT !.trans = T]
<1>1. IsContext(c) /\ IsRecord(c) /\ ListAwaits(c.trans, c.servers) /\ ListAwaits(c.trans, c.bs)
  BY DEF Good, IsContext
<1>2. IsRecord(d) /\ d.trans = T /\ d.state = c.state /\ d.bs = c.bs /\ d.sec = c.sec
               /\ d.serverObj = c.serverObj /\ d.servers = c.servers /\ d.torn = c.torn
  BY <1>1, RecordTrans
<1> HIDE DEF d
<1>3. IsContext(d)
  BY <1>1, <1>2 DEF IsContext
<1>4. KeepsWaiting(c.servers, c.servers) /\ KeepsWaiting(c.bs, c.bs)
  BY DEF KeepsWaiting
<1>5. ListAwaits(T, c.servers) /\ ListAwaits(T, c.bs)
  BY <1>1, <1>4, AwaitsOthers
<1>6. Good(d)
  BY <1>2, <1>3, <1>5 DEF Good
<1> QED
  BY <1>2, <1>6 DEF d, SameAccounts

LEMMA AnsweredIs ==
    ASSUME Good(ctx), NEW t \in ctx.trans, NEW code
    PROVE  LET d == Answered(t, code)
               u == [t EXCEPT !.answer = code]
           IN  /\ Good(d) /\ SameAccounts(ctx, d) /\ d.state = ctx.state /\ d.servers = ctx.servers
               /\ d.bs = ctx.bs /\ d.trans = (ctx.trans \ {t}) \cup {u}
               /\ SameRequest(t, u) /\ u.at = t.at /\ u.answer = code /\ u.life = t.life
<1> DEFINE u == [t EXCEPT !.answer = code]
           T == (ctx.trans \ {t}) \cup {u}
<1>1. IsTransaction(t) /\ IsFiniteSet(ctx.trans) /\ \A x \in ctx.trans : IsTransaction(x)
  BY DEF Good, IsContext
<1>2. t = [n |-> t.n, kind |-> t.kind, id |-> t.id, node |-> t.node, session |-> t.session,
              life |-> t.life, at |-> t.at, more |-> t.more, freed |-> t.freed,
              answer |-> t.answer]
  BY <1>1 DEF IsTransaction
<1>3. /\ SameRequest(t, u) /\ u.at = t.at /\ u.answer = code /\ u.life = t.life
      /\ u = [n |-> t.n, kind |-> t.kind, id |-> t.id, node |-> t.node, session |-> t.session,
              life |-> t.life, at |-> t.at, more |-> t.more, freed |-> t.freed,
              answer |-> code]
  BY <1>2 DEF SameRequest
<1>4. Answered(t, code) = [ctx EXCEPT !.trans = T]
  BY DEF Answered
<1> HIDE DEF u
<1>5. IsTransaction(u)
  BY <1>1, <1>3 DEF IsTransaction
<1>6. IsFiniteSet(T)
  <2>1. IsFiniteSet(ctx.trans \ {t})
    BY <1>1, FS_Subset
  <2> QED
    BY <2>1, FS_AddElement
<1>7. \A x \in T : IsTransaction(x)
  BY <1>1, <1>5
<1>8. \A x \in ctx.trans : \E y \in T : SameRequest(x, y)
  <2> TAKE x \in ctx.trans
  <2>1. CASE x = t
    BY <1>3, <2>1
  <2>2. CASE x # t
    BY <2>2 DEF SameRequest
  <2> QED
    BY <2>1, <2>2
<1> HIDE DEF T
<1>9. LET d == [ctx EXCEPT !.trans = T]
      IN  /\ Good(d) /\ SameAccounts(ctx, d) /\ d.state = ctx.state /\ d.servers = ctx.servers
          /\ d.bs = ctx.bs /\ d.trans = T
  BY <1>6, <1>7, <1>8, RequestsAre
<1> QED
  BY <1>3, <1>4, <1>9 DEF T, u

LEMMA AgedIs ==
    ASSUME NEW x \in Int
    PROVE  /\ Aged(x) \in Int /\ Aged(x) = IF x - 1 >= -Horizon THEN x - 1 ELSE -Horizon
           /\ x \in -Horizon .. 0 => Aged(x) \in -Horizon .. 0
<1>1. x - 1 \in Int /\ -Horizon \in Int
  OBVIOUS
<1>2. Aged(x) = IF x - 1 >= -Horizon THEN x - 1 ELSE -Horizon
  BY <1>1, MaxOfTwo DEF Aged
<1> QED
  BY <1>1, <1>2

LEMMA OlderServerIs ==
    ASSUME NEW s, IsEntry(s)
    PROVE  LET e == OlderServer(s)
           IN  /\ IsEntry(e) /\ Differs(s, e, {"registration"})
               /\ s.status = "REGISTERED" => e.registration = Aged(s.registration)
<1> DEFINE e == OlderServer(s)
           x == IF s.status \in {"REG_HOLD_OFF", "REGISTERED", "BS_HOLD_OFF", "BS_PENDING"}
                THEN Aged(s.registration) ELSE 0
<1>1. x \in Int /\ (s.status = "REGISTERED" => x = Aged(s.registration))
  BY AgedIs DEF IsEntry
<1>2. e = [s EXCEPT !.registration = x]
  BY DEF OlderServer
<1> HIDE DEF x, e
<1>3. Differs(s, e, {"registration"}) /\ e.registration = x
  BY <1>2 DEF Differs, IsEntry, EntryFields
<1>4. IsEntry(e)
  BY <1>1, <1>3 DEF Differs, IsEntry, EntryFields
<1> QED
  BY <1>1, <1>3, <1>4 DEF e

LEMMA OlderTransactionIs ==
    ASSUME NEW t, IsTransaction(t)
    PROVE  LET u == OlderTransaction(t)
           IN  /\ Replaces(t, u) /\ u.at = Aged(t.at) /\ u.answer = t.answer
<1> DEFINE u == OlderTransaction(t)
<1>1. t = [n |-> t.n, kind |-> t.kind, id |-> t.id, node |-> t.node, session |-> t.session,
              life |-> t.life, at |-> t.at, more |-> t.more, freed |-> t.freed,
              answer |-> t.answer]
  BY DEF IsTransaction
<1>2. t.at \in -Horizon .. 0 /\ t.at \in Int
  BY DEF IsTransaction
<1>3. Aged(t.at) \in -Horizon .. 0
  BY <1>2, AgedIs
<1>4. /\ SameRequest(t, u) /\ u.at = Aged(t.at) /\ u.answer = t.answer /\ u.life = t.life
      /\ u = [n |-> t.n, kind |-> t.kind, id |-> t.id, node |-> t.node, session |-> t.session,
              life |-> t.life, at |-> Aged(t.at), more |-> t.more, freed |-> t.freed,
              answer |-> t.answer]
  BY <1>1 DEF SameRequest, OlderTransaction
<1> HIDE DEF u
<1>5. IsTransaction(u)
  BY <1>3, <1>4 DEF IsTransaction
<1> QED
  BY <1>4, <1>5 DEF u, Replaces

\* A second later.
Later(c, d) ==
    /\ Good(d) /\ SameEntries(c, d) /\ d.state = c.state
    /\ \A i \in DOMAIN c.servers : LET s == c.servers[i] IN
         /\ Differs(s, d.servers[i], {"registration"})
         /\ s.status = "REGISTERED" => d.servers[i].registration = Aged(s.registration)
    /\ \A i \in DOMAIN c.bs : Differs(c.bs[i], d.bs[i], {"registration"})
    /\ d.trans = {OlderTransaction(t) : t \in c.trans}

LEMMA TickIs ==
    ASSUME Good(ctx), Tick
    PROVE  Later(ctx, ctx')
<1> DEFINE f == [i \in DOMAIN ctx.servers |-> OlderServer(ctx.servers[i])]
           g == [i \in DOMAIN ctx.bs |-> OlderServer(ctx.bs[i])]
           T == {OlderTransaction(t) : t \in ctx.trans}
           d == [ctx EXCEPT !.servers = f, !.bs = g, !.trans = T]
<1>1. ctx' = d
  BY DEF Tick
<1>2. /\ IsContext(ctx) /\ IsRecord(ctx) /\ IsObject(ctx.servers) /\ IsObject(ctx.bs)
      /\ DOMAIN ctx.servers \cap DOMAIN ctx.bs = {}
      /\ IsFiniteSet(ctx.trans) /\ \A t \in ctx.trans : IsTransaction(t)
      /\ \A i \in DOMAIN ctx.servers : IsServer(ctx.servers[i]) /\ IsEntry(ctx.servers[i])
      /\ \A i \in DOMAIN ctx.bs : IsBsServer(ctx.bs[i]) /\ IsEntry(ctx.bs[i])
      /\ ListAwaits(ctx.trans, ctx.servers) /\ ListAwaits(ctx.trans, ctx.bs)
  BY DEF Good, IsContext, IsServer, IsBsServer
<1>3. /\ IsObject(f) /\ DOMAIN f = DOMAIN ctx.servers
      /\ IsObject(g) /\ DOMAIN g = DOMAIN ctx.bs
  BY <1>2 DEF IsObject
<1>4. \A i \in DOMAIN f : /\ IsServer(f[i]) /\ Differs(ctx.servers[i], f[i], {"registration"})
                          /\ ctx.servers[i].status = "REGISTERED" =>
                               f[i].registration = Aged(ctx.servers[i].registration)
  <2> TAKE i \in DOMAIN f
  <2> DEFINE s == ctx.servers[i]
             e == f[i]
  <2>1. IsServer(s) /\ IsEntry(s) /\ e = OlderServer(s)
    BY <1>2, <1>3
  <2> HIDE DEF s, f
  <2>2. IsEntry(e) /\ Differs(s, e, {"registration"})
               /\ (s.status = "REGISTERED" => e.registration = Aged(s.registration))
    BY <2>1, OlderServerIs
  <2> HIDE DEF e
  <2>3. s.status = "REGISTERED" => e.registration \in -Horizon .. 0
    <3>1. s.status = "REGISTERED" => s.registration \in Int /\ s.registration \in -Horizon .. 0
      BY <2>1 DEF IsServer
    <3> QED
      BY <2>2, <3>1, AgedIs
  <2>4. IsServer(e)
    BY <2>1, <2>2, <2>3 DEF IsServer, Differs, EntryFields, Managed
  <2> QED
    BY <2>2, <2>4 DEF s, e
<1>5. \A i \in DOMAIN g : IsBsServer(g[i]) /\ Differs(ctx.bs[i], g[i], {"registration"})
  <2> TAKE i \in DOMAIN g
  <2> DEFINE s == ctx.bs[i]
             e == g[i]
  <2>1. IsBsServer(s) /\ IsEntry(s) /\ e = OlderServer(s)
    BY <1>2, <1>3
  <2> HIDE DEF s, g
  <2>2. IsEntry(e) /\ Differs(s, e, {"registration"})
    BY <2>1, OlderServerIs
  <2> HIDE DEF e
  <2>3. IsBsServer(e)
    BY <2>1, <2>2 DEF IsBsServer, Differs, EntryFields
  <2> QED
    BY <2>2, <2>3 DEF s, e
<1>6. IsFiniteSet(T) /\ (\A u \in T : IsTransaction(u)) /\ \A t \in ctx.trans : \E u \in T : SameRequest(t, u)
  <2>1. IsFiniteSet(T)
    <3> DEFINE h == [t \in ctx.trans |-> OlderTransaction(t)]
    <3>1. h = [t \in ctx.trans |-> h[t]] /\ Range(h) = T
      BY DEF Range
    <3> HIDE DEF h
    <3>2. IsFiniteSet(Range(h))
      BY <1>2, <3>1, RangeFinite
    <3> QED
      BY <3>1, <3>2
  <2>2. \A t \in ctx.trans : Replaces(t, OlderTransaction(t))
    BY <1>2, OlderTransactionIs
  <2> QED
    BY <2>1, <2>2 DEF Replaces
<1> HIDE DEF f, g, T
<1>7. /\ IsRecord(d) /\ d.servers = f /\ d.bs = g /\ d.trans = T /\ d.state = ctx.state
      /\ SameAccounts(ctx, d)
  BY <1>2 DEF IsRecord, SameAccounts
<1> HIDE DEF d
<1>8. IsContext(d)
  BY <1>2, <1>3, <1>4, <1>5, <1>6, <1>7 DEF IsContext, SameAccounts
<1>9. KeepsWaiting(ctx.servers, f) /\ KeepsWaiting(ctx.bs, g)
  BY <1>3, <1>4, <1>5 DEF KeepsWaiting, Differs, EntryFields
<1>10. ListAwaits(T, f) /\ ListAwaits(T, g)
  BY <1>2, <1>6, <1>9, AwaitsOthers
<1>11. SameEntries(ctx, d)
  BY <1>3, <1>4, <1>5, <1>7 DEF SameEntries, SameList, Differs, EntryFields
<1>12. Good(d)
  BY <1>7, <1>8, <1>10 DEF Good
<1>13. Later(ctx, d)
  BY <1>3, <1>4, <1>5, <1>7, <1>11, <1>12 DEF Later, T
<1> QED
  BY <1>1, <1>13

-----------------------------------------------------------------------------
(* The objects                                                              *)

LEMMA AcceptedIs ==
    ASSUME NEW fields, DOMAIN fields \subseteq Int, NEW p, NEW f \in Accepted(fields, p)
    PROVE  f \in Range(fields) /\ p[f] # Bad
<1> DEFINE bad == {k \in DOMAIN fields : p[fields[k]] = Bad}
<1>1. PICK n \in DOMAIN fields : f = fields[n] /\ \A b \in bad : n < b
  BY DEF Accepted
<1>2. n \notin bad
  <2>1. n \in Int /\ ~(n < n)
    BY <1>1
  <2> HIDE DEF bad
  <2> QED
    BY <1>1, <2>1
<1> QED
  BY <1>1, <1>2 DEF Range

LEMMA SecurityOverwritten ==
    ASSUME NEW old, IsSecurity(old), NEW p, IsPayload(SecurityFields, p)
    PROVE  IsSecurity(Overwrite(SecurityFields, old, p))
<1> DEFINE new == Overwrite(SecurityFields, old, p)
<1>1. DOMAIN SecurityFields \subseteq Int
  BY DEF SecurityFields
<1>2. DOMAIN new = DOMAIN old /\ DOMAIN old = Range(SecurityFields)
  BY DEF Overwrite, IsSecurity
<1>3. ASSUME NEW f \in DOMAIN old
      PROVE  IsValue(f, new[f])
  <2>1. IsValue(f, old[f])
    BY DEF IsSecurity
  <2>2. CASE f \in Accepted(SecurityFields, p) /\ p[f] # Absent
    <3>1. new[f] = p[f]
      BY <2>2 DEF Overwrite
    <3>2. p[f] # Bad /\ f \in Range(SecurityFields)
      BY <1>1, <2>2, AcceptedIs
    <3>3. IsValue(f, p[f])
      BY <2>2, <3>2 DEF IsPayload
    <3> QED
      BY <3>1, <3>3
  <2>3. CASE ~(f \in Accepted(SecurityFields, p) /\ p[f] # Absent)
    <3>1. new[f] = old[f]
      BY <2>3 DEF Overwrite
    <3> QED
      BY <2>1, <3>1
  <2> QED
    BY <2>2, <2>3
<1> HIDE DEF new
<1>4. IsSecurity(new)
  BY <1>2, <1>3 DEF IsSecurity
<1> QED
  BY <1>4 DEF new

LEMMA ServerOverwritten ==
    ASSUME NEW old, IsServerInstance(old), NEW p, IsPayload(ServerFields, p)
    PROVE  IsServerInstance(Overwrite(ServerFields, old, p))
<1> DEFINE new == Overwrite(ServerFields, old, p)
<1>1. DOMAIN ServerFields \subseteq Int
  BY DEF ServerFields
<1>2. DOMAIN new = DOMAIN old /\ DOMAIN old = Range(ServerFields)
  BY DEF Overwrite, IsServerInstance
<1>3. ASSUME NEW f \in DOMAIN old
      PROVE  new[f] = old[f] \/ IsValue(f, new[f])
  <2>2. CASE f \in Accepted(ServerFields, p) /\ p[f] # Absent
    <3>1. new[f] = p[f]
      BY <2>2 DEF Overwrite
    <3>2. p[f] # Bad /\ f \in Range(ServerFields)
      BY <1>1, <2>2, AcceptedIs
    <3>3. IsValue(f, p[f])
      BY <2>2, <3>2 DEF IsPayload
    <3> QED
      BY <3>1, <3>3
  <2>3. CASE ~(f \in Accepted(ServerFields, p) /\ p[f] # Absent)
    BY <2>3 DEF Overwrite
  <2> QED
    BY <2>2, <2>3
<1> HIDE DEF new
<1>4. "lifetime" \in DOMAIN old
  BY <1>2, ServerFieldsAre
<1>5. IsValue("lifetime", old.lifetime) /\ \A f \in DOMAIN old : old[f] = Absent \/ IsValue(f, old[f])
  BY DEF IsServerInstance
<1>6. IsValue("lifetime", new.lifetime)
  BY <1>3, <1>4, <1>5
<1>7. \A f \in DOMAIN new : new[f] = Absent \/ IsValue(f, new[f])
  BY <1>2, <1>3, <1>5
<1>8. IsServerInstance(new)
  BY <1>2, <1>6, <1>7 DEF IsServerInstance
<1> QED
  BY <1>8 DEF new

LEMMA NewInstanceIs == IsServerInstance(NewServerInstance)
<1>1. 0 \in 0 .. MaxLife
  OBVIOUS
<1> QED
  BY <1>1, ServerFieldsAre DEF IsServerInstance, NewServerInstance, IsValue

LEMMA WithIs ==
    ASSUME NEW f, IsObject(f), NEW k, NEW v
    PROVE  IsObject(With(f, k, v)) /\ DOMAIN With(f, k, v) = DOMAIN f \cup {k}
<1>1. IsFiniteSet(DOMAIN f \cup {k})
  BY FS_AddElement DEF IsObject
<1> QED
  BY <1>1 DEF With, IsObject

LEMMA RestrictIs ==
    ASSUME NEW f, IsObject(f), NEW S, S \subseteq DOMAIN f
    PROVE  LET g == Restrict(f, S)
           IN  IsObject(g) /\ DOMAIN g = S /\ \A j \in S : g[j] = f[j]
<1>1. IsFiniteSet(S)
  BY FS_Subset DEF IsObject
<1> QED
  BY <1>1 DEF Restrict, IsObject

LEMMA ExceptIs ==
    ASSUME NEW f, IsObject(f), NEW k \in DOMAIN f, NEW v
    PROVE  LET g == [f EXCEPT ![k] = v]
           IN  /\ IsObject(g) /\ DOMAIN g = DOMAIN f /\ g[k] = v
               /\ \A j \in DOMAIN f \ {k} : g[j] = f[j]
  BY DEF IsObject

\* Only the instances have changed.
Data(c, d) ==
    /\ IsRecord(d) /\ AreAccounts(d.sec, d.serverObj)
    /\ d.servers = c.servers /\ d.bs = c.bs /\ d.trans = c.trans /\ d.state = c.state

LEMMA DataIs ==
    ASSUME NEW c, IsContext(c), NEW d, Data(c, d)
    PROVE  IsContext(d)
  BY DEF IsContext, Data

\* No Security instance but k has changed.
OnlyAt(c, d, k) ==
    \A j : j # k => /\ j \in d.torn <=> j \in c.torn
                    /\ j \in DOMAIN c.sec => j \in DOMAIN d.sec /\ d.sec[j] = c.sec[j]

LEMMA SecurityWriteIs ==
    ASSUME NEW c, IsContext(c), NEW k, NEW p, IsPayload(SecurityFields, p)
    PROVE  LET r == prv_security_write(c, k, p)
           IN  /\ Data(c, r.ctx) /\ OnlyAt(c, r.ctx, k)
               /\ r.code # "2.04" => r.ctx = c \/ k \in r.ctx.torn
<1> DEFINE r == prv_security_write(c, k, p)
<1> SUFFICES /\ Data(c, r.ctx) /\ OnlyAt(c, r.ctx, k)
             /\ r.code # "2.04" => r.ctx = c \/ k \in r.ctx.torn
  OBVIOUS
<1>1. IsRecord(c) /\ AreAccounts(c.sec, c.serverObj)
  BY DEF IsContext
<1>2. CASE k \notin DOMAIN c.sec
  <2>1. r.ctx = c
    BY <1>2 DEF prv_security_write
  <2> QED
    BY <1>1, <2>1 DEF Data, OnlyAt
<1>3. CASE k \in DOMAIN c.sec
  <2> DEFINE v == Overwrite(SecurityFields, c.sec[k], p)
             f == [c.sec EXCEPT ![k] = v]
             x == [c EXCEPT !.sec = f, !.torn = c.torn \ {k}]
             y == [c EXCEPT !.sec = f, !.torn = c.torn \cup {k}]
  <2>1. r \in {[ctx |-> x, code |-> "2.04"], [ctx |-> y, code |-> "4.00"]}
    BY <1>3 DEF prv_security_write
  <2>2. IsSecurity(v)
    BY <1>1, <1>3, SecurityOverwritten DEF AreAccounts
  <2> HIDE DEF v, r
  <2>3. IsObject(f) /\ DOMAIN f = DOMAIN c.sec /\ f[k] = v /\ \A j \in DOMAIN c.sec \ {k} : f[j] = c.sec[j]
    BY <1>1, <1>3, ExceptIs DEF AreAccounts
  <2> HIDE DEF f
  <2>4. AreAccounts(f, c.serverObj)
    BY <1>1, <2>2, <2>3 DEF AreAccounts
  <2>5. /\ IsRecord(x) /\ x.sec = f /\ x.torn = c.torn \ {k} /\ x.servers = c.servers /\ x.bs = c.bs
        /\ x.trans = c.trans /\ x.state = c.state /\ x.serverObj = c.serverObj
    BY <1>1 DEF IsRecord
  <2>6. /\ IsRecord(y) /\ y.sec = f /\ y.torn = c.torn \cup {k} /\ y.servers = c.servers /\ y.bs = c.bs
        /\ y.trans = c.trans /\ y.state = c.state /\ y.serverObj = c.serverObj
    BY <1>1 DEF IsRecord
  <2> HIDE DEF x, y
  <2>7. Data(c, x) /\ OnlyAt(c, x, k)
    BY <2>3, <2>4, <2>5 DEF Data, OnlyAt
  <2>8. Data(c, y) /\ OnlyAt(c, y, k) /\ k \in y.torn
    BY <2>3, <2>4, <2>6 DEF Data, OnlyAt
  <2> QED
    BY <2>1, <2>7, <2>8
<1> QED
  BY <1>2, <1>3

LEMMA SecurityDeleteIs ==
    ASSUME NEW c, IsContext(c), NEW k
    PROVE  LET r == prv_security_delete(c, k)
           IN  Data(c, r.ctx) /\ OnlyAt(c, r.ctx, k) /\ (r.code # "2.02" => r.ctx = c)
<1> DEFINE r == prv_security_delete(c, k)
<1> SUFFICES Data(c, r.ctx) /\ OnlyAt(c, r.ctx, k) /\ (r.code # "2.02" => r.ctx = c)
  OBVIOUS
<1>1. IsRecord(c) /\ AreAccounts(c.sec, c.serverObj)
  BY DEF IsContext
<1>2. CASE k \notin DOMAIN c.sec
  <2>1. r.ctx = c
    BY <1>2 DEF prv_security_delete
  <2> QED
    BY <1>1, <2>1 DEF Data, OnlyAt
<1>3. CASE k \in DOMAIN c.sec
  <2> DEFINE f == Restrict(c.sec, DOMAIN c.sec \ {k})
             x == [c EXCEPT !.sec = f, !.torn = c.torn \ {k}]
  <2>1. r = [ctx |-> x, code |-> "2.02"]
    BY <1>3 DEF prv_security_delete
  <2>2. IsObject(f) /\ DOMAIN f = DOMAIN c.sec \ {k} /\ \A j \in DOMAIN c.sec \ {k} : f[j] = c.sec[j]
    BY <1>1, RestrictIs DEF AreAccounts
  <2> HIDE DEF f, r
  <2>3. AreAccounts(f, c.serverObj)
    BY <1>1, <2>2 DEF AreAccounts
  <2>4. /\ IsRecord(x) /\ x.sec = f /\ x.torn = c.torn \ {k} /\ x.servers = c.servers /\ x.bs = c.bs
        /\ x.trans = c.trans /\ x.state = c.state /\ x.serverObj = c.serverObj
    BY <1>1 DEF IsRecord
  <2> HIDE DEF x
  <2>5. Data(c, x) /\ OnlyAt(c, x, k)
    BY <2>2, <2>3, <2>4 DEF Data, OnlyAt
  <2> QED
    BY <2>1, <2>5
<1> QED
  BY <1>2, <1>3

\* No Security instance has changed, though there may be new ones.
NoneChanged(c, d) ==
    /\ d.torn = c.torn
    /\ \A j \in DOMAIN c.sec : j \in DOMAIN d.sec /\ d.sec[j] = c.sec[j]

LEMMA SecurityCreateIs ==
    ASSUME NEW c, IsContext(c), NEW k, k \notin DOMAIN c.sec, NEW p, IsPayload(SecurityFields, p)
    PROVE  LET r == prv_security_create(c, k, p)
           IN  Data(c, r.ctx) /\ NoneChanged(c, r.ctx)
<1> DEFINE r == prv_security_create(c, k, p)
           new == [uri |-> 0, bootstrap |-> FALSE, shortID |-> 0, holdOff |-> 0]
           v == Overwrite(SecurityFields, new, p)
           f == With(c.sec, k, v)
           x == [c EXCEPT !.sec = f]
<1> SUFFICES Data(c, r.ctx) /\ NoneChanged(c, r.ctx)
  OBVIOUS
<1>1. IsRecord(c) /\ AreAccounts(c.sec, c.serverObj)
  BY DEF IsContext
<1>2. r.ctx \in {c, x}
  BY DEF prv_security_create
<1>3. IsSecurity(v)
  <2>1. DOMAIN new = Range(SecurityFields)
    BY SecurityFieldsAre
  <2>2. IsSecurity(new)
    <3>1. IsValue("bootstrap", FALSE)
      BY DEF IsValue
    <3>2. IsValue("uri", 0) /\ IsValue("shortID", 0) /\ IsValue("holdOff", 0)
      BY DEF IsValue
    <3>3. new.uri = 0 /\ new.bootstrap = FALSE /\ new.shortID = 0 /\ new.holdOff = 0
      OBVIOUS
    <3>4. DOMAIN new = {"uri", "bootstrap", "shortID", "holdOff"}
      OBVIOUS
    <3> HIDE DEF new
    <3>5. IsValue("bootstrap", new.bootstrap)
      BY <3>1, <3>3, Zenon
    <3>6. \A y \in DOMAIN new : IsValue(y, new[y])
      BY <3>2, <3>3, <3>4, <3>5
    <3> QED
      BY <2>1, <3>6 DEF IsSecurity
  <2> HIDE DEF new
  <2> QED
    BY <2>2, SecurityOverwritten
<1> HIDE DEF v, r
<1>4. IsObject(f) /\ DOMAIN f = DOMAIN c.sec \cup {k} /\ f[k] = v
      /\ \A j \in DOMAIN c.sec \ {k} : f[j] = c.sec[j]
  <2> DEFINE a == c.sec
  <2>1. IsObject(a)
    BY <1>1 DEF AreAccounts
  <2> HIDE DEF a
  <2>2. IsObject(With(a, k, v))
    BY <2>1, WithIs
  <2>3. DOMAIN With(a, k, v) = DOMAIN a \cup {k}
    BY <2>1, WithIs
  <2>4. With(a, k, v)[k] = v /\ \A j \in DOMAIN a \ {k} : With(a, k, v)[j] = a[j]
    BY DEF With
  <2> QED
    BY <2>2, <2>3, <2>4 DEF a
<1> HIDE DEF f
<1>5. AreAccounts(f, c.serverObj)
  BY <1>1, <1>3, <1>4 DEF AreAccounts
<1>6. /\ IsRecord(x) /\ x.sec = f /\ x.torn = c.torn /\ x.servers = c.servers /\ x.bs = c.bs
      /\ x.trans = c.trans /\ x.state = c.state /\ x.serverObj = c.serverObj
  BY <1>1 DEF IsRecord
<1> HIDE DEF x
<1>7. Data(c, x) /\ NoneChanged(c, x)
  BY <1>4, <1>5, <1>6 DEF Data, NoneChanged
<1>8. Data(c, c) /\ NoneChanged(c, c)
  BY <1>1 DEF Data, NoneChanged
<1> QED
  BY <1>2, <1>7, <1>8

SameSecurity(c, d) == d.sec = c.sec /\ d.torn = c.torn

IsResult(r) == r = [ctx |-> r.ctx, code |-> r.code]

\* A context with other instances of the Server object.
LEMMA ServerObjIs ==
    ASSUME NEW c, IsContext(c), NEW f, IsObject(f), \A k \in DOMAIN f : IsServerInstance(f[k])
    PROVE  LET d == [c EXCEPT !.serverObj = f]
           IN  Data(c, d) /\ SameSecurity(c, d) /\ d.serverObj = f
<1> DEFINE d == [c EXCEPT !.serverObj = f]
<1>1. IsRecord(c) /\ AreAccounts(c.sec, c.serverObj)
  BY DEF IsContext
<1>2. /\ IsRecord(d) /\ d.sec = c.sec /\ d.torn = c.torn /\ d.servers = c.servers /\ d.bs = c.bs
      /\ d.trans = c.trans /\ d.state = c.state /\ d.serverObj = f
  BY <1>1 DEF IsRecord
<1> HIDE DEF d
<1>3. AreAccounts(d.sec, d.serverObj)
  BY <1>1, <1>2 DEF AreAccounts
<1>4. Data(c, d) /\ SameSecurity(c, d) /\ d.serverObj = f
  BY <1>2, <1>3 DEF Data, SameSecurity
<1> QED
  BY <1>4 DEF d

LEMMA SameData ==
    ASSUME NEW c, IsContext(c)
    PROVE  Data(c, c) /\ SameSecurity(c, c)
  BY DEF IsContext, Data, SameSecurity

LEMMA DataTwice ==
    ASSUME NEW c, NEW d, NEW e, Data(c, d), SameSecurity(c, d), Data(d, e), SameSecurity(d, e)
    PROVE  Data(c, e) /\ SameSecurity(c, e)
  BY DEF Data, SameSecurity

LEMMA ServerDeleteIs ==
    ASSUME NEW c, IsContext(c), NEW k
    PROVE  LET r == prv_server_delete(c, k)
           IN  Data(c, r.ctx) /\ SameSecurity(c, r.ctx) /\ IsResult(r)
<1> DEFINE r == prv_server_delete(c, k)
           f == Restrict(c.serverObj, DOMAIN c.serverObj \ {k})
           x == [c EXCEPT !.serverObj = f]
<1>1. r \in {[ctx |-> c, code |-> "4.04"], [ctx |-> x, code |-> "2.02"]}
  BY DEF prv_server_delete
<1>2. IsObject(c.serverObj) /\ \A j \in DOMAIN c.serverObj : IsServerInstance(c.serverObj[j])
  BY DEF IsContext, AreAccounts
<1>3. IsObject(f) /\ DOMAIN f = DOMAIN c.serverObj \ {k}
      /\ \A j \in DOMAIN c.serverObj \ {k} : f[j] = c.serverObj[j]
  BY <1>2, RestrictIs
<1> HIDE DEF f, r
<1>4. Data(c, x) /\ SameSecurity(c, x)
  BY <1>2, <1>3, ServerObjIs
<1>5. Data(c, c) /\ SameSecurity(c, c)
  BY SameData
<1> HIDE DEF x
<1>6. IsResult(r) /\ r.ctx \in {c, x}
  BY <1>1 DEF IsResult
<1>7. Data(c, r.ctx) /\ SameSecurity(c, r.ctx) /\ IsResult(r)
  BY <1>4, <1>5, <1>6
<1> QED
  BY <1>7 DEF r

LEMMA ServerCreateIs ==
    ASSUME NEW c, IsContext(c), NEW k, NEW p, IsPayload(ServerFields, p)
    PROVE  LET r == prv_server_create(c, k, p)
           IN  /\ Data(c, r.ctx) /\ SameSecurity(c, r.ctx) /\ IsResult(r)
               /\ r.code \in {"2.01", "4.00"}
               /\ r.code = "2.01" => k \in DOMAIN r.ctx.serverObj
<1> DEFINE r == prv_server_create(c, k, p)
           v == Overwrite(ServerFields, NewServerInstance, p)
           a == c.serverObj
           f == With(a, k, v)
           x == [c EXCEPT !.serverObj = f]
<1>1. r \in {[ctx |-> c, code |-> "4.00"], [ctx |-> x, code |-> "2.01"]}
  BY DEF prv_server_create
<1>2. IsObject(a) /\ \A j \in DOMAIN a : IsServerInstance(a[j])
  BY DEF IsContext, AreAccounts
<1>3. IsServerInstance(v)
  BY NewInstanceIs, ServerOverwritten
<1> HIDE DEF v, a, r
<1>4. IsObject(f) /\ DOMAIN f = DOMAIN a \cup {k}
  BY <1>2, WithIs
<1>5. f[k] = v /\ \A j \in DOMAIN a \ {k} : f[j] = a[j]
  BY DEF With
<1> HIDE DEF f
<1>6. \A j \in DOMAIN f : IsServerInstance(f[j])
  BY <1>2, <1>3, <1>4, <1>5
<1>7. Data(c, x) /\ SameSecurity(c, x) /\ x.serverObj = f
  BY <1>4, <1>6, ServerObjIs
<1>8. Data(c, c) /\ SameSecurity(c, c)
  BY SameData
<1> HIDE DEF x
<1>9. /\ IsResult(r) /\ r.ctx \in {c, x} /\ r.code \in {"2.01", "4.00"}
      /\ r.code = "2.01" => r.ctx = x
  BY <1>1 DEF IsResult
<1>10. k \in DOMAIN x.serverObj
  BY <1>4, <1>7
<1>11. /\ Data(c, r.ctx) /\ SameSecurity(c, r.ctx) /\ IsResult(r)
       /\ r.code \in {"2.01", "4.00"} /\ (r.code = "2.01" => k \in DOMAIN r.ctx.serverObj)
  BY <1>7, <1>8, <1>9, <1>10
<1> QED
  BY <1>11 DEF r

LEMMA ServerWriteIs ==
    ASSUME NEW c, IsContext(c), NEW k, NEW p, IsPayload(ServerFields, p), NEW replace \in BOOLEAN
    PROVE  LET r == prv_server_write(c, k, p, replace)
           IN  /\ Data(c, r.ctx) /\ SameSecurity(c, r.ctx) /\ IsResult(r)
               /\ r.code = "2.04" => k \in DOMAIN r.ctx.serverObj
<1> DEFINE r == prv_server_write(c, k, p, replace)
<1> SUFFICES /\ Data(c, r.ctx) /\ SameSecurity(c, r.ctx) /\ IsResult(r)
             /\ r.code = "2.04" => k \in DOMAIN r.ctx.serverObj
  OBVIOUS
<1>1. CASE k \notin DOMAIN c.serverObj
  <2>1. r = [ctx |-> c, code |-> "4.04"]
    BY <1>1 DEF prv_server_write
  <2> HIDE DEF r
  <2>2. IsResult(r) /\ r.ctx = c /\ r.code # "2.04"
    BY <2>1 DEF IsResult
  <2> QED
    BY <2>2, SameData
<1>2. CASE k \in DOMAIN c.serverObj /\ replace
  <2> DEFINE d == prv_server_delete(c, k).ctx
             x == prv_server_create(d, k, p)
  <2>1. r = [x EXCEPT !.code = IF @ = "2.01" THEN "2.04" ELSE @]
    BY <1>2 DEF prv_server_write
  <2>2. Data(c, d) /\ SameSecurity(c, d) /\ IsContext(d)
    BY ServerDeleteIs, DataIs
  <2> HIDE DEF d
  <2>3. /\ Data(d, x.ctx) /\ SameSecurity(d, x.ctx) /\ IsResult(x)
        /\ x.code \in {"2.01", "4.00"} /\ (x.code = "2.01" => k \in DOMAIN x.ctx.serverObj)
    BY <2>2, ServerCreateIs
  <2> HIDE DEF x, r
  <2>4. /\ IsResult(r) /\ r.ctx = x.ctx /\ (r.code = "2.04" => x.code = "2.01")
    BY <2>1, <2>3 DEF IsResult
  <2>5. Data(c, x.ctx) /\ SameSecurity(c, x.ctx)
    BY <2>2, <2>3, DataTwice
  <2> QED
    BY <2>3, <2>4, <2>5
<1>3. CASE k \in DOMAIN c.serverObj /\ ~replace
  <2> DEFINE a == c.serverObj
             v == Overwrite(ServerFields, a[k], p)
             f == [a EXCEPT ![k] = v]
             x == [c EXCEPT !.serverObj = f]
  <2>1. IsResult(r) /\ r.ctx = x
    BY <1>3 DEF prv_server_write, IsResult
  <2>2. IsObject(a) /\ k \in DOMAIN a /\ \A j \in DOMAIN a : IsServerInstance(a[j])
    BY <1>3 DEF IsContext, AreAccounts
  <2>3. IsServerInstance(v)
    BY <2>2, ServerOverwritten
  <2> HIDE DEF v, a, r
  <2>4. IsObject(f) /\ DOMAIN f = DOMAIN a /\ f[k] = v /\ \A j \in DOMAIN a \ {k} : f[j] = a[j]
    BY <2>2, ExceptIs
  <2> HIDE DEF f
  <2>5. \A j \in DOMAIN f : IsServerInstance(f[j])
    BY <2>2, <2>3, <2>4
  <2>6. Data(c, x) /\ SameSecurity(c, x) /\ x.serverObj = f
    BY <2>4, <2>5, ServerObjIs
  <2> HIDE DEF x
  <2> QED
    BY <2>1, <2>2, <2>4, <2>6
<1> QED
  BY <1>1, <1>2, <1>3

-----------------------------------------------------------------------------
(* Commands                                                                 *)

\* The entry of number j is neither marked for removal nor of a torn instance.
Clean(c, j) ==
    /\ j \notin c.torn
    /\ j \in DOMAIN c.servers => ~c.servers[j].dirty
    /\ j \in DOMAIN c.bs => ~c.bs[j].dirty

\* The Security instance of an entry that is still clean is as it was.
KeepsClean(c, d) ==
    \A j \in DOMAIN c.servers \cup DOMAIN c.bs : Clean(d, j) =>
        /\ Clean(c, j)
        /\ j \in DOMAIN c.sec => j \in DOMAIN d.sec /\ d.sec[j] = c.sec[j]

\* What writing and deleting instances does to the rest of the context.
Rewrites(c, d) ==
    /\ IsContext(d) /\ d.trans = c.trans /\ d.state = c.state
    /\ DOMAIN d.servers = DOMAIN c.servers /\ DOMAIN d.bs = DOMAIN c.bs
    /\ \A j \in DOMAIN c.servers : Differs(c.servers[j], d.servers[j], {"lifetime", "dirty"})
    /\ \A j \in DOMAIN c.bs : Differs(c.bs[j], d.bs[j], {"dirty"})
    /\ KeepsClean(c, d)

LEMMA RewritesTwice ==
    ASSUME NEW c, NEW d, NEW e, Rewrites(c, d), Rewrites(d, e)
    PROVE  Rewrites(c, e)
<1>1. KeepsClean(c, e)
  BY DEF Rewrites, KeepsClean
<1>2. \A j \in DOMAIN c.servers : Differs(c.servers[j], e.servers[j], {"lifetime", "dirty"})
  BY DEF Rewrites, Differs, EntryFields
<1>3. \A j \in DOMAIN c.bs : Differs(c.bs[j], e.bs[j], {"dirty"})
  BY DEF Rewrites, Differs, EntryFields
<1> QED
  BY <1>1, <1>2, <1>3 DEF Rewrites

\* Entries as they were.
LEMMA SameDiffers ==
    ASSUME NEW c, IsContext(c), NEW F
    PROVE  /\ \A j \in DOMAIN c.servers : Differs(c.servers[j], c.servers[j], F)
           /\ \A j \in DOMAIN c.bs : Differs(c.bs[j], c.bs[j], F)
  BY DEF IsContext, IsServer, IsBsServer, IsEntry, Differs

LEMMA DataRewrites ==
    ASSUME NEW c, IsContext(c), NEW d, Data(c, d), NoneChanged(c, d)
    PROVE  Rewrites(c, d)
<1>1. IsContext(d)
  BY DataIs
<1>2. /\ \A j \in DOMAIN c.servers : Differs(c.servers[j], d.servers[j], {"lifetime", "dirty"})
      /\ \A j \in DOMAIN c.bs : Differs(c.bs[j], d.bs[j], {"dirty"})
  BY SameDiffers DEF Data
<1>3. KeepsClean(c, d)
  BY DEF KeepsClean, Clean, Data, NoneChanged
<1> QED
  BY <1>1, <1>2, <1>3 DEF Rewrites, Data

LEMMA ServerDataRewrites ==
    ASSUME NEW c, IsContext(c), NEW d, Data(c, d), SameSecurity(c, d)
    PROVE  Rewrites(c, d)
<1>1. NoneChanged(c, d)
  BY DEF SameSecurity, NoneChanged
<1> QED
  BY <1>1, DataRewrites

LEMMA TaggedIs ==
    ASSUME NEW f, IsObject(f), \A j \in DOMAIN f : IsEntry(f[j]), NEW S
    PROVE  LET g == Tagged(f, S)
           IN  /\ IsObject(g) /\ DOMAIN g = DOMAIN f
               /\ \A j \in DOMAIN f : /\ IsEntry(g[j]) /\ Differs(f[j], g[j], {"dirty"})
                                      /\ j \in S => g[j].dirty
                                      /\ j \notin S => g[j] = f[j]
<1> DEFINE g == Tagged(f, S)
<1>1. DOMAIN g = DOMAIN f /\ IsObject(g)
  BY DEF Tagged, IsObject
<1>2. ASSUME NEW j \in DOMAIN f
      PROVE  /\ IsEntry(g[j]) /\ Differs(f[j], g[j], {"dirty"})
             /\ (j \in S => g[j].dirty) /\ (j \notin S => g[j] = f[j])
  <2>1. CASE j \in S
    <3> DEFINE s == f[j]
               e == [s EXCEPT !.dirty = TRUE]
    <3>1. g[j] = e /\ IsEntry(s)
      BY <2>1 DEF Tagged
    <3>2. Differs(s, e, {"dirty"}) /\ e.dirty = TRUE
      BY <3>1 DEF Differs, IsEntry, EntryFields
    <3> HIDE DEF s, e
    <3>3. e.dirty \in BOOLEAN /\ e.dirty
      BY <3>2, Zenon
    <3>4. IsEntry(e)
      BY <3>1, <3>2, <3>3 DEF Differs, IsEntry, EntryFields
    <3> QED
      BY <2>1, <3>1, <3>2, <3>3, <3>4 DEF s
  <2>2. CASE j \notin S
    <3>1. g[j] = f[j]
      BY <2>2 DEF Tagged
    <3> QED
      BY <2>2, <3>1 DEF Differs, IsEntry
  <2> QED
    BY <2>1, <2>2
<1> QED
  BY <1>1, <1>2

\* d is c with entries of serverList and of bootstrapServerList marked for removal.
Marks(c, d, S, B) ==
    /\ IsContext(d) /\ SameAccounts(c, d) /\ d.trans = c.trans /\ d.state = c.state
    /\ DOMAIN d.servers = DOMAIN c.servers /\ DOMAIN d.bs = DOMAIN c.bs
    /\ \A j \in DOMAIN c.servers : /\ Differs(c.servers[j], d.servers[j], {"dirty"})
                                   /\ j \in S => d.servers[j].dirty
                                   /\ j \notin S => d.servers[j] = c.servers[j]
    /\ \A j \in DOMAIN c.bs : /\ Differs(c.bs[j], d.bs[j], {"dirty"})
                              /\ j \in B => d.bs[j].dirty
                              /\ j \notin B => d.bs[j] = c.bs[j]

LEMMA MarkedIs ==
    ASSUME NEW c, IsContext(c), NEW S, NEW B, NEW d, IsRecord(d), SameAccounts(c, d),
           d.bs = Tagged(c.bs, B), d.servers = Tagged(c.servers, S),
           d.trans = c.trans, d.state = c.state
    PROVE  Marks(c, d, S, B)
<1> DEFINE f == c.servers
           b == c.bs
           g == Tagged(f, S)
           h == Tagged(b, B)
<1>1. /\ IsRecord(c) /\ IsObject(f) /\ IsObject(b) /\ DOMAIN f \cap DOMAIN b = {}
      /\ \A j \in DOMAIN f : IsServer(f[j]) /\ IsEntry(f[j])
      /\ \A j \in DOMAIN b : IsBsServer(b[j]) /\ IsEntry(b[j])
  BY DEF IsContext, IsServer, IsBsServer
<1> HIDE DEF f, b
<1>2. /\ IsObject(g) /\ DOMAIN g = DOMAIN f
      /\ \A j \in DOMAIN f : /\ IsEntry(g[j]) /\ Differs(f[j], g[j], {"dirty"})
                             /\ j \in S => g[j].dirty
                             /\ j \notin S => g[j] = f[j]
  BY <1>1, TaggedIs
<1>3. /\ IsObject(h) /\ DOMAIN h = DOMAIN b
      /\ \A j \in DOMAIN b : /\ IsEntry(h[j]) /\ Differs(b[j], h[j], {"dirty"})
                             /\ j \in B => h[j].dirty
                             /\ j \notin B => h[j] = b[j]
  BY <1>1, TaggedIs
<1> HIDE DEF g, h
<1>4. \A j \in DOMAIN g : IsServer(g[j])
  BY <1>1, <1>2 DEF IsServer, Differs, EntryFields, Managed
<1>5. \A j \in DOMAIN h : IsBsServer(h[j])
  BY <1>1, <1>3 DEF IsBsServer, Differs, EntryFields
<1>6. /\ IsRecord(d) /\ d.servers = g /\ d.bs = h /\ d.trans = c.trans /\ d.state = c.state
      /\ SameAccounts(c, d)
  BY DEF f, b, g, h
<1>7. IsContext(d)
  BY <1>1, <1>2, <1>3, <1>4, <1>5, <1>6 DEF IsContext, SameAccounts
<1> QED
  BY <1>2, <1>3, <1>6, <1>7 DEF Marks, f, b

LEMMA UntaggedIs ==
    ASSUME NEW f, IsObject(f)
    PROVE  Tagged(f, {}) = f
  BY DEF Tagged, IsObject

LEMMA TagServerIs ==
    ASSUME NEW c, IsContext(c), NEW k
    PROVE  LET d == prv_tagServer(c, k)
           IN  IF k \in DOMAIN c.bs THEN Marks(c, d, {}, {k}) ELSE Marks(c, d, {k}, {})
<1> DEFINE d == prv_tagServer(c, k)
<1>1. IsRecord(c) /\ Tagged(c.servers, {}) = c.servers /\ Tagged(c.bs, {}) = c.bs
  BY UntaggedIs DEF IsContext
<1>2. CASE k \in DOMAIN c.bs
  <2>1. d = [c EXCEPT !.bs = Tagged(c.bs, {k})]
    BY <1>2 DEF prv_tagServer
  <2>2. /\ IsRecord(d) /\ SameAccounts(c, d) /\ d.trans = c.trans /\ d.state = c.state
        /\ d.bs = Tagged(c.bs, {k}) /\ d.servers = Tagged(c.servers, {})
    BY <1>1, <2>1, RecordBs DEF SameAccounts
  <2> HIDE DEF d
  <2>3. Marks(c, d, {}, {k})
    BY <2>2, MarkedIs
  <2> QED
    BY <1>2, <2>3 DEF d
<1>3. CASE k \notin DOMAIN c.bs
  <2>1. d = [c EXCEPT !.servers = Tagged(c.servers, {k})]
    BY <1>3 DEF prv_tagServer
  <2>2. /\ IsRecord(d) /\ SameAccounts(c, d) /\ d.trans = c.trans /\ d.state = c.state
        /\ d.bs = Tagged(c.bs, {}) /\ d.servers = Tagged(c.servers, {k})
    BY <1>1, <2>1, RecordServers DEF SameAccounts
  <2> HIDE DEF d
  <2>3. Marks(c, d, {k}, {})
    BY <2>2, MarkedIs
  <2> QED
    BY <1>3, <2>3 DEF d
<1> QED
  BY <1>2, <1>3

\* The Security instance of number j is as it was.
Untouched(c, d, j) ==
    /\ j \in c.torn => j \in d.torn
    /\ j \in DOMAIN c.sec => j \in DOMAIN d.sec /\ d.sec[j] = c.sec[j]

\* Instances change, and the entries of those that did are marked.
LEMMA MarksRewrite ==
    ASSUME NEW c, IsContext(c), NEW b, Data(c, b), NEW S, NEW B, NEW d, Marks(b, d, S, B),
           \A j \in DOMAIN c.servers \ S : Untouched(c, b, j),
           \A j \in DOMAIN c.bs \ B : Untouched(c, b, j)
    PROVE  Rewrites(c, d)
<1>1. /\ b.servers = c.servers /\ b.bs = c.bs /\ b.trans = c.trans /\ b.state = c.state
  BY DEF Data
<1>2. /\ IsContext(d) /\ d.sec = b.sec /\ d.torn = b.torn /\ d.trans = c.trans /\ d.state = c.state
      /\ DOMAIN d.servers = DOMAIN c.servers /\ DOMAIN d.bs = DOMAIN c.bs
      /\ \A j \in DOMAIN c.servers : Differs(c.servers[j], d.servers[j], {"dirty"})
      /\ \A j \in DOMAIN c.bs : Differs(c.bs[j], d.bs[j], {"dirty"})
  BY <1>1 DEF Marks, SameAccounts
<1>3. \A j \in DOMAIN c.servers : Differs(c.servers[j], d.servers[j], {"lifetime", "dirty"})
  BY <1>2 DEF Differs
<1>4. KeepsClean(c, d)
  <2> SUFFICES ASSUME NEW j \in DOMAIN c.servers \cup DOMAIN c.bs, Clean(d, j)
               PROVE  /\ Clean(c, j)
                      /\ j \in DOMAIN c.sec => j \in DOMAIN d.sec /\ d.sec[j] = c.sec[j]
    BY DEF KeepsClean
  <2>1. j \in DOMAIN c.servers => j \notin S /\ d.servers[j] = c.servers[j]
    BY <1>1, <1>2 DEF Marks, Clean
  <2>2. j \in DOMAIN c.bs => j \notin B /\ d.bs[j] = c.bs[j]
    BY <1>1, <1>2 DEF Marks, Clean
  <2>3. Untouched(c, b, j)
    BY <2>1, <2>2
  <2> QED
    BY <1>2, <2>1, <2>2, <2>3 DEF Clean, Untouched
<1> QED
  BY <1>2, <1>3, <1>4 DEF Rewrites

\* A write that failed half way.
LEMMA TornRewrites ==
    ASSUME NEW c, IsContext(c), NEW k, NEW d, Data(c, d), OnlyAt(c, d, k), k \in d.torn
    PROVE  Rewrites(c, d)
<1>1. IsContext(d)
  BY DataIs
<1>2. /\ \A j \in DOMAIN c.servers : Differs(c.servers[j], d.servers[j], {"lifetime", "dirty"})
      /\ \A j \in DOMAIN c.bs : Differs(c.bs[j], d.bs[j], {"dirty"})
  BY SameDiffers DEF Data
<1>3. KeepsClean(c, d)
  BY DEF KeepsClean, Clean, Data, OnlyAt
<1> QED
  BY <1>1, <1>2, <1>3 DEF Rewrites, Data

\* A Security instance that was written or deleted, and its entry marked.
LEMMA TagRewrites ==
    ASSUME NEW c, IsContext(c), NEW k, NEW b, Data(c, b), OnlyAt(c, b, k)
    PROVE  Rewrites(c, prv_tagServer(b, k))
<1> DEFINE d == prv_tagServer(b, k)
<1>1. IsContext(b) /\ b.bs = c.bs /\ b.servers = c.servers
  BY DataIs DEF Data
<1>2. IF k \in DOMAIN b.bs THEN Marks(b, d, {}, {k}) ELSE Marks(b, d, {k}, {})
  BY <1>1, TagServerIs
<1>3. \A j : j # k => Untouched(c, b, j)
  BY DEF OnlyAt, Untouched
<1>4. DOMAIN c.servers \cap DOMAIN c.bs = {}
  BY DEF IsContext
<1> HIDE DEF d
<1>5. CASE k \in DOMAIN c.bs
  <2>1. /\ \A j \in DOMAIN c.servers \ {} : Untouched(c, b, j)
        /\ \A j \in DOMAIN c.bs \ {k} : Untouched(c, b, j)
    BY <1>3, <1>4, <1>5
  <2>2. Marks(b, d, {}, {k})
    BY <1>1, <1>2, <1>5
  <2>3. Rewrites(c, d)
    BY <2>1, <2>2, MarksRewrite
  <2> QED
    BY <2>3 DEF d
<1>6. CASE k \notin DOMAIN c.bs
  <2>1. /\ \A j \in DOMAIN c.servers \ {k} : Untouched(c, b, j)
        /\ \A j \in DOMAIN c.bs \ {} : Untouched(c, b, j)
    BY <1>3, <1>4, <1>6
  <2>2. Marks(b, d, {k}, {})
    BY <1>1, <1>2, <1>6
  <2>3. Rewrites(c, d)
    BY <2>1, <2>2, MarksRewrite
  <2> QED
    BY <2>3 DEF d
<1> QED
  BY <1>5, <1>6

\* A write to the Server object changes nothing that the Security object says.
KeepsSecurity(c, d) == SameSecurity(c, d) /\ d.bs = c.bs /\ SameList(c.servers, d.servers)

\* The server in use takes the lifetime of the instance.
LEMMA UpdateInfoIs ==
    ASSUME NEW c, IsContext(c), NEW k \in DOMAIN c.serverObj
    PROVE  Rewrites(c, prv_updateServerInfo(c, k)) /\ KeepsSecurity(c, prv_updateServerInfo(c, k))
<1> DEFINE n == c.serverObj[k].lifetime
           user == Least({i \in DOMAIN c.servers : /\ c.servers[i].shortID = c.serverObj[k].shortID
                                                   /\ c.serverObj[k].shortID # 0})
           f == [i \in DOMAIN c.servers |->
                    IF i \in user THEN [c.servers[i] EXCEPT !.lifetime = n] ELSE c.servers[i]]
           d == [c EXCEPT !.servers = f]
<1>1. prv_updateServerInfo(c, k) = d
  BY DEF prv_updateServerInfo
<1>2. n \in 0 .. MaxLife
  BY DEF IsContext, AreAccounts, IsServerInstance, IsValue
<1>3. IsRecord(c) /\ IsObject(c.servers) /\ DOMAIN c.servers \cap DOMAIN c.bs = {}
  BY DEF IsContext
<1>4. IsObject(f) /\ DOMAIN f = DOMAIN c.servers
  BY <1>3 DEF IsObject
<1> HIDE DEF n, user
<1>5. ASSUME NEW j \in DOMAIN c.servers
      PROVE  IsServer(f[j]) /\ Differs(c.servers[j], f[j], {"lifetime", "dirty"}) /\ f[j].dirty = c.servers[j].dirty
  <2> DEFINE s == c.servers[j]
             e == [s EXCEPT !.lifetime = n]
  <2>1. IsServer(s) /\ IsEntry(s) /\ f[j] \in {s, e}
    BY DEF IsContext, IsServer
  <2>2. Differs(s, e, {"lifetime"}) /\ e.lifetime = n
    BY <2>1 DEF Differs, IsEntry, EntryFields
  <2> HIDE DEF s, e, f
  <2>3. IsEntry(e)
    BY <1>2, <2>1, <2>2 DEF Differs, IsEntry, EntryFields
  <2>4. IsServer(e)
    BY <1>2, <2>1, <2>2, <2>3 DEF IsServer, Differs, EntryFields, Managed
  <2>5. Differs(s, s, {"lifetime", "dirty"}) /\ Differs(s, e, {"lifetime", "dirty"}) /\ e.dirty = s.dirty
    BY <2>1, <2>2 DEF Differs, EntryFields, IsEntry
  <2> QED
    BY <2>1, <2>4, <2>5 DEF s
<1> HIDE DEF f
<1>6. IsContext(d)
  BY <1>3, <1>4, <1>5, ServersIs
<1>7. /\ d.servers = f /\ d.state = c.state /\ d.sec = c.sec /\ d.bs = c.bs /\ d.trans = c.trans
      /\ d.torn = c.torn
  BY <1>3, RecordServers
<1> HIDE DEF d
<1>8. KeepsClean(c, d)
  BY <1>4, <1>5, <1>7 DEF KeepsClean, Clean
<1>9. \A j \in DOMAIN c.bs : Differs(c.bs[j], c.bs[j], {"dirty"})
  BY SameDiffers
<1>10. Rewrites(c, d)
  BY <1>4, <1>5, <1>6, <1>7, <1>8, <1>9 DEF Rewrites
<1>11. KeepsSecurity(c, d)
  BY <1>4, <1>5, <1>7 DEF KeepsSecurity, SameSecurity, SameList, Differs, EntryFields
<1> QED
  BY <1>1, <1>10, <1>11

LEMMA SecurityResults ==
    ASSUME NEW c, NEW k, NEW p
    PROVE  /\ IsResult(prv_security_write(c, k, p)) /\ IsResult(prv_security_create(c, k, p))
           /\ IsResult(prv_security_delete(c, k))
<1>1. IsResult(prv_security_write(c, k, p))
  BY DEF prv_security_write, IsResult
<1>2. IsResult(prv_security_create(c, k, p))
  BY DEF prv_security_create, IsResult
<1>3. IsResult(prv_security_delete(c, k))
  BY DEF prv_security_delete, IsResult
<1> QED
  BY <1>1, <1>2, <1>3

FieldsOf(obj) == IF obj = 0 THEN SecurityFields ELSE ServerFields

LEMMA ObjectCreateIs ==
    ASSUME NEW c, IsContext(c), NEW obj \in {0, 1}, NEW k, obj = 0 => k \notin DOMAIN c.sec,
           NEW p, IsPayload(FieldsOf(obj), p)
    PROVE  LET r == object_create(c, obj, k, p)
           IN  Rewrites(c, r.ctx) /\ IsResult(r)
<1> DEFINE r == object_create(c, obj, k, p)
<1>1. CASE obj = 0
  <2>1. r = prv_security_create(c, k, p) /\ k \notin DOMAIN c.sec /\ IsPayload(SecurityFields, p)
    BY <1>1 DEF object_create, FieldsOf
  <2> HIDE DEF r
  <2>2. Data(c, r.ctx) /\ NoneChanged(c, r.ctx) /\ IsResult(r)
    BY <2>1, SecurityCreateIs, SecurityResults
  <2>3. Rewrites(c, r.ctx)
    BY <2>2, DataRewrites
  <2> QED
    BY <2>2, <2>3 DEF r
<1>2. CASE obj = 1
  <2>1. r = prv_server_create(c, k, p) /\ IsPayload(ServerFields, p)
    BY <1>2 DEF object_create, FieldsOf
  <2> HIDE DEF r
  <2>2. Data(c, r.ctx) /\ SameSecurity(c, r.ctx) /\ IsResult(r)
    BY <2>1, ServerCreateIs
  <2>3. Rewrites(c, r.ctx)
    BY <2>2, ServerDataRewrites
  <2> QED
    BY <2>2, <2>3 DEF r
<1> QED
  BY <1>1, <1>2

\* A write to the Server object.
LEMMA ObjectWriteIs ==
    ASSUME NEW c, IsContext(c), NEW k, NEW p, IsPayload(ServerFields, p), NEW partial \in BOOLEAN
    PROVE  LET r == object_write(c, 1, k, p, partial)
           IN  Rewrites(c, r.ctx) /\ KeepsSecurity(c, r.ctx) /\ IsResult(r)
<1> DEFINE r == object_write(c, 1, k, p, partial)
           w == prv_server_write(c, k, p, ~partial)
<1>1. /\ Data(c, w.ctx) /\ SameSecurity(c, w.ctx) /\ IsResult(w)
      /\ w.code = "2.04" => k \in DOMAIN w.ctx.serverObj
  BY ServerWriteIs
<1>2. r = IF w.code = "2.04" THEN [w EXCEPT !.ctx = prv_updateServerInfo(@, k)] ELSE w
  BY DEF object_write
<1> HIDE DEF w, r
<1>3. Rewrites(c, w.ctx) /\ IsContext(w.ctx)
  BY <1>1, ServerDataRewrites, DataIs
<1>6. KeepsSecurity(c, w.ctx)
  BY <1>1 DEF KeepsSecurity, SameSecurity, SameList, Data
<1>4. CASE w.code = "2.04"
  <2> DEFINE x == w.ctx
             y == prv_updateServerInfo(x, k)
  <2>1. r = [w EXCEPT !.ctx = y]
    BY <1>2, <1>4
  <2>2. Rewrites(x, y) /\ KeepsSecurity(x, y)
    BY <1>1, <1>3, <1>4, UpdateInfoIs
  <2> HIDE DEF x, y
  <2>3. r.ctx = y /\ IsResult(r)
    BY <1>1, <2>1 DEF IsResult
  <2>4. Rewrites(c, y)
    BY <1>3, <2>2, RewritesTwice DEF x
  <2>5. KeepsSecurity(c, y)
    BY <1>6, <2>2 DEF x, KeepsSecurity, SameSecurity, SameList
  <2> QED
    BY <2>3, <2>4, <2>5 DEF r
<1>5. CASE w.code # "2.04"
  BY <1>1, <1>2, <1>3, <1>5, <1>6 DEF r
<1> QED
  BY <1>4, <1>5

LEMMA PutInstanceIs ==
    ASSUME NEW c, IsContext(c), NEW obj \in {0, 1}, NEW k, NEW p, IsPayload(FieldsOf(obj), p),
           NEW single \in BOOLEAN
    PROVE  Rewrites(c, PutInstance(c, obj, k, p, single).ctx)
<1> DEFINE r == PutInstance(c, obj, k, p, single)
<1>1. CASE object_isInstanceNew(c, obj, k)
  <2> DEFINE n == IF single THEN k ELSE lwm2m_list_newId(Instances(c, obj))
             w == object_create(c, obj, n, p)
  <2>1. r = [w EXCEPT !.code = IF @ = "2.01" THEN "2.04" ELSE @]
    BY <1>1 DEF PutInstance, object_createInstance
  <2>2. obj = 0 => n \notin DOMAIN c.sec
    <3>1. IsFiniteSet(DOMAIN c.sec)
      BY DEF IsContext, AreAccounts, IsObject
    <3>2. obj = 0 => Instances(c, obj) = DOMAIN c.sec
      BY DEF Instances
    <3>3. lwm2m_list_newId(DOMAIN c.sec) \notin DOMAIN c.sec
      BY <3>1, NewIdIs
    <3> QED
      BY <1>1, <3>2, <3>3 DEF object_isInstanceNew
  <2> HIDE DEF n
  <2>3. Rewrites(c, w.ctx) /\ IsResult(w)
    BY <2>2, ObjectCreateIs
  <2> HIDE DEF r, w
  <2>4. r.ctx = w.ctx
    BY <2>1, <2>3 DEF IsResult
  <2> QED
    BY <2>3, <2>4 DEF r
<1>2. CASE ~object_isInstanceNew(c, obj, k) /\ obj = 0
  <2> DEFINE w == prv_security_write(c, k, p)
             d == IF w.code = "2.04" THEN prv_tagServer(w.ctx, k) ELSE w.ctx
  <2>1. r = [w EXCEPT !.ctx = d]
    BY <1>2 DEF PutInstance, object_write, object_writeInstance
  <2>2. /\ Data(c, w.ctx) /\ OnlyAt(c, w.ctx, k) /\ IsResult(w)
        /\ w.code # "2.04" => w.ctx = c \/ k \in w.ctx.torn
    BY <1>2, SecurityWriteIs, SecurityResults DEF FieldsOf
  <2> HIDE DEF w
  <2>3. Rewrites(c, prv_tagServer(w.ctx, k))
    BY <2>2, TagRewrites
  <2>4. w.code # "2.04" => Rewrites(c, w.ctx)
    <3>1. Rewrites(c, c)
      BY SameData, ServerDataRewrites
    <3> QED
      BY <2>2, <3>1, TornRewrites
  <2>5. Rewrites(c, d)
    BY <2>3, <2>4
  <2> HIDE DEF d, r
  <2>6. r.ctx = d
    BY <2>1, <2>2 DEF IsResult
  <2> QED
    BY <2>5, <2>6 DEF r
<1>3. CASE ~object_isInstanceNew(c, obj, k) /\ obj = 1
  <2> DEFINE w == IF single THEN object_write(c, 1, k, p, FALSE) ELSE prv_server_write(c, k, p, TRUE)
  <2>1. r = [w EXCEPT !.ctx = @]
    BY <1>3 DEF PutInstance, object_writeInstance
  <2>2. Rewrites(c, w.ctx) /\ IsResult(w)
    <3>1. IsPayload(ServerFields, p)
      BY <1>3 DEF FieldsOf
    <3>2. CASE single
      BY <3>1, <3>2, ObjectWriteIs
    <3>3. CASE ~single
      <4>1. w = prv_server_write(c, k, p, TRUE)
        BY <3>3
      <4> HIDE DEF w
      <4>2. Data(c, w.ctx) /\ SameSecurity(c, w.ctx) /\ IsResult(w)
        BY <3>1, <4>1, ServerWriteIs
      <4> QED
        BY <4>2, ServerDataRewrites
    <3> QED
      BY <3>2, <3>3
  <2> HIDE DEF w, r
  <2>3. r.ctx = w.ctx
    BY <2>1, <2>2 DEF IsResult
  <2> QED
    BY <2>2, <2>3 DEF r
<1> QED
  BY <1>1, <1>2, <1>3

\* f[n] is the result of the first n instances.
IsPutting(f, N, c, obj, items, single) ==
    f = [n \in 0 .. N |-> IF n = 0 THEN [ctx |-> c, code |-> NoInstance]
                          ELSE PutNext(f[n - 1], obj, items[n], single)]

\* The recursion of PutInstances is well defined.
LEMMA PuttingExists ==
    ASSUME NEW c, NEW obj, NEW items, NEW single, NEW N \in Nat
    PROVE  \E f : IsPutting(f, N, c, obj, items, single)
<1> DEFINE B == [ctx |-> c, code |-> NoInstance]
           F(r, n) == PutNext(r, obj, items[n], single)
           P(m) == \E f : f = [n \in 0 .. m |-> IF n = 0 THEN B ELSE F(f[n - 1], n)]
           C == {m \in Nat : ~P(m)}
<1> HIDE DEF B, F
<1>1. P(0)
  <2> DEFINE g == [n \in 0 .. 0 |-> B]
  <2>1. g = [n \in 0 .. 0 |-> IF n = 0 THEN B ELSE F(g[n - 1], n)]
    OBVIOUS
  <2> QED
    BY <2>1
<1>2. ASSUME NEW m \in Nat, P(m) PROVE P(m + 1)
  <2>1. PICK f : f = [n \in 0 .. m |-> IF n = 0 THEN B ELSE F(f[n - 1], n)]
    BY <1>2
  <2> DEFINE g == [n \in 0 .. (m + 1) |-> IF n = m + 1 THEN F(f[m], m + 1) ELSE f[n]]
  <2>2. \A n \in 0 .. m : f[n] = IF n = 0 THEN B ELSE F(f[n - 1], n)
    BY <2>1
  <2>3. ASSUME NEW n \in 0 .. (m + 1)
        PROVE  g[n] = IF n = 0 THEN B ELSE F(g[n - 1], n)
    <3>1. CASE n = m + 1
      <4>1. g[n] = F(f[m], m + 1) /\ g[n - 1] = f[m] /\ n # 0
        BY <3>1
      <4> QED
        BY <3>1, <4>1
    <3>2. CASE n # m + 1
      <4>1. n \in 0 .. m /\ g[n] = f[n] /\ (n # 0 => g[n - 1] = f[n - 1])
        BY <3>2
      <4> QED
        BY <2>2, <4>1
    <3> QED
      BY <3>1, <3>2
  <2>4. g = [n \in 0 .. (m + 1) |-> g[n]]
    OBVIOUS
  <2> HIDE DEF g
  <2>5. g = [n \in 0 .. (m + 1) |-> IF n = 0 THEN B ELSE F(g[n - 1], n)]
    BY <2>3, <2>4
  <2> QED
    BY <2>5
<1> HIDE DEF P
<1>3. C = {}
  <2> SUFFICES ASSUME C # {} PROVE FALSE
    OBVIOUS
  <2>1. PICK m \in C : \A j \in C : m <= j
    BY NatMin
  <2>2. m # 0
    BY <1>1
  <2>3. m - 1 \in Nat /\ m - 1 \notin C
    BY <2>1, <2>2
  <2> QED
    BY <1>2, <2>1, <2>3
<1>4. P(N)
  BY <1>3
<1> QED
  BY <1>4 DEF P, B, F, IsPutting

PuttingOf(f, c, obj, items, single) ==
    /\ PutInstances(c, obj, items, single) = f[Len(items)]
    /\ f[0] = [ctx |-> c, code |-> NoInstance]
    /\ \A n \in 1 .. Len(items) : f[n] = PutNext(f[n - 1], obj, items[n], single)

LEMMA PuttingIs ==
    ASSUME NEW c, NEW obj, NEW items, Len(items) \in Nat, NEW single
    PROVE  \E f : PuttingOf(f, c, obj, items, single)
<1> DEFINE N == Len(items)
           after[n \in 0 .. N] == IF n = 0 THEN [ctx |-> c, code |-> NoInstance]
                                  ELSE PutNext(after[n - 1], obj, items[n], single)
<1>1. N \in Nat
  OBVIOUS
<1>2. after = [n \in 0 .. N |-> IF n = 0 THEN [ctx |-> c, code |-> NoInstance]
                                ELSE PutNext(after[n - 1], obj, items[n], single)]
  <2> HIDE DEF N, after
  <2>1. after = CHOOSE g : IsPutting(g, N, c, obj, items, single)
    BY Zenon DEF after, IsPutting
  <2>2. \E g : IsPutting(g, N, c, obj, items, single)
    BY <1>1, PuttingExists
  <2>3. IsPutting(after, N, c, obj, items, single)
    BY <2>1, <2>2
  <2> QED
    BY <2>3 DEF IsPutting
<1>3. PutInstances(c, obj, items, single) = after[N]
  BY DEF PutInstances
<1> HIDE DEF N, after
<1>4. after[0] = [ctx |-> c, code |-> NoInstance]
  BY <1>1, <1>2
<1>5. \A n \in 1 .. N : after[n] = PutNext(after[n - 1], obj, items[n], single)
  BY <1>1, <1>2
<1> QED
  BY <1>3, <1>4, <1>5 DEF N, PuttingOf

\* A PUT, whole or up to the instance refused.
LEMMA PutInstancesIs ==
    ASSUME NEW c, IsContext(c), NEW obj \in {0, 1}, NEW items, items \in Seq(Range(items)),
           \A it \in Range(items) : IsPayload(FieldsOf(obj), it.data), NEW single \in BOOLEAN
    PROVE  Rewrites(c, PutInstances(c, obj, items, single).ctx)
<1>1. Len(items) \in Nat /\ DOMAIN items = 1 .. Len(items)
  OBVIOUS
<1>2. PICK f : PuttingOf(f, c, obj, items, single)
  BY <1>1, PuttingIs
<1>3. /\ PutInstances(c, obj, items, single) = f[Len(items)]
      /\ f[0] = [ctx |-> c, code |-> NoInstance]
      /\ \A n \in 1 .. Len(items) : f[n] = PutNext(f[n - 1], obj, items[n], single)
  BY <1>2 DEF PuttingOf
<1> DEFINE C == {n \in 0 .. Len(items) : ~Rewrites(c, f[n].ctx)}
<1>4. C = {}
  <2> SUFFICES ASSUME C # {} PROVE FALSE
    OBVIOUS
  <2>0. C \in SUBSET Nat
    BY <1>1
  <2>1. PICK m \in C : \A j \in C : m <= j
    <3> HIDE DEF C
    <3> QED BY <2>0, NatMin
  <2>2. m # 0
    <3>1. Rewrites(c, c)
      BY SameData, ServerDataRewrites
    <3>2. f[0].ctx = c
      BY <1>3
    <3> QED
      BY <2>1, <3>1, <3>2
  <2>3. m - 1 \in 0 .. Len(items) /\ m - 1 \notin C /\ m \in 1 .. Len(items)
    BY <1>1, <2>1, <2>2
  <2>4. Rewrites(c, f[m - 1].ctx)
    BY <2>3
  <2> DEFINE r == f[m - 1]
             it == items[m]
  <2>5. f[m] = PutNext(r, obj, it, single)
    BY <1>3, <2>3
  <2>6. IsPayload(FieldsOf(obj), it.data)
    <3>1. it \in Range(items)
      BY <1>1, <2>3 DEF Range
    <3> QED
      BY <3>1
  <2> HIDE DEF r, it
  <2>7. CASE f[m] = r \/ f[m] = [ctx |-> r.ctx, code |-> NoInstance]
    BY <2>1, <2>4, <2>7 DEF r
  <2>8. CASE f[m] = PutInstance(r.ctx, obj, it.inst, it.data, single)
    <3> DEFINE x == r.ctx
    <3>1. f[m] = PutInstance(x, obj, it.inst, it.data, single)
      BY <2>8
    <3>2. IsContext(x) /\ Rewrites(c, x)
      BY <2>4 DEF r, Rewrites
    <3> HIDE DEF x
    <3>3. Rewrites(x, f[m].ctx)
      BY <2>6, <3>1, <3>2, PutInstanceIs
    <3>4. Rewrites(c, f[m].ctx)
      BY <3>2, <3>3, RewritesTwice
    <3> QED
      BY <2>1, <3>4
  <2> QED
    BY <2>5, <2>7, <2>8 DEF PutNext
<1> QED
  BY <1>1, <1>3, <1>4

LEMMA DeleteSecurityIs ==
    ASSUME NEW c, IsContext(c), NEW i \in DOMAIN c.bs
    PROVE  Rewrites(c, DeleteSecurity(c, i))
<1> DEFINE f == Restrict(c.sec, DOMAIN c.sec \cap {i})
           b == [c EXCEPT !.sec = f, !.torn = c.torn \cap {i}]
           S == DOMAIN b.servers
           B == DOMAIN b.bs \ {i}
           d == DeleteSecurity(c, i)
<1>1. IsRecord(c) /\ AreAccounts(c.sec, c.serverObj)
  BY DEF IsContext
<1>2. IsObject(f) /\ DOMAIN f = DOMAIN c.sec \cap {i} /\ \A j \in DOMAIN c.sec \cap {i} : f[j] = c.sec[j]
  BY <1>1, RestrictIs DEF AreAccounts
<1>3. d = [b EXCEPT !.bs = Tagged(b.bs, B), !.servers = Tagged(b.servers, S)]
  BY DEF DeleteSecurity, prv_tagAllServer
<1> HIDE DEF f
<1>4. AreAccounts(f, c.serverObj)
  BY <1>1, <1>2 DEF AreAccounts
<1>5. /\ IsRecord(b) /\ b.sec = f /\ b.torn = c.torn \cap {i} /\ b.servers = c.servers /\ b.bs = c.bs
      /\ b.trans = c.trans /\ b.state = c.state /\ b.serverObj = c.serverObj
  BY <1>1 DEF IsRecord
<1> HIDE DEF b
<1>6. Data(c, b) /\ IsContext(b)
  BY <1>4, <1>5, DataIs DEF Data
<1>7. \A j \in {i} : Untouched(c, b, j)
  BY <1>2, <1>5 DEF Untouched
<1>8. /\ IsRecord(d) /\ SameAccounts(b, d) /\ d.trans = b.trans /\ d.state = b.state
      /\ d.bs = Tagged(b.bs, B) /\ d.servers = Tagged(b.servers, S)
  BY <1>3, <1>5 DEF IsRecord, SameAccounts
<1>9. /\ \A j \in DOMAIN c.servers \ S : Untouched(c, b, j)
      /\ \A j \in DOMAIN c.bs \ B : Untouched(c, b, j)
  BY <1>5, <1>7
<1> HIDE DEF d, S, B
<1>10. Marks(b, d, S, B)
  BY <1>6, <1>8, MarkedIs
<1>11. Rewrites(c, d)
  BY <1>6, <1>9, <1>10, MarksRewrite
<1> QED
  BY <1>11 DEF d

LEMMA NoServerObj ==
    ASSUME NEW c, IsContext(c)
    PROVE  Rewrites(c, [c EXCEPT !.serverObj = <<>>])
<1>1. IsObject(<<>>) /\ DOMAIN <<>> = {}
  BY FS_EmptySet DEF IsObject
<1> DEFINE f == <<>>
           d == [c EXCEPT !.serverObj = f]
<1>2. IsObject(f) /\ \A k \in DOMAIN f : IsServerInstance(f[k])
  BY <1>1
<1> HIDE DEF f
<1>3. Data(c, d) /\ SameSecurity(c, d)
  BY <1>2, ServerObjIs
<1> HIDE DEF d
<1>4. Rewrites(c, d)
  BY <1>3, ServerDataRewrites
<1> QED
  BY <1>4 DEF d, f

LEMMA DeleteInstancesIs ==
    ASSUME NEW c, IsContext(c), NEW i \in DOMAIN c.bs, NEW obj, NEW k
    PROVE  Rewrites(c, DeleteInstances(c, i, obj, k).ctx)
<1> DEFINE r == DeleteInstances(c, i, obj, k)
<1>1. CASE obj = 0 /\ k = All
  <2>1. r.ctx = DeleteSecurity(c, i)
    BY <1>1 DEF DeleteInstances
  <2> QED
    BY <2>1, DeleteSecurityIs
<1>2. CASE obj # 0 /\ k = All
  <2>1. r.ctx = [c EXCEPT !.serverObj = <<>>]
    BY <1>2 DEF DeleteInstances
  <2> HIDE DEF r
  <2> QED
    BY <2>1, NoServerObj DEF r
<1>3. CASE k # All /\ obj = 0
  <2> DEFINE w == prv_security_delete(c, k)
             d == IF w.code = "2.02" THEN prv_tagServer(w.ctx, k) ELSE w.ctx
  <2>1. r = [w EXCEPT !.ctx = d]
    BY <1>3 DEF DeleteInstances, object_delete
  <2>2. Data(c, w.ctx) /\ OnlyAt(c, w.ctx, k) /\ (w.code # "2.02" => w.ctx = c) /\ IsResult(w)
    BY SecurityDeleteIs, SecurityResults
  <2> HIDE DEF w
  <2>3. Rewrites(c, prv_tagServer(w.ctx, k)) /\ Rewrites(c, c)
    BY <2>2, TagRewrites, SameData, ServerDataRewrites
  <2>4. Rewrites(c, d)
    BY <2>2, <2>3
  <2> HIDE DEF d, r
  <2>5. r.ctx = d
    BY <2>1, <2>2 DEF IsResult
  <2> QED
    BY <2>4, <2>5 DEF r
<1>4. CASE k # All /\ obj # 0
  <2> DEFINE w == prv_server_delete(c, k)
  <2>1. r = [w EXCEPT !.ctx = @]
    BY <1>4 DEF DeleteInstances, object_delete
  <2>2. Data(c, w.ctx) /\ SameSecurity(c, w.ctx) /\ IsResult(w)
    BY ServerDeleteIs
  <2> HIDE DEF w, r
  <2>3. r.ctx = w.ctx
    BY <2>1, <2>2 DEF IsResult
  <2>4. Rewrites(c, w.ctx)
    BY <2>2, ServerDataRewrites
  <2> QED
    BY <2>3, <2>4 DEF r
<1> QED
  BY <1>1, <1>2, <1>3, <1>4

\* What a command of bootstrap server i does.
Obeys(c, d, i) ==
    /\ IsContext(d) /\ d.trans = c.trans
    /\ d.state = c.state \/ (d.state = "BOOTSTRAPPING" /\ d.bs[i].status \in Busy)
    /\ DOMAIN d.servers = DOMAIN c.servers /\ DOMAIN d.bs = DOMAIN c.bs
    /\ \A j \in DOMAIN c.servers : Differs(c.servers[j], d.servers[j], {"lifetime", "dirty"})
    /\ \A j \in DOMAIN c.bs : Differs(c.bs[j], d.bs[j], {"status", "registration", "dirty"})
    /\ KeepsWaiting(c.bs, d.bs) /\ StaysBusy(c.bs, d.bs) /\ KeepsClean(c, d)

LEMMA ObeysTwice ==
    ASSUME NEW c, NEW d, NEW e, NEW i \in DOMAIN c.bs, Obeys(c, d, i), Obeys(d, e, i)
    PROVE  Obeys(c, e, i)
<1>1. KeepsClean(c, e)
  BY DEF Obeys, KeepsClean
<1>2. \A j \in DOMAIN c.servers : Differs(c.servers[j], e.servers[j], {"lifetime", "dirty"})
  BY DEF Obeys, Differs, EntryFields
<1>3. \A j \in DOMAIN c.bs : Differs(c.bs[j], e.bs[j], {"status", "registration", "dirty"})
  BY DEF Obeys, Differs, EntryFields
<1>4. KeepsWaiting(c.bs, e.bs) /\ StaysBusy(c.bs, e.bs)
  BY DEF Obeys, KeepsWaiting, StaysBusy
<1>5. e.state = c.state \/ (e.state = "BOOTSTRAPPING" /\ e.bs[i].status \in Busy)
  BY DEF Obeys, StaysBusy
<1> QED
  BY <1>1, <1>2, <1>3, <1>4, <1>5 DEF Obeys

LEMMA RewritesObey ==
    ASSUME NEW c, NEW d, NEW i, Rewrites(c, d)
    PROVE  Obeys(c, d, i)
<1>1. \A j \in DOMAIN c.bs : Differs(c.bs[j], d.bs[j], {"status", "registration", "dirty"})
  BY DEF Rewrites, Differs
<1>2. \A j \in DOMAIN c.bs : /\ d.bs[j].status = c.bs[j].status /\ d.bs[j].node = c.bs[j].node
                             /\ d.bs[j].session = c.bs[j].session
                             /\ d.bs[j].dropped = c.bs[j].dropped
  BY DEF Rewrites, Differs, EntryFields
<1>3. KeepsWaiting(c.bs, d.bs) /\ StaysBusy(c.bs, d.bs)
  BY <1>2 DEF KeepsWaiting, StaysBusy, Rewrites
<1> QED
  BY <1>1, <1>3 DEF Rewrites, Obeys

LEMMA SetBsObeys ==
    ASSUME NEW c, IsContext(c), NEW i \in DOMAIN c.bs, NEW e, IsBsServer(e),
           Differs(c.bs[i], e, {"status", "registration"}),
           e.status \in Waiting => e.status = c.bs[i].status,
           c.bs[i].status \in Busy => e.status \in Busy
    PROVE  Obeys(c, SetBs(c, i, e), i) /\ SetBs(c, i, e).bs[i] = e
<1> DEFINE d == SetBs(c, i, e)
<1>1. /\ IsContext(d) /\ SameAccounts(c, d) /\ d.state = c.state /\ d.servers = c.servers
      /\ d.trans = c.trans /\ DOMAIN d.bs = DOMAIN c.bs
      /\ d.bs[i] = e /\ \A j \in DOMAIN c.bs \ {i} : d.bs[j] = c.bs[j]
  BY SetBsIs
<1> HIDE DEF d
<1>2. /\ e.node = c.bs[i].node /\ e.session = c.bs[i].session /\ e.dirty = c.bs[i].dirty
      /\ e.dropped = c.bs[i].dropped
      /\ Differs(c.bs[i], e, {"status", "registration", "dirty"})
  BY DEF Differs, EntryFields
<1>3. /\ \A j \in DOMAIN c.servers : Differs(c.servers[j], c.servers[j], {"lifetime", "dirty"})
      /\ \A j \in DOMAIN c.bs : Differs(c.bs[j], c.bs[j], {"status", "registration", "dirty"})
  BY SameDiffers
<1>4. KeepsWaiting(c.bs, d.bs) /\ StaysBusy(c.bs, d.bs)
  BY <1>1, <1>2 DEF KeepsWaiting, StaysBusy
<1>5. KeepsClean(c, d)
  BY <1>1, <1>2 DEF KeepsClean, Clean, SameAccounts
<1>6. \A j \in DOMAIN c.bs : Differs(c.bs[j], d.bs[j], {"status", "registration", "dirty"})
  BY <1>1, <1>2, <1>3
<1>7. Obeys(c, d, i)
  BY <1>1, <1>3, <1>4, <1>5, <1>6 DEF Obeys
<1> QED
  BY <1>1, <1>7 DEF d

LEMMA ObeysBootstrapping ==
    ASSUME NEW c, NEW d, NEW i, Obeys(c, d, i), d.bs[i].status \in Busy
    PROVE  Obeys(c, [d EXCEPT !.state = "BOOTSTRAPPING"], i)
<1> DEFINE e == [d EXCEPT !.state = "BOOTSTRAPPING"]
<1>1. IsContext(d) /\ IsRecord(d) /\ "BOOTSTRAPPING" \in States
  BY DEF Obeys, IsContext, States
<1>2. /\ e.state = "BOOTSTRAPPING" /\ e.bs = d.bs /\ e.sec = d.sec
      /\ e.serverObj = d.serverObj /\ e.servers = d.servers /\ e.trans = d.trans /\ e.torn = d.torn
      /\ IsContext(e)
  BY <1>1, RecordState, StateIs
<1> HIDE DEF e
<1>3. KeepsClean(c, e)
  BY <1>2 DEF Obeys, KeepsClean, Clean
<1>4. Obeys(c, e, i)
  BY <1>2, <1>3 DEF Obeys
<1> QED
  BY <1>4 DEF e

\* The entry of a server whose command is heard, or not.
LEMMA CheckedIs ==
    ASSUME NEW s, IsBsServer(s)
    PROVE  LET e == prv_checkServerStatus(s, now).server
           IN  /\ IsBsServer(e) /\ Differs(s, e, {"status", "registration"})
               /\ e.status \in Waiting => e.status = s.status
               /\ s.status \in Busy => e.status \in Busy
<1> DEFINE e == prv_checkServerStatus(s, now).server
           x == [s EXCEPT !.status = "BS_PENDING"]
           y == [s EXCEPT !.registration = now + ExchangeLifetime]
<1>1. IsEntry(s)
  BY DEF IsBsServer
<1>2. e \in {s, x, y}
  BY DEF prv_checkServerStatus
<1>3. /\ Differs(s, x, {"status", "registration"}) /\ x.status = "BS_PENDING"
      /\ x.registration = s.registration
  BY <1>1 DEF Differs, IsEntry, EntryFields
<1>4. /\ Differs(s, y, {"status", "registration"}) /\ y.status = s.status
      /\ y.registration = now + ExchangeLifetime
  BY <1>1 DEF Differs, IsEntry, EntryFields
<1>5. now + ExchangeLifetime \in Int
  BY DEF now
<1> HIDE DEF e, x, y
<1>6. IsEntry(x) /\ IsEntry(y)
  BY <1>1, <1>3, <1>4, <1>5 DEF Differs, IsEntry, EntryFields
<1>7. IsBsServer(x) /\ IsBsServer(y)
  BY <1>3, <1>4, <1>6 DEF IsBsServer, BsStatuses
<1>8. Differs(s, s, {"status", "registration"})
  BY <1>1 DEF Differs, IsEntry
<1>9. /\ IsBsServer(e) /\ Differs(s, e, {"status", "registration"})
      /\ e.status \in Waiting => e.status = s.status
      /\ s.status \in Busy => e.status \in Busy
  BY <1>2, <1>3, <1>4, <1>7, <1>8 DEF Waiting, Busy
<1> QED
  BY <1>9 DEF e

LEMMA HeardIs ==
    ASSUME NEW c, IsContext(c), NEW i \in DOMAIN c.bs
    PROVE  Obeys(c, SetBs(c, i, prv_checkServerStatus(c.bs[i], now).server), i)
<1> DEFINE s == c.bs[i]
           e == prv_checkServerStatus(s, now).server
<1>1. IsBsServer(s)
  BY DEF IsContext
<1> HIDE DEF s
<1>2. /\ IsBsServer(e) /\ Differs(s, e, {"status", "registration"})
      /\ e.status \in Waiting => e.status = s.status
      /\ s.status \in Busy => e.status \in Busy
  BY <1>1, CheckedIs
<1> HIDE DEF e
<1>3. Obeys(c, SetBs(c, i, e), i)
  BY <1>2, SetBsObeys DEF s
<1> QED
  BY <1>3 DEF e, s

LEMMA SettledIs ==
    ASSUME NEW c, NEW i \in DOMAIN c.bs, NEW r, Obeys(c, r.ctx, i)
    PROVE  Obeys(c, Settled(r, i), i)
<1> DEFINE d == r.ctx
           s == d.bs[i]
           e == [s EXCEPT !.status = "BS_PENDING"]
           x == SetBs(d, i, e)
<1>1. IsContext(d) /\ i \in DOMAIN d.bs /\ Obeys(c, d, i)
  BY DEF Obeys
<1>2. IsBsServer(s) /\ IsEntry(s)
  BY <1>1 DEF IsContext, IsBsServer
<1>3. Settled(r, i) \in {d, [x EXCEPT !.state = "BOOTSTRAPPING"]}
  BY DEF Settled
<1> HIDE DEF d, s
<1>4. IsEntry(e) /\ Differs(s, e, {"status"}) /\ e.status = "BS_PENDING"
  BY <1>2, StatusIs
<1> HIDE DEF e
<1>5. /\ IsBsServer(e) /\ Differs(s, e, {"status", "registration"})
      /\ e.status \notin Waiting /\ e.status \in Busy
  BY <1>4 DEF IsBsServer, BsStatuses, Differs, Waiting, Busy
<1>6. Obeys(d, x, i) /\ x.bs[i] = e
  BY <1>1, <1>5, SetBsObeys DEF s
<1> HIDE DEF x
<1>7. Obeys(c, x, i)
  BY <1>1, <1>6, ObeysTwice
<1>8. Obeys(c, [x EXCEPT !.state = "BOOTSTRAPPING"], i)
  BY <1>5, <1>6, <1>7, ObeysBootstrapping
<1> QED
  BY <1>1, <1>3, <1>8

LEMMA SameObeys ==
    ASSUME NEW c, IsContext(c), NEW i
    PROVE  Obeys(c, c, i)
  BY SameData, ServerDataRewrites, RewritesObey

LEMMA HandleCommandIs ==
    ASSUME NEW c, IsContext(c), NEW i \in DOMAIN c.bs, NEW q \in Commands,
           q.op \in {"put", "delete", "get", "post"}
    PROVE  Obeys(c, bootstrap_handleCommand(c, i, q, now), i)
<1> DEFINE heard == prv_checkServerStatus(c.bs[i], now)
           d == SetBs(c, i, heard.server)
           single == q.inst # All
           r == CASE q.op = "put"    -> PutInstances(d, q.obj, q.items, single)
                  [] q.op = "delete" -> DeleteInstances(d, i, q.obj, q.inst)
                  [] q.op = "get"    -> [ctx |-> d, code |-> "2.05"]
                  [] q.op = "post"   -> [ctx |-> d, code |-> "4.00"]
<1>1. bootstrap_handleCommand(c, i, q, now) \in {Settled(r, i), c}
  BY DEF bootstrap_handleCommand
<1>2. Obeys(c, d, i)
  BY HeardIs
<1> HIDE DEF d
<1>3. IsContext(d) /\ i \in DOMAIN d.bs
  BY <1>2 DEF Obeys
<1>4. Obeys(d, r.ctx, i)
  <2>1. CASE q.op = "put"
    <3>1. r = PutInstances(d, q.obj, q.items, single)
      BY <2>1
    <3>2. /\ q.items \in Seq(Range(q.items)) /\ q.obj \in {0, 1}
          /\ \A it \in Range(q.items) : IsPayload(FieldsOf(q.obj), it.data)
      BY <2>1, CommandAssumption DEF FieldsOf
    <3>3. single \in BOOLEAN
      OBVIOUS
    <3> HIDE DEF r, single
    <3>4. Rewrites(d, r.ctx)
      BY <1>3, <3>1, <3>2, <3>3, PutInstancesIs
    <3> QED
      BY <3>4, RewritesObey
  <2>2. CASE q.op = "delete"
    <3>1. r = DeleteInstances(d, i, q.obj, q.inst)
      BY <2>2
    <3> HIDE DEF r
    <3>2. Rewrites(d, r.ctx)
      BY <1>3, <3>1, DeleteInstancesIs
    <3> QED
      BY <3>2, RewritesObey
  <2>3. CASE q.op \in {"get", "post"}
    <3>1. r.ctx = d
      BY <2>3
    <3> HIDE DEF r
    <3> QED
      BY <1>3, <3>1, SameObeys
  <2> QED
    BY <2>1, <2>2, <2>3
<1> HIDE DEF r
<1>5. Obeys(c, r.ctx, i)
  BY <1>2, <1>4, ObeysTwice
<1>6. Obeys(c, Settled(r, i), i) /\ Obeys(c, c, i)
  BY <1>5, SettledIs, SameObeys
<1> QED
  BY <1>1, <1>6

LEMMA HandleDeleteAllIs ==
    ASSUME NEW c, IsContext(c), NEW i \in DOMAIN c.bs
    PROVE  Obeys(c, bootstrap_handleDeleteAll(c, i, now), i)
<1> DEFINE heard == prv_checkServerStatus(c.bs[i], now)
           d == SetBs(c, i, heard.server)
           e == DeleteSecurity(d, i)
           f == [e EXCEPT !.serverObj = <<>>]
<1>1. bootstrap_handleDeleteAll(c, i, now) \in {f, c}
  BY DEF bootstrap_handleDeleteAll
<1>2. Obeys(c, d, i)
  BY HeardIs
<1> HIDE DEF d
<1>3. IsContext(d) /\ i \in DOMAIN d.bs
  BY <1>2 DEF Obeys
<1>4. Rewrites(d, e)
  BY <1>3, DeleteSecurityIs
<1>5. Obeys(d, e, i) /\ IsContext(e)
  BY <1>4, RewritesObey DEF Rewrites
<1> HIDE DEF e
<1>6. Rewrites(e, f)
  BY <1>5, NoServerObj
<1> HIDE DEF f
<1>7. Obeys(e, f, i)
  BY <1>6, RewritesObey
<1>8. Obeys(d, f, i)
  BY <1>3, <1>5, <1>7, ObeysTwice
<1>9. Obeys(c, f, i) /\ Obeys(c, c, i)
  BY <1>2, <1>8, ObeysTwice, SameObeys
<1> QED
  BY <1>1, <1>9

LEMMA HandleFinishIs ==
    ASSUME NEW c, IsContext(c), NEW i \in DOMAIN c.bs
    PROVE  Obeys(c, bootstrap_handleFinish(c, i), i)
<1> DEFINE s == c.bs[i]
           e == [s EXCEPT !.status = "BS_FINISHING"]
<1>1. bootstrap_handleFinish(c, i) \in {SetBs(c, i, e), c}
  BY DEF bootstrap_handleFinish
<1>2. IsEntry(s)
  BY DEF IsContext, IsBsServer
<1> HIDE DEF s
<1>3. IsEntry(e) /\ Differs(s, e, {"status"}) /\ e.status = "BS_FINISHING"
  BY <1>2, StatusIs
<1> HIDE DEF e
<1>4. /\ IsBsServer(e) /\ Differs(s, e, {"status", "registration"})
      /\ e.status \notin Waiting /\ e.status \in Busy
  BY <1>3 DEF IsBsServer, BsStatuses, Differs, Waiting, Busy
<1>5. Obeys(c, SetBs(c, i, e), i) /\ Obeys(c, c, i)
  BY <1>4, SetBsObeys, SameObeys DEF s
<1> QED
  BY <1>1, <1>5

LEMMA CommandedIs ==
    ASSUME NEW c, Good(c), NEW i \in DOMAIN c.bs, NEW q \in Commands
    PROVE  LET d == Commanded(c, i, q)
           IN  Obeys(c, d, i) /\ Good(d)
<1> DEFINE d == Commanded(c, i, q)
<1>1. IsContext(c) /\ q.op \in {"finish", "deleteAll", "put", "delete", "get", "post"}
  BY CommandAssumption DEF Good
<1>2. Obeys(c, d, i)
  <2>1. CASE q.op = "finish"
    BY <1>1, <2>1, HandleFinishIs DEF Commanded
  <2>2. CASE q.op = "deleteAll"
    BY <1>1, <2>2, HandleDeleteAllIs DEF Commanded
  <2>3. CASE q.op \in {"put", "delete", "get", "post"}
    BY <1>1, <2>3, HandleCommandIs DEF Commanded
  <2> QED
    BY <1>1, <2>1, <2>2, <2>3
<1> HIDE DEF d
<1>3. KeepsWaiting(c.servers, d.servers) /\ KeepsWaiting(c.bs, d.bs)
  BY <1>2 DEF Obeys, KeepsWaiting, Differs, EntryFields
<1>4. \A t \in c.trans : \E u \in d.trans : SameRequest(t, u)
  BY <1>2 DEF Obeys, SameRequest
<1>5. ListAwaits(d.trans, d.servers) /\ ListAwaits(d.trans, d.bs)
  BY <1>3, <1>4, AwaitsOthers DEF Good
<1>6. Good(d)
  BY <1>2, <1>5 DEF Good, Obeys
<1> QED
  BY <1>2, <1>6 DEF d

-----------------------------------------------------------------------------
(* The calls of the application, and the writes of servers                  *)

\* What a call of the application does.
Asks(c, d) ==
    /\ Good(d) /\ Renewed(c, d) /\ d.state = c.state
    /\ StaysBusy(c.bs, d.bs) /\ (Secure(c) => Secure(d))

LEMMA QuietAsks ==
    ASSUME NEW c, NEW d, Good(d), Quiet(c, d), d.state = c.state, d.bs = c.bs
    PROVE  Asks(c, d)
  BY QuietRenews, SecureQuiet DEF Asks, StaysBusy

LEMMA FilledAsks ==
    ASSUME NEW c, Good(c), DOMAIN c.servers = {}
    PROVE  Asks(c, object_getServers(c, FALSE).ctx)
<1> DEFINE d == object_getServers(c, FALSE).ctx
<1>1. /\ Good(d) /\ SameAccounts(c, d) /\ d.state = c.state /\ d.trans = c.trans
      /\ Extends(c.sec, c.servers, d.servers, FALSE) /\ Extends(c.sec, c.bs, d.bs, TRUE)
  BY GetServersIs
<1> HIDE DEF d
<1>2. Renews(c.sec, c.servers, d.servers, FALSE)
  BY <1>1 DEF Extends, Renews
<1>3. Renews(c.sec, c.bs, d.bs, TRUE)
  BY <1>1 DEF Extends, Renews
<1>4. NoneRegistered(c, d) /\ AddsOnly(c, d)
  BY <1>1 DEF Extends, NoneRegistered, AddsOnly
<1>5. StaysBusy(c.bs, d.bs)
  BY <1>1 DEF Extends, StaysBusy
<1>6. ASSUME Secure(c)
      PROVE  Secure(d)
  <2>1. DOMAIN c.bs \subseteq DOMAIN d.bs /\ d.sec = c.sec
    BY <1>1 DEF Extends, SameAccounts
  <2> QED
    BY <1>6, <2>1 DEF Secure, Knows
<1>7. Asks(c, d)
  BY <1>1, <1>2, <1>3, <1>4, <1>5, <1>6 DEF Asks, Renewed
<1> QED
  BY <1>7 DEF d

\* A registered server is asked for an update.
LEMMA NeedIs ==
    ASSUME NEW s, IsServer(s), s.status \in {"REGISTERED", "REG_UPDATE_PENDING", "REG_UPDATE_NEEDED"},
           NEW need \in {"REG_UPDATE_NEEDED", "REG_FULL_UPDATE_NEEDED"}
    PROVE  LET e == [s EXCEPT !.status = need]
           IN  IsServer(e) /\ Differs(s, e, {"status"}) /\ e.status = need
<1> DEFINE e == [s EXCEPT !.status = need]
<1>1. IsEntry(e) /\ Differs(s, e, {"status"}) /\ e.status = need
  BY StatusIs DEF IsServer
<1> HIDE DEF e
<1>2. IsServer(e)
  BY <1>1 DEF Differs, EntryFields, IsServer, Statuses, Managed
<1> QED
  BY <1>1, <1>2 DEF e

LEMMA UpdateRegistrationIs ==
    ASSUME NEW c, Good(c), NEW shortID, NEW withObjects \in BOOLEAN
    PROVE  Asks(c, lwm2m_update_registration(c, shortID, withObjects))
<1> DEFINE need == IF withObjects THEN "REG_FULL_UPDATE_NEEDED" ELSE "REG_UPDATE_NEEDED"
           Ask(s) ==
             CASE s.status \in {"REGISTERED", "REG_UPDATE_PENDING"} -> [s EXCEPT !.status = need]
               [] shortID # 0 /\ withObjects /\ s.status = "REG_UPDATE_NEEDED" ->
                    [s EXCEPT !.status = need]
               [] OTHER -> s
           first == {i \in DOMAIN c.servers : /\ c.servers[i].shortID = shortID
                                              /\ \A j \in DOMAIN c.servers :
                                                   c.servers[j].shortID = shortID => i <= j}
           f == [i \in DOMAIN c.servers |->
                    IF shortID = 0 \/ i \in first THEN Ask(c.servers[i]) ELSE c.servers[i]]
           d == [c EXCEPT !.servers = f]
<1>1. CASE DOMAIN c.servers = {}
  BY <1>1, FilledAsks DEF lwm2m_update_registration
<1>2. CASE DOMAIN c.servers # {}
  <2>1. lwm2m_update_registration(c, shortID, withObjects) = d
    BY <1>2 DEF lwm2m_update_registration
  <2>2. IsContext(c) /\ IsRecord(c) /\ IsObject(c.servers) /\ DOMAIN c.servers \cap DOMAIN c.bs = {}
    BY DEF Good, IsContext
  <2>3. IsObject(f) /\ DOMAIN f = DOMAIN c.servers
    BY <2>2 DEF IsObject
  <2>4. need \in {"REG_UPDATE_NEEDED", "REG_FULL_UPDATE_NEEDED"}
    OBVIOUS
  <2> HIDE DEF need, first
  <2>5. ASSUME NEW j \in DOMAIN c.servers
        PROVE  LET s == c.servers[j]
               IN  /\ IsServer(f[j]) /\ f[j].node = s.node /\ f[j].uri = s.uri
                   /\ f[j].dirty = s.dirty /\ f[j].session = s.session
                   /\ f[j] = s \/ f[j].status \in {"REG_UPDATE_NEEDED", "REG_FULL_UPDATE_NEEDED"}
    <3> DEFINE s == c.servers[j]
               e == [s EXCEPT !.status = need]
    <3>1. IsServer(s)
      BY <2>2 DEF IsContext
    <3>2. f[j] = s \/ (f[j] = e /\ s.status \in {"REGISTERED", "REG_UPDATE_PENDING", "REG_UPDATE_NEEDED"})
      OBVIOUS
    <3> HIDE DEF s, f
    <3>3. CASE f[j] = s
      BY <3>1, <3>3 DEF s
    <3>4. CASE f[j] = e /\ s.status \in {"REGISTERED", "REG_UPDATE_PENDING", "REG_UPDATE_NEEDED"}
      <4>1. IsServer(e) /\ Differs(s, e, {"status"}) /\ e.status = need
        BY <2>4, <3>1, <3>4, NeedIs
      <4> HIDE DEF e
      <4> QED
        BY <2>4, <3>4, <4>1 DEF s, Differs, EntryFields
    <3> QED
      BY <3>2, <3>3, <3>4
  <2> HIDE DEF f
  <2>6. IsContext(d)
    BY <2>2, <2>3, <2>5, ServersIs
  <2>7. /\ d.servers = f /\ d.state = c.state /\ d.sec = c.sec /\ d.bs = c.bs /\ d.trans = c.trans
        /\ d.torn = c.torn /\ d.serverObj = c.serverObj
    BY <2>2, RecordServers
  <2> HIDE DEF d
  <2>8. SameEntries(c, d)
    BY <2>3, <2>5, <2>7 DEF SameEntries, SameAccounts, SameList
  <2>9. KeepsWaiting(c.servers, d.servers)
    BY <2>3, <2>5, <2>7 DEF KeepsWaiting, Waiting
  <2>10. NoneRegistered(c, d) /\ AddsOnly(c, d)
    BY <2>3, <2>5, <2>7 DEF NoneRegistered, AddsOnly
  <2>11. Good(d)
    <3>1. \A t \in c.trans : SameRequest(t, t)
      BY DEF SameRequest
    <3>2. ListAwaits(c.trans, d.servers)
      BY <2>9, <3>1, AwaitsOthers DEF Good
    <3> QED
      BY <2>6, <2>7, <3>2 DEF Good
  <2> QED
    BY <2>1, <2>7, <2>8, <2>10, <2>11, QuietAsks DEF Quiet
<1> QED
  BY <1>1, <1>2

LEMMA DeregisterAsks ==
    ASSUME NEW c, Good(c), NEW fate
    PROVE  Asks(c, lwm2m_deregister(c, fate))
<1> DEFINE d == lwm2m_deregister(c, fate)
<1>1. Good(d) /\ Quiet(c, d) /\ d.bs = c.bs /\ d.state = c.state
  BY DeregisterAllIs
<1> HIDE DEF d
<1>2. Asks(c, d)
  BY <1>1, QuietAsks
<1> QED
  BY <1>2 DEF d

\* What a write to the Server object does.
Writes(c, d) == Good(d) /\ Rewrites(c, d) /\ KeepsSecurity(c, d)

LEMMA WriteLifetimeIs ==
    ASSUME NEW c, Good(c), NEW k, NEW life \in Lifetimes
    PROVE  LET p == [[f \in Range(ServerFields) |-> Absent] EXCEPT !.lifetime = life]
           IN  Writes(c, object_write(c, 1, k, p, TRUE).ctx)
<1> DEFINE p == [[f \in Range(ServerFields) |-> Absent] EXCEPT !.lifetime = life]
           d == object_write(c, 1, k, p, TRUE).ctx
<1>1. p = [f \in Range(ServerFields) |-> IF f = "lifetime" THEN life ELSE Absent]
  BY ServerFieldsAre
<1> HIDE DEF p
<1>2. IsPayload(ServerFields, p)
  BY <1>1 DEF IsPayload, IsValue
<1>3. IsContext(c)
  BY DEF Good
<1>4. Rewrites(c, d) /\ KeepsSecurity(c, d)
  BY <1>2, <1>3, ObjectWriteIs
<1> HIDE DEF d
<1>5. KeepsWaiting(c.servers, d.servers) /\ KeepsWaiting(c.bs, d.bs)
  BY <1>4 DEF Rewrites, KeepsWaiting, Differs, EntryFields
<1>6. \A t \in c.trans : SameRequest(t, t)
  BY DEF SameRequest
<1>7. ListAwaits(c.trans, d.servers) /\ ListAwaits(c.trans, d.bs)
  BY <1>5, <1>6, AwaitsOthers DEF Good
<1>8. Writes(c, d)
  BY <1>4, <1>7 DEF Writes, Good, Rewrites
<1> QED
  BY <1>8 DEF d, p

-----------------------------------------------------------------------------
(* The main loop and the servers                                            *)

IsApp(a) ==
    /\ a \in [prev : {a.prev}, sec : {a.sec}, serverObj : {a.serverObj}, calls : {a.calls},
              stale : {a.stale}, cut : {a.cut}]
    /\ AreAccounts(a.sec, a.serverObj)

IsPeer(p) == p \in [eol : -1 .. MaxLife, life : 0 .. MaxLife]

ArePeers(q) == q = [i \in DOMAIN q |-> q[i]] /\ \A i \in DOMAIN q : IsPeer(q[i])

\* The registration of server i among the registrations q.
RegistrationAt(q, i) == IF i \in DOMAIN q THEN q[i] ELSE NoPeer

\* It was just granted, or it is gone.
Renewal(p) == p.life = 0 \/ p.eol = p.life

LEMMA PeerIs ==
    ASSUME NEW q, ArePeers(q), NEW i
    PROVE  IsPeer(RegistrationAt(q, i))
<1>1. IsPeer(NoPeer)
  BY DEF IsPeer, NoPeer
<1> QED
  BY <1>1 DEF ArePeers, RegistrationAt

LEMMA WithPeer ==
    ASSUME NEW q, ArePeers(q), NEW k, NEW n \in 0 .. MaxLife
    PROVE  LET r == With(q, k, [eol |-> n, life |-> n])
           IN  /\ ArePeers(r) /\ Renewal(RegistrationAt(r, k))
               /\ \A i : i # k => RegistrationAt(r, i) = RegistrationAt(q, i)
<1> DEFINE v == [eol |-> n, life |-> n]
           r == With(q, k, v)
<1>1. IsPeer(v) /\ v.eol = v.life
  BY DEF IsPeer
<1>2. /\ r = [i \in DOMAIN r |-> r[i]] /\ DOMAIN r = DOMAIN q \cup {k} /\ r[k] = v
      /\ \A i \in DOMAIN q : i # k => r[i] = q[i]
  BY DEF With
<1> HIDE DEF r, v
<1>3. ArePeers(r)
  BY <1>1, <1>2 DEF ArePeers
<1>4. Renewal(RegistrationAt(r, k))
  BY <1>1, <1>2 DEF Renewal, RegistrationAt
<1>5. \A i : i # k => RegistrationAt(r, i) = RegistrationAt(q, i)
  BY <1>2 DEF RegistrationAt
<1> QED
  BY <1>3, <1>4, <1>5 DEF r, v

\* An answer renews the registration or ends it; the others stay.
LEMMA GrantedIs ==
    ASSUME ArePeers(peer), NEW t, IsTransaction(t), NEW code
    PROVE  LET q == Granted(t, code)
           IN  /\ ArePeers(q)
               /\ \A i : \/ RegistrationAt(q, i) = RegistrationAt(peer, i)
                         \/ Renewal(RegistrationAt(q, i))
               /\ Grants(t, code) => Renewal(RegistrationAt(q, t.id))
<1> DEFINE q == Granted(t, code)
<1>0. t.kind \in Kinds /\ t.life \in Nat
  BY DEF IsTransaction
<1>1. CASE t.kind = "register" /\ code = "2.01"
  <2>1. t.life \in 0 .. MaxLife
    BY <1>0, <1>1 DEF IsTransaction
  <2>2. q = With(peer, t.id, [eol |-> t.life, life |-> t.life])
    BY <1>1 DEF Granted
  <2> HIDE DEF q
  <2>3. /\ ArePeers(q) /\ Renewal(RegistrationAt(q, t.id))
        /\ \A i : i # t.id => RegistrationAt(q, i) = RegistrationAt(peer, i)
    BY <2>1, <2>2, WithPeer
  <2> QED
    BY <2>3 DEF q
<1>2. CASE t.kind \in {"update", "fullUpdate"} /\ code = "2.04"
  <2> DEFINE n == PeerOf(t.id).life
  <2>1. n \in 0 .. MaxLife
    BY PeerIs DEF PeerOf, RegistrationAt, IsPeer
  <2>2. q = With(peer, t.id, [eol |-> n, life |-> n])
    BY <1>2 DEF Granted
  <2> HIDE DEF q, n
  <2>3. /\ ArePeers(q) /\ Renewal(RegistrationAt(q, t.id))
        /\ \A i : i # t.id => RegistrationAt(q, i) = RegistrationAt(peer, i)
    BY <2>1, <2>2, WithPeer
  <2> QED
    BY <2>3 DEF q
<1>3. CASE t.kind = "deregister"
  <2>1. q = Restrict(peer, DOMAIN peer \ {t.id})
    BY <1>3 DEF Granted
  <2>2. /\ q = [i \in DOMAIN q |-> q[i]] /\ DOMAIN q = DOMAIN peer \ {t.id}
        /\ \A i \in DOMAIN q : q[i] = peer[i]
    BY <2>1 DEF Restrict
  <2> HIDE DEF q
  <2>3. ArePeers(q)
    BY <2>2 DEF ArePeers
  <2>4. Renewal(RegistrationAt(q, t.id))
    BY <2>2 DEF Renewal, RegistrationAt, NoPeer
  <2>5. \A i : i # t.id => RegistrationAt(q, i) = RegistrationAt(peer, i)
    BY <2>2 DEF RegistrationAt
  <2> QED
    BY <2>3, <2>4, <2>5 DEF q
<1>4. CASE ~Grants(t, code) /\ t.kind # "deregister"
  <2>1. q = peer
    BY <1>4 DEF Granted, Grants
  <2> HIDE DEF q
  <2> QED
    BY <1>4, <2>1 DEF q
<1> QED
  BY <1>1, <1>2, <1>3, <1>4 DEF Grants

-----------------------------------------------------------------------------
(* The invariant of types, lists and requests                               *)

\* A registration has ended between the restoring of the accounts and the next step.
SkipsInitial == ctx.state = "BOOTSTRAP_REQUIRED" /\ app.prev = "INITIAL"

\* The lists are those of the accounts once lwm2m_step has been through INITIAL.
Lists ==
    /\ pc = "walk" => ctx.state # "INITIAL" /\ Secure(ctx)
    /\ pc = "idle" => IF ctx.state = "INITIAL" THEN app.prev = "INITIAL"
                      ELSE SkipsInitial \/ Secure(ctx)

ClientInv ==
    /\ Good(ctx) /\ IsApp(app) /\ ArePeers(peer)
    /\ wake \in 0 .. MaxWait /\ pc \in {"idle", "walk", "closed", "undefined"}
    /\ Lists

LEMMA EmptyIs == IsObject(<<>>) /\ DOMAIN <<>> = {}
  BY FS_EmptySet DEF IsObject

LEMMA ClientInit ==
    ASSUME Init
    PROVE  ClientInv
<1>1. PICK s \in Scenarios :
        /\ ctx = [state |-> "INITIAL", sec |-> s.sec, serverObj |-> s.serverObj,
                  servers |-> <<>>, bs |-> <<>>, trans |-> {}, torn |-> {}]
        /\ app = [prev |-> "INITIAL", sec |-> <<>>, serverObj |-> <<>>, calls |-> s.calls,
                  stale |-> FALSE, cut |-> FALSE]
        /\ wake = 0 /\ pc = "idle" /\ peer = <<>>
  BY DEF Init
<1>2. AreAccounts(s.sec, s.serverObj)
  BY <1>1, AccountAssumption
<1>3. /\ IsRecord(ctx) /\ ctx.state = "INITIAL" /\ ctx.sec = s.sec /\ ctx.serverObj = s.serverObj
      /\ ctx.servers = <<>> /\ ctx.bs = <<>> /\ ctx.trans = {}
  BY <1>1 DEF IsRecord
<1>4. IsContext(ctx)
  BY <1>2, <1>3, EmptyIs, FS_EmptySet DEF IsContext, States
<1>5. Good(ctx)
  BY <1>3, <1>4, EmptyIs DEF Good, ListAwaits
<1>6. AreAccounts(<<>>, <<>>)
  BY EmptyIs DEF AreAccounts
<1>7. app.prev = "INITIAL" /\ IsApp(app)
  BY <1>1, <1>6 DEF IsApp
<1>8. ArePeers(peer)
  BY <1>1, EmptyIs DEF ArePeers
<1>9. wake \in 0 .. MaxWait
  BY <1>1
<1> QED
  BY <1>1, <1>3, <1>5, <1>7, <1>8, <1>9 DEF ClientInv, Lists

\* What a call of lwm2m_step does, whatever it returns.
Taken(c, r) ==
    /\ Good(r.ctx) /\ Renewed(c, r.ctx) /\ r.wakes \subseteq Nat /\ r.ok \in BOOLEAN
    /\ r.ok => /\ Secure(r.ctx) /\ r.ctx.state # "INITIAL"
               /\ r.ctx.trans # {} => 1 \in r.wakes
               /\ \A i \in DOMAIN r.ctx.servers :
                    LET s == r.ctx.servers[i]
                    IN  s.status = "REGISTERED" /\ NextUpdate(s) > now => NextUpdate(s) \in r.wakes

\* Why lwm2m_step returns an error.
Reason(c, r) ==
    \/ DOMAIN r.ctx.bs = {} /\ Secure(r.ctx)
    \/ SomeRefused(c)
    \/ c.state = "BOOTSTRAPPING" /\ bootstrap_getStatus(c) = "BS_FAILED"

LEMMA StepTaken ==
    ASSUME ClientInv, pc = "idle", NEW fate
    PROVE  LET r == lwm2m_step(ctx, fate)
           IN  Taken(ctx, r) /\ (~r.ok => Reason(ctx, r) \/ SkipsInitial)
<1> DEFINE r == lwm2m_step(ctx, fate)
<1>1. Good(ctx)
  BY DEF ClientInv
<1>2. CASE ctx.state # "INITIAL" => Secure(ctx)
  <2>1. Stepped(ctx, r)
    BY <1>1, <1>2, StepIs
  <2> HIDE DEF r
  <2>2. Taken(ctx, r) /\ (~r.ok => Reason(ctx, r))
    BY <2>1 DEF Stepped, Switched, Taken, Reason
  <2> QED
    BY <2>2 DEF r
<1>3. CASE ~(ctx.state # "INITIAL" => Secure(ctx))
  <2>1. SkipsInitial /\ DOMAIN ctx.bs = {} /\ ctx.state = "BOOTSTRAP_REQUIRED"
    BY <1>3 DEF ClientInv, Lists, Secure, SkipsInitial
  <2>2. Switch(ctx, fate) = Unavailable(ctx)
    BY <2>1 DEF Switch, StepBootstrapRequired
  <2>3. r.ctx = ctx /\ r.ok = FALSE /\ r.wakes = {}
    BY <2>2 DEF lwm2m_step, AfterSwitch, Unavailable
  <2> HIDE DEF r
  <2>4. Quiet(ctx, ctx)
    BY DEF Quiet, SameEntries, SameAccounts, SameList, NoneRegistered, AddsOnly
  <2>5. Taken(ctx, r)
    BY <1>1, <2>3, <2>4, QuietRenews DEF Taken
  <2> QED
    BY <2>1, <2>5 DEF r
<1> QED
  BY <1>2, <1>3

LEMMA WakeIs ==
    ASSUME NEW S \in SUBSET Nat
    PROVE  LET n == Min(S \cup {MaxWait})
           IN  n \in 0 .. MaxWait /\ \A x \in S : n <= x
<1> DEFINE T == S \cup {MaxWait}
<1>1. T \in SUBSET Nat /\ T # {} /\ MaxWait \in T
  OBVIOUS
<1> HIDE DEF T
<1> DEFINE m == Min(T)
<1>2. m \in T /\ \A x \in T : m <= x
  BY <1>1, MinIs
<1> HIDE DEF m
<1>3. m \in 0 .. MaxWait /\ \A x \in S : m <= x
  <2>1. m \in Nat /\ m <= MaxWait
    BY <1>1, <1>2
  <2> QED
    BY <1>2, <2>1 DEF T
<1> QED
  BY <1>3 DEF m, T

LEMMA RestoredIs ==
    ASSUME IsApp(app), NEW c, Good(c)
    PROVE  LET d == Restored(c)
           IN  /\ Good(d) /\ d.state = "INITIAL" /\ d.sec = app.sec /\ d.torn = c.torn
               /\ d.servers = c.servers /\ d.bs = c.bs /\ d.trans = c.trans
<1> DEFINE d == Restored(c)
<1>1. IsContext(c) /\ IsRecord(c) /\ AreAccounts(app.sec, app.serverObj)
  BY DEF Good, IsContext, IsApp
<1>2. /\ IsRecord(d) /\ d.state = "INITIAL" /\ d.sec = app.sec /\ d.serverObj = app.serverObj
      /\ d.torn = c.torn /\ d.servers = c.servers /\ d.bs = c.bs /\ d.trans = c.trans
  BY <1>1 DEF Restored, prv_restore_objects, IsRecord
<1> HIDE DEF d
<1>3. IsContext(d)
  BY <1>1, <1>2 DEF IsContext, States
<1>4. Good(d)
  BY <1>2, <1>3 DEF Good
<1> QED
  BY <1>2, <1>4 DEF d

\* The three ways lwm2m_step may end.
Goes(r) ==
    /\ r.ok /\ ctx' = r.ctx /\ pc' = "walk"
    /\ IsApp(app') /\ app'.prev = app.prev /\ app'.sec = app.sec /\ app'.cut = app.cut
    /\ ~app'.stale => ~app.stale /\ ~(r.ctx.state = "BOOTSTRAPPING" /\ OutdatesBackup(ctx, r.ctx))

Recovers(r) ==
    /\ ~r.ok /\ app.prev = "BOOTSTRAPPING" /\ ctx' = Restored(r.ctx) /\ pc' = "idle"
    /\ IsApp(app') /\ app'.prev = "INITIAL" /\ app'.cut = TRUE
    /\ ~app'.stale => ~app.stale /\ ~OutdatesBackup(ctx, r.ctx)

GivesUp(r) ==
    ~r.ok /\ app.prev # "BOOTSTRAPPING" /\ ctx' = r.ctx /\ pc' = "closed" /\ app' = app

LEMMA UpdateInfoApp ==
    ASSUME IsApp(app), NEW c, AreAccounts(c.sec, c.serverObj)
    PROVE  LET a == update_bootstrap_info(app, c)
           IN  /\ IsApp(a) /\ a.prev = c.state /\ a.stale = app.stale /\ a.cut = app.cut
               /\ a.sec = app.sec \/ a.sec = c.sec
               /\ c.state = "BOOTSTRAPPING" /\ app.prev # "BOOTSTRAPPING" => a.sec = c.sec
               /\ c.state = "BOOTSTRAPPING" /\ app.prev = "BOOTSTRAPPING" => a.sec = app.sec
<1> DEFINE a == update_bootstrap_info(app, c)
           x == [app EXCEPT !.prev = c.state, !.sec = c.sec, !.serverObj = c.serverObj]
           y == [app EXCEPT !.prev = c.state]
<1>1. a = IF app.prev # c.state /\ c.state = "BOOTSTRAPPING" THEN x ELSE y
  BY DEF update_bootstrap_info
<1>2. IsApp(x) /\ x.prev = c.state /\ x.stale = app.stale /\ x.cut = app.cut /\ x.sec = c.sec
  BY DEF IsApp
<1>3. IsApp(y) /\ y.prev = c.state /\ y.stale = app.stale /\ y.cut = app.cut /\ y.sec = app.sec
  BY DEF IsApp
<1> HIDE DEF a, x, y
<1> SUFFICES /\ IsApp(a) /\ a.prev = c.state /\ a.stale = app.stale /\ a.cut = app.cut
             /\ a.sec = app.sec \/ a.sec = c.sec
             /\ c.state = "BOOTSTRAPPING" /\ app.prev # "BOOTSTRAPPING" => a.sec = c.sec
             /\ c.state = "BOOTSTRAPPING" /\ app.prev = "BOOTSTRAPPING" => a.sec = app.sec
  BY DEF a
<1>4. CASE a = x
  BY <1>1, <1>2, <1>3, <1>4
<1>5. CASE a = y
  BY <1>1, <1>2, <1>3, <1>5
<1> QED
  BY <1>1, <1>4, <1>5

LEMMA StepMeans ==
    ASSUME ClientInv, StepOn
    PROVE  \E r : /\ Taken(ctx, r) /\ (~r.ok => Reason(ctx, r) \/ SkipsInitial)
                  /\ pc = "idle" /\ peer' = peer
                  /\ wake' \in 0 .. MaxWait /\ \A x \in r.wakes : wake' <= x
                  /\ Goes(r) \/ Recovers(r) \/ GivesUp(r)
<1>1. PICK fate : Step(fate)
  BY DEF StepOn
<1> DEFINE r == lwm2m_step(ctx, fate)
<1>2. Taken(ctx, r) /\ (~r.ok => Reason(ctx, r) \/ SkipsInitial)
  BY <1>1, StepTaken DEF Step
<1>3. /\ pc = "idle" /\ peer' = peer /\ wake' = Min(r.wakes \cup {MaxWait})
      /\ \/ r.ok /\ ctx' = r.ctx /\ pc' = "walk"
                 /\ app' = [app EXCEPT !.stale = @ \/ /\ r.ctx.state = "BOOTSTRAPPING"
                                                      /\ OutdatesBackup(ctx, r.ctx)]
         \/ ~r.ok /\ app.prev = "BOOTSTRAPPING"
                  /\ ctx' = Restored(r.ctx) /\ pc' = "idle"
                  /\ app' = [update_bootstrap_info(app, Restored(r.ctx)) EXCEPT
                              !.cut = TRUE, !.stale = @ \/ OutdatesBackup(ctx, r.ctx)]
         \/ ~r.ok /\ app.prev # "BOOTSTRAPPING"
                  /\ ctx' = r.ctx /\ pc' = "closed" /\ app' = app
  BY <1>1 DEF Step
<1> HIDE DEF r
<1>4. wake' \in 0 .. MaxWait /\ \A x \in r.wakes : wake' <= x
  BY <1>2, <1>3, WakeIs DEF Taken
<1>5. IsApp(app)
  BY DEF ClientInv
<1>6. ASSUME r.ok, ctx' = r.ctx, pc' = "walk",
             app' = [app EXCEPT !.stale = @ \/ /\ r.ctx.state = "BOOTSTRAPPING"
                                               /\ OutdatesBackup(ctx, r.ctx)]
      PROVE  Goes(r)
  <2> DEFINE v == app.stale \/ (r.ctx.state = "BOOTSTRAPPING" /\ OutdatesBackup(ctx, r.ctx))
  <2>1. app' = [app EXCEPT !.stale = v]
    BY <1>6
  <2>2. ~v => ~app.stale /\ ~(r.ctx.state = "BOOTSTRAPPING" /\ OutdatesBackup(ctx, r.ctx))
    OBVIOUS
  <2> HIDE DEF v
  <2>3. /\ IsApp(app') /\ app'.prev = app.prev /\ app'.sec = app.sec /\ app'.cut = app.cut
        /\ app'.stale = v
    BY <1>5, <2>1 DEF IsApp
  <2> QED
    BY <1>6, <2>2, <2>3 DEF Goes
<1>7. ASSUME ~r.ok, app.prev = "BOOTSTRAPPING", ctx' = Restored(r.ctx), pc' = "idle",
             app' = [update_bootstrap_info(app, Restored(r.ctx)) EXCEPT
                       !.cut = TRUE, !.stale = @ \/ OutdatesBackup(ctx, r.ctx)]
      PROVE  Recovers(r)
  <2> DEFINE d == Restored(r.ctx)
             a == update_bootstrap_info(app, d)
             v == a.stale \/ OutdatesBackup(ctx, r.ctx)
  <2>1. Good(d) /\ d.state = "INITIAL"
    BY <1>2, <1>5, RestoredIs DEF Taken
  <2>2. app' = [a EXCEPT !.cut = TRUE, !.stale = v]
    BY <1>7
  <2> HIDE DEF d
  <2>3. IsApp(a) /\ a.prev = "INITIAL" /\ a.stale = app.stale
    BY <1>5, <2>1, UpdateInfoApp DEF Good, IsContext
  <2>4. ~v => ~app.stale /\ ~OutdatesBackup(ctx, r.ctx)
    BY <2>3
  <2> HIDE DEF a, v
  <2>5. IsApp(app') /\ app'.prev = a.prev /\ app'.cut = TRUE /\ app'.stale = v
    BY <2>2, <2>3 DEF IsApp
  <2> QED
    BY <1>7, <2>3, <2>4, <2>5 DEF Recovers
<1>8. Goes(r) \/ Recovers(r) \/ GivesUp(r)
  BY <1>3, <1>6, <1>7 DEF GivesUp
<1> QED
  BY <1>2, <1>3, <1>4, <1>8

\* Entries that stay know the accounts they knew.
LEMMA SecureSame ==
    ASSUME NEW c, NEW d, d.sec = c.sec, SameList(c.servers, d.servers), DOMAIN d.bs = DOMAIN c.bs,
           Secure(c)
    PROVE  Secure(d)
<1> SUFFICES ASSUME DOMAIN d.bs = {}, NEW k \in DOMAIN c.sec, c.sec[k].bootstrap
             PROVE  k \in DOMAIN d.servers /\ ~d.servers[k].dirty
  BY DEF Secure, Knows
<1>1. k \in DOMAIN c.servers /\ ~c.servers[k].dirty
  BY DEF Secure, Knows
<1> QED
  BY <1>1 DEF SameList

LEMMA HandledSecure ==
    ASSUME NEW c, NEW d, NEW t, NEW code, Handled(c, d, t, code), Secure(c)
    PROVE  Secure(d)
<1>1. d.sec = c.sec /\ SameList(c.servers, d.servers) /\ DOMAIN d.bs = DOMAIN c.bs
  BY DEF Handled, SameEntries, SameAccounts, SameList
<1> QED
  BY <1>1, SecureSame

LEMMA CalledApp ==
    ASSUME IsApp(app), NEW a, NEW n, a = [app EXCEPT !.calls = n]
    PROVE  IsApp(a) /\ a.prev = app.prev /\ a.sec = app.sec /\ a.stale = app.stale /\ a.cut = app.cut
  BY DEF IsApp

\* The lists after a call that keeps the state.
LEMMA ListsStay ==
    ASSUME ClientInv, pc = "idle", pc' = "idle", app'.prev = app.prev, ctx'.state = ctx.state,
           Secure(ctx) => Secure(ctx')
    PROVE  Lists'
  BY DEF ClientInv, Lists, SkipsInitial

LEMMA StepKeeps ==
    ASSUME ClientInv, StepOn
    PROVE  ClientInv'
<1>1. PICK r : /\ Taken(ctx, r) /\ pc = "idle" /\ peer' = peer /\ wake' \in 0 .. MaxWait
               /\ Goes(r) \/ Recovers(r) \/ GivesUp(r)
  BY StepMeans
<1>2. IsApp(app) /\ ArePeers(peer)
  BY DEF ClientInv
<1>3. CASE Goes(r)
  BY <1>1, <1>2, <1>3 DEF Goes, Taken, ClientInv, Lists
<1>4. CASE Recovers(r)
  <2>1. Good(ctx') /\ ctx'.state = "INITIAL"
    BY <1>1, <1>2, <1>4, RestoredIs DEF Recovers, Taken
  <2> QED
    BY <1>1, <1>2, <1>4, <2>1 DEF Recovers, ClientInv, Lists
<1>5. CASE GivesUp(r)
  BY <1>1, <1>2, <1>5 DEF GivesUp, Taken, ClientInv, Lists
<1> QED
  BY <1>1, <1>3, <1>4, <1>5

LEMMA WalkKeeps ==
    ASSUME ClientInv, Expire \/ UseFreed \/ WalkEnd
    PROVE  ClientInv'
<1>1. Good(ctx) /\ IsApp(app) /\ pc = "walk" /\ Secure(ctx) /\ ctx.state # "INITIAL"
  BY DEF ClientInv, Lists, Expire, UseFreed, WalkEnd
<1>2. CASE Expire
  <2>1. PICK t \in ctx.trans : Handled(ctx, ctx', t, "none")
    BY <1>1, <1>2, ExpireIs
  <2>2. Secure(ctx') /\ Good(ctx') /\ ctx'.state # "INITIAL"
    BY <1>1, <2>1, HandledSecure DEF Handled
  <2>3. app' = app /\ wake' = wake /\ pc' = pc /\ peer' = peer
    BY <1>2 DEF Expire
  <2> QED
    BY <1>1, <2>2, <2>3 DEF ClientInv, Lists
<1>3. CASE UseFreed
  <2>1. ctx' = ctx /\ app' = app /\ wake' = wake /\ pc' = "undefined" /\ peer' = peer
    BY <1>3 DEF UseFreed
  <2> QED
    BY <2>1 DEF ClientInv, Lists
<1>4. CASE WalkEnd
  <2>1. /\ ctx' = ctx /\ wake' = wake /\ pc' = "idle" /\ peer' = peer
        /\ app' = update_bootstrap_info(app, ctx)
    BY <1>4 DEF WalkEnd
  <2>2. IsApp(app')
    BY <1>1, <2>1, UpdateInfoApp DEF Good, IsContext
  <2> QED
    BY <1>1, <2>1, <2>2 DEF ClientInv, Lists
<1> QED
  BY <1>2, <1>3, <1>4

LEMMA UndefinedKeeps ==
    ASSUME ClientInv, AnswerUndefined
    PROVE  ClientInv'
<1>1. ctx' = ctx /\ app' = app /\ wake' = wake /\ pc' = "undefined" /\ peer' = peer
  BY DEF AnswerUndefined
<1> QED
  BY <1>1 DEF ClientInv, Lists

LEMMA DeliverKeeps ==
    ASSUME ClientInv, Deliver
    PROVE  ClientInv'
<1>1. Good(ctx) /\ pc = "idle"
  BY DEF ClientInv, Deliver
<1>2. PICK t \in ctx.trans : Handled(ctx, ctx', t, t.answer)
  BY <1>1, DeliverIs
<1>3. app' = app /\ wake' = 0 /\ pc' = pc /\ peer' = peer
  BY DEF Deliver
<1>4. Good(ctx') /\ ctx'.state \in {ctx.state, "BOOTSTRAP_REQUIRED"} /\ (Secure(ctx) => Secure(ctx'))
  BY <1>2, HandledSecure DEF Handled
<1>5. Lists'
  BY <1>1, <1>3, <1>4 DEF ClientInv, Lists, SkipsInitial
<1> QED
  BY <1>3, <1>4, <1>5 DEF ClientInv

\* A registration is a second nearer to its end.
LEMMA TickPeers ==
    ASSUME ArePeers(peer), Tick
    PROVE  /\ ArePeers(peer')
           /\ \A i : LET p == RegistrationAt(peer, i)
                         q == RegistrationAt(peer', i)
                     IN  q.life = p.life /\ q.eol >= p.eol - 1
<1> DEFINE Older(p) == [p EXCEPT !.eol = Max({p.eol - 1, -1})]
<1>1. peer' = [i \in DOMAIN peer |-> Older(peer[i])]
  BY DEF Tick
<1>2. ASSUME NEW p, IsPeer(p)
      PROVE  IsPeer(Older(p)) /\ Older(p).life = p.life /\ Older(p).eol >= p.eol - 1
  <2> DEFINE n == Max({p.eol - 1, -1})
  <2>1. p.eol \in -1 .. MaxLife /\ p.eol \in Int /\ p.eol - 1 \in Int
    BY <1>2 DEF IsPeer
  <2>2. n = IF p.eol - 1 >= -1 THEN p.eol - 1 ELSE -1
    BY <2>1, MaxOfTwo
  <2>3. n \in -1 .. MaxLife /\ n >= p.eol - 1
    BY <2>1, <2>2
  <2> HIDE DEF n
  <2>4. Older(p) = [p EXCEPT !.eol = n]
    BY DEF n
  <2> HIDE DEF Older
  <2>5. Older(p).eol = n /\ Older(p).life = p.life /\ IsPeer(Older(p))
    BY <1>2, <2>3, <2>4 DEF IsPeer
  <2> QED
    BY <2>3, <2>5
<1> HIDE DEF Older
<1>3. ArePeers(peer')
  BY <1>1, <1>2 DEF ArePeers
<1>4. ASSUME NEW i
      PROVE  LET p == RegistrationAt(peer, i)
                 q == RegistrationAt(peer', i)
             IN  q.life = p.life /\ q.eol >= p.eol - 1
  <2>1. CASE i \in DOMAIN peer
    BY <1>1, <1>2, <2>1 DEF RegistrationAt, ArePeers
  <2>2. CASE i \notin DOMAIN peer
    BY <1>1, <2>2 DEF RegistrationAt, NoPeer
  <2> QED
    BY <2>1, <2>2
<1> QED
  BY <1>3, <1>4

LEMMA TickKeeps ==
    ASSUME ClientInv, Tick
    PROVE  ClientInv'
<1>1. Good(ctx) /\ ArePeers(peer) /\ pc = "idle" /\ wake \in 0 .. MaxWait
  BY DEF ClientInv, Tick
<1>2. Later(ctx, ctx') /\ ArePeers(peer')
  BY <1>1, TickIs, TickPeers
<1>3. app' = app /\ pc' = pc /\ wake > 0 /\ wake' = wake - 1
  BY DEF Tick
<1>4. wake' \in 0 .. MaxWait
  BY <1>1, <1>3
<1>5. /\ ctx'.sec = ctx.sec /\ SameList(ctx.servers, ctx'.servers) /\ DOMAIN ctx'.bs = DOMAIN ctx.bs
      /\ ctx'.state = ctx.state
  BY <1>2 DEF Later, SameEntries, SameAccounts, SameList
<1>6. Secure(ctx) => Secure(ctx')
  BY <1>5, SecureSame
<1>7. Lists'
  BY <1>1, <1>3, <1>5, <1>6, ListsStay
<1> QED
  BY <1>2, <1>3, <1>4, <1>7 DEF ClientInv, Later

\* A request that has reached its server.
LEMMA ReceivedIs ==
    ASSUME ClientInv, PeerReceives
    PROVE  \E t \in ctx.trans : \E code, u :
             /\ Good(ctx') /\ SameAccounts(ctx, ctx') /\ ctx'.state = ctx.state
             /\ ctx'.servers = ctx.servers /\ ctx'.bs = ctx.bs
             /\ ctx'.trans = (ctx.trans \ {t}) \cup {u}
             /\ SameRequest(t, u) /\ u.at = t.at /\ u.answer = code
             /\ ArePeers(peer')
             /\ \A i : \/ RegistrationAt(peer', i) = RegistrationAt(peer, i)
                       \/ Renewal(RegistrationAt(peer', i))
             /\ Grants(t, code) => Renewal(RegistrationAt(peer', t.id))
<1>1. PICK t \in ctx.trans : \E code : ctx' = Answered(t, code) /\ peer' = Granted(t, code)
  BY DEF PeerReceives
<1>2. PICK code : ctx' = Answered(t, code) /\ peer' = Granted(t, code)
  BY <1>1
<1>3. Good(ctx) /\ ArePeers(peer) /\ IsTransaction(t)
  BY DEF ClientInv, Good, IsContext
<1> DEFINE u == [t EXCEPT !.answer = code]
<1>4. /\ Good(ctx') /\ SameAccounts(ctx, ctx') /\ ctx'.state = ctx.state
      /\ ctx'.servers = ctx.servers /\ ctx'.bs = ctx.bs
      /\ ctx'.trans = (ctx.trans \ {t}) \cup {u}
      /\ SameRequest(t, u) /\ u.at = t.at /\ u.answer = code
  BY <1>2, <1>3, AnsweredIs
<1>5. /\ ArePeers(peer')
      /\ \A i : \/ RegistrationAt(peer', i) = RegistrationAt(peer, i)
                \/ Renewal(RegistrationAt(peer', i))
      /\ Grants(t, code) => Renewal(RegistrationAt(peer', t.id))
  BY <1>2, <1>3, GrantedIs
<1> HIDE DEF u
<1> QED
  BY <1>4, <1>5

LEMMA ReceivedApp ==
    ASSUME ClientInv, PeerReceives
    PROVE  /\ pc = "idle" /\ wake' = wake /\ pc' = pc /\ IsApp(app') /\ app'.prev = app.prev
           /\ app'.sec = app.sec /\ app'.stale = app.stale /\ app'.cut = app.cut
<1>1. /\ pc = "idle" /\ wake' = wake /\ pc' = pc
      /\ \E n : app' = [app EXCEPT !.calls = n]
  BY DEF PeerReceives
<1> QED
  BY <1>1, CalledApp DEF ClientInv

LEMMA ReceivedKeeps ==
    ASSUME ClientInv, PeerReceives
    PROVE  ClientInv'
<1>1. /\ Good(ctx') /\ SameAccounts(ctx, ctx') /\ ctx'.state = ctx.state
      /\ ctx'.servers = ctx.servers /\ ctx'.bs = ctx.bs /\ ArePeers(peer')
  BY ReceivedIs
<1>2. /\ pc = "idle" /\ wake' = wake /\ pc' = pc
      /\ IsApp(app') /\ app'.prev = app.prev
  BY ReceivedApp
<1>3. Secure(ctx) => Secure(ctx')
  BY <1>1 DEF Secure, Knows, SameAccounts
<1>4. Lists'
  BY <1>1, <1>2, <1>3, ListsStay
<1> QED
  BY <1>1, <1>2, <1>4 DEF ClientInv

\* What the calls have in common.
Calls == pc = "idle" /\ pc' = "idle" /\ wake' = 0 /\ peer' = peer /\ IsApp(app')
         /\ app'.prev = app.prev /\ app'.sec = app.sec /\ app'.cut = app.cut

LEMMA CommandIs ==
    ASSUME ClientInv, Command
    PROVE  /\ Calls /\ app'.stale = app.stale /\ Good(ctx')
           /\ \E i \in DOMAIN ctx.bs : Obeys(ctx, ctx', i)
<1>1. PICK i \in DOMAIN ctx.bs : \E q \in Commands : ctx' = Commanded(ctx, i, q)
  BY DEF Command
<1>2. PICK q \in Commands : ctx' = Commanded(ctx, i, q)
  BY <1>1
<1>3. Good(ctx) /\ IsApp(app)
  BY DEF ClientInv
<1>4. Obeys(ctx, ctx', i) /\ Good(ctx')
  BY <1>2, <1>3, CommandedIs
<1>5. /\ app' = [app EXCEPT !.calls = app.calls - 1] /\ pc = "idle" /\ pc' = pc
      /\ wake' = 0 /\ peer' = peer
  BY DEF Command
<1>6. Calls /\ app'.stale = app.stale
  BY <1>3, <1>5, CalledApp DEF Calls
<1> QED
  BY <1>4, <1>6

LEMMA CommandKeeps ==
    ASSUME ClientInv, Command
    PROVE  ClientInv'
<1>1. Calls /\ Good(ctx')
  BY CommandIs
<1>2. PICK i \in DOMAIN ctx.bs : Obeys(ctx, ctx', i)
  BY CommandIs
<1>3. Secure(ctx') /\ (ctx'.state = ctx.state \/ ctx'.state = "BOOTSTRAPPING")
  BY <1>2 DEF Obeys, Secure
<1>4. Lists'
  BY <1>1, <1>3 DEF Calls, ClientInv, Lists
<1> QED
  BY <1>1, <1>4 DEF ClientInv, Calls

LEMMA WriteIs ==
    ASSUME ClientInv, WriteLifetime
    PROVE  Calls /\ app'.stale = app.stale /\ Writes(ctx, ctx')
<1>1. \E k : \E life \in Lifetimes :
        LET p == [[f \in Range(ServerFields) |-> Absent] EXCEPT !.lifetime = life]
        IN  ctx' = object_write(ctx, 1, k, p, TRUE).ctx
  BY DEF WriteLifetime
<1>2. Good(ctx) /\ IsApp(app)
  BY DEF ClientInv
<1>3. Writes(ctx, ctx')
  BY <1>1, <1>2, WriteLifetimeIs
<1>4. /\ app' = [app EXCEPT !.calls = app.calls - 1] /\ pc = "idle" /\ pc' = pc
      /\ wake' = 0 /\ peer' = peer
  BY DEF WriteLifetime
<1> QED
  BY <1>2, <1>3, <1>4, CalledApp DEF Calls

LEMMA WriteKeeps ==
    ASSUME ClientInv, WriteLifetime
    PROVE  ClientInv'
<1>1. Calls /\ Writes(ctx, ctx')
  BY WriteIs
<1>2. /\ ctx'.sec = ctx.sec /\ SameList(ctx.servers, ctx'.servers) /\ DOMAIN ctx'.bs = DOMAIN ctx.bs
      /\ ctx'.state = ctx.state
  BY <1>1 DEF Writes, KeepsSecurity, SameSecurity, Rewrites
<1>3. Secure(ctx) => Secure(ctx')
  BY <1>2, SecureSame
<1>4. Lists'
  BY <1>1, <1>2, <1>3, ListsStay DEF Calls
<1> QED
  BY <1>1, <1>4 DEF ClientInv, Calls, Writes

LEMMA UpdateMeans ==
    ASSUME ClientInv, UpdateRegistration
    PROVE  /\ Calls /\ Asks(ctx, ctx')
           /\ ~app'.stale => ~app.stale /\ ~OutdatesBackup(ctx, ctx')
<1>1. \E short : \E withObjects \in BOOLEAN :
        ctx' = lwm2m_update_registration(ctx, short, withObjects)
  BY DEF UpdateRegistration
<1>2. Good(ctx) /\ IsApp(app)
  BY DEF ClientInv
<1>3. Asks(ctx, ctx')
  BY <1>1, <1>2, UpdateRegistrationIs
<1> DEFINE v == app.stale \/ OutdatesBackup(ctx, ctx')
           n == app.calls - 1
<1>4. /\ app' = [app EXCEPT !.calls = n, !.stale = v] /\ pc = "idle" /\ pc' = pc
      /\ wake' = 0 /\ peer' = peer
  BY DEF UpdateRegistration
<1>5. ~v => ~app.stale /\ ~OutdatesBackup(ctx, ctx')
  OBVIOUS
<1> HIDE DEF v, n
<1>6. /\ IsApp(app') /\ app'.prev = app.prev /\ app'.sec = app.sec /\ app'.cut = app.cut
      /\ app'.stale = v
  BY <1>2, <1>4 DEF IsApp
<1> QED
  BY <1>3, <1>4, <1>5, <1>6 DEF Calls

LEMMA DeregisterMeans ==
    ASSUME ClientInv, Deregister
    PROVE  Calls /\ app'.stale = app.stale /\ Asks(ctx, ctx') /\ Quiet(ctx, ctx')
<1>1. \E fate : ctx' = lwm2m_deregister(ctx, fate)
  BY DEF Deregister
<1>2. Good(ctx) /\ IsApp(app)
  BY DEF ClientInv
<1>3. Asks(ctx, ctx') /\ Quiet(ctx, ctx')
  BY <1>1, <1>2, DeregisterAsks, DeregisterAllIs
<1>4. /\ app' = [app EXCEPT !.calls = app.calls - 1] /\ pc = "idle" /\ pc' = pc
      /\ wake' = 0 /\ peer' = peer
  BY DEF Deregister
<1> QED
  BY <1>2, <1>3, <1>4, CalledApp DEF Calls

LEMMA AskKeeps ==
    ASSUME ClientInv, UpdateRegistration \/ Deregister
    PROVE  ClientInv'
<1>1. Calls /\ Asks(ctx, ctx')
  BY UpdateMeans, DeregisterMeans
<1>2. Lists'
  BY <1>1, ListsStay DEF Calls, Asks
<1> QED
  BY <1>1, <1>2 DEF ClientInv, Calls, Asks

LEMMA CloseIs ==
    ASSUME ClientInv, Close
    PROVE  /\ Good(ctx') /\ DOMAIN ctx'.servers = {} /\ DOMAIN ctx'.bs = {} /\ app' = app
           /\ wake' = wake /\ peer' = peer /\ pc = "idle" /\ pc' \in {"closed", "undefined"}
<1>1. IsRecord(ctx) /\ IsContext(ctx)
  BY DEF ClientInv, Good, IsContext
<1> DEFINE f == <<>>
<1>2. ctx' = [ctx EXCEPT !.servers = f, !.bs = f]
  BY DEF Close
<1>3. IsObject(f) /\ DOMAIN f = {}
  BY EmptyIs
<1> HIDE DEF f
<1>4. /\ IsRecord(ctx') /\ ctx'.servers = f /\ ctx'.bs = f /\ ctx'.state = ctx.state
      /\ ctx'.sec = ctx.sec /\ ctx'.serverObj = ctx.serverObj /\ ctx'.trans = ctx.trans
  BY <1>1, <1>2 DEF IsRecord
<1>5. IsContext(ctx')
  BY <1>1, <1>3, <1>4 DEF IsContext
<1>6. Good(ctx')
  BY <1>3, <1>4, <1>5 DEF Good, ListAwaits
<1> QED
  BY <1>3, <1>4, <1>6 DEF Close

LEMMA CloseKeeps ==
    ASSUME ClientInv, Close
    PROVE  ClientInv'
  BY CloseIs DEF ClientInv, Lists

LEMMA StutterKeeps ==
    ASSUME ClientInv, UNCHANGED vars
    PROVE  ClientInv'
  BY DEF vars, ClientInv, Lists, SkipsInitial

\* Every action keeps the invariant.
LEMMA ClientStep ==
    ASSUME ClientInv, [Next]_vars
    PROVE  ClientInv'
  BY StepKeeps, WalkKeeps, DeliverKeeps, UndefinedKeeps, TickKeeps, ReceivedKeeps, CommandKeeps, WriteKeeps,
     AskKeeps, CloseKeeps, StutterKeeps DEF Next

\* The invariant holds: contexts, backups and registrations are well formed, every status
\* that waits has its request, and the lists know the bootstrap servers.
THEOREM ClientInvariant == Spec => []ClientInv
<1>1. Init => ClientInv
  BY ClientInit
<1>2. ClientInv /\ [Next]_vars => ClientInv'
  BY ClientStep
<1> QED
  BY <1>1, <1>2, PTL DEF Spec

-----------------------------------------------------------------------------
(* Types and requests                                                       *)

LEMMA InvTypes == ClientInv => TypeOK
<1> SUFFICES ASSUME ClientInv PROVE TypeOK
  OBVIOUS
<1>1. IsContext(ctx)
  BY DEF ClientInv, Good
<1>2. ASSUME NEW i \in DOMAIN ctx.servers
      PROVE  LET s == ctx.servers[i]
             IN  /\ s.status \in Statuses /\ s.registration \in Int
                 /\ s.status = "REGISTERED" => s.registration \in -Horizon .. 0
                 /\ s.lifetime \in 0 .. MaxLife
                 /\ s.attempt \in 0 .. 254 /\ s.sequence \in 0 .. 254
                 /\ s.dirty \in BOOLEAN /\ s.location \in BOOLEAN /\ s.session \in Nat
                 /\ s.dropped \in {"none"} \cup GoesOn
  <2>1. IsServer(ctx.servers[i]) /\ IsEntry(ctx.servers[i])
    BY <1>1 DEF IsContext, IsServer
  <2>2. ctx.servers[i].lifetime \in 0 .. MaxLife
    <3> DEFINE s == ctx.servers[i]
    <3>1. s.lifetime <= MaxLife
      BY <2>1 DEF IsServer
    <3>2. s.lifetime \in Nat
      BY <2>1 DEF IsEntry
    <3> HIDE DEF s
    <3>3. s.lifetime \in 0 .. MaxLife
      BY <3>1, <3>2, BoundAssumption
    <3> QED
      BY <3>3 DEF s
  <2> QED
    BY <2>1, <2>2 DEF IsServer, IsEntry
<1>3. \A i \in DOMAIN ctx.bs : ctx.bs[i].status \in BsStatuses /\ ctx.bs[i].registration \in Int
  BY <1>1 DEF IsContext, IsBsServer, IsEntry
<1>4. \A t \in ctx.trans : t.kind \in Kinds /\ t.at \in -Horizon .. 0
  BY <1>1 DEF IsContext, IsTransaction
<1>5. \A i \in DOMAIN peer : peer[i].eol \in -1 .. MaxLife
  BY DEF ClientInv, ArePeers, IsPeer
<1>6. ctx.state \in States /\ DOMAIN ctx.servers \cap DOMAIN ctx.bs = {}
  BY <1>1 DEF IsContext
<1> QED
  BY <1>2, <1>3, <1>4, <1>5, <1>6 DEF ClientInv, TypeOK

\* The counters of attempts and sequences, of which registration.c keeps 8 bits, do not
\* wrap; time stamps, lifetimes, statuses and waits are in range; a Security instance has
\* an entry in at most one of the two lists.
THEOREM ClientTypes == Spec => []TypeOK
  BY ClientInvariant, InvTypes, PTL

LEMMA InvAwaited == ClientInv => PendingIsAwaited
<1> SUFFICES ASSUME ClientInv PROVE PendingIsAwaited
  OBVIOUS
<1>1. /\ IsContext(ctx) /\ ListAwaits(ctx.trans, ctx.servers) /\ ListAwaits(ctx.trans, ctx.bs)
  BY DEF ClientInv, Good
<1> DEFINE Brings(s, i, kinds) ==
             \E t \in ctx.trans : /\ t.kind \in kinds /\ t.id = i /\ t.node = s.node
                                  /\ t.session = s.session
<1>2. ASSUME NEW i \in DOMAIN ctx.servers
      PROVE  LET s == ctx.servers[i]
             IN  /\ s.status = "REG_PENDING" =>
                      (s.dropped \in GoesOn \/ Brings(s, i, {"register"})) /\ s.session # 0
                 /\ s.status = "REG_UPDATE_PENDING" =>
                      /\ s.dropped \in GoesOn \/ Brings(s, i, {"update", "fullUpdate"})
                      /\ s.session # 0 /\ s.location
                 /\ s.status = "DEREG_PENDING" => Brings(s, i, {"deregister"}) /\ s.location
  <2> DEFINE s == ctx.servers[i]
  <2>1. IsServer(s) /\ (s.status \in Waiting => Awaited(ctx.trans, s, i))
    BY <1>1 DEF IsContext, ListAwaits
  <2> HIDE DEF s
  <2>2. /\ s.status = "REG_PENDING" =>
             (s.dropped \in GoesOn \/ Brings(s, i, {"register"})) /\ s.session # 0
        /\ s.status = "REG_UPDATE_PENDING" =>
             /\ s.dropped \in GoesOn \/ Brings(s, i, {"update", "fullUpdate"})
             /\ s.session # 0 /\ s.location
        /\ s.status = "DEREG_PENDING" => Brings(s, i, {"deregister"}) /\ s.location
    BY <2>1 DEF IsServer, Managed, Waiting, Awaited, WaitsInVain, WaitsFor
  <2> QED
    BY <2>2 DEF s
<1>3. ASSUME NEW i \in DOMAIN ctx.bs, ctx.bs[i].status = "BS_INITIATED"
      PROVE  Brings(ctx.bs[i], i, {"bootstrap"})
  BY <1>1, <1>3 DEF ListAwaits, Waiting, Awaited, WaitsInVain, WaitsFor
<1> QED
  BY <1>2, <1>3 DEF PendingIsAwaited

\* A status of a registration or of a bootstrap that waits for an answer has a transaction
\* under way that ends it, on the session of the server: no order of replies, timeouts,
\* deregistrations, updates and bootstraps leaves a server waiting for nothing, but for an
\* answer 2.31 or 4.13 to the last request after which nothing is sent.
THEOREM WaitingIsAnswered == Spec => []PendingIsAwaited
  BY ClientInvariant, InvAwaited, PTL

-----------------------------------------------------------------------------
(* Accounts and entries                                                     *)

\* The entry of account i, with its account in sec as it was when the entry was made.
Listed(c, i) == IF i \in DOMAIN c.bs THEN c.bs[i] ELSE c.servers[i]

Matches(c, sec) ==
    \A i \in (DOMAIN c.servers \cup DOMAIN c.bs) \ c.torn :
        Listed(c, i).dirty \/ /\ i \in DOMAIN sec /\ sec[i].uri = Listed(c, i).uri
                              /\ sec[i].bootstrap = (i \in DOMAIN c.bs)

\* The entries are those of the accounts in use, and of the backup while it may be restored.
AccountsInv ==
    ~app.stale =>
        /\ Matches(ctx, ctx.sec)
        /\ app.prev = "BOOTSTRAPPING" /\ (pc = "idle" \/ (pc = "walk" /\ ctx.state = "BOOTSTRAPPING"))
             => Matches(ctx, app.sec)

\* The same, list by list.
ListMatches(f, torn, sec, boot) ==
    \A i \in DOMAIN f \ torn :
        ~f[i].dirty => i \in DOMAIN sec /\ sec[i].uri = f[i].uri /\ sec[i].bootstrap = boot

LEMMA MatchesLists ==
    ASSUME NEW c, DOMAIN c.servers \cap DOMAIN c.bs = {}, NEW sec
    PROVE  Matches(c, sec) <=> /\ ListMatches(c.servers, c.torn, sec, FALSE)
                               /\ ListMatches(c.bs, c.torn, sec, TRUE)
<1>1. ASSUME Matches(c, sec)
      PROVE  ListMatches(c.servers, c.torn, sec, FALSE) /\ ListMatches(c.bs, c.torn, sec, TRUE)
  <2>1. ASSUME NEW i \in DOMAIN c.servers \ c.torn, ~c.servers[i].dirty
        PROVE  i \in DOMAIN sec /\ sec[i].uri = c.servers[i].uri /\ sec[i].bootstrap = FALSE
    <3>1. Listed(c, i) = c.servers[i] /\ (i \in DOMAIN c.bs) = FALSE
      BY DEF Listed
    <3> QED
      BY <1>1, <2>1, <3>1 DEF Matches
  <2>2. ASSUME NEW i \in DOMAIN c.bs \ c.torn, ~c.bs[i].dirty
        PROVE  i \in DOMAIN sec /\ sec[i].uri = c.bs[i].uri /\ sec[i].bootstrap = TRUE
    <3>1. Listed(c, i) = c.bs[i] /\ (i \in DOMAIN c.bs) = TRUE
      BY DEF Listed
    <3> QED
      BY <1>1, <2>2, <3>1 DEF Matches
  <2> QED
    BY <2>1, <2>2 DEF ListMatches
<1>2. ASSUME ListMatches(c.servers, c.torn, sec, FALSE), ListMatches(c.bs, c.torn, sec, TRUE),
             NEW i \in (DOMAIN c.servers \cup DOMAIN c.bs) \ c.torn
      PROVE  Listed(c, i).dirty \/ /\ i \in DOMAIN sec /\ sec[i].uri = Listed(c, i).uri
                                   /\ sec[i].bootstrap = (i \in DOMAIN c.bs)
  <2>1. CASE i \in DOMAIN c.bs
    <3>1. Listed(c, i) = c.bs[i] /\ (i \in DOMAIN c.bs) = TRUE
      BY <2>1 DEF Listed
    <3> QED
      BY <1>2, <2>1, <3>1 DEF ListMatches
  <2>2. CASE i \notin DOMAIN c.bs
    <3>1. Listed(c, i) = c.servers[i] /\ (i \in DOMAIN c.bs) = FALSE
      BY <2>2 DEF Listed
    <3> QED
      BY <1>2, <2>2, <3>1 DEF ListMatches
  <2> QED
    BY <2>1, <2>2
<1> QED
  BY <1>1, <1>2 DEF Matches

LEMMA MatchesSame ==
    ASSUME NEW c, NEW d, d.torn = c.torn, SameList(c.servers, d.servers), SameList(c.bs, d.bs),
           NEW sec, Matches(c, sec)
    PROVE  Matches(d, sec)
<1> SUFFICES ASSUME NEW i \in (DOMAIN d.servers \cup DOMAIN d.bs) \ d.torn
             PROVE  Listed(d, i).dirty \/ /\ i \in DOMAIN sec /\ sec[i].uri = Listed(d, i).uri
                                          /\ sec[i].bootstrap = (i \in DOMAIN d.bs)
  BY DEF Matches
<1>1. /\ i \in (DOMAIN c.servers \cup DOMAIN c.bs) \ c.torn
      /\ (i \in DOMAIN d.bs) = (i \in DOMAIN c.bs)
      /\ Listed(d, i).dirty = Listed(c, i).dirty /\ Listed(d, i).uri = Listed(c, i).uri
  BY DEF SameList, Listed
<1> QED
  BY <1>1 DEF Matches

\* Entries that stay and those made from the accounts match the accounts.
LEMMA MatchesRenewed ==
    ASSUME NEW c, NEW d, Good(c), Good(d), Renewed(c, d), Matches(c, c.sec)
    PROVE  Matches(d, d.sec)
<1>1. DOMAIN c.servers \cap DOMAIN c.bs = {} /\ DOMAIN d.servers \cap DOMAIN d.bs = {}
  BY DEF Good, IsContext
<1>2. d.sec = c.sec /\ d.torn = c.torn
  BY DEF Renewed, SameAccounts
<1>3. ListMatches(c.servers, c.torn, c.sec, FALSE) /\ ListMatches(c.bs, c.torn, c.sec, TRUE)
  BY <1>1, MatchesLists
<1>4. ListMatches(d.servers, c.torn, c.sec, FALSE)
  BY <1>3 DEF Renewed, Renews, Made, ListMatches
<1>5. ListMatches(d.bs, c.torn, c.sec, TRUE)
  BY <1>3 DEF Renewed, Renews, Made, ListMatches
<1> QED
  BY <1>1, <1>2, <1>4, <1>5, MatchesLists

\* Where no entry is made, they match what they matched.
LEMMA MatchesKept ==
    ASSUME NEW c, NEW d, Good(c), Good(d), Renewed(c, d), NEW sec, Matches(c, sec),
           NewEntries(c.servers, d.servers) \cup NewEntries(c.bs, d.bs) = {}
    PROVE  Matches(d, sec)
<1>1. DOMAIN c.servers \cap DOMAIN c.bs = {} /\ DOMAIN d.servers \cap DOMAIN d.bs = {}
  BY DEF Good, IsContext
<1>2. d.torn = c.torn
  BY DEF Renewed, SameAccounts
<1>3. ListMatches(c.servers, c.torn, sec, FALSE) /\ ListMatches(c.bs, c.torn, sec, TRUE)
  BY <1>1, MatchesLists
<1>4. \A k \in DOMAIN d.servers : ~d.servers[k].dirty =>
        k \in DOMAIN c.servers /\ ~c.servers[k].dirty /\ d.servers[k].uri = c.servers[k].uri
  BY DEF NewEntries, Renewed, Renews
<1>5. \A k \in DOMAIN d.bs : ~d.bs[k].dirty =>
        k \in DOMAIN c.bs /\ ~c.bs[k].dirty /\ d.bs[k].uri = c.bs[k].uri
  BY DEF NewEntries, Renewed, Renews
<1>6. ListMatches(d.servers, c.torn, sec, FALSE)
  BY <1>3, <1>4 DEF ListMatches
<1>7. ListMatches(d.bs, c.torn, sec, TRUE)
  BY <1>3, <1>5 DEF ListMatches
<1> QED
  BY <1>1, <1>2, <1>6, <1>7, MatchesLists

\* An account is rewritten only with its entry marked.
LEMMA MatchesClean ==
    ASSUME NEW c, NEW d, Good(c), Good(d), KeepsClean(c, d),
           DOMAIN d.servers = DOMAIN c.servers, DOMAIN d.bs = DOMAIN c.bs,
           \A j \in DOMAIN c.servers : d.servers[j].uri = c.servers[j].uri,
           \A j \in DOMAIN c.bs : d.bs[j].uri = c.bs[j].uri
    PROVE  /\ Matches(c, c.sec) => Matches(d, d.sec)
           /\ \A sec : Matches(c, sec) => Matches(d, sec)
<1>1. DOMAIN c.servers \cap DOMAIN c.bs = {} /\ DOMAIN d.servers \cap DOMAIN d.bs = {}
  BY DEF Good, IsContext
<1>2. \A j \in DOMAIN d.servers \ d.torn : ~d.servers[j].dirty =>
        /\ j \notin c.torn /\ ~c.servers[j].dirty
        /\ j \in DOMAIN c.sec => j \in DOMAIN d.sec /\ d.sec[j] = c.sec[j]
  BY <1>1 DEF KeepsClean, Clean
<1>3. \A j \in DOMAIN d.bs \ d.torn : ~d.bs[j].dirty =>
        /\ j \notin c.torn /\ ~c.bs[j].dirty
        /\ j \in DOMAIN c.sec => j \in DOMAIN d.sec /\ d.sec[j] = c.sec[j]
  BY <1>1 DEF KeepsClean, Clean
<1>4. ASSUME Matches(c, c.sec)
      PROVE  Matches(d, d.sec)
  <2>1. ListMatches(c.servers, c.torn, c.sec, FALSE) /\ ListMatches(c.bs, c.torn, c.sec, TRUE)
    BY <1>1, <1>4, MatchesLists
  <2>2. ListMatches(d.servers, d.torn, d.sec, FALSE)
    BY <1>2, <2>1 DEF ListMatches
  <2>3. ListMatches(d.bs, d.torn, d.sec, TRUE)
    BY <1>3, <2>1 DEF ListMatches
  <2> QED
    BY <1>1, <2>2, <2>3, MatchesLists
<1>5. ASSUME NEW sec, Matches(c, sec)
      PROVE  Matches(d, sec)
  <2>1. ListMatches(c.servers, c.torn, sec, FALSE) /\ ListMatches(c.bs, c.torn, sec, TRUE)
    BY <1>1, <1>5, MatchesLists
  <2>2. ListMatches(d.servers, d.torn, sec, FALSE)
    BY <1>2, <2>1 DEF ListMatches
  <2>3. ListMatches(d.bs, d.torn, sec, TRUE)
    BY <1>3, <2>1 DEF ListMatches
  <2> QED
    BY <1>1, <2>2, <2>3, MatchesLists
<1> QED
  BY <1>4, <1>5

LEMMA AccountsInit ==
    ASSUME Init
    PROVE  AccountsInv
<1>1. DOMAIN ctx.servers = {} /\ DOMAIN ctx.bs = {} /\ app.prev = "INITIAL"
  BY EmptyIs DEF Init
<1> QED
  BY <1>1 DEF AccountsInv, Matches

LEMMA StepAccounts ==
    ASSUME ClientInv, ClientInv', AccountsInv, StepOn
    PROVE  AccountsInv'
<1>1. PICK r : Taken(ctx, r) /\ pc = "idle" /\ (Goes(r) \/ Recovers(r) \/ GivesUp(r))
  BY StepMeans
<1>2. Good(ctx) /\ Good(r.ctx) /\ Renewed(ctx, r.ctx) /\ IsApp(app)
  BY <1>1 DEF ClientInv, Taken
<1>3. ASSUME ~app.stale
      PROVE  Matches(r.ctx, r.ctx.sec)
  BY <1>2, <1>3, MatchesRenewed DEF AccountsInv
<1>4. ASSUME ~app.stale, app.prev = "BOOTSTRAPPING", ~OutdatesBackup(ctx, r.ctx)
      PROVE  Matches(r.ctx, app.sec)
  BY <1>1, <1>2, <1>4, MatchesKept DEF AccountsInv, OutdatesBackup
<1>5. CASE Goes(r)
  BY <1>3, <1>4, <1>5 DEF Goes, AccountsInv
<1>6. CASE Recovers(r)
  <2>1. /\ ctx'.sec = app.sec /\ ctx'.torn = r.ctx.torn /\ ctx'.servers = r.ctx.servers
        /\ ctx'.bs = r.ctx.bs
    BY <1>2, <1>6, RestoredIs DEF Recovers
  <2>2. SameList(r.ctx.servers, ctx'.servers) /\ SameList(r.ctx.bs, ctx'.bs)
    BY <2>1 DEF SameList
  <2>3. ~app'.stale => Matches(ctx', ctx'.sec)
    BY <1>4, <1>6, <2>1, <2>2, MatchesSame DEF Recovers
  <2> QED
    BY <1>6, <2>3 DEF Recovers, AccountsInv
<1>7. CASE GivesUp(r)
  BY <1>3, <1>7 DEF GivesUp, AccountsInv
<1> QED
  BY <1>1, <1>5, <1>6, <1>7

\* Steps after which the accounts and entries are what they were.
LEMMA SameKeepsAccounts ==
    ASSUME AccountsInv, SameEntries(ctx, ctx'), app'.stale = app.stale, app'.prev = app.prev,
           app'.sec = app.sec, pc' = pc, ctx'.state \in {ctx.state, "BOOTSTRAP_REQUIRED"}
    PROVE  AccountsInv'
<1>1. /\ ctx'.torn = ctx.torn /\ ctx'.sec = ctx.sec /\ SameList(ctx.servers, ctx'.servers)
      /\ SameList(ctx.bs, ctx'.bs)
  BY DEF SameEntries, SameAccounts
<1>2. \A sec : Matches(ctx, sec) => Matches(ctx', sec)
  BY <1>1, MatchesSame
<1> QED
  BY <1>1, <1>2 DEF AccountsInv

LEMMA SameEntriesNow == \A c, d : SameAccounts(c, d) /\ d.servers = c.servers /\ d.bs = c.bs => SameEntries(c, d)
  BY DEF SameEntries, SameList

LEMMA AccountsStep ==
    ASSUME ClientInv, ClientInv', AccountsInv, [Next]_vars
    PROVE  AccountsInv'
<1>0. Good(ctx) /\ IsApp(app) /\ Good(ctx')
  BY DEF ClientInv
<1>1. CASE StepOn
  BY <1>1, StepAccounts
<1>2. CASE Expire
  <2>1. PICK t \in ctx.trans : Handled(ctx, ctx', t, "none")
    BY <1>0, <1>2, ExpireIs
  <2>2. app' = app /\ pc' = pc
    BY <1>2 DEF Expire
  <2> QED
    BY <2>1, <2>2, SameKeepsAccounts DEF Handled
<1>3. CASE UseFreed \/ AnswerUndefined
  <2>1. ctx' = ctx /\ app' = app /\ pc' = "undefined"
    BY <1>3 DEF UseFreed, AnswerUndefined
  <2> QED
    BY <2>1 DEF AccountsInv
<1>4. CASE WalkEnd
  <2>1. ctx' = ctx /\ pc = "walk" /\ pc' = "idle" /\ app' = update_bootstrap_info(app, ctx)
    BY <1>4 DEF WalkEnd
  <2>2. /\ app'.prev = ctx.state /\ app'.stale = app.stale
        /\ ctx.state = "BOOTSTRAPPING" /\ app.prev # "BOOTSTRAPPING" => app'.sec = ctx.sec
        /\ ctx.state = "BOOTSTRAPPING" /\ app.prev = "BOOTSTRAPPING" => app'.sec = app.sec
    BY <1>0, <2>1, UpdateInfoApp DEF Good, IsContext
  <2> QED
    BY <2>1, <2>2 DEF AccountsInv
<1>5. CASE Tick
  <2>1. Later(ctx, ctx')
    BY <1>0, <1>5, TickIs
  <2>2. app' = app /\ pc' = pc
    BY <1>5 DEF Tick
  <2> QED
    BY <2>1, <2>2, SameKeepsAccounts DEF Later
<1>6. CASE PeerReceives
  <2>1. SameAccounts(ctx, ctx') /\ ctx'.state = ctx.state /\ ctx'.servers = ctx.servers /\ ctx'.bs = ctx.bs
    BY <1>6, ReceivedIs
  <2>2. app'.prev = app.prev /\ app'.sec = app.sec /\ app'.stale = app.stale /\ pc' = pc
    BY <1>6, ReceivedApp
  <2> QED
    BY <2>1, <2>2, SameEntriesNow, SameKeepsAccounts
<1>7. CASE Deliver
  <2>1. PICK t \in ctx.trans : Handled(ctx, ctx', t, t.answer)
    BY <1>0, <1>7, DeliverIs
  <2>2. app' = app /\ pc' = pc
    BY <1>7 DEF Deliver
  <2> QED
    BY <2>1, <2>2, SameKeepsAccounts DEF Handled
<1>8. CASE Command
  <2>1. Calls /\ app'.stale = app.stale
    BY <1>8, CommandIs
  <2>2. PICK i \in DOMAIN ctx.bs : Obeys(ctx, ctx', i)
    BY <1>8, CommandIs
  <2>3. /\ KeepsClean(ctx, ctx') /\ DOMAIN ctx'.servers = DOMAIN ctx.servers /\ DOMAIN ctx'.bs = DOMAIN ctx.bs
        /\ \A j \in DOMAIN ctx.servers : ctx'.servers[j].uri = ctx.servers[j].uri
        /\ \A j \in DOMAIN ctx.bs : ctx'.bs[j].uri = ctx.bs[j].uri
    BY <2>2 DEF Obeys, Differs, EntryFields
  <2>4. /\ Matches(ctx, ctx.sec) => Matches(ctx', ctx'.sec)
        /\ \A sec : Matches(ctx, sec) => Matches(ctx', sec)
    BY <1>0, <2>3, MatchesClean
  <2> QED
    BY <2>1, <2>4 DEF Calls, AccountsInv
<1>9. CASE WriteLifetime
  <2>1. Calls /\ app'.stale = app.stale /\ Writes(ctx, ctx')
    BY <1>9, WriteIs
  <2>2. /\ ctx'.torn = ctx.torn /\ ctx'.sec = ctx.sec /\ SameList(ctx.servers, ctx'.servers)
        /\ SameList(ctx.bs, ctx'.bs)
    BY <2>1 DEF Writes, KeepsSecurity, SameSecurity, SameList
  <2>3. \A sec : Matches(ctx, sec) => Matches(ctx', sec)
    BY <2>2, MatchesSame
  <2> QED
    BY <2>1, <2>2, <2>3 DEF Calls, AccountsInv
<1>10. CASE UpdateRegistration
  <2>1. Calls /\ Asks(ctx, ctx') /\ (~app'.stale => ~app.stale /\ ~OutdatesBackup(ctx, ctx'))
    BY <1>10, UpdateMeans
  <2>2. Renewed(ctx, ctx')
    BY <2>1 DEF Asks
  <2>3. ~app'.stale => Matches(ctx', ctx'.sec)
    BY <1>0, <2>1, <2>2, MatchesRenewed DEF AccountsInv
  <2>4. ~app'.stale /\ app.prev = "BOOTSTRAPPING" => Matches(ctx', app.sec)
    BY <1>0, <2>1, <2>2, MatchesKept DEF AccountsInv, OutdatesBackup, Calls
  <2> QED
    BY <2>1, <2>3, <2>4 DEF Calls, AccountsInv
<1>11. CASE Deregister
  <2>1. Calls /\ app'.stale = app.stale /\ Quiet(ctx, ctx') /\ ctx'.state = ctx.state
    BY <1>11, DeregisterMeans DEF Asks
  <2> QED
    BY <2>1, SameKeepsAccounts DEF Calls, Quiet
<1>12. CASE Close
  <2>1. DOMAIN ctx'.servers = {} /\ DOMAIN ctx'.bs = {} /\ pc' \in {"closed", "undefined"}
    BY <1>12, CloseIs
  <2> QED
    BY <2>1 DEF AccountsInv, Matches
<1>13. CASE UNCHANGED vars
  BY <1>13 DEF vars, AccountsInv
<1> QED
  BY <1>1, <1>2, <1>3, <1>4, <1>5, <1>6, <1>7, <1>8, <1>9, <1>10, <1>11, <1>12, <1>13 DEF Next

LEMMA InvMatches == AccountsInv => AccountsMatch
  BY DEF AccountsInv, Matches, Listed, AccountsMatch

\* An entry of the server lists that is not marked for removal is that of the Security
\* instance as it is now, whatever bootstrap servers write and delete and the main loop
\* restores, in every order; half-done writes and entries newer than the backup aside.
THEOREM AccountsAreCurrent == Spec => []AccountsMatch
<1>1. Init => AccountsInv
  BY AccountsInit
<1>2. ClientInv /\ ClientInv' /\ AccountsInv /\ [Next]_vars => AccountsInv'
  BY AccountsStep
<1> QED
  BY <1>1, <1>2, ClientInvariant, InvMatches, PTL DEF Spec

-----------------------------------------------------------------------------
(* Giving up                                                                *)

\* A bootstrap that a server began, and of which the main loop does not know yet, is under
\* way.
Underway ==
    pc = "idle" /\ ctx.state = "BOOTSTRAPPING" /\ app.prev # "BOOTSTRAPPING" =>
        \E i \in DOMAIN ctx.bs : ctx.bs[i].status \in Busy

LEMMA UnderwayStays ==
    ASSUME Underway, pc = "idle", app'.prev = app.prev, StaysBusy(ctx.bs, ctx'.bs),
           ctx'.state \in {ctx.state, "BOOTSTRAP_REQUIRED"}
    PROVE  Underway'
<1> SUFFICES ASSUME pc' = "idle", ctx'.state = "BOOTSTRAPPING", app'.prev # "BOOTSTRAPPING"
             PROVE  \E i \in DOMAIN ctx'.bs : ctx'.bs[i].status \in Busy
  BY DEF Underway
<1>1. PICK i \in DOMAIN ctx.bs : ctx.bs[i].status \in Busy
  BY DEF Underway
<1> QED
  BY <1>1 DEF StaysBusy

LEMMA UnderwayStep ==
    ASSUME ClientInv, Underway, [Next]_vars
    PROVE  Underway'
<1>0. Good(ctx) /\ IsApp(app)
  BY DEF ClientInv
<1>1. CASE StepOn
  <2>1. PICK r : Taken(ctx, r) /\ (Goes(r) \/ Recovers(r) \/ GivesUp(r))
    BY <1>1, StepMeans
  <2>2. Recovers(r) => ctx'.state = "INITIAL"
    BY <1>0, <2>1, RestoredIs DEF Recovers, Taken
  <2> QED
    BY <2>1, <2>2 DEF Goes, Recovers, GivesUp, Underway
<1>2. CASE Expire \/ UseFreed \/ AnswerUndefined
  BY <1>2 DEF Expire, UseFreed, AnswerUndefined, Underway
<1>3. CASE WalkEnd
  <2>1. ctx' = ctx /\ app' = update_bootstrap_info(app, ctx)
    BY <1>3 DEF WalkEnd
  <2>2. app'.prev = ctx.state
    BY <1>0, <2>1, UpdateInfoApp DEF Good, IsContext
  <2> QED
    BY <2>1, <2>2 DEF Underway
<1>4. CASE Tick
  <2>1. Later(ctx, ctx') /\ pc = "idle" /\ app' = app
    BY <1>0, <1>4, TickIs DEF Tick
  <2>2. ctx'.state = ctx.state /\ StaysBusy(ctx.bs, ctx'.bs)
    BY <2>1 DEF Later, SameEntries, SameList, Differs, EntryFields, StaysBusy
  <2> QED
    BY <2>1, <2>2, UnderwayStays
<1>5. CASE PeerReceives
  <2>1. ctx'.bs = ctx.bs /\ ctx'.state = ctx.state
    BY <1>5, ReceivedIs
  <2>2. app'.prev = app.prev /\ pc' = pc
    BY <1>5, ReceivedApp
  <2> QED
    BY <2>1, <2>2 DEF Underway
<1>6. CASE Deliver
  <2>1. PICK t \in ctx.trans : Handled(ctx, ctx', t, t.answer)
    BY <1>0, <1>6, DeliverIs
  <2>2. app' = app /\ pc = "idle"
    BY <1>6 DEF Deliver
  <2> QED
    BY <2>1, <2>2, UnderwayStays DEF Handled
<1>7. CASE Command
  <2>1. PICK i \in DOMAIN ctx.bs : Obeys(ctx, ctx', i)
    BY <1>7, CommandIs
  <2>2. Calls
    BY <1>7, CommandIs
  <2>3. CASE ctx'.state = ctx.state
    BY <2>1, <2>2, <2>3, UnderwayStays DEF Obeys, Calls
  <2>4. CASE ctx'.bs[i].status \in Busy
    BY <2>1, <2>4 DEF Obeys, Underway
  <2> QED
    BY <2>1, <2>3, <2>4 DEF Obeys
<1>8. CASE WriteLifetime
  <2>1. Calls /\ ctx'.state = ctx.state /\ ctx'.bs = ctx.bs
    BY <1>8, WriteIs DEF Writes, Rewrites, KeepsSecurity
  <2> QED
    BY <2>1 DEF Calls, Underway
<1>9. CASE UpdateRegistration \/ Deregister
  <2>1. Calls /\ Asks(ctx, ctx')
    BY <1>9, UpdateMeans, DeregisterMeans
  <2> QED
    BY <2>1, UnderwayStays DEF Calls, Asks
<1>10. CASE Close
  BY <1>10, CloseIs DEF Underway
<1>11. CASE UNCHANGED vars
  BY <1>11 DEF vars, Underway
<1> QED
  BY <1>1, <1>2, <1>3, <1>4, <1>5, <1>6, <1>7, <1>8, <1>9, <1>10, <1>11 DEF Next

LEMMA GivingUpIs ==
    ASSUME ClientInv, Underway, ClientInv', AccountsMatch', StepOn, pc = "idle", pc' = "closed"
    PROVE  \/ \A k \in DOMAIN ctx'.sec \ ctx'.torn : ~ctx'.sec[k].bootstrap
           \/ \E k \in DOMAIN ctx'.sec : Refused(ctx', k)
           \/ ctx.state = "BOOTSTRAP_REQUIRED" /\ app.prev = "INITIAL"
           \/ app'.stale
<1>1. PICK r : /\ Taken(ctx, r) /\ (~r.ok => Reason(ctx, r) \/ SkipsInitial)
               /\ Goes(r) \/ Recovers(r) \/ GivesUp(r)
  BY StepMeans
<1>2. GivesUp(r)
  BY <1>1 DEF Goes, Recovers
<1>3. /\ ctx' = r.ctx /\ app' = app /\ app.prev # "BOOTSTRAPPING"
      /\ Reason(ctx, r) \/ SkipsInitial
  BY <1>1, <1>2 DEF GivesUp
<1>4. CASE SkipsInitial
  BY <1>4 DEF SkipsInitial
<1>5. CASE DOMAIN r.ctx.bs = {} /\ Secure(r.ctx)
  <2> SUFFICES ASSUME ~app'.stale, NEW k \in DOMAIN ctx'.sec \ ctx'.torn, ctx'.sec[k].bootstrap
               PROVE  FALSE
    OBVIOUS
  <2>1. k \in DOMAIN ctx'.servers /\ ~ctx'.servers[k].dirty /\ k \notin DOMAIN ctx'.bs
    BY <1>3, <1>5 DEF Secure, Knows
  <2>2. (k \in DOMAIN ctx'.bs) = FALSE
    BY <2>1
  <2>3. ctx'.sec[k].bootstrap = FALSE
    BY <2>1, <2>2 DEF AccountsMatch
  <2> QED
    BY <2>3
<1>6. CASE SomeRefused(ctx)
  <2>1. SameAccounts(ctx, ctx')
    BY <1>1, <1>3 DEF Taken, Renewed
  <2>2. PICK k \in DOMAIN ctx.sec : Refused(ctx, k)
    BY <1>6 DEF SomeRefused
  <2>3. k \in DOMAIN ctx'.sec /\ Refused(ctx', k)
    BY <2>1, <2>2, RefusedSame DEF SameAccounts
  <2> QED
    BY <2>3
<1>7. CASE ctx.state = "BOOTSTRAPPING" /\ bootstrap_getStatus(ctx) = "BS_FAILED"
  <2>1. PICK i \in DOMAIN ctx.bs : ctx.bs[i].status \in Busy
    BY <1>3, <1>7 DEF Underway
  <2>2. bootstrap_getStatus(ctx) = "BS_PENDING"
    BY <2>1 DEF bootstrap_getStatus, Busy
  <2> QED
    BY <1>7, <2>2
<1> QED
  BY <1>3, <1>4, <1>5, <1>6, <1>7 DEF Reason

\* The main loop gives up only on accounts without a bootstrap server, or with one that is
\* refused; or it goes by lists older than the accounts, in the two ways the property names.
\* A bootstrap that fails is undone first, even one that a server began between two steps.
THEOREM GivingUpIsJustified == Spec => GivesUpWithoutBootstrap
<1>1. Init => Underway
  BY DEF Init, Underway
<1>2. ClientInv /\ Underway /\ [Next]_vars => Underway'
  BY UnderwayStep
<1>3. ClientInv /\ Underway /\ ClientInv' /\ AccountsMatch' /\ [Next]_vars =>
        [pc = "idle" /\ pc' = "closed" /\ StepOn =>
            \/ \A k \in DOMAIN ctx'.sec \ ctx'.torn : ~ctx'.sec[k].bootstrap
            \/ \E k \in DOMAIN ctx'.sec : Refused(ctx', k)
            \/ ctx.state = "BOOTSTRAP_REQUIRED" /\ app.prev = "INITIAL"
            \/ app'.stale]_vars
  BY GivingUpIs
<1> QED
  BY <1>1, <1>2, <1>3, ClientInvariant, AccountsAreCurrent, PTL DEF Spec, GivesUpWithoutBootstrap

-----------------------------------------------------------------------------
(* Registrations are kept                                                   *)

\* A registration lasts for its lifetime, counted from x.
Lasts(p, x) == p.life = 0 \/ p.eol >= p.life + x

\* Transactions end in time, and the server's registration is not older than the request
\* it was granted for.
InTime(T, q) ==
    \A t \in T : /\ t.at + MaxTransmitWait >= 0
                 /\ Grants(t, t.answer) => Lasts(RegistrationAt(q, t.id), t.at)

\* Nor is it older than the longest time an answer takes, for a client that is registered.
Kept(f, q) ==
    \A i \in DOMAIN f : f[i].status = "REGISTERED" /\ f[i].registration > -Horizon =>
        Lasts(RegistrationAt(q, i), f[i].registration - MaxTransmitWait)

\* The main loop wakes in n seconds, and no update is due before.
Awake(f, n) ==
    \A i \in DOMAIN f : f[i].status = "REGISTERED" /\ NextUpdate(f[i]) > now => n <= NextUpdate(f[i])

Timely ==
    ~app.cut /\ pc \in {"idle", "walk"} =>
        /\ InTime(ctx.trans, peer) /\ Kept(ctx.servers, peer) /\ Awake(ctx.servers, wake)
        /\ pc = "walk" /\ ctx.trans # {} => wake <= 1
        /\ pc = "idle" /\ wake > 0 =>
             \A t \in ctx.trans : t.at + MaxTransmitWait > 0 /\ wake <= 1

LEMMA RenewalLasts ==
    ASSUME NEW p, IsPeer(p), Renewal(p), NEW x \in Int, x <= 0
    PROVE  Lasts(p, x)
<1>1. p.eol \in Int /\ p.life \in Int
  BY DEF IsPeer
<1> QED
  BY <1>1 DEF Renewal, Lasts

LEMMA SameNextUpdate ==
    ASSUME NEW s, NEW e, e.registration = s.registration, e.lifetime = s.lifetime
    PROVE  NextUpdate(e) = NextUpdate(s)
  BY DEF NextUpdate

LEMMA AwakeNow ==
    ASSUME NEW c, Good(c)
    PROVE  Awake(c.servers, 0)
<1> SUFFICES ASSUME NEW i \in DOMAIN c.servers, NextUpdate(c.servers[i]) > now
             PROVE  0 <= NextUpdate(c.servers[i])
  BY DEF Awake
<1>1. IsEntry(c.servers[i])
  BY DEF Good, IsContext, IsServer
<1>2. NextUpdate(c.servers[i]) \in Int
  BY <1>1, NextUpdateIs
<1> QED
  BY <1>2 DEF now

LEMMA AtIs ==
    ASSUME NEW c, Good(c), NEW t \in c.trans
    PROVE  t.at \in Int /\ t.at <= 0 /\ t.at >= -Horizon
<1>1. t.at \in -Horizon .. 0
  BY DEF Good, IsContext, IsTransaction
<1> QED
  BY <1>1

\* New transactions are in time.
LEMMA MoreInTime ==
    ASSUME NEW T, NEW U, NEW q, InTime(T, q),
           \A u \in U : u \in T \/ (u.at = now /\ u.answer = "none")
    PROVE  InTime(U, q)
<1> SUFFICES ASSUME NEW u \in U, u.at = now, u.answer = "none"
             PROVE  u.at + MaxTransmitWait >= 0 /\ ~Grants(u, u.answer)
  BY DEF InTime
<1> QED
  BY DEF now, Grants

\* Entries that do not become registered are kept as they were.
NoneMore(f, g) ==
    \A i \in DOMAIN g : g[i].status = "REGISTERED" =>
        /\ i \in DOMAIN f /\ f[i].status = "REGISTERED"
        /\ g[i].registration = f[i].registration

LEMMA KeptSame ==
    ASSUME NEW f, NEW g, NEW q, Kept(f, q), NoneMore(f, g)
    PROVE  Kept(g, q)
  BY DEF Kept, NoneMore

\* A call of the application or a command leaves the main loop awake.
LEMMA CallsTimely ==
    ASSUME ClientInv, ClientInv', Timely, pc = "idle", wake' = 0, peer' = peer,
           app'.cut = app.cut, pc' = "idle", NoneMore(ctx.servers, ctx'.servers),
           \A u \in ctx'.trans : u \in ctx.trans \/ (u.at = now /\ u.answer = "none")
    PROVE  Timely'
<1> SUFFICES ASSUME ~app.cut
             PROVE  /\ InTime(ctx'.trans, peer') /\ Kept(ctx'.servers, peer')
                    /\ Awake(ctx'.servers, wake')
  BY DEF Timely
<1>1. InTime(ctx.trans, peer) /\ Kept(ctx.servers, peer)
  BY DEF Timely
<1>2. InTime(ctx'.trans, peer)
  BY <1>1, MoreInTime
<1>3. Kept(ctx'.servers, peer)
  BY <1>1, KeptSame
<1>4. Awake(ctx'.servers, 0)
  BY AwakeNow DEF ClientInv
<1> QED
  BY <1>2, <1>3, <1>4

LEMMA StepTimely ==
    ASSUME ClientInv, ClientInv', Timely, StepOn
    PROVE  Timely'
<1>1. PICK r : /\ Taken(ctx, r) /\ pc = "idle" /\ peer' = peer /\ wake' \in 0 .. MaxWait
               /\ \A x \in r.wakes : wake' <= x
               /\ Goes(r) \/ Recovers(r) \/ GivesUp(r)
  BY StepMeans
<1>2. CASE Goes(r)
  <2> SUFFICES ASSUME ~app.cut
               PROVE  /\ InTime(ctx'.trans, peer') /\ Kept(ctx'.servers, peer')
                      /\ Awake(ctx'.servers, wake')
                      /\ ctx'.trans # {} => wake' <= 1
    BY <1>2 DEF Goes, Timely
  <2>1. ctx' = r.ctx /\ r.ok /\ InTime(ctx.trans, peer) /\ Kept(ctx.servers, peer)
    BY <1>1, <1>2 DEF Goes, Timely
  <2>2. NoneRegistered(ctx, ctx') /\ AddsOnly(ctx, ctx')
    BY <1>1, <2>1 DEF Taken, Renewed
  <2>3. InTime(ctx'.trans, peer)
    BY <2>1, <2>2, MoreInTime DEF AddsOnly
  <2>4. Kept(ctx'.servers, peer)
    BY <2>1, <2>2, KeptSame DEF NoneMore, NoneRegistered
  <2>5. Awake(ctx'.servers, wake') /\ (ctx'.trans # {} => wake' <= 1)
    BY <1>1, <2>1 DEF Taken, Awake
  <2> QED
    BY <1>1, <2>3, <2>4, <2>5
<1>3. CASE Recovers(r) \/ GivesUp(r)
  BY <1>3 DEF Recovers, GivesUp, Timely
<1> QED
  BY <1>1, <1>2, <1>3

LEMMA ExpireTimely ==
    ASSUME ClientInv, Timely, Expire
    PROVE  Timely'
<1>1. Good(ctx) /\ pc = "walk"
  BY DEF ClientInv, Expire
<1>2. PICK t \in ctx.trans : Handled(ctx, ctx', t, "none")
  BY <1>1, ExpireIs
<1>3. app' = app /\ wake' = wake /\ pc' = "walk" /\ peer' = peer
  BY DEF Expire
<1> SUFFICES ASSUME ~app.cut
             PROVE  /\ InTime(ctx'.trans, peer) /\ Kept(ctx'.servers, peer)
                    /\ Awake(ctx'.servers, wake) /\ wake <= 1
  BY <1>3 DEF Timely
<1>4. /\ InTime(ctx.trans, peer) /\ Kept(ctx.servers, peer) /\ Awake(ctx.servers, wake) /\ wake <= 1
  BY <1>1, <1>2 DEF Timely
<1>5. InTime(ctx'.trans, peer)
  BY <1>2, <1>4, MoreInTime DEF Handled
<1>6. \A j \in DOMAIN ctx'.servers : ctx'.servers[j].status = "REGISTERED" =>
        /\ j \in DOMAIN ctx.servers /\ ctx.servers[j].status = "REGISTERED"
        /\ ctx'.servers[j].registration = ctx.servers[j].registration
        /\ ctx'.servers[j].lifetime = ctx.servers[j].lifetime
  BY <1>2 DEF Handled, Grants, SameEntries, SameList
<1>7. Kept(ctx'.servers, peer)
  BY <1>4, <1>6, KeptSame DEF NoneMore
<1>8. Awake(ctx'.servers, wake)
  BY <1>4, <1>6, SameNextUpdate DEF Awake
<1> QED
  BY <1>4, <1>5, <1>7, <1>8

LEMMA WalkEndTimely ==
    ASSUME ClientInv, Timely, WalkEnd
    PROVE  Timely'
<1>1. /\ ctx' = ctx /\ wake' = wake /\ pc = "walk" /\ pc' = "idle" /\ peer' = peer
      /\ app' = update_bootstrap_info(app, ctx) /\ \A t \in ctx.trans : ~Over(t)
  BY DEF WalkEnd
<1>2. Good(ctx) /\ IsApp(app)
  BY DEF ClientInv
<1>3. app'.cut = app.cut
  BY <1>1, <1>2, UpdateInfoApp DEF Good, IsContext
<1>4. \A t \in ctx.trans : t.at + MaxTransmitWait > 0
  BY <1>1, <1>2, AtIs DEF Over, now
<1> QED
  BY <1>1, <1>3, <1>4 DEF Timely

\* An answer that grants a registration comes at most COAP_MAX_TRANSMIT_WAIT after the
\* request.
LEMMA DeliverTimely ==
    ASSUME ClientInv, ClientInv', Timely, Deliver
    PROVE  Timely'
<1>1. Good(ctx) /\ Good(ctx') /\ ArePeers(peer) /\ pc = "idle"
  BY DEF ClientInv, Deliver
<1>2. PICK t \in ctx.trans : Handled(ctx, ctx', t, t.answer)
  BY <1>1, DeliverIs
<1>3. app' = app /\ wake' = 0 /\ pc' = "idle" /\ peer' = peer
  BY DEF Deliver
<1> SUFFICES ASSUME ~app.cut
             PROVE  /\ InTime(ctx'.trans, peer) /\ Kept(ctx'.servers, peer)
                    /\ Awake(ctx'.servers, 0)
  BY <1>3 DEF Timely
<1>4. InTime(ctx.trans, peer) /\ Kept(ctx.servers, peer)
  BY <1>1 DEF Timely
<1>5. InTime(ctx'.trans, peer)
  BY <1>2, <1>4, MoreInTime DEF Handled
<1>6. ASSUME NEW j \in DOMAIN ctx'.servers, ctx'.servers[j].status = "REGISTERED",
             ctx'.servers[j].registration > -Horizon
      PROVE  Lasts(RegistrationAt(peer, j), ctx'.servers[j].registration - MaxTransmitWait)
  <2>1. CASE /\ ctx.servers[j].status = "REGISTERED"
             /\ ctx'.servers[j].registration = ctx.servers[j].registration
    <3>1. j \in DOMAIN ctx.servers
      BY <1>2 DEF Handled, SameEntries, SameList
    <3> QED
      BY <1>4, <1>6, <2>1, <3>1 DEF Kept
  <2>2. CASE Grants(t, t.answer) /\ j = t.id /\ ctx'.servers[j].registration = now
    <3> DEFINE p == RegistrationAt(peer, j)
    <3>1. Lasts(p, t.at) /\ t.at + MaxTransmitWait >= 0
      BY <1>4, <2>2 DEF InTime
    <3>2. t.at \in Int /\ IsPeer(p)
      BY <1>1, AtIs, PeerIs
    <3> HIDE DEF p
    <3>3. p.eol \in Int /\ p.life \in Int
      BY <3>2 DEF IsPeer
    <3>4. Lasts(p, now - MaxTransmitWait)
      BY <3>1, <3>2, <3>3 DEF Lasts, now
    <3> QED
      BY <2>2, <3>4 DEF p
  <2> QED
    BY <1>2, <1>6, <2>1, <2>2 DEF Handled
<1>7. Awake(ctx'.servers, 0)
  BY <1>1, AwakeNow
<1> QED
  BY <1>5, <1>6, <1>7 DEF Kept

\* A second later.
LEMMA LastsLater ==
    ASSUME NEW p, IsPeer(p), NEW q, IsPeer(q), q.life = p.life, q.eol >= p.eol - 1,
           NEW x \in Int, Lasts(p, x)
    PROVE  Lasts(q, x - 1)
<1>1. p.eol \in Int /\ p.life \in Int /\ q.eol \in Int
  BY DEF IsPeer
<1> QED
  BY <1>1 DEF Lasts

LEMMA TickTimely ==
    ASSUME ClientInv, ClientInv', Timely, Tick
    PROVE  Timely'
<1>1. /\ Good(ctx) /\ ArePeers(peer) /\ ArePeers(peer') /\ pc = "idle" /\ pc' = "idle"
      /\ app' = app /\ wake \in Nat /\ wake > 0 /\ wake' = wake - 1
  BY DEF ClientInv, Tick
<1>2. Later(ctx, ctx')
  BY <1>1, TickIs
<1>3. \A i : LET p == RegistrationAt(peer, i)
                 q == RegistrationAt(peer', i)
             IN  IsPeer(p) /\ IsPeer(q) /\ q.life = p.life /\ q.eol >= p.eol - 1
  BY <1>1, TickPeers, PeerIs
<1> SUFFICES ASSUME ~app.cut
             PROVE  /\ InTime(ctx'.trans, peer') /\ Kept(ctx'.servers, peer')
                    /\ Awake(ctx'.servers, wake')
                    /\ wake' > 0 => ctx'.trans = {}
  BY <1>1 DEF Timely
<1>4. /\ InTime(ctx.trans, peer) /\ Kept(ctx.servers, peer) /\ Awake(ctx.servers, wake)
      /\ \A t \in ctx.trans : t.at + MaxTransmitWait > 0 /\ wake <= 1
  BY <1>1 DEF Timely
<1>5. ASSUME NEW u \in ctx'.trans
      PROVE  /\ u.at + MaxTransmitWait >= 0
             /\ Grants(u, u.answer) => Lasts(RegistrationAt(peer', u.id), u.at)
  <2>1. PICK t \in ctx.trans : u = OlderTransaction(t)
    BY <1>2 DEF Later
  <2>2. IsTransaction(t) /\ t.at \in Int /\ t.at <= 0
    BY <1>1, AtIs DEF Good, IsContext
  <2>3. /\ u.kind = t.kind /\ u.id = t.id /\ u.at = Aged(t.at) /\ u.answer = t.answer
    BY <2>1, <2>2, OlderTransactionIs DEF Replaces, SameRequest
  <2>4. t.at + MaxTransmitWait > 0
    BY <1>4
  <2>5. t.at - 1 >= -Horizon /\ t.at - 1 + MaxTransmitWait >= 0
    BY <2>2, <2>4
  <2>6. u.at = t.at - 1
    BY <2>2, <2>3, <2>5, AgedIs
  <2>7. Grants(u, u.answer) => Grants(t, t.answer)
    BY <2>3 DEF Grants
  <2>8. Grants(t, t.answer) => Lasts(RegistrationAt(peer, t.id), t.at)
    BY <1>4 DEF InTime
  <2>9. Grants(t, t.answer) => Lasts(RegistrationAt(peer', t.id), t.at - 1)
    BY <1>3, <2>2, <2>8, LastsLater
  <2> QED
    BY <2>3, <2>5, <2>6, <2>7, <2>9
<1>6. wake' > 0 => ctx'.trans = {}
  <2>1. wake' > 0 => ctx.trans = {}
    BY <1>1, <1>4
  <2> QED
    BY <1>2, <2>1 DEF Later
<1>7. ASSUME NEW i \in DOMAIN ctx'.servers, ctx'.servers[i].status = "REGISTERED"
      PROVE  /\ ctx'.servers[i].registration > -Horizon =>
                  Lasts(RegistrationAt(peer', i), ctx'.servers[i].registration - MaxTransmitWait)
             /\ NextUpdate(ctx'.servers[i]) > now => wake' <= NextUpdate(ctx'.servers[i])
  <2> DEFINE s == ctx.servers[i]
             e == ctx'.servers[i]
  <2>1. i \in DOMAIN ctx.servers /\ Differs(s, e, {"registration"})
    BY <1>2 DEF Later, SameEntries, SameList
  <2>2. s.status = "REGISTERED" /\ e.lifetime = s.lifetime
    BY <1>7, <2>1 DEF Differs, EntryFields
  <2>3. IsEntry(s) /\ s.registration \in Int /\ s.lifetime \in Nat
    <3>1. IsServer(s)
      BY <1>1, <2>1 DEF Good, IsContext
    <3> HIDE DEF s
    <3>2. IsEntry(s)
      BY <3>1 DEF IsServer
    <3> QED
      BY <3>2 DEF IsEntry
  <2>4. e.registration = Aged(s.registration)
    BY <1>2, <2>1, <2>2 DEF Later
  <2>5. /\ s.status = "REGISTERED" /\ s.registration > -Horizon =>
             Lasts(RegistrationAt(peer, i), s.registration - MaxTransmitWait)
        /\ NextUpdate(s) > now => wake <= NextUpdate(s)
    BY <1>4, <2>1, <2>2 DEF Kept, Awake
  <2> HIDE DEF s, e
  <2>6. e.registration = IF s.registration - 1 >= -Horizon THEN s.registration - 1 ELSE -Horizon
    BY <2>3, <2>4, AgedIs
  <2>7. e.registration > -Horizon =>
          Lasts(RegistrationAt(peer', i), e.registration - MaxTransmitWait)
    <3> SUFFICES ASSUME e.registration > -Horizon
                 PROVE  Lasts(RegistrationAt(peer', i), e.registration - MaxTransmitWait)
      OBVIOUS
    <3> DEFINE x == s.registration - MaxTransmitWait
    <3>1. e.registration = s.registration - 1 /\ s.registration > -Horizon
      BY <2>3, <2>6
    <3>2. x \in Int /\ e.registration - MaxTransmitWait = x - 1
      BY <2>3, <3>1
    <3>3. Lasts(RegistrationAt(peer, i), x)
      BY <2>2, <2>5, <3>1
    <3> HIDE DEF x
    <3>4. Lasts(RegistrationAt(peer', i), x - 1)
      BY <1>3, <3>2, <3>3, LastsLater
    <3> QED
      BY <3>2, <3>4
  <2>8. NextUpdate(e) > now => wake' <= NextUpdate(e)
    <3> DEFINE m == IF MaxTransmitWait < s.lifetime THEN s.lifetime - MaxTransmitWait
                    ELSE s.lifetime \div 2
    <3>1. NextUpdate(s) = s.registration + m /\ NextUpdate(e) = e.registration + m
      BY <2>2 DEF NextUpdate
    <3>2. m \in Int
      BY <2>3
    <3> HIDE DEF m
    <3>3. s.registration >= -Horizon
      <4>1. IsServer(s)
        BY <1>1, <2>1 DEF s, Good, IsContext
      <4>2. s.registration \in -Horizon .. 0
        BY <2>2, <4>1 DEF IsServer
      <4> QED
        BY <4>2
    <3> QED
      BY <1>1, <2>3, <2>5, <2>6, <3>1, <3>2, <3>3 DEF now
  <2> QED
    BY <2>7, <2>8 DEF e
<1> QED
  BY <1>5, <1>6, <1>7 DEF InTime, Kept, Awake

LEMMA ReceivedTimely ==
    ASSUME ClientInv, ClientInv', Timely, PeerReceives
    PROVE  Timely'
<1>1. PICK t \in ctx.trans : \E code, u :
        /\ ctx'.servers = ctx.servers /\ ctx'.trans = (ctx.trans \ {t}) \cup {u}
        /\ SameRequest(t, u) /\ u.at = t.at /\ u.answer = code
        /\ \A i : \/ RegistrationAt(peer', i) = RegistrationAt(peer, i)
                  \/ Renewal(RegistrationAt(peer', i))
        /\ Grants(t, code) => Renewal(RegistrationAt(peer', t.id))
  BY ReceivedIs
<1>2. PICK code, u :
        /\ ctx'.servers = ctx.servers /\ ctx'.trans = (ctx.trans \ {t}) \cup {u}
        /\ SameRequest(t, u) /\ u.at = t.at /\ u.answer = code
        /\ \A i : \/ RegistrationAt(peer', i) = RegistrationAt(peer, i)
                  \/ Renewal(RegistrationAt(peer', i))
        /\ Grants(t, code) => Renewal(RegistrationAt(peer', t.id))
  BY <1>1
<1>3. Good(ctx) /\ ArePeers(peer') /\ pc = "idle" /\ pc' = "idle" /\ app'.cut = app.cut
      /\ wake' = wake
  BY ReceivedApp DEF ClientInv, PeerReceives
<1> SUFFICES ASSUME ~app.cut
             PROVE  /\ InTime(ctx'.trans, peer') /\ Kept(ctx'.servers, peer')
                    /\ Awake(ctx'.servers, wake')
                    /\ wake' > 0 =>
                         \A v \in ctx'.trans : v.at + MaxTransmitWait > 0 /\ wake' <= 1
  BY <1>3 DEF Timely
<1>4. /\ InTime(ctx.trans, peer) /\ Kept(ctx.servers, peer) /\ Awake(ctx.servers, wake)
      /\ wake > 0 => \A v \in ctx.trans : v.at + MaxTransmitWait > 0 /\ wake <= 1
  BY <1>3 DEF Timely
<1>5. ASSUME NEW i, NEW x \in Int, x <= 0, Lasts(RegistrationAt(peer, i), x)
      PROVE  Lasts(RegistrationAt(peer', i), x)
  BY <1>2, <1>3, <1>5, PeerIs, RenewalLasts
<1>6. ASSUME NEW v \in ctx'.trans
      PROVE  /\ v.at + MaxTransmitWait >= 0
             /\ Grants(v, v.answer) => Lasts(RegistrationAt(peer', v.id), v.at)
  <2>1. CASE v \in ctx.trans
    BY <1>3, <1>4, <1>5, <2>1, AtIs DEF InTime
  <2>2. CASE v = u
    <3>1. t.at + MaxTransmitWait >= 0 /\ t.at \in Int /\ t.at <= 0
      BY <1>3, <1>4, AtIs DEF InTime
    <3>2. v.at = t.at /\ v.id = t.id /\ (Grants(v, v.answer) => Grants(t, code))
      BY <1>2, <2>2 DEF SameRequest, Grants
    <3>3. Grants(t, code) => Lasts(RegistrationAt(peer', t.id), t.at)
      BY <1>2, <1>3, <3>1, PeerIs, RenewalLasts
    <3> QED
      BY <3>1, <3>2, <3>3
  <2> QED
    BY <1>2, <2>1, <2>2
<1>7. ASSUME NEW i \in DOMAIN ctx.servers, ctx.servers[i].status = "REGISTERED",
             ctx.servers[i].registration > -Horizon
      PROVE  Lasts(RegistrationAt(peer', i), ctx.servers[i].registration - MaxTransmitWait)
  <2> DEFINE x == ctx.servers[i].registration - MaxTransmitWait
  <2>1. ctx.servers[i].registration \in -Horizon .. 0
    BY <1>3, <1>7 DEF Good, IsContext, IsServer
  <2>2. x \in Int /\ x <= 0
    BY <2>1
  <2>3. Lasts(RegistrationAt(peer, i), x)
    BY <1>4, <1>7 DEF Kept
  <2> HIDE DEF x
  <2>4. Lasts(RegistrationAt(peer', i), x)
    BY <1>5, <2>2, <2>3
  <2> QED
    BY <2>4 DEF x
<1>8. wake' > 0 => \A v \in ctx'.trans : v.at + MaxTransmitWait > 0 /\ wake' <= 1
  BY <1>2, <1>3, <1>4
<1> QED
  BY <1>2, <1>3, <1>4, <1>6, <1>7, <1>8 DEF InTime, Kept

LEMMA TimelyStep ==
    ASSUME ClientInv, ClientInv', Timely, [Next]_vars
    PROVE  Timely'
<1>1. CASE StepOn
  BY <1>1, StepTimely
<1>2. CASE Expire
  BY <1>2, ExpireTimely
<1>3. CASE UseFreed \/ AnswerUndefined \/ Close
  BY <1>3, CloseIs DEF UseFreed, AnswerUndefined, Timely
<1>4. CASE WalkEnd
  BY <1>4, WalkEndTimely
<1>5. CASE Tick
  BY <1>5, TickTimely
<1>6. CASE PeerReceives
  BY <1>6, ReceivedTimely
<1>7. CASE Deliver
  BY <1>7, DeliverTimely
<1>8. CASE Command
  <2>1. PICK i \in DOMAIN ctx.bs : Obeys(ctx, ctx', i)
    BY <1>8, CommandIs
  <2>2. Calls
    BY <1>8, CommandIs
  <2>3. NoneMore(ctx.servers, ctx'.servers) /\ ctx'.trans = ctx.trans
    BY <2>1 DEF Obeys, NoneMore, Differs, EntryFields
  <2> QED
    BY <2>2, <2>3, CallsTimely DEF Calls
<1>9. CASE WriteLifetime
  <2>1. Calls /\ Writes(ctx, ctx')
    BY <1>9, WriteIs
  <2>2. NoneMore(ctx.servers, ctx'.servers) /\ ctx'.trans = ctx.trans
    BY <2>1 DEF Writes, Rewrites, NoneMore, Differs, EntryFields
  <2> QED
    BY <2>1, <2>2, CallsTimely DEF Calls
<1>10. CASE UpdateRegistration \/ Deregister
  <2>1. Calls /\ Asks(ctx, ctx')
    BY <1>10, UpdateMeans, DeregisterMeans
  <2>2. NoneMore(ctx.servers, ctx'.servers) /\ AddsOnly(ctx, ctx')
    BY <2>1 DEF Asks, Renewed, NoneRegistered, NoneMore
  <2> QED
    BY <2>1, <2>2, CallsTimely DEF Calls, AddsOnly
<1>11. CASE UNCHANGED vars
  BY <1>11 DEF vars, Timely
<1> QED
  BY <1>1, <1>2, <1>3, <1>4, <1>5, <1>6, <1>7, <1>8, <1>9, <1>10, <1>11 DEF Next

LEMMA TimelyInit ==
    ASSUME Init
    PROVE  Timely
<1>1. DOMAIN ctx.servers = {} /\ ctx.trans = {} /\ wake = 0 /\ pc = "idle"
  BY EmptyIs DEF Init
<1> QED
  BY <1>1 DEF Timely, InTime, Kept, Awake

LEMMA InvKept == ClientInv /\ Timely => RegistrationKept
<1> SUFFICES ASSUME ClientInv, Timely, pc = "idle", ~app.cut, NEW i \in DOMAIN ctx.servers,
                    ctx.servers[i].status = "REGISTERED"
             PROVE  LET s == ctx.servers[i]
                    IN  /\ NextUpdate(s) > now => wake <= NextUpdate(s)
                        /\ NextUpdate(s) >= now /\ s.lifetime > MaxTransmitWait
                             /\ s.lifetime <= PeerOf(i).life => PeerOf(i).eol >= 0
  BY DEF RegistrationKept
<1> DEFINE s == ctx.servers[i]
           p == RegistrationAt(peer, i)
<1>1. NextUpdate(s) > now => wake <= NextUpdate(s)
  BY DEF Timely, Awake
<1>2. PeerOf(i) = p
  BY DEF PeerOf, RegistrationAt
<1>3. p.eol \in Int /\ p.life \in Int
  BY PeerIs DEF ClientInv, IsPeer
<1>4. s.registration \in Int /\ s.lifetime \in Int /\ s.lifetime <= MaxLife
  <2>1. IsServer(s)
    BY DEF ClientInv, Good, IsContext
  <2> HIDE DEF s
  <2>2. IsEntry(s) /\ s.lifetime <= MaxLife
    BY <2>1 DEF IsServer
  <2> QED
    BY <2>2 DEF IsEntry
<1>5. s.registration > -Horizon => Lasts(p, s.registration - MaxTransmitWait)
  BY DEF Timely, Kept
<1> HIDE DEF s, p
<1>6. ASSUME NextUpdate(s) >= now, s.lifetime > MaxTransmitWait, s.lifetime <= p.life
      PROVE  p.eol >= 0
  <2>1. s.registration + s.lifetime - MaxTransmitWait >= 0
    BY <1>4, <1>6 DEF NextUpdate, now
  <2>2. s.registration > -Horizon /\ p.life # 0
    BY <1>3, <1>4, <1>6, <2>1
  <2>3. p.eol >= p.life + (s.registration - MaxTransmitWait)
    BY <1>5, <2>2 DEF Lasts
  <2> QED
    BY <1>3, <1>4, <1>6, <2>1, <2>3
<1> QED
  BY <1>1, <1>2, <1>6 DEF s

\* Until lwm2m_step is next called no update is due, and while the client takes itself for
\* registered its server has kept the registration, for every lifetime, whatever is lost or
\* late: the margin of COAP_MAX_TRANSMIT_WAIT makes up for the age of an answer.
THEOREM RegistrationIsKept == Spec => []RegistrationKept
<1>1. Init => Timely
  BY TimelyInit
<1>2. ClientInv /\ ClientInv' /\ Timely /\ [Next]_vars => Timely'
  BY TimelyStep
<1> QED
  BY <1>1, <1>2, ClientInvariant, InvKept, PTL DEF Spec
=============================================================================

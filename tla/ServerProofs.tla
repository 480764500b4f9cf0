---------------------------- MODULE ServerProofs ----------------------------
(***************************************************************************)
(* Proofs about Server, for every set of endpoints, sessions, URIs and     *)
(* lifetimes, every number of observation IDs and every bound.             *)
(***************************************************************************)
EXTENDS Server, NaturalLemmas

USE NamesAssumption, LifetimeAssumption, ServerBounds, IdAssumption
----------------------------------------------------------------------------
(* The client list, for a list C that need not be the one of the current   *)
(* state (packet.c adds a temporary client before the registration is      *)
(* looked at), when A structures have been allocated.                      *)

ClientsInv(C, A) ==
    /\ C \in SUBSET Clients
    /\ A \in 0 .. MaxClients
    /\ \A c \in C : c.inc <= A
    /\ \A c, d \in C : c.inc = d.inc => c = d
    /\ \A c, d \in C : c.id = d.id => c = d
    /\ \A c, d \in C : c.name = d.name /\ c.name # NoName => c = d

\* With a structure left to allocate, the IDs of the list leave a gap.
LEMMA GapExists ==
    ASSUME NEW C, NEW A, ClientsInv(C, A), A < MaxClients
    PROVE  \E i \in ClientIds : \A c \in C : c.id # i
<1> SUFFICES ASSUME \A i \in ClientIds : \E c \in C : c.id = i
             PROVE  FALSE
  OBVIOUS
<1> DEFINE Holder(i) == CHOOSE c \in C : c.id = i
           f == [i \in 0 .. MaxClients |-> Holder(i).inc]
<1>1. \A i \in ClientIds : Holder(i) \in C /\ Holder(i).id = i
  OBVIOUS
<1>2. f \in [0 .. MaxClients -> 1 .. A]
  <2> SUFFICES ASSUME NEW i \in 0 .. MaxClients PROVE Holder(i).inc \in 1 .. A
    OBVIOUS
  <2>1. Holder(i) \in C /\ C \in SUBSET Clients /\ Holder(i).inc <= A
    BY <1>1 DEF ClientIds, ClientsInv
  <2> QED
    BY <2>1 DEF Clients, Incs, ClientsInv
<1>3. /\ IsFiniteSet(0 .. MaxClients) /\ Cardinality(0 .. MaxClients) = MaxClients + 1
      /\ IsFiniteSet(1 .. A) /\ Cardinality(1 .. A) <= A
  <2>1. A \in Int /\ 0 <= A
    BY DEF ClientsInv
  <2> QED
    BY <2>1, FS_Interval
<1>4. Cardinality(1 .. A) < Cardinality(0 .. MaxClients)
  <2>1. A \in Int /\ Cardinality(1 .. A) \in Nat
    BY <1>3, FS_CardinalityType DEF ClientsInv
  <2> QED
    BY <1>3, <2>1
<1>5. PICK i, j \in 0 .. MaxClients : i # j /\ f[i] = f[j]
  <2> DEFINE S == 0 .. MaxClients
             T == 1 .. A
  <2>1. IsFiniteSet(S) /\ IsFiniteSet(T) /\ Cardinality(T) < Cardinality(S) /\ f \in [S -> T]
    BY <1>2, <1>3, <1>4
  <2> HIDE DEF f, S, T
  <2>2. \E i, j \in S : i # j /\ f[i] = f[j]
    BY <2>1, FS_PigeonHole
  <2> QED
    BY <2>2 DEF S
<1>6. Holder(i).inc = Holder(j).inc
  BY <1>5
<1>7. Holder(i) = Holder(j)
  BY <1>1, <1>6 DEF ClientIds, ClientsInv
<1> QED
  BY <1>1, <1>5, <1>7 DEF ClientIds

\* lwm2m_list_newId returns an ID that no client of the list has.
LEMMA NewIdFree ==
    ASSUME NEW C, NEW A, ClientsInv(C, A), A < MaxClients
    PROVE  NewId(C) \in ClientIds /\ \A c \in C : c.id # NewId(C)
<1> DEFINE G == {i \in ClientIds : \A c \in C : c.id # i}
<1>1. G \in SUBSET Nat /\ G # {}
  BY GapExists DEF ClientIds
<1>2. PICK m \in G : \A n \in G : m <= n
  <2> HIDE DEF G
  <2> QED BY <1>1, NatMin
<1>3. \A j \in ClientIds : j < m => \E c \in C : c.id = j
  <2> SUFFICES ASSUME NEW j \in ClientIds, j < m, \A c \in C : c.id # j
               PROVE  FALSE
    OBVIOUS
  <2>1. j \in G
    OBVIOUS
  <2> QED
    BY <1>2, <2>1 DEF ClientIds
<1> QED
  BY <1>2, <1>3 DEF NewId

\* lwm2m_list_add of a client with a new ID and a name of its own.
LEMMA AddClient ==
    ASSUME NEW C, NEW A, ClientsInv(C, A), A < MaxClients,
           NEW d \in Clients, d.id = NewId(C), d.inc = A + 1,
           d.name = NoName \/ ByName(C, d.name) = {}
    PROVE  ClientsInv(C \cup {d}, A + 1)
<1>1. \A c \in C : c.id # d.id
  BY NewIdFree
<1>2. \A c \in C : c.inc \in Int /\ c.inc <= A /\ A \in Int
  BY DEF ClientsInv, Clients, Incs
<1>3. \A c \in C : c.name # NoName => c.name # d.name
  BY DEF ByName
<1> QED
  BY <1>1, <1>2, <1>3 DEF ClientsInv

\* A client is changed in place; a new name is one that nobody has.
LEMMA ReplaceClient ==
    ASSUME NEW C, NEW A, ClientsInv(C, A), NEW c \in C,
           NEW d \in Clients, d.id = c.id, d.inc = c.inc,
           d.name = c.name \/ ByName(C, d.name) = {}
    PROVE  ClientsInv((C \ {c}) \cup {d}, A)
  BY DEF ClientsInv, ByName

\* registration_deregister, prv_freeClient: clients are unlinked.
LEMMA RemoveClients ==
    ASSUME NEW C, NEW A, ClientsInv(C, A), NEW S
    PROVE  ClientsInv(C \ S, A)
  BY DEF ClientsInv

\* A client structure that is allocated is one, with an ID of its own.
LEMMA NewClientType ==
    ASSUME NEW C, ClientsInv(C, allocated), allocated < MaxClients, now \in Nat,
           NEW n \in Names \cup {NoName}, NEW s \in Sessions, NEW life \in Nat
    PROVE  NewClient(C, n, s, life) \in Clients
<1>1. NewId(C) \in ClientIds
  BY NewIdFree
<1>2. 0 \in ObsIds /\ allocated + 1 \in Incs
  BY DEF ObsIds, Incs, ClientsInv
<1> QED
  BY <1>1, <1>2 DEF NewClient, Clients

\* A client that is reset remains one, and keeps its ID and its structure.
LEMMA ResetClientType ==
    ASSUME NEW c \in Clients, now \in Nat,
           NEW n \in Names \cup {NoName}, NEW s \in Sessions, NEW life \in Nat,
           NEW d, d = ResetClient(c, n, s, life)
    PROVE  /\ d \in Clients
           /\ d.id = c.id /\ d.inc = c.inc /\ d.observationId = c.observationId
           /\ d.name = n /\ d.session = s /\ d.endOfLife = now + life
<1>1. d = [id |-> c.id, name |-> n, session |-> s, lifetime |-> life,
           endOfLife |-> now + life, observationId |-> c.observationId, inc |-> c.inc]
  BY DEF ResetClient, Clients
<1> QED
  BY <1>1 DEF Clients

\* What packet.c does before it looks at a block: if there is no client with
\* the session, a temporary one is added, and nothing else changes.
LEMMA WithPeerInv ==
    ASSUME ClientsInv(clients, allocated), now \in Nat,
           NEW s \in Sessions, Block1Contact(s)
    PROVE  /\ ClientsInv(WithPeer(s), allocated')
           /\ clients \subseteq WithPeer(s)
           /\ \A c \in WithPeer(s) : c \notin clients =>
                 /\ c.name = NoName /\ c.session = s /\ c.observationId = 0
                 /\ c.inc = allocated + 1
                 /\ \A d \in clients : d.session # s /\ d.id # c.id
<1>1. CASE FindClient(clients, s) # {}
  BY <1>1 DEF WithPeer, Block1Contact
<1>2. CASE FindClient(clients, s) = {}
  <2> DEFINE d == NewClient(clients, NoName, s, DefaultLifetime)
  <2>1. allocated < MaxClients /\ allocated' = allocated + 1
    BY <1>2 DEF Block1Contact
  <2>2. d \in Clients
    BY <2>1, NewClientType
  <2>3. /\ d.id = NewId(clients) /\ d.inc = allocated + 1 /\ d.name = NoName
        /\ d.session = s /\ d.observationId = 0
    BY DEF NewClient
  <2>4. WithPeer(s) = clients \cup {d}
    BY <1>2 DEF WithPeer
  <2>5. ClientsInv(clients \cup {d}, allocated + 1)
    <3> HIDE DEF d
    <3> QED BY <2>1, <2>2, <2>3, AddClient
  <2>6. \A c \in clients : c.id # d.id
    BY <2>1, <2>3, NewIdFree
  <2>7. \A c \in clients : c.session # s
    <3> SUFFICES ASSUME NEW c \in clients, c.session = s PROVE FALSE
      OBVIOUS
    <3> DEFINE T == {e.id : e \in {x \in clients : x.session = s}}
    <3>1. T \in SUBSET Nat /\ T # {}
      BY DEF ClientsInv, Clients, ClientIds
    <3>2. PICK m \in T : \A k \in T : m <= k
      <4> HIDE DEF T
      <4> QED BY <3>1, NatMin
    <3>3. PICK e \in clients : e.session = s /\ e.id = m
      BY <3>2
    <3>4. \A x \in clients : x.session = s => e.id <= x.id
      BY <3>2, <3>3
    <3> QED
      BY <1>2, <3>3, <3>4 DEF FindClient
  <2> HIDE DEF d
  <2> QED
    BY <2>1, <2>3, <2>4, <2>5, <2>6, <2>7
<1> QED
  BY <1>1, <1>2

\* registration_freeClient leaves a part of the observations and transactions.
LEMMA FreeClientsShrinks ==
    ASSUME NEW S, FreeClients(S)
    PROVE  obs' \subseteq obs /\ pending' \subseteq pending
  BY DEF FreeClients, FreeObservations, FreeTransactions

\* An answer is a promise about a client of the list.
LEMMA AnswerType ==
    ASSUME NEW n, NEW c \in Clients, Answer(n, c),
           promise \in [Names -> [id : Int, until : Nat]]
    PROVE  promise' \in [Names -> [id : Int, until : Nat]]
<1>1. c.id \in Int /\ c.endOfLife \in Nat
  BY DEF Clients, ClientIds
<1> QED
  BY <1>1 DEF Answer
----------------------------------------------------------------------------
(* The registry: types, uniqueness of locations, names and structures, and *)
(* of the observation of a URI.                                            *)

RegInv == TypeOK /\ ClientsInv(clients, allocated) /\ OnePerUri

LEMMA RegisterReg ==
    ASSUME RegInv, NEW n \in Names, NEW s \in Sessions, NEW life \in Lifetimes,
           Register(n, s, life)
    PROVE  RegInv'
<1> USE DEF RegInv
<1>1. UNCHANGED <<now, obs, pending, requests, deleted, fault>>
  BY DEF Register
<1>2. OnePerUri'
  BY <1>1 DEF OnePerUri
<1>3. now \in Nat /\ clients \in SUBSET Clients
  BY DEF TypeOK
<1>4. CASE /\ ByName(clients, n) = {} /\ allocated < MaxClients
           /\ clients' = clients \cup {NewClient(clients, n, s, life)}
           /\ Answer(n, NewClient(clients, n, s, life))
           /\ allocated' = allocated + 1
           /\ announced' = announced \cup {allocated + 1}
  <2> DEFINE d == NewClient(clients, n, s, life)
  <2>1. d \in Clients
    BY <1>3, <1>4, NewClientType
  <2>2. d.id = NewId(clients) /\ d.inc = allocated + 1 /\ d.name = n
    BY DEF NewClient
  <2>3. clients' = clients \cup {d} /\ Answer(n, d)
    BY <1>4
  <2> HIDE DEF d
  <2>4. ClientsInv(clients \cup {d}, allocated + 1)
    BY <1>4, <2>1, <2>2, AddClient
  <2>5. ClientsInv(clients, allocated)'
    BY <1>4, <2>3, <2>4
  <2>6. promise' \in [Names -> [id : Int, until : Nat]]
    BY <2>1, <2>3, AnswerType DEF TypeOK
  <2>7. allocated + 1 \in Incs
    BY <1>4 DEF ClientsInv, Incs
  <2> QED
    BY <1>1, <1>2, <1>4, <2>5, <2>6, <2>7 DEF TypeOK, ClientsInv
<1>5. ASSUME NEW c \in ByName(clients, n),
             clients' = (clients \ {c}) \cup {ResetClient(c, n, s, life)},
             Answer(n, ResetClient(c, n, s, life)),
             announced' = announced \cup {c.inc}, UNCHANGED allocated
      PROVE  RegInv'
  <2> DEFINE d == ResetClient(c, n, s, life)
  <2>1. c \in clients /\ c \in Clients /\ c.name = n
    BY <1>3 DEF ByName
  <2>2. d \in Clients /\ d.id = c.id /\ d.inc = c.inc /\ d.name = n
    BY <1>3, <2>1, ResetClientType
  <2>3. clients' = (clients \ {c}) \cup {d} /\ Answer(n, d)
    BY <1>5
  <2> HIDE DEF d
  <2>4. ClientsInv(clients, allocated)'
    <3>1. ClientsInv((clients \ {c}) \cup {d}, allocated)
      BY <2>1, <2>2, ReplaceClient
    <3> QED
      BY <1>5, <2>3, <3>1
  <2>5. promise' \in [Names -> [id : Int, until : Nat]]
    BY <2>2, <2>3, AnswerType DEF TypeOK
  <2>6. c.inc \in Incs
    BY <2>1 DEF Clients
  <2> QED
    BY <1>1, <1>2, <1>5, <2>4, <2>5, <2>6 DEF TypeOK, ClientsInv
<1> QED
  BY <1>4, <1>5 DEF Register

LEMMA Block1PartReg ==
    ASSUME RegInv, NEW s \in Sessions, Block1Part(s)
    PROVE  RegInv'
<1> USE DEF RegInv
<1>1. now \in Nat /\ Block1Contact(s) /\ clients' = WithPeer(s)
  BY DEF TypeOK, Block1Part
<1>2. ClientsInv(clients, allocated)'
  BY <1>1, WithPeerInv
<1> QED
  BY <1>2 DEF Block1Part, TypeOK, ClientsInv, OnePerUri, monitor

LEMMA Block1RegisterReg ==
    ASSUME RegInv, NEW n \in Names, NEW s \in Sessions, NEW life \in Lifetimes,
           Block1Register(n, s, life)
    PROVE  RegInv'
<1> USE DEF RegInv
<1>1. now \in Nat /\ Block1Contact(s) /\ ByName(WithPeer(s), n) = {}
  BY DEF TypeOK, Block1Register
<1>2. ClientsInv(WithPeer(s), allocated')
  BY <1>1, WithPeerInv
<1>3. PICK c \in FindClient(WithPeer(s), s) :
          /\ clients' = (WithPeer(s) \ {c}) \cup {ResetClient(c, n, s, life)}
          /\ Answer(n, ResetClient(c, n, s, life))
          /\ announced' = announced \cup {c.inc}
  BY DEF Block1Register
<1> DEFINE d == ResetClient(c, n, s, life)
<1>4. c \in WithPeer(s) /\ c \in Clients
  BY <1>2 DEF FindClient, ClientsInv
<1>5. d \in Clients /\ d.id = c.id /\ d.inc = c.inc /\ d.name = n
  BY <1>1, <1>4, ResetClientType
<1>6. clients' = (WithPeer(s) \ {c}) \cup {d} /\ Answer(n, d)
  BY <1>3
<1> HIDE DEF d
<1>7. ClientsInv(clients, allocated)'
  <2>1. ClientsInv((WithPeer(s) \ {c}) \cup {d}, allocated')
    BY <1>1, <1>2, <1>4, <1>5, ReplaceClient
  <2> QED
    BY <1>6, <2>1
<1>8. promise' \in [Names -> [id : Int, until : Nat]]
  BY <1>5, <1>6, AnswerType DEF TypeOK
<1>9. c.inc \in Incs
  BY <1>4 DEF Clients
<1> QED
  BY <1>3, <1>7, <1>8, <1>9 DEF Block1Register, TypeOK, ClientsInv, OnePerUri

LEMMA Block1ReregisterReg ==
    ASSUME RegInv, NEW n \in Names, NEW s \in Sessions, NEW life \in Lifetimes,
           Block1Reregister(n, s, life)
    PROVE  RegInv'
<1> USE DEF RegInv
<1>1. now \in Nat /\ Block1Contact(s)
  BY DEF TypeOK, Block1Reregister
<1>2. ClientsInv(WithPeer(s), allocated')
  BY <1>1, WithPeerInv
<1>3. PICK c \in ByName(WithPeer(s), n), tmp \in FindClient(WithPeer(s), s) :
          /\ c # tmp
          /\ clients' = (WithPeer(s) \ {c, tmp}) \cup {ResetClient(c, n, s, life)}
          /\ FreeClients({tmp})
          /\ Answer(n, ResetClient(c, n, s, life))
          /\ announced' = announced \cup {c.inc}
  BY DEF Block1Reregister
<1> DEFINE d == ResetClient(c, n, s, life)
           C == WithPeer(s) \ {tmp}
<1>4. c \in C /\ c \in Clients /\ c.name = n
  BY <1>2, <1>3 DEF ByName, ClientsInv
<1>5. d \in Clients /\ d.id = c.id /\ d.inc = c.inc /\ d.name = c.name
  BY <1>1, <1>4, ResetClientType
<1>6. clients' = (C \ {c}) \cup {d} /\ Answer(n, d)
  BY <1>3
<1>7. ClientsInv(C, allocated')
  BY <1>2, RemoveClients
<1> HIDE DEF d, C
<1>8. ClientsInv(clients, allocated)'
  <2>1. ClientsInv((C \ {c}) \cup {d}, allocated')
    BY <1>4, <1>5, <1>7, ReplaceClient
  <2> QED
    BY <1>6, <2>1
<1>9. promise' \in [Names -> [id : Int, until : Nat]]
  BY <1>5, <1>6, AnswerType DEF TypeOK
<1>10. c.inc \in Incs /\ obs' \subseteq obs /\ pending' \subseteq pending
  BY <1>3, <1>4, FreeClientsShrinks DEF Clients
<1> QED
  BY <1>3, <1>8, <1>9, <1>10 DEF Block1Reregister, TypeOK, ClientsInv, OnePerUri

LEMMA Block1ResetsFreedReg ==
    ASSUME RegInv, NEW n \in Names, NEW s \in Sessions, Block1ResetsFreed(n, s)
    PROVE  RegInv'
<1> USE DEF RegInv
<1>1. now \in Nat /\ Block1Contact(s)
  BY DEF TypeOK, Block1ResetsFreed
<1>2. ClientsInv(WithPeer(s), allocated')
  BY <1>1, WithPeerInv
<1>3. PICK c : clients' = WithPeer(s) \ {c} /\ FreeClients({c})
  BY DEF Block1ResetsFreed
<1>4. ClientsInv(clients, allocated)'
  <2>1. ClientsInv(WithPeer(s) \ {c}, allocated')
    BY <1>2, RemoveClients
  <2> QED
    BY <1>3, <2>1
<1>5. obs' \subseteq obs /\ pending' \subseteq pending
  BY <1>3, FreeClientsShrinks
<1> QED
  BY <1>4, <1>5 DEF Block1ResetsFreed, TypeOK, ClientsInv, OnePerUri, monitor

\* What an update makes of its client.
Updated(c, s, life) ==
    [c EXCEPT !.session = s, !.lifetime = IF life = 0 THEN c.lifetime ELSE life,
              !.endOfLife = now + (IF life = 0 THEN c.lifetime ELSE life)]

LEMMA UpdatedType ==
    ASSUME NEW c \in Clients, now \in Nat, NEW s \in Sessions,
           NEW life \in Lifetimes \cup {0}, NEW d, d = Updated(c, s, life)
    PROVE  /\ d \in Clients
           /\ d.id = c.id /\ d.inc = c.inc /\ d.observationId = c.observationId
           /\ d.name = c.name /\ d.session = s
<1> DEFINE l == IF life = 0 THEN c.lifetime ELSE life
<1>1. l \in Nat
  BY DEF Clients
<1>2. d = [id |-> c.id, name |-> c.name, session |-> s, lifetime |-> l,
           endOfLife |-> now + l, observationId |-> c.observationId, inc |-> c.inc]
  BY DEF Updated, Clients
<1> HIDE DEF l
<1> QED
  BY <1>1, <1>2 DEF Clients

\* An update changes one client, its observations and its promise.
LEMMA UpdateInChanges ==
    ASSUME NEW C, NEW i, NEW s, NEW life, NEW P, UpdateIn(C, i, s, life, P)
    PROVE  /\ Knows(s, i)
           /\ \E c \in C :
                 /\ c.id = i
                 /\ clients' = (C \ {c}) \cup {Updated(c, s, life)}
                 /\ obs' = obs \ Dropped(c, P)
                 /\ Answer(c.name, Updated(c, s, life))
           /\ UNCHANGED <<now, pending, requests, monitor, fault>>
  BY DEF UpdateIn, Updated

LEMMA UpdateInReg ==
    ASSUME TypeOK, OnePerUri, NEW C, ClientsInv(C, allocated'),
           NEW i, NEW s \in Sessions, NEW life \in Lifetimes \cup {0}, NEW P,
           UpdateIn(C, i, s, life, P)
    PROVE  RegInv'
<1>1. now \in Nat
  BY DEF TypeOK
<1>2. PICK c \in C : /\ clients' = (C \ {c}) \cup {Updated(c, s, life)}
                     /\ obs' = obs \ Dropped(c, P)
                     /\ Answer(c.name, Updated(c, s, life))
  BY UpdateInChanges
<1> DEFINE d == Updated(c, s, life)
<1>3. c \in Clients
  BY DEF ClientsInv
<1>4. d \in Clients /\ d.id = c.id /\ d.inc = c.inc /\ d.name = c.name
  BY <1>1, <1>3, UpdatedType
<1>5. clients' = (C \ {c}) \cup {d} /\ Answer(c.name, d)
  BY <1>2
<1> HIDE DEF d
<1>6. ClientsInv(clients, allocated)'
  <2>1. ClientsInv((C \ {c}) \cup {d}, allocated')
    BY <1>4, ReplaceClient
  <2> QED
    BY <1>5, <2>1
<1>7. promise' \in [Names -> [id : Int, until : Nat]]
  BY <1>4, <1>5, AnswerType DEF TypeOK
<1>8. UNCHANGED <<now, pending, requests, monitor, fault>>
  BY UpdateInChanges
<1> QED
  BY <1>2, <1>6, <1>7, <1>8 DEF RegInv, TypeOK, ClientsInv, OnePerUri, monitor

LEMMA UpdateReg ==
    ASSUME RegInv, NEW i, NEW s \in Sessions, NEW life \in Lifetimes \cup {0}, NEW P,
           Update(i, s, life, P) \/ Block1Update(i, s, life, P)
    PROVE  RegInv'
<1>1. TypeOK /\ OnePerUri /\ now \in Nat
  BY DEF RegInv, TypeOK
<1>2. CASE Update(i, s, life, P)
  <2>1. ClientsInv(clients, allocated') /\ UpdateIn(clients, i, s, life, P)
    BY <1>2 DEF Update, RegInv
  <2> QED
    BY <1>1, <2>1, UpdateInReg
<1>3. CASE Block1Update(i, s, life, P)
  <2>1. ClientsInv(WithPeer(s), allocated')
    BY <1>1, <1>3, WithPeerInv DEF RegInv, Block1Update
  <2>2. UpdateIn(WithPeer(s), i, s, life, P)
    BY <1>3 DEF Block1Update
  <2> QED
    BY <1>1, <2>1, <2>2, UpdateInReg
<1> QED
  BY <1>2, <1>3

LEMMA DeregisterReg ==
    ASSUME RegInv, NEW i, NEW s, Deregister(i, s)
    PROVE  RegInv'
<1> USE DEF RegInv
<1>1. PICK c \in clients :
          /\ clients' = clients \ {c}
          /\ FreeClients({c})
          /\ deleted' = deleted \cup {c.inc}
          /\ promise' = [n \in Names |-> IF n = c.name THEN None ELSE promise[n]]
  BY DEF Deregister
<1>2. UNCHANGED <<now, allocated, requests, announced, fault>>
  BY DEF Deregister
<1>3. ClientsInv(clients, allocated)'
  <2>1. ClientsInv(clients \ {c}, allocated)
    BY RemoveClients
  <2> QED
    BY <1>1, <1>2, <2>1
<1>4. c.inc \in Incs /\ obs' \subseteq obs /\ pending' \subseteq pending
  BY <1>1, FreeClientsShrinks DEF Clients, ClientsInv
<1>5. promise' \in [Names -> [id : Int, until : Nat]]
  <2>1. None \in [id : Int, until : Nat]
    BY DEF None
  <2>2. promise \in [Names -> [id : Int, until : Nat]]
    BY DEF TypeOK
  <2> QED
    BY <1>1, <2>1, <2>2
<1> QED
  BY <1>1, <1>2, <1>3, <1>4, <1>5 DEF TypeOK, ClientsInv, OnePerUri

LEMMA ExpiryStepReg ==
    ASSUME RegInv, ExpiryStep
    PROVE  RegInv'
<1> USE DEF RegInv
<1>1. ClientsInv(clients, allocated)'
  <2>1. ClientsInv(clients \ Expired, allocated)
    BY RemoveClients
  <2> QED
    BY <2>1 DEF ExpiryStep
<1>2. obs' \subseteq obs /\ pending' \subseteq pending
  BY FreeClientsShrinks DEF ExpiryStep
<1>3. \A c \in Expired : c.inc \in Incs
  BY DEF Expired, ClientsInv, Clients
<1> QED
  BY <1>1, <1>2, <1>3 DEF ExpiryStep, TypeOK, ClientsInv, OnePerUri

\* TakeObsId changes the counter of one client.
LEMMA TakeObsIdReg ==
    ASSUME RegInv, NEW c \in clients, TakeObsId(c)
    PROVE  /\ ClientsInv(clients, allocated)'
           /\ NextObsId(c) \in ObsIds
           /\ requests' \in 0 .. MaxRequests
           /\ c \in Clients
<1> USE DEF RegInv
<1> DEFINE d == [c EXCEPT !.observationId = NextObsId(c)]
<1>1. c \in Clients /\ c.observationId \in ObsIds
  BY DEF ClientsInv, Clients
<1>2. NextObsId(c) \in ObsIds
  BY <1>1 DEF NextObsId, ObsIds
<1>3. d \in Clients /\ d.id = c.id /\ d.inc = c.inc /\ d.name = c.name
  BY <1>1, <1>2 DEF Clients
<1>4. clients' = (clients \ {c}) \cup {d} /\ allocated' = allocated
  BY DEF TakeObsId
<1> HIDE DEF d
<1>5. ClientsInv((clients \ {c}) \cup {d}, allocated)
  BY <1>3, ReplaceClient
<1>6. ClientsInv(clients, allocated)'
  BY <1>4, <1>5
<1>7. requests' \in 0 .. MaxRequests
  BY DEF TakeObsId, TypeOK
<1> QED
  BY <1>1, <1>2, <1>6, <1>7

\* Changing the state of observations in place keeps one per URI.
LEMMA WithStatusReg ==
    ASSUME obs \in SUBSET Observations, OnePerUri, NEW S \in SUBSET obs,
           NEW status \in States,
           NEW O, O = (obs \ S) \cup WithStatus(S, status)
    PROVE  /\ O \in SUBSET Observations
           /\ \A o, p \in O : o.client = p.client /\ o.uri = p.uri => o = p
<1> DEFINE New(o) == [o EXCEPT !.status = status]
<1>1. \A o \in S : /\ New(o) \in Observations
                   /\ New(o).client = o.client /\ New(o).uri = o.uri
  BY DEF Observations
<1>2. \A o \in WithStatus(S, status) : \E p \in S : o = New(p)
  BY DEF WithStatus
<1> HIDE DEF New
<1>3. O \in SUBSET Observations
  BY <1>1, <1>2
<1>4. ASSUME NEW o \in O, NEW p \in O, o.client = p.client, o.uri = p.uri
      PROVE  o = p
  <2>1. CASE o \notin WithStatus(S, status) /\ p \notin WithStatus(S, status)
    BY <1>4, <2>1 DEF OnePerUri
  <2>2. CASE o \in WithStatus(S, status) /\ p \notin WithStatus(S, status)
    BY <1>1, <1>2, <1>4, <2>2 DEF OnePerUri
  <2>3. CASE o \notin WithStatus(S, status) /\ p \in WithStatus(S, status)
    BY <1>1, <1>2, <1>4, <2>3 DEF OnePerUri
  <2>4. CASE o \in WithStatus(S, status) /\ p \in WithStatus(S, status)
    BY <1>1, <1>2, <1>4, <2>4 DEF OnePerUri
  <2> QED
    BY <2>1, <2>2, <2>3, <2>4
<1> QED
  BY <1>3, <1>4

LEMMA ObserveReg ==
    ASSUME RegInv, NEW c \in clients, NEW u \in Uris, NEW isSent \in BOOLEAN,
           Observe(c, u, isSent)
    PROVE  RegInv'
<1> USE DEF RegInv
<1>1. TakeObsId(c)
  BY DEF Observe
<1>2. /\ ClientsInv(clients, allocated)' /\ NextObsId(c) \in ObsIds
      /\ requests' \in 0 .. MaxRequests /\ c \in Clients
  BY <1>1, TakeObsIdReg
<1>3. ByUri(c.id, u) \in SUBSET obs /\ obs \in SUBSET Observations /\ "REG_PENDING" \in States
  BY DEF ByUri, ObsOf, TypeOK, States
<1>4. obs' \in SUBSET Observations /\ OnePerUri'
  <2>1. obs' = (obs \ ByUri(c.id, u)) \cup WithStatus(ByUri(c.id, u), "REG_PENDING")
    BY DEF Observe
  <2> QED
    BY <1>3, <2>1, WithStatusReg DEF OnePerUri
<1>5. pending' \in SUBSET Transactions
  <2>1. [kind |-> "observe", client |-> c.id, id |-> NextObsId(c), uri |-> u,
         session |-> c.session, for |-> c.inc] \in Transactions
    BY <1>2 DEF Transactions, Clients
  <2>2. pending \in SUBSET Transactions
    BY DEF TypeOK
  <2> QED
    BY <2>1, <2>2 DEF Observe
<1> QED
  BY <1>1, <1>2, <1>4, <1>5 DEF TakeObsId, TypeOK, ClientsInv, monitor

LEMMA ObserveRefusedReg ==
    ASSUME RegInv, NEW c \in clients, ObserveRefused(c)
    PROVE  RegInv'
<1> USE DEF RegInv
<1>1. TakeObsId(c) /\ UNCHANGED <<obs, pending>>
  BY DEF ObserveRefused
<1>2. ClientsInv(clients, allocated)' /\ requests' \in 0 .. MaxRequests
  BY <1>1, TakeObsIdReg
<1> QED
  BY <1>1, <1>2 DEF TakeObsId, TypeOK, ClientsInv, OnePerUri, monitor

LEMMA CancelReg ==
    ASSUME RegInv, NEW c \in clients, NEW o \in obs, NEW isSent \in BOOLEAN,
           Cancel(c, o, isSent)
    PROVE  RegInv'
<1> USE DEF RegInv
<1>1. {o} \in SUBSET obs /\ obs \in SUBSET Observations /\ "DEREG_PENDING" \in States
  BY DEF TypeOK, States
<1>2. obs' \in SUBSET Observations /\ OnePerUri'
  <2> DEFINE S == {o}
  <2>1. obs' = (obs \ S) \cup WithStatus(S, "DEREG_PENDING") /\ S \in SUBSET obs
    BY DEF Cancel
  <2> HIDE DEF S
  <2> QED
    BY <1>1, <2>1, WithStatusReg DEF OnePerUri
<1>3. c \in Clients /\ o \in Observations
  BY <1>1 DEF ClientsInv
<1>4. pending' \in SUBSET Transactions
  BY <1>3 DEF Cancel, TypeOK, Transactions, Clients, Observations
<1> QED
  BY <1>2, <1>4 DEF Cancel, TypeOK, ClientsInv, monitor

LEMMA CancelPendingReg ==
    ASSUME RegInv, NEW c, NEW o, CancelPending(c, o)
    PROVE  RegInv'
  BY DEF RegInv, CancelPending, TypeOK, ClientsInv, OnePerUri, monitor

LEMMA CallbacksReg ==
    ASSUME RegInv, Callbacks
    PROVE  RegInv'
<1> USE DEF RegInv
<1>1. PICK t \in pending : \/ CallbackReports(t)
                           \/ ObserveCallback(t)
                           \/ CancelCallback(t)
                           \/ CancelCallbackNull(t)
  BY DEF Callbacks
<1>2. Completes(t)
  BY <1>1 DEF CallbackReports, ObserveCallback, CancelCallback, CancelCallbackNull
<1>3. /\ ClientsInv(clients, allocated)'
      /\ pending' \in SUBSET Transactions /\ t \in Transactions
  BY <1>2 DEF Completes, ClientsInv, TypeOK
<1>4. CASE ObserveCallback(t)
  <2> DEFINE n == [client |-> t.client, id |-> t.id, uri |-> t.uri,
                   status |-> "REGISTERED", for |-> t.for]
  <2>1. n \in Observations /\ n.client = t.client /\ n.uri = t.uri
    BY <1>3 DEF Transactions, Observations, States
  <2>2. obs' = (obs \ ByUri(t.client, t.uri)) \cup {n} /\ UNCHANGED fault
    BY <1>4 DEF ObserveCallback
  <2>3. \A o \in obs \ ByUri(t.client, t.uri) : o.client # n.client \/ o.uri # n.uri
    BY <2>1 DEF ByUri, ObsOf
  <2> HIDE DEF n
  <2>4. OnePerUri'
    BY <2>2, <2>3 DEF OnePerUri
  <2>5. obs' \in SUBSET Observations
    BY <2>1, <2>2 DEF TypeOK
  <2> QED
    BY <1>2, <1>3, <2>2, <2>4, <2>5 DEF Completes, TypeOK, ClientsInv, monitor
<1>5. CASE CallbackReports(t) \/ CancelCallback(t) \/ CancelCallbackNull(t)
  <2>1. obs' \subseteq obs /\ fault' \in {"none", "use after free", "null observation"}
    BY <1>5 DEF CallbackReports, CancelCallback, CancelCallbackNull, TypeOK
  <2> QED
    BY <1>2, <1>3, <2>1 DEF Completes, TypeOK, ClientsInv, OnePerUri, monitor
<1> QED
  BY <1>1, <1>4, <1>5

LEMMA TickReg ==
    ASSUME RegInv, Tick \/ UNCHANGED vars
    PROVE  RegInv'
<1>1. ClientsInv(clients, allocated)' /\ OnePerUri'
  BY DEF RegInv, Tick, ClientsInv, OnePerUri, vars
<1>2. CASE Tick
  BY <1>1, <1>2 DEF RegInv, Tick, TypeOK, monitor
<1>3. CASE UNCHANGED vars
  BY <1>1, <1>3 DEF RegInv, TypeOK, vars
<1> QED
  BY <1>2, <1>3

LEMMA RegInductive ==
    ASSUME RegInv, [Next]_vars
    PROVE  RegInv'
<1>1. CASE Registration
  BY <1>1, RegisterReg, UpdateReg, DeregisterReg DEF Registration
<1>2. CASE Block1Registration
  BY <1>2, Block1PartReg, Block1RegisterReg, Block1ReregisterReg, Block1ResetsFreedReg,
     UpdateReg DEF Block1Registration
<1>3. CASE Application
  BY <1>3, ObserveReg, ObserveRefusedReg, CancelReg, CancelPendingReg DEF Application
<1>4. CASE Callbacks \/ ExpiryStep \/ Tick \/ UNCHANGED vars
  BY <1>4, CallbacksReg, ExpiryStepReg, TickReg
<1> QED
  BY <1>1, <1>2, <1>3, <1>4 DEF Next

LEMMA RegInitial ==
    ASSUME Init
    PROVE  RegInv
<1>1. None \in [id : Int, until : Nat]
  BY DEF None
<1> QED
  BY <1>1 DEF Init, RegInv, TypeOK, ClientsInv, OnePerUri

\* The registry invariant holds in every behaviour.
LEMMA RegAlways == Spec => []RegInv
  BY RegInitial, RegInductive, PTL DEF Spec

\* Every variable of the server keeps its type: in particular every ID the
\* first-gap search returns, and every observation ID, stays in its range.
THEOREM TypeCorrect == Spec => []TypeOK
<1>1. RegInv => TypeOK
  BY DEF RegInv
<1> QED
  BY <1>1, RegAlways, PTL

\* No two clients of the list have the same location or the same endpoint
\* name, whatever the order of registrations, Block1 parts, updates and
\* expiries, and however sessions change hands.
THEOREM RegistryIsUnique == Spec => []RegistryUnique
<1>1. RegInv => RegistryUnique
  BY DEF RegInv, RegistryUnique, ClientsInv
<1> QED
  BY <1>1, RegAlways, PTL

\* A client never has two observations of the same URI, so that
\* prv_findObservationByURI cannot find the wrong one.
THEOREM UriIsObservedOnce == Spec => []OnePerUri
<1>1. RegInv => OnePerUri
  BY DEF RegInv
<1> QED
  BY <1>1, RegAlways, PTL
----------------------------------------------------------------------------
(* The promise: a registration lives as long as the server said.  With     *)
(* Block1 a session must belong to one endpoint: the code takes the client *)
(* that has the session of a last block for the temporary one.             *)

SessionOwned ==
    \A n, m \in Names, s \in Sessions : <<n, s>> \in Reaches /\ <<m, s>> \in Reaches => n = m

Promised(C, p, t) ==
    \A n \in Names : t < p[n].until =>
        \E c \in C : c.name = n /\ c.id = p[n].id /\ p[n].until <= c.endOfLife

Reached(C) == \A c \in C : c.name # NoName => <<c.name, c.session>> \in Reaches

HoldInv == fault = "none" => Promised(clients, promise, now) /\ Reached(clients)

\* An answer about a client d of the new list, which keeps all other endpoints.
LEMMA AnswerPromised ==
    ASSUME NEW C \in SUBSET Clients, NEW D \in SUBSET Clients, NEW d \in D, NEW t,
           promise \in [Names -> [id : Int, until : Nat]],
           Promised(C, promise, t), Answer(d.name, d),
           \A c \in C : c.name # NoName /\ c.name # d.name => c \in D
    PROVE  Promised(D, promise', t)
<1> SUFFICES ASSUME NEW n \in Names, t < promise'[n].until
             PROVE  \E c \in D : /\ c.name = n /\ c.id = promise'[n].id
                                 /\ promise'[n].until <= c.endOfLife
  BY DEF Promised
<1>1. CASE n = d.name
  <2>1. promise'[n] = [id |-> d.id, until |-> d.endOfLife]
    BY <1>1 DEF Answer
  <2>2. d.endOfLife \in Nat
    BY DEF Clients
  <2> QED
    BY <1>1, <2>1, <2>2
<1>2. CASE n # d.name
  <2>1. promise'[n] = promise[n] /\ n # NoName
    BY <1>2 DEF Answer
  <2> QED
    BY <1>2, <2>1 DEF Promised
<1> QED
  BY <1>1, <1>2

\* The list before a block is looked at is as good as the one before.
LEMMA WithPeerHold ==
    ASSUME RegInv, Promised(clients, promise, now), Reached(clients),
           NEW s \in Sessions, Block1Contact(s)
    PROVE  Promised(WithPeer(s), promise, now) /\ Reached(WithPeer(s))
<1>1. now \in Nat /\ ClientsInv(clients, allocated)
  BY DEF RegInv, TypeOK
<1>2. /\ clients \subseteq WithPeer(s)
      /\ \A c \in WithPeer(s) : c \notin clients => c.name = NoName
  BY <1>1, WithPeerInv
<1> QED
  BY <1>2 DEF Promised, Reached

\* The client with the session of a last block is temporary, or it is the
\* endpoint that sends the block.
LEMMA SessionClient ==
    ASSUME Blockwise => SessionOwned, NEW C \in SUBSET Clients, Reached(C),
           NEW n \in Names, NEW s \in Sessions, <<n, s>> \in Reaches, Blockwise,
           NEW c \in FindClient(C, s)
    PROVE  c \in C /\ (c.name = NoName \/ c.name = n)
<1>1. c \in C /\ c.session = s /\ c.name \in Names \cup {NoName}
  BY DEF FindClient, Clients
<1>2. c.name # NoName => <<c.name, s>> \in Reaches
  BY <1>1 DEF Reached
<1> QED
  BY <1>1, <1>2 DEF SessionOwned

LEMMA RegisterHold ==
    ASSUME RegInv, RegInv', HoldInv,
           NEW n \in Names, NEW s \in Sessions, NEW life \in Lifetimes,
           Register(n, s, life)
    PROVE  HoldInv'
<1>1. /\ fault = "none" /\ <<n, s>> \in Reaches
      /\ now' = now /\ now \in Nat /\ ClientsInv(clients, allocated)
      /\ promise \in [Names -> [id : Int, until : Nat]]
      /\ clients \in SUBSET Clients /\ clients' \in SUBSET Clients
  BY DEF Register, Contact, RegInv, TypeOK
<1>2. Promised(clients, promise, now) /\ Reached(clients)
  BY <1>1 DEF HoldInv
<1>3. PICK d \in clients' : /\ d.name = n /\ d.session = s /\ Answer(n, d)
                            /\ \A c \in clients : c.name # n => c \in clients'
                            /\ clients' \subseteq clients \cup {d}
  <2>1. CASE /\ clients' = clients \cup {NewClient(clients, n, s, life)}
             /\ Answer(n, NewClient(clients, n, s, life))
    BY <2>1 DEF NewClient
  <2>2. CASE \E c \in ByName(clients, n) :
               /\ clients' = (clients \ {c}) \cup {ResetClient(c, n, s, life)}
               /\ Answer(n, ResetClient(c, n, s, life))
    <3>1. PICK c \in ByName(clients, n) :
               /\ clients' = (clients \ {c}) \cup {ResetClient(c, n, s, life)}
               /\ Answer(n, ResetClient(c, n, s, life))
      BY <2>2
    <3> DEFINE d == ResetClient(c, n, s, life)
    <3>2. c \in Clients /\ c.name = n
      BY <1>1 DEF ByName
    <3>3. d.name = n /\ d.session = s
      BY <1>1, <3>2, ResetClientType
    <3>4. clients' = (clients \ {c}) \cup {d} /\ Answer(n, d)
      BY <3>1
    <3> HIDE DEF d
    <3> QED
      BY <3>2, <3>3, <3>4
  <2> QED
    BY <2>1, <2>2 DEF Register
<1>4. Promised(clients', promise', now)
  BY <1>1, <1>2, <1>3, AnswerPromised
<1>5. Reached(clients')
  BY <1>1, <1>2, <1>3 DEF Reached
<1>6. Promised(clients, promise, now)' /\ Reached(clients)'
  BY <1>1, <1>4, <1>5 DEF Promised, Reached
<1> QED
  BY <1>6 DEF HoldInv

LEMMA Block1PartHold ==
    ASSUME RegInv, HoldInv, NEW s \in Sessions, Block1Part(s)
    PROVE  HoldInv'
<1>1. fault = "none" /\ Block1Contact(s) /\ clients' = WithPeer(s)
  BY DEF Block1Part, Block1Contact, Contact
<1>2. Promised(WithPeer(s), promise, now) /\ Reached(WithPeer(s))
  BY <1>1, WithPeerHold DEF HoldInv
<1> QED
  BY <1>1, <1>2 DEF HoldInv, Block1Part, Promised, Reached

LEMMA Block1RegisterHold ==
    ASSUME Blockwise => SessionOwned, RegInv, RegInv', HoldInv,
           NEW n \in Names, NEW s \in Sessions, NEW life \in Lifetimes,
           Block1Register(n, s, life) \/ Block1Reregister(n, s, life)
    PROVE  HoldInv'
<1> DEFINE C == WithPeer(s)
<1>1. /\ fault = "none" /\ <<n, s>> \in Reaches /\ Block1Contact(s)
      /\ Blockwise /\ now' = now /\ now \in Nat /\ ClientsInv(clients, allocated)
      /\ promise \in [Names -> [id : Int, until : Nat]]
      /\ clients' \in SUBSET Clients
  BY DEF Block1Register, Block1Reregister, Block1Contact, Contact, RegInv, TypeOK
<1>2. Promised(C, promise, now) /\ Reached(C)
  BY <1>1, WithPeerHold DEF HoldInv
<1>3. ClientsInv(C, allocated') /\ C \in SUBSET Clients
  BY <1>1, WithPeerInv DEF ClientsInv
<1> HIDE DEF C
<1>4. PICK d \in clients' : /\ d.name = n /\ d.session = s /\ Answer(n, d)
                            /\ \A c \in C : c.name # NoName /\ c.name # n => c \in clients'
                            /\ clients' \subseteq C \cup {d}
  <2>1. CASE Block1Register(n, s, life)
    <3>1. PICK c \in FindClient(C, s) :
               /\ clients' = (C \ {c}) \cup {ResetClient(c, n, s, life)}
               /\ Answer(n, ResetClient(c, n, s, life))
      BY <2>1 DEF Block1Register, C
    <3> DEFINE d == ResetClient(c, n, s, life)
    <3>2. c \in C /\ c \in Clients /\ (c.name = NoName \/ c.name = n)
      BY <1>1, <1>2, <1>3, SessionClient
    <3>3. d.name = n /\ d.session = s
      BY <1>1, <3>2, ResetClientType
    <3>4. clients' = (C \ {c}) \cup {d} /\ Answer(n, d)
      BY <3>1
    <3> HIDE DEF d
    <3> QED
      BY <3>2, <3>3, <3>4
  <2>2. CASE Block1Reregister(n, s, life)
    <3>1. PICK c \in ByName(C, n), tmp \in FindClient(C, s) :
               /\ clients' = (C \ {c, tmp}) \cup {ResetClient(c, n, s, life)}
               /\ Answer(n, ResetClient(c, n, s, life))
      BY <2>2 DEF Block1Reregister, C
    <3> DEFINE d == ResetClient(c, n, s, life)
    <3>2. c \in Clients /\ c.name = n /\ (tmp.name = NoName \/ tmp.name = n)
      BY <1>1, <1>2, <1>3, SessionClient DEF ByName
    <3>3. d.name = n /\ d.session = s
      BY <1>1, <3>2, ResetClientType
    <3>4. clients' = (C \ {c, tmp}) \cup {d} /\ Answer(n, d)
      BY <3>1
    <3> HIDE DEF d
    <3> QED
      BY <3>2, <3>3, <3>4
  <2> QED
    BY <2>1, <2>2
<1>5. Promised(clients', promise', now)
  BY <1>1, <1>2, <1>3, <1>4, AnswerPromised
<1>6. Reached(clients')
  BY <1>1, <1>2, <1>4 DEF Reached
<1>7. Promised(clients, promise, now)' /\ Reached(clients)'
  BY <1>1, <1>5, <1>6 DEF Promised, Reached
<1> QED
  BY <1>7 DEF HoldInv

\* An update is about the client of an endpoint that the session reaches.
LEMMA KnownClient ==
    ASSUME NEW C, NEW A, ClientsInv(C, A), Promised(C, promise, now),
           NEW s, NEW i, Knows(s, i), NEW c \in C, c.id = i
    PROVE  c.name # NoName /\ <<c.name, s>> \in Reaches
<1>1. PICK n \in Names : <<n, s>> \in Reaches /\ promise[n].id = i /\ now < promise[n].until
  BY DEF Knows
<1>2. PICK e \in C : e.name = n /\ e.id = i
  BY <1>1 DEF Promised
<1>3. e = c
  BY <1>2 DEF ClientsInv
<1> QED
  BY <1>1, <1>2, <1>3

LEMMA UpdateHold ==
    ASSUME RegInv, RegInv', HoldInv,
           NEW i, NEW s \in Sessions, NEW life \in Lifetimes \cup {0}, NEW P,
           Update(i, s, life, P) \/ Block1Update(i, s, life, P)
    PROVE  HoldInv'
<1>1. /\ fault = "none" /\ now \in Nat /\ ClientsInv(clients, allocated)
      /\ promise \in [Names -> [id : Int, until : Nat]]
      /\ clients' \in SUBSET Clients
  BY DEF Update, Block1Update, Block1Contact, Contact, RegInv, TypeOK
<1>2. PICK C : /\ ClientsInv(C, allocated') /\ UpdateIn(C, i, s, life, P)
               /\ Promised(C, promise, now) /\ Reached(C)
  <2>1. CASE Update(i, s, life, P)
    BY <1>1, <2>1 DEF Update, HoldInv
  <2>2. CASE Block1Update(i, s, life, P)
    BY <1>1, <2>2, WithPeerInv, WithPeerHold DEF Block1Update, HoldInv
  <2> QED
    BY <2>1, <2>2
<1>3. PICK c \in C : /\ c.id = i
                     /\ clients' = (C \ {c}) \cup {Updated(c, s, life)}
                     /\ Answer(c.name, Updated(c, s, life))
  BY <1>2, UpdateInChanges
<1>4. Knows(s, i) /\ UNCHANGED <<now, fault>>
  BY <1>2, UpdateInChanges
<1> DEFINE d == Updated(c, s, life)
<1>5. c \in Clients /\ C \in SUBSET Clients
  BY <1>2 DEF ClientsInv
<1>6. d.name = c.name /\ d.session = s
  BY <1>1, <1>5, UpdatedType
<1>7. clients' = (C \ {c}) \cup {d} /\ Answer(d.name, d)
  BY <1>3, <1>6
<1> HIDE DEF d
<1>8. Promised(clients', promise', now)
  BY <1>1, <1>2, <1>5, <1>6, <1>7, AnswerPromised
<1>9. <<c.name, s>> \in Reaches
  BY <1>2, <1>3, <1>4, KnownClient
<1>10. Reached(clients')
  BY <1>2, <1>6, <1>7, <1>9 DEF Reached
<1>11. Promised(clients, promise, now)' /\ Reached(clients)'
  BY <1>4, <1>8, <1>10 DEF Promised, Reached
<1> QED
  BY <1>11 DEF HoldInv

LEMMA DeregisterHold ==
    ASSUME RegInv, HoldInv, NEW i, NEW s, Deregister(i, s)
    PROVE  HoldInv'
<1>1. PICK c \in clients :
          /\ clients' = clients \ {c}
          /\ promise' = [n \in Names |-> IF n = c.name THEN None ELSE promise[n]]
  BY DEF Deregister
<1>2. fault = "none" /\ now' = now /\ now \in Nat
  BY DEF Deregister, Contact, RegInv, TypeOK
<1>3. Promised(clients, promise, now) /\ Reached(clients)
  BY <1>2 DEF HoldInv
<1>4. ASSUME NEW n \in Names, now < promise'[n].until
      PROVE  \E e \in clients' : /\ e.name = n /\ e.id = promise'[n].id
                                 /\ promise'[n].until <= e.endOfLife
  <2>1. n # c.name
    BY <1>1, <1>2, <1>4 DEF None
  <2>2. promise'[n] = promise[n]
    BY <1>1, <2>1
  <2>3. PICK e \in clients : /\ e.name = n /\ e.id = promise[n].id
                             /\ promise[n].until <= e.endOfLife
    BY <1>3, <1>4, <2>2 DEF Promised
  <2> QED
    BY <1>1, <2>1, <2>2, <2>3
<1>5. Promised(clients, promise, now)'
  BY <1>2, <1>4 DEF Promised
<1>6. Reached(clients)'
  BY <1>1, <1>3 DEF Reached
<1> QED
  BY <1>5, <1>6 DEF HoldInv

LEMMA ExpiryStepHold ==
    ASSUME RegInv, HoldInv, ExpiryStep
    PROVE  HoldInv'
<1>1. /\ fault = "none" /\ UNCHANGED <<now, promise>> /\ now \in Nat
      /\ promise \in [Names -> [id : Int, until : Nat]] /\ clients \in SUBSET Clients
      /\ clients' = clients \ Expired
  BY DEF ExpiryStep, RegInv, TypeOK
<1>2. Promised(clients, promise, now) /\ Reached(clients)
  BY <1>1 DEF HoldInv
<1>3. ASSUME NEW n \in Names, now < promise[n].until
      PROVE  \E c \in clients' : c.name = n /\ c.id = promise[n].id /\ promise[n].until <= c.endOfLife
  <2>1. PICK c \in clients : /\ c.name = n /\ c.id = promise[n].id
                             /\ promise[n].until <= c.endOfLife
    BY <1>2, <1>3 DEF Promised
  <2>2. promise[n].until \in Nat /\ c.endOfLife \in Nat
    BY <1>1 DEF Clients
  <2>3. c \notin Expired
    BY <1>1, <1>3, <2>1, <2>2 DEF Expired
  <2> QED
    BY <1>1, <2>1, <2>3
<1>4. Promised(clients, promise, now)'
  BY <1>1, <1>3 DEF Promised
<1>5. Reached(clients)'
  BY <1>1, <1>2 DEF Reached
<1> QED
  BY <1>4, <1>5 DEF HoldInv

LEMMA TickHold ==
    ASSUME RegInv, HoldInv, Tick
    PROVE  HoldInv'
<1>1. /\ fault = "none" /\ UNCHANGED <<clients, promise>> /\ now \in Nat /\ now' = now + 1
      /\ promise \in [Names -> [id : Int, until : Nat]]
  BY DEF Tick, RegInv, TypeOK
<1>2. \A n \in Names : now' < promise'[n].until => now < promise[n].until
  BY <1>1
<1> QED
  BY <1>1, <1>2 DEF HoldInv, Promised, Reached

LEMMA TakeObsIdHold ==
    ASSUME RegInv, HoldInv, NEW c \in clients, TakeObsId(c)
    PROVE  HoldInv'
<1> DEFINE d == [c EXCEPT !.observationId = NextObsId(c)]
<1>1. c \in Clients
  BY DEF RegInv, TypeOK
<1>2. /\ d.id = c.id /\ d.name = c.name /\ d.session = c.session
      /\ d.endOfLife = c.endOfLife
  BY <1>1 DEF Clients
<1>3. /\ fault = "none" /\ clients' = (clients \ {c}) \cup {d}
      /\ UNCHANGED <<now, promise>>
  BY DEF TakeObsId
<1>4. Promised(clients, promise, now) /\ Reached(clients)
  BY <1>3 DEF HoldInv
<1> HIDE DEF d
<1>5. Promised(clients, promise, now)'
  BY <1>2, <1>3, <1>4 DEF Promised
<1>6. Reached(clients)'
  BY <1>2, <1>3, <1>4 DEF Reached
<1> QED
  BY <1>5, <1>6 DEF HoldInv

LEMMA HoldInductive ==
    ASSUME Blockwise => SessionOwned, RegInv, RegInv', HoldInv, [Next]_vars
    PROVE  HoldInv'
<1>1. CASE Registration
  BY <1>1, RegisterHold, UpdateHold, DeregisterHold DEF Registration
<1>2. CASE Block1Registration
  <2>1. ASSUME NEW n, NEW s, Block1ResetsFreed(n, s) PROVE HoldInv'
    BY <2>1 DEF Block1ResetsFreed, HoldInv
  <2> QED
    BY <1>2, <2>1, Block1PartHold, Block1RegisterHold, UpdateHold DEF Block1Registration
<1>3. CASE Application
  <2>1. PICK c \in clients :
            \/ \E u \in Uris, isSent \in BOOLEAN : Observe(c, u, isSent)
            \/ ObserveRefused(c)
            \/ \E o \in obs, isSent \in BOOLEAN : Cancel(c, o, isSent)
            \/ \E o \in obs : CancelPending(c, o)
    BY <1>3 DEF Application
  <2>2. TakeObsId(c) \/ UNCHANGED <<clients, promise, now, fault>>
    BY <2>1 DEF Observe, ObserveRefused, Cancel, CancelPending
  <2> QED
    BY <2>2, TakeObsIdHold DEF HoldInv, Promised, Reached
<1>4. CASE Callbacks
  <2>1. PICK t \in pending : Completes(t)
    BY <1>4 DEF Callbacks, CallbackReports, ObserveCallback, CancelCallback, CancelCallbackNull
  <2> QED
    BY <2>1 DEF Completes, HoldInv, Promised, Reached
<1>5. CASE ExpiryStep \/ Tick
  BY <1>5, ExpiryStepHold, TickHold
<1>6. CASE UNCHANGED vars
  BY <1>6 DEF vars, HoldInv, Promised, Reached
<1> QED
  BY <1>1, <1>2, <1>3, <1>4, <1>5, <1>6 DEF Next

LEMMA HoldInitial ==
    ASSUME Init
    PROVE  HoldInv
  BY DEF Init, HoldInv, Promised, Reached, None

LEMMA HoldAlways ==
    ASSUME Blockwise => SessionOwned
    PROVE  Spec => []HoldInv
  BY RegAlways, HoldInitial, HoldInductive, PTL DEF Spec

\* An endpoint that was answered 2.01 or 2.04 stays in the client list, under
\* its name and at its location, until the time it was told: for clients that
\* register in one message whatever sessions they share, and for Block1 when a
\* session is one endpoint's.
THEOREM RegistrationIsHeld ==
    ASSUME Blockwise => SessionOwned
    PROVE  Spec => []RegistrationHolds
<1>1. HoldInv => RegistrationHolds
  BY DEF HoldInv, Promised, RegistrationHolds
<1> QED
  BY <1>1, HoldAlways, PTL
----------------------------------------------------------------------------
(* Observations and requests belong to the client structure they were      *)
(* made for.  An endpoint must keep its session: registration_freeClient   *)
(* finds the transactions of a client by its session of the moment.        *)

OneSession ==
    \A n \in Names, s, r \in Sessions : <<n, s>> \in Reaches /\ <<n, r>> \in Reaches => s = r

OwnInv ==
    /\ ObservationIsClients
    /\ \A t \in pending : \E c \in clients :
          c.id = t.client /\ c.inc = t.for /\ c.session = t.session

\* D has the structure of client c, with its session.
Keeps(D, c) == \E d \in D : d.id = c.id /\ d.inc = c.inc /\ d.session = c.session

\* Clients go, with their observations and transactions; the others stay.
LEMMA OwnKept ==
    ASSUME OwnInv, NEW S, \A c \in clients : c \in S \/ Keeps(clients', c),
           obs' \subseteq FreeObservations(S), pending' \subseteq FreeTransactions(S)
    PROVE  OwnInv'
<1>1. ASSUME NEW o \in obs'
      PROVE  \E d \in clients' : d.id = o.client /\ d.inc = o.for
  <2>1. o \in obs /\ \A c \in S : o.client # c.id
    BY DEF FreeObservations
  <2>2. PICK c \in clients : c.id = o.client /\ c.inc = o.for
    BY <2>1 DEF OwnInv, ObservationIsClients
  <2> QED
    BY <2>1, <2>2 DEF Keeps
<1>2. ASSUME NEW t \in pending'
      PROVE  \E d \in clients' : d.id = t.client /\ d.inc = t.for /\ d.session = t.session
  <2>1. t \in pending /\ \A c \in S : t.session # c.session
    BY DEF FreeTransactions
  <2>2. PICK c \in clients : c.id = t.client /\ c.inc = t.for /\ c.session = t.session
    BY <2>1 DEF OwnInv
  <2> QED
    BY <2>1, <2>2 DEF Keeps
<1> QED
  BY <1>1, <1>2 DEF OwnInv, ObservationIsClients

\* The case in which no client goes.
LEMMA OwnStays ==
    ASSUME OwnInv, \A c \in clients : Keeps(clients', c),
           obs' \subseteq obs, pending' \subseteq pending
    PROVE  OwnInv'
<1>1. FreeObservations({}) = obs /\ FreeTransactions({}) = pending
  BY DEF FreeObservations, FreeTransactions
<1> QED
  BY <1>1, OwnKept

\* A client whose endpoint sends from session s has session s.
LEMMA SameSession ==
    ASSUME OneSession, Reached(clients), clients \in SUBSET Clients,
           NEW c \in clients, c.name # NoName, NEW s \in Sessions, <<c.name, s>> \in Reaches
    PROVE  c.session = s
<1>1. c.name \in Names /\ c.session \in Sessions /\ <<c.name, c.session>> \in Reaches
  BY DEF Clients, Reached
<1> QED
  BY <1>1 DEF OneSession

LEMMA RegisterOwn ==
    ASSUME OneSession, RegInv, HoldInv, OwnInv,
           NEW n \in Names, NEW s \in Sessions, NEW life \in Lifetimes,
           Register(n, s, life)
    PROVE  OwnInv'
<1>1. /\ UNCHANGED <<obs, pending>> /\ now \in Nat /\ clients \in SUBSET Clients
      /\ <<n, s>> \in Reaches /\ Reached(clients)
  BY DEF Register, Contact, RegInv, TypeOK, HoldInv
<1>2. ASSUME NEW c \in ByName(clients, n),
             clients' = (clients \ {c}) \cup {ResetClient(c, n, s, life)}
      PROVE  \A e \in clients : Keeps(clients', e)
  <2> DEFINE d == ResetClient(c, n, s, life)
  <2>1. c \in clients /\ c \in Clients /\ c.name = n /\ n # NoName
    BY <1>1 DEF ByName
  <2>2. c.session = s
    BY <1>1, <2>1, SameSession
  <2>3. d.id = c.id /\ d.inc = c.inc /\ d.session = s
    BY <1>1, <2>1, ResetClientType
  <2>4. clients' = (clients \ {c}) \cup {d}
    BY <1>2
  <2> HIDE DEF d
  <2> QED
    BY <2>2, <2>3, <2>4 DEF Keeps
<1>3. \A e \in clients : Keeps(clients', e)
  BY <1>2 DEF Register, Keeps
<1> QED
  BY <1>1, <1>3, OwnStays

LEMMA Block1RegistrationOwn ==
    ASSUME OneSession, RegInv, HoldInv, OwnInv, NEW s \in Sessions,
           \/ Block1Part(s)
           \/ \E n \in Names, life \in Lifetimes :
                 Block1Register(n, s, life) \/ Block1Reregister(n, s, life)
           \/ \E n \in Names : Block1ResetsFreed(n, s)
    PROVE  OwnInv'
<1> DEFINE C == WithPeer(s)
<1>1. /\ fault = "none" /\ Block1Contact(s) /\ now \in Nat
      /\ ClientsInv(clients, allocated) /\ clients \in SUBSET Clients
  BY DEF Block1Part, Block1Register, Block1Reregister, Block1ResetsFreed, Block1Contact,
         Contact, RegInv, TypeOK
<1>2. Reached(clients)
  BY <1>1 DEF HoldInv
<1>3. ClientsInv(C, allocated') /\ C \in SUBSET Clients /\ clients \subseteq C
  BY <1>1, WithPeerInv DEF ClientsInv
<1>4. \A c \in C : c \notin clients => c.name = NoName
  BY <1>1, WithPeerInv
<1> HIDE DEF C
<1>5. CASE Block1Part(s)
  BY <1>3, <1>5, OwnStays DEF Block1Part, Keeps, C
<1>6. ASSUME NEW n \in Names, NEW life \in Lifetimes, Block1Register(n, s, life)
      PROVE  OwnInv'
  <2>1. PICK c \in FindClient(C, s) : clients' = (C \ {c}) \cup {ResetClient(c, n, s, life)}
    BY <1>6 DEF Block1Register, C
  <2> DEFINE d == ResetClient(c, n, s, life)
  <2>2. c \in Clients /\ c.session = s
    BY <1>3 DEF FindClient
  <2>3. d.id = c.id /\ d.inc = c.inc /\ d.session = s
    <3>1. now \in Nat /\ life \in Nat /\ n \in Names \cup {NoName} /\ s \in Sessions
      BY <1>1, <1>6, LifetimeAssumption
    <3>2. ResetClient(c, n, s, life).id = c.id /\ ResetClient(c, n, s, life).inc = c.inc
          /\ ResetClient(c, n, s, life).session = s
      BY <2>2, <3>1, ResetClientType
    <3> QED
      BY <3>2
  <2>4. clients' = (C \ {c}) \cup {d}
    BY <2>1
  <2> HIDE DEF d
  <2>5. \A e \in clients : Keeps(clients', e)
    BY <1>3, <2>2, <2>3, <2>4 DEF Keeps
  <2> QED
    BY <1>6, <2>5, OwnStays DEF Block1Register
<1>7. ASSUME NEW n \in Names, NEW life \in Lifetimes, Block1Reregister(n, s, life)
      PROVE  OwnInv'
  <2>1. PICK c \in ByName(C, n), tmp \in FindClient(C, s) :
             /\ c # tmp
             /\ clients' = (C \ {c, tmp}) \cup {ResetClient(c, n, s, life)}
             /\ FreeClients({tmp})
    BY <1>7 DEF Block1Reregister, C
  <2> DEFINE d == ResetClient(c, n, s, life)
             S == {tmp}
  <2>2. c \in C /\ c \in Clients /\ c.name = n /\ n # NoName /\ <<n, s>> \in Reaches
    BY <1>3, <1>7 DEF ByName, Block1Reregister
  <2>3. c \in clients
    BY <1>4, <2>2
  <2>4. c.session = s
    BY <1>1, <1>2, <2>2, <2>3, SameSession
  <2>5. d.id = c.id /\ d.inc = c.inc /\ d.session = s
    <3>1. now \in Nat /\ life \in Nat /\ n \in Names \cup {NoName} /\ s \in Sessions
      BY <1>1, <1>7, LifetimeAssumption
    <3>2. ResetClient(c, n, s, life).id = c.id /\ ResetClient(c, n, s, life).inc = c.inc
          /\ ResetClient(c, n, s, life).session = s
      BY <2>2, <3>1, ResetClientType
    <3> QED
      BY <3>2
  <2>6. clients' = (C \ {c, tmp}) \cup {d} /\ FreeClients(S)
    BY <2>1
  <2> HIDE DEF d
  <2>7. \A e \in clients : e \in S \/ Keeps(clients', e)
    BY <1>3, <2>4, <2>5, <2>6 DEF Keeps
  <2> HIDE DEF S
  <2> QED
    BY <2>6, <2>7, OwnKept DEF FreeClients
<1>8. ASSUME NEW n \in Names, Block1ResetsFreed(n, s)
      PROVE  OwnInv'
  <2>1. PICK c : clients' = C \ {c} /\ FreeClients({c})
    BY <1>8 DEF Block1ResetsFreed, C
  <2> DEFINE S == {c}
  <2>2. FreeClients(S) /\ \A e \in clients : e \in S \/ Keeps(clients', e)
    BY <1>3, <2>1 DEF Keeps
  <2> HIDE DEF S
  <2> QED
    BY <2>2, OwnKept DEF FreeClients
<1> QED
  BY <1>5, <1>6, <1>7, <1>8

LEMMA UpdateOwn ==
    ASSUME OneSession, RegInv, HoldInv, OwnInv,
           NEW i, NEW s \in Sessions, NEW life \in Lifetimes \cup {0}, NEW P,
           Update(i, s, life, P) \/ Block1Update(i, s, life, P)
    PROVE  OwnInv'
<1>1. /\ fault = "none" /\ now \in Nat /\ ClientsInv(clients, allocated)
      /\ clients \in SUBSET Clients
  BY DEF Update, Block1Update, Block1Contact, Contact, RegInv, TypeOK
<1>2. Promised(clients, promise, now) /\ Reached(clients)
  BY <1>1 DEF HoldInv
<1>3. PICK C : /\ ClientsInv(C, allocated') /\ UpdateIn(C, i, s, life, P)
               /\ Promised(C, promise, now) /\ clients \subseteq C
               /\ \A c \in C : c \notin clients => c.name = NoName
  <2>1. CASE Update(i, s, life, P)
    BY <1>1, <1>2, <2>1 DEF Update
  <2>2. CASE Block1Update(i, s, life, P)
    BY <1>1, <1>2, <2>2, WithPeerInv, WithPeerHold DEF Block1Update
  <2> QED
    BY <2>1, <2>2
<1>4. PICK c \in C : /\ c.id = i
                     /\ clients' = (C \ {c}) \cup {Updated(c, s, life)}
                     /\ obs' = obs \ Dropped(c, P)
  BY <1>3, UpdateInChanges
<1>5. Knows(s, i) /\ pending' = pending
  BY <1>3, UpdateInChanges
<1> DEFINE d == Updated(c, s, life)
<1>6. c \in Clients
  BY <1>3 DEF ClientsInv
<1>7. c.name # NoName /\ <<c.name, s>> \in Reaches
  BY <1>3, <1>4, <1>5, KnownClient
<1>8. c \in clients
  BY <1>3, <1>7
<1>9. c.session = s
  BY <1>1, <1>2, <1>7, <1>8, SameSession
<1>10. d.id = c.id /\ d.inc = c.inc /\ d.session = s
  BY <1>1, <1>6, UpdatedType
<1>11. clients' = (C \ {c}) \cup {d}
  BY <1>4
<1> HIDE DEF d
<1>12. \A e \in clients : Keeps(clients', e)
  BY <1>3, <1>9, <1>10, <1>11 DEF Keeps
<1> QED
  BY <1>4, <1>5, <1>12, OwnStays

LEMMA DeregisterOwn ==
    ASSUME OwnInv, NEW i, NEW s, Deregister(i, s)
    PROVE  OwnInv'
<1>1. PICK c : clients' = clients \ {c} /\ FreeClients({c})
  BY DEF Deregister
<1> DEFINE S == {c}
<1>2. FreeClients(S) /\ \A e \in clients : e \in S \/ Keeps(clients', e)
  BY <1>1 DEF Keeps
<1> HIDE DEF S
<1> QED
  BY <1>2, OwnKept DEF FreeClients

LEMMA ExpiryStepOwn ==
    ASSUME OwnInv, ExpiryStep
    PROVE  OwnInv'
<1>1. FreeClients(Expired) /\ \A e \in clients : e \in Expired \/ Keeps(clients', e)
  BY DEF ExpiryStep, Keeps
<1> QED
  BY <1>1, OwnKept DEF FreeClients

\* Observations whose state changes remain the same client's.
LEMMA TakeObsIdKeeps ==
    ASSUME RegInv, NEW c \in clients, TakeObsId(c)
    PROVE  \A e \in clients : Keeps(clients', e)
<1> DEFINE d == [c EXCEPT !.observationId = NextObsId(c)]
<1>1. c \in Clients
  BY DEF RegInv, TypeOK
<1>2. d.id = c.id /\ d.inc = c.inc /\ d.session = c.session
  BY <1>1 DEF Clients
<1>3. clients' = (clients \ {c}) \cup {d}
  BY DEF TakeObsId
<1> HIDE DEF d
<1> QED
  BY <1>2, <1>3 DEF Keeps

\* Observations change their state; a request of client c may be added.
LEMMA ApplicationOwn ==
    ASSUME RegInv, OwnInv, NEW c \in clients,
           \/ \E u \in Uris, isSent \in BOOLEAN : Observe(c, u, isSent)
           \/ ObserveRefused(c)
           \/ \E o \in obs, isSent \in BOOLEAN : Cancel(c, o, isSent)
           \/ \E o \in obs : CancelPending(c, o)
    PROVE  OwnInv'
<1>1. \A e \in clients : Keeps(clients', e)
  <2>1. TakeObsId(c) \/ UNCHANGED clients
    BY DEF Observe, ObserveRefused, Cancel, CancelPending
  <2> QED
    BY <2>1, TakeObsIdKeeps DEF Keeps
<1>2. /\ obs \in SUBSET Observations /\ clients \in SUBSET Clients
      /\ \A e, f \in clients : e.id = f.id => e = f
  BY DEF RegInv, TypeOK, ClientsInv
<1>3. \A o \in obs' : \E p \in obs : o.client = p.client /\ o.for = p.for
  <2>1. ASSUME NEW S \in SUBSET obs, NEW status, NEW o \in WithStatus(S, status)
        PROVE  \E p \in obs : o.client = p.client /\ o.for = p.for
    <3>1. PICK p \in S : o = [p EXCEPT !.status = status]
      BY <2>1 DEF WithStatus
    <3> QED
      BY <1>2, <3>1 DEF Observations
  <2>2. ASSUME NEW u \in Uris, NEW isSent \in BOOLEAN, Observe(c, u, isSent)
        PROVE  \A o \in obs' : \E p \in obs : o.client = p.client /\ o.for = p.for
    <3> DEFINE S == ByUri(c.id, u)
    <3>1. S \in SUBSET obs /\ obs' = (obs \ S) \cup WithStatus(S, "REG_PENDING")
      BY <2>2 DEF ByUri, ObsOf, Observe
    <3> HIDE DEF S
    <3> QED
      BY <2>1, <3>1
  <2>3. ASSUME NEW p \in obs, NEW isSent \in BOOLEAN, Cancel(c, p, isSent)
        PROVE  \A o \in obs' : \E q \in obs : o.client = q.client /\ o.for = q.for
    <3> DEFINE S == {p}
    <3>1. S \in SUBSET obs /\ obs' = (obs \ S) \cup WithStatus(S, "DEREG_PENDING")
      BY <2>3 DEF Cancel
    <3> HIDE DEF S
    <3> QED
      BY <2>1, <3>1
  <2>4. ASSUME obs' \subseteq obs
        PROVE  \A o \in obs' : \E p \in obs : o.client = p.client /\ o.for = p.for
    BY <2>4
  <2> QED
    BY <2>2, <2>3, <2>4 DEF ObserveRefused, CancelPending
<1>4. \A t \in pending' : \/ t \in pending
                          \/ t.client = c.id /\ t.for = c.inc /\ t.session = c.session
  <2>1. ASSUME NEW o \in obs, NEW isSent \in BOOLEAN, Cancel(c, o, isSent)
        PROVE  \A t \in pending' :
                  t \in pending \/ (t.client = c.id /\ t.for = c.inc /\ t.session = c.session)
    <3>1. o.client = c.id
      BY <2>1 DEF Cancel, ObsOf
    <3>2. PICK e \in clients : e.id = o.client /\ e.inc = o.for
      BY DEF OwnInv, ObservationIsClients
    <3>3. o.for = c.inc
      BY <1>2, <3>1, <3>2
    <3> QED
      BY <2>1, <3>3 DEF Cancel
  <2>2. ASSUME NEW u \in Uris, NEW isSent \in BOOLEAN, Observe(c, u, isSent)
        PROVE  \A t \in pending' :
                  t \in pending \/ (t.client = c.id /\ t.for = c.inc /\ t.session = c.session)
    BY <2>2 DEF Observe
  <2>3. ASSUME pending' = pending
        PROVE  \A t \in pending' :
                  t \in pending \/ (t.client = c.id /\ t.for = c.inc /\ t.session = c.session)
    BY <2>3
  <2> QED
    BY <2>1, <2>2, <2>3 DEF ObserveRefused, CancelPending
<1>5. \A o \in obs' : \E d \in clients' : d.id = o.client /\ d.inc = o.for
  BY <1>1, <1>3 DEF OwnInv, ObservationIsClients, Keeps
<1>6. \A t \in pending' : \E d \in clients' :
          d.id = t.client /\ d.inc = t.for /\ d.session = t.session
  BY <1>1, <1>4 DEF OwnInv, Keeps
<1> QED
  BY <1>5, <1>6 DEF OwnInv, ObservationIsClients

LEMMA CallbacksOwn ==
    ASSUME RegInv, OwnInv, Callbacks
    PROVE  OwnInv'
<1>1. PICK t \in pending : \/ CallbackReports(t)
                           \/ ObserveCallback(t)
                           \/ CancelCallback(t)
                           \/ CancelCallbackNull(t)
  BY DEF Callbacks
<1>2. clients' = clients /\ pending' \subseteq pending
  BY <1>1 DEF CallbackReports, ObserveCallback, CancelCallback, CancelCallbackNull, Completes
<1>3. \A o \in obs' : o \in obs \/ (o.client = t.client /\ o.for = t.for)
  <2>1. CASE ObserveCallback(t)
    BY <2>1 DEF ObserveCallback
  <2>2. CASE CallbackReports(t) \/ CancelCallback(t) \/ CancelCallbackNull(t)
    BY <2>2 DEF CallbackReports, CancelCallback, CancelCallbackNull
  <2> QED
    BY <1>1, <2>1, <2>2
<1> QED
  BY <1>2, <1>3 DEF OwnInv, ObservationIsClients

LEMMA OwnInductive ==
    ASSUME OneSession, RegInv, HoldInv, OwnInv, [Next]_vars
    PROVE  OwnInv'
<1>1. CASE Registration
  BY <1>1, RegisterOwn, UpdateOwn, DeregisterOwn DEF Registration
<1>2. CASE Block1Registration
  BY <1>2, Block1RegistrationOwn, UpdateOwn DEF Block1Registration
<1>3. CASE Application
  BY <1>3, ApplicationOwn DEF Application
<1>4. CASE Callbacks \/ ExpiryStep
  BY <1>4, CallbacksOwn, ExpiryStepOwn
<1>5. CASE Tick \/ UNCHANGED vars
  BY <1>5 DEF Tick, vars, OwnInv, ObservationIsClients
<1> QED
  BY <1>1, <1>2, <1>3, <1>4, <1>5 DEF Next

LEMMA OwnAlways ==
    ASSUME Blockwise => SessionOwned, OneSession
    PROVE  Spec => []OwnInv
<1>1. Init => OwnInv
  BY DEF Init, OwnInv, ObservationIsClients
<1> QED
  BY <1>1, RegAlways, HoldAlways, OwnInductive, PTL DEF Spec

\* When endpoints keep their sessions, an observation is always of the client
\* structure the application asked to observe: no late answer starts one of a
\* client that has got the internal ID since.
THEOREM ObservationIsOwned ==
    ASSUME Blockwise => SessionOwned, OneSession
    PROVE  Spec => []ObservationIsClients
<1>1. OwnInv => ObservationIsClients
  BY DEF OwnInv
<1> QED
  BY <1>1, OwnAlways, PTL
----------------------------------------------------------------------------
(* Observation IDs.  As long as a client's counter has not gone once       *)
(* around, every ID in use is one the counter has passed, and 0 is unused. *)

\* Observation o is observation p, but for its state.
SameObservation(o, p) == o.client = p.client /\ o.id = p.id /\ o.uri = p.uri

IsObserve(t) == t.kind = "observe"

Issued ==
    \A c \in clients :
        /\ c.observationId <= requests
        /\ \A o \in obs : o.client = c.id => o.id \in 1 .. c.observationId
        /\ \A t \in pending : IsObserve(t) /\ t.client = c.id => t.id \in 1 .. c.observationId

Distinct ==
    /\ \A o, p \in obs : o.client = p.client /\ o.id = p.id => o.uri = p.uri
    /\ \A t, r \in pending :
          IsObserve(t) /\ IsObserve(r) /\ t.client = r.client /\ t.id = r.id => t = r
    /\ \A t \in pending, o \in obs : IsObserve(t) /\ t.client = o.client => t.id # o.id

IdsInv == (requests < IdSpace => Issued) /\ (requests <= IdSpace => Distinct)

\* The counters are numbers.
LEMMA Counters ==
    ASSUME RegInv
    PROVE  /\ requests \in Nat
           /\ \A c \in clients : c.observationId \in 0 .. IdSpace - 1 /\ c.observationId \in Nat
<1>1. requests \in 0 .. MaxRequests
  BY DEF RegInv, TypeOK
<1>2. \A c \in clients : c.observationId \in 0 .. IdSpace - 1
  BY DEF RegInv, ClientsInv, Clients, ObsIds
<1> QED
  BY <1>1, <1>2

\* A step that takes no ID: clients keep their counters or are new, and no
\* observation and no observe request is added.
LEMMA IdsKept ==
    ASSUME RegInv, OwnInv, IdsInv, requests' = requests,
           \A d \in clients' :
               \/ \E c \in clients : c.id = d.id /\ c.observationId = d.observationId
               \/ d.observationId = 0 /\ \A c \in clients : c.id # d.id,
           \A o \in obs' : \E p \in obs : SameObservation(o, p),
           \A t \in pending' : IsObserve(t) => t \in pending
    PROVE  IdsInv'
<1>1. requests \in Nat
  BY Counters
<1>2. ASSUME requests < IdSpace, NEW d \in clients'
      PROVE  /\ d.observationId <= requests'
             /\ \A o \in obs' : o.client = d.id => o.id \in 1 .. d.observationId
             /\ \A t \in pending' : IsObserve(t) /\ t.client = d.id => t.id \in 1 .. d.observationId
  <2>1. Issued
    BY <1>2 DEF IdsInv
  <2>2. CASE \E c \in clients : c.id = d.id /\ c.observationId = d.observationId
    BY <2>1, <2>2 DEF Issued, SameObservation
  <2>3. CASE d.observationId = 0 /\ \A c \in clients : c.id # d.id
    <3>1. \A o \in obs' : o.client # d.id
      BY <2>3 DEF OwnInv, ObservationIsClients, SameObservation
    <3>2. \A t \in pending' : IsObserve(t) => t.client # d.id
      BY <2>3 DEF OwnInv
    <3> QED
      BY <1>1, <2>3, <3>1, <3>2
  <2> QED
    BY <1>2, <2>2, <2>3
<1>3. ASSUME requests <= IdSpace PROVE Distinct'
  <2>1. Distinct
    BY <1>3 DEF IdsInv
  <2>2. \A o, p \in obs' : o.client = p.client /\ o.id = p.id => o.uri = p.uri
    BY <2>1 DEF Distinct, SameObservation
  <2>3. \A t \in pending', o \in obs' : IsObserve(t) /\ t.client = o.client => t.id # o.id
    BY <2>1 DEF Distinct, SameObservation
  <2> QED
    BY <2>1, <2>2, <2>3 DEF Distinct, IsObserve
<1> QED
  BY <1>2, <1>3 DEF IdsInv, Issued, IsObserve

\* The next value of a counter that has not gone around is new.
LEMMA NextIdFresh ==
    ASSUME RegInv, IdsInv, requests < IdSpace, NEW c \in clients
    PROVE  /\ \A o \in obs : o.client = c.id => o.id # NextObsId(c)
           /\ \A t \in pending : IsObserve(t) /\ t.client = c.id => t.id # NextObsId(c)
           /\ requests + 1 < IdSpace => NextObsId(c) = c.observationId + 1
           /\ c.observationId \in Nat
<1>1. c.observationId \in 0 .. IdSpace - 1 /\ requests \in Nat
  BY Counters
<1>2. Issued
  BY DEF IdsInv
<1>3. c.observationId + 1 < IdSpace => NextObsId(c) = c.observationId + 1
  BY <1>1 DEF NextObsId
<1>4. c.observationId + 1 = IdSpace => NextObsId(c) = 0
  BY <1>1 DEF NextObsId
<1>5. c.observationId <= requests
  BY <1>2 DEF Issued
<1>6. \A k \in 1 .. c.observationId : k # NextObsId(c)
  BY <1>1, <1>3, <1>4
<1> QED
  BY <1>1, <1>2, <1>3, <1>5, <1>6 DEF Issued

\* lwm2m_observe takes an ID; its request is the only new holder of it.
LEMMA TakeObsIdIds ==
    ASSUME RegInv, OwnInv, IdsInv, NEW c \in clients, TakeObsId(c),
           \A o \in obs' : \E p \in obs : SameObservation(o, p),
           \E T : /\ pending' = pending \cup T
                  /\ \A t, r \in T : t = r
                  /\ \A t \in T : t.client = c.id /\ t.id = NextObsId(c)
    PROVE  IdsInv'
<1> DEFINE d == [c EXCEPT !.observationId = NextObsId(c)]
<1>1. /\ c \in Clients /\ requests' = requests + 1 /\ requests \in Nat
      /\ clients' = (clients \ {c}) \cup {d}
  BY Counters DEF RegInv, ClientsInv, TakeObsId
<1>2. d.id = c.id /\ d.observationId = NextObsId(c)
  BY <1>1 DEF Clients
<1> HIDE DEF d
<1>3. PICK T : /\ pending' = pending \cup T
               /\ \A t, r \in T : t = r
               /\ \A t \in T : t.client = c.id /\ t.id = NextObsId(c)
  OBVIOUS
<1>4. ASSUME requests + 1 <= IdSpace PROVE Distinct'
  <2>1. Distinct /\ requests < IdSpace
    BY <1>1, <1>4 DEF IdsInv
  <2>2. /\ \A o \in obs : o.client = c.id => o.id # NextObsId(c)
        /\ \A t \in pending : IsObserve(t) /\ t.client = c.id => t.id # NextObsId(c)
    BY <2>1, NextIdFresh
  <2>3. \A o, p \in obs' : o.client = p.client /\ o.id = p.id => o.uri = p.uri
    BY <2>1 DEF Distinct, SameObservation
  <2>4. \A t, r \in pending' :
            IsObserve(t) /\ IsObserve(r) /\ t.client = r.client /\ t.id = r.id => t = r
    BY <1>3, <2>1, <2>2 DEF Distinct
  <2>5. \A t \in pending', o \in obs' : IsObserve(t) /\ t.client = o.client => t.id # o.id
    BY <1>3, <2>1, <2>2 DEF Distinct, SameObservation
  <2> QED
    BY <2>3, <2>4, <2>5 DEF Distinct, IsObserve
<1>5. ASSUME requests + 1 < IdSpace, NEW e \in clients'
      PROVE  /\ e.observationId <= requests + 1
             /\ \A o \in obs' : o.client = e.id => o.id \in 1 .. e.observationId
             /\ \A t \in pending' : IsObserve(t) /\ t.client = e.id => t.id \in 1 .. e.observationId
  <2>1. Issued /\ requests < IdSpace
    BY <1>1, <1>5 DEF IdsInv
  <2>2. NextObsId(c) = c.observationId + 1 /\ c.observationId \in Nat
    BY <1>5, <2>1, NextIdFresh
  <2>3. CASE e = d
    <3>1. e.observationId <= requests + 1
      BY <1>1, <1>2, <2>1, <2>2, <2>3 DEF Issued
    <3>2. \A o \in obs' : o.client = e.id => o.id \in 1 .. e.observationId
      BY <1>2, <2>1, <2>2, <2>3 DEF Issued, SameObservation
    <3>3. \A t \in pending' : IsObserve(t) /\ t.client = e.id => t.id \in 1 .. e.observationId
      BY <1>2, <1>3, <2>1, <2>2, <2>3 DEF Issued
    <3> QED
      BY <3>1, <3>2, <3>3
  <2>4. CASE e # d
    <3>1. e \in clients /\ e # c
      BY <1>1, <1>5, <2>4
    <3>2. e.id # c.id
      BY <3>1 DEF RegInv, ClientsInv
    <3>3. e.observationId <= requests + 1
      <4>1. e.observationId \in Nat /\ e.observationId <= requests
        BY <2>1, <3>1, Counters DEF Issued
      <4> QED
        BY <1>1, <4>1
    <3>4. \A o \in obs' : o.client = e.id => o.id \in 1 .. e.observationId
      BY <2>1, <3>1 DEF Issued, SameObservation
    <3>5. \A t \in pending' : IsObserve(t) /\ t.client = e.id => t.id \in 1 .. e.observationId
      BY <1>3, <2>1, <3>1, <3>2 DEF Issued
    <3> QED
      BY <3>3, <3>4, <3>5
  <2> QED
    BY <2>3, <2>4
<1> QED
  BY <1>1, <1>4, <1>5 DEF IdsInv, Issued, IsObserve

\* An observation whose state changes is the same one.
LEMMA WithStatusSame ==
    ASSUME obs \in SUBSET Observations, NEW S \in SUBSET obs, NEW status,
           obs' = (obs \ S) \cup WithStatus(S, status)
    PROVE  \A o \in obs' : \E p \in obs : SameObservation(o, p)
<1> SUFFICES ASSUME NEW o \in obs'
             PROVE  \E p \in obs : SameObservation(o, p)
  OBVIOUS
<1>1. CASE o \in WithStatus(S, status)
  <2>1. PICK p \in S : o = [p EXCEPT !.status = status]
    BY <1>1 DEF WithStatus
  <2>2. p \in Observations
    OBVIOUS
  <2> QED
    BY <2>1, <2>2 DEF Observations, SameObservation
<1>2. CASE o \notin WithStatus(S, status)
  BY <1>2 DEF SameObservation
<1> QED
  BY <1>1, <1>2

LEMMA ApplicationIds ==
    ASSUME RegInv, OwnInv, IdsInv, NEW c \in clients,
           \/ \E u \in Uris, isSent \in BOOLEAN : Observe(c, u, isSent)
           \/ ObserveRefused(c)
           \/ \E o \in obs, isSent \in BOOLEAN : Cancel(c, o, isSent)
           \/ \E o \in obs : CancelPending(c, o)
    PROVE  IdsInv'
<1>1. obs \in SUBSET Observations
  BY DEF RegInv, TypeOK
<1>2. ASSUME NEW u \in Uris, NEW isSent \in BOOLEAN, Observe(c, u, isSent)
      PROVE  IdsInv'
  <2> DEFINE S == ByUri(c.id, u)
             t == [kind |-> "observe", client |-> c.id, id |-> NextObsId(c), uri |-> u,
                   session |-> c.session, for |-> c.inc]
             T == IF isSent THEN {t} ELSE {}
  <2>1. S \in SUBSET obs /\ obs' = (obs \ S) \cup WithStatus(S, "REG_PENDING")
    BY <1>2 DEF ByUri, ObsOf, Observe
  <2>2. \A o \in obs' : \E p \in obs : SameObservation(o, p)
    <3> HIDE DEF S
    <3> QED BY <1>1, <2>1, WithStatusSame
  <2>3. pending' = pending \cup T
    BY <1>2 DEF Observe
  <2>4. /\ \A x, r \in T : x = r
        /\ \A x \in T : x.client = c.id /\ x.id = NextObsId(c)
    OBVIOUS
  <2>5. TakeObsId(c)
    BY <1>2 DEF Observe
  <2> HIDE DEF T
  <2> QED
    BY <2>2, <2>3, <2>4, <2>5, TakeObsIdIds
<1>3. CASE ObserveRefused(c)
  <2> DEFINE T == {}
  <2>1. /\ pending' = pending \cup T /\ \A x, r \in T : x = r
        /\ \A x \in T : x.client = c.id /\ x.id = NextObsId(c)
    BY <1>3 DEF ObserveRefused
  <2>2. TakeObsId(c) /\ \A o \in obs' : \E p \in obs : SameObservation(o, p)
    BY <1>3 DEF ObserveRefused, SameObservation
  <2> HIDE DEF T
  <2> QED
    BY <2>1, <2>2, TakeObsIdIds
<1>4. ASSUME NEW o \in obs, NEW isSent \in BOOLEAN, Cancel(c, o, isSent)
      PROVE  IdsInv'
  <2> DEFINE S == {o}
  <2>1. S \in SUBSET obs /\ obs' = (obs \ S) \cup WithStatus(S, "DEREG_PENDING")
    BY <1>4 DEF Cancel
  <2>2. \A p \in obs' : \E q \in obs : SameObservation(p, q)
    <3> HIDE DEF S
    <3> QED BY <1>1, <2>1, WithStatusSame
  <2>3. \A t \in pending' : IsObserve(t) => t \in pending
    BY <1>4 DEF Cancel, IsObserve
  <2>4. UNCHANGED <<clients, requests>>
    BY <1>4 DEF Cancel
  <2> QED
    BY <2>2, <2>3, <2>4, IdsKept
<1>5. ASSUME NEW o \in obs, CancelPending(c, o)
      PROVE  IdsInv'
  BY <1>5, IdsKept DEF CancelPending, SameObservation
<1> QED
  BY <1>2, <1>3, <1>4, <1>5

\* Client d has the counter of its client of before, or is new.
Continues(d) ==
    \/ \E c \in clients : c.id = d.id /\ c.observationId = d.observationId
    \/ d.observationId = 0 /\ \A c \in clients : c.id # d.id

LEMMA WithPeerContinues ==
    ASSUME RegInv, NEW s \in Sessions, Block1Contact(s)
    PROVE  /\ \A d \in WithPeer(s) : Continues(d)
           /\ WithPeer(s) \in SUBSET Clients
<1>1. now \in Nat /\ ClientsInv(clients, allocated)
  BY DEF RegInv, TypeOK
<1> QED
  BY <1>1, WithPeerInv DEF Continues, ClientsInv

\* Registrations, updates and deregistrations leave the counters alone.
LEMMA RegistrationContinues ==
    ASSUME RegInv, Registration \/ Block1Registration
    PROVE  \A d \in clients' : Continues(d)
<1>1. now \in Nat /\ ClientsInv(clients, allocated) /\ clients \in SUBSET Clients
  BY DEF RegInv, TypeOK
<1>2. \A d \in clients : Continues(d)
  BY DEF Continues
<1>3. ASSUME NEW C \in SUBSET Clients, \A d \in C : Continues(d), NEW c \in C,
             NEW n \in Names, NEW s \in Sessions, NEW life \in Lifetimes,
             clients' \subseteq C \cup {ResetClient(c, n, s, life)}
      PROVE  \A d \in clients' : Continues(d)
  <2> DEFINE e == ResetClient(c, n, s, life)
  <2>1. e.id = c.id /\ e.observationId = c.observationId
    BY <1>1, <1>3, ResetClientType
  <2>2. clients' \subseteq C \cup {e}
    BY <1>3
  <2> HIDE DEF e
  <2> QED
    BY <1>3, <2>1, <2>2 DEF Continues
<1>4. ASSUME NEW C \in SUBSET Clients, \A d \in C : Continues(d),
             NEW i, NEW s \in Sessions, NEW life \in Lifetimes \cup {0}, NEW P,
             UpdateIn(C, i, s, life, P)
      PROVE  \A d \in clients' : Continues(d)
  <2>1. PICK c \in C : clients' = (C \ {c}) \cup {Updated(c, s, life)}
    BY <1>4, UpdateInChanges
  <2> DEFINE e == Updated(c, s, life)
  <2>2. e.id = c.id /\ e.observationId = c.observationId
    BY <1>1, <1>4, <2>1, UpdatedType
  <2>3. clients' = (C \ {c}) \cup {e}
    BY <2>1
  <2> HIDE DEF e
  <2> QED
    BY <1>4, <2>1, <2>2, <2>3 DEF Continues
<1>5. ASSUME NEW n \in Names, NEW s \in Sessions, NEW life \in Lifetimes, Register(n, s, life)
      PROVE  \A d \in clients' : Continues(d)
  <2>1. ASSUME allocated < MaxClients,
               clients' = clients \cup {NewClient(clients, n, s, life)}
        PROVE  \A d \in clients' : Continues(d)
    <3> DEFINE e == NewClient(clients, n, s, life)
    <3>1. e.id = NewId(clients) /\ e.observationId = 0
      BY DEF NewClient
    <3>2. \A c \in clients : c.id # NewId(clients)
      BY <1>1, <2>1, NewIdFree
    <3>3. clients' = clients \cup {e}
      BY <2>1
    <3> HIDE DEF e
    <3> QED
      BY <1>2, <3>1, <3>2, <3>3 DEF Continues
  <2>2. ASSUME NEW c \in ByName(clients, n),
               clients' = (clients \ {c}) \cup {ResetClient(c, n, s, life)}
        PROVE  \A d \in clients' : Continues(d)
    BY <1>1, <1>2, <1>3, <1>5, <2>2 DEF ByName
  <2> QED
    BY <1>5, <2>1, <2>2 DEF Register
<1>6. ASSUME NEW s \in Sessions, Block1Part(s) \/ \E n \in Names : Block1ResetsFreed(n, s)
      PROVE  \A d \in clients' : Continues(d)
  BY <1>6, WithPeerContinues DEF Block1Part, Block1ResetsFreed
<1>7. ASSUME NEW n \in Names, NEW s \in Sessions, NEW life \in Lifetimes,
             Block1Register(n, s, life) \/ Block1Reregister(n, s, life)
      PROVE  \A d \in clients' : Continues(d)
  <2> DEFINE C == WithPeer(s)
  <2>1. C \in SUBSET Clients /\ \A d \in C : Continues(d)
    BY <1>7, WithPeerContinues DEF Block1Register, Block1Reregister
  <2>2. PICK c \in C : clients' \subseteq C \cup {ResetClient(c, n, s, life)}
    BY <1>7 DEF Block1Register, Block1Reregister, FindClient, ByName
  <2> HIDE DEF C
  <2> QED
    BY <1>3, <1>7, <2>1, <2>2
<1>8. ASSUME NEW i, NEW s \in Sessions, NEW life \in Lifetimes \cup {0}, NEW P,
             Update(i, s, life, P) \/ Block1Update(i, s, life, P)
      PROVE  \A d \in clients' : Continues(d)
  <2>1. CASE Update(i, s, life, P)
    BY <1>1, <1>2, <1>4, <1>8, <2>1 DEF Update
  <2>2. CASE Block1Update(i, s, life, P)
    BY <1>4, <1>8, <2>2, WithPeerContinues DEF Block1Update
  <2> QED
    BY <1>8, <2>1, <2>2
<1>9. ASSUME NEW i, NEW s, Deregister(i, s)
      PROVE  \A d \in clients' : Continues(d)
  BY <1>2, <1>9 DEF Deregister
<1> QED
  BY <1>5, <1>6, <1>7, <1>8, <1>9 DEF Registration, Block1Registration

\* ... and add neither observations nor requests.
LEMMA RegistrationShrinks ==
    ASSUME Registration \/ Block1Registration \/ ExpiryStep
    PROVE  obs' \subseteq obs /\ pending' \subseteq pending /\ requests' = requests
<1>1. ASSUME NEW C, NEW i, NEW s, NEW life, NEW P, UpdateIn(C, i, s, life, P)
      PROVE  obs' \subseteq obs /\ pending' \subseteq pending /\ requests' = requests
  BY <1>1 DEF UpdateIn
<1>2. CASE Registration
  BY <1>1, <1>2, FreeClientsShrinks DEF Registration, Register, Update, Deregister
<1>3. CASE Block1Registration
  <2>1. ASSUME NEW s, Block1Part(s)
        PROVE  obs' \subseteq obs /\ pending' \subseteq pending /\ requests' = requests
    BY <2>1 DEF Block1Part
  <2>2. ASSUME NEW n, NEW s, NEW life, Block1Register(n, s, life) \/ Block1Reregister(n, s, life)
        PROVE  obs' \subseteq obs /\ pending' \subseteq pending /\ requests' = requests
    BY <2>2, FreeClientsShrinks DEF Block1Register, Block1Reregister
  <2>3. ASSUME NEW n, NEW s, Block1ResetsFreed(n, s)
        PROVE  obs' \subseteq obs /\ pending' \subseteq pending /\ requests' = requests
    BY <2>3, FreeClientsShrinks DEF Block1ResetsFreed
  <2> QED
    BY <1>1, <1>3, <2>1, <2>2, <2>3 DEF Block1Registration, Block1Update
<1>4. CASE ExpiryStep
  BY <1>4, FreeClientsShrinks DEF ExpiryStep
<1> QED
  BY <1>2, <1>3, <1>4

\* The answer to an observe request passes its ID on to the observation.
LEMMA CallbacksIds ==
    ASSUME RegInv, OwnInv, IdsInv, Callbacks
    PROVE  IdsInv'
<1>1. PICK t \in pending : \/ CallbackReports(t)
                           \/ ObserveCallback(t)
                           \/ CancelCallback(t)
                           \/ CancelCallbackNull(t)
  BY DEF Callbacks
<1>2. clients' = clients /\ requests' = requests /\ pending' = pending \ {t}
  BY <1>1 DEF CallbackReports, ObserveCallback, CancelCallback, CancelCallbackNull, Completes
<1>3. CASE ObserveCallback(t)
  <2> DEFINE n == [client |-> t.client, id |-> t.id, uri |-> t.uri,
                   status |-> "REGISTERED", for |-> t.for]
  <2>1. /\ IsObserve(t) /\ n.client = t.client /\ n.id = t.id /\ n.uri = t.uri
        /\ obs' \subseteq obs \cup {n}
    BY <1>3 DEF ObserveCallback, IsObserve
  <2> HIDE DEF n
  <2>2. ASSUME requests < IdSpace PROVE Issued'
    <3>1. Issued
      BY <2>2 DEF IdsInv
    <3> QED
      BY <1>2, <2>1, <3>1 DEF Issued, IsObserve
  <2>3. ASSUME requests <= IdSpace PROVE Distinct'
    <3>1. Distinct
      BY <2>3 DEF IdsInv
    <3>2. \A o, p \in obs' : o.client = p.client /\ o.id = p.id => o.uri = p.uri
      BY <2>1, <3>1 DEF Distinct
    <3>3. \A x \in pending', o \in obs' : IsObserve(x) /\ x.client = o.client => x.id # o.id
      BY <1>2, <2>1, <3>1 DEF Distinct
    <3> QED
      BY <1>2, <3>1, <3>2, <3>3 DEF Distinct, IsObserve
  <2> QED
    BY <1>2, <2>2, <2>3 DEF IdsInv
<1>4. CASE CallbackReports(t) \/ CancelCallback(t) \/ CancelCallbackNull(t)
  <2>1. obs' \subseteq obs
    BY <1>4 DEF CallbackReports, CancelCallback, CancelCallbackNull
  <2> QED
    BY <1>2, <2>1, IdsKept DEF SameObservation
<1> QED
  BY <1>1, <1>3, <1>4

LEMMA IdsInductive ==
    ASSUME RegInv, OwnInv, IdsInv, [Next]_vars
    PROVE  IdsInv'
<1>1. CASE Registration \/ Block1Registration
  <2>1. obs' \subseteq obs /\ pending' \subseteq pending /\ requests' = requests
    BY <1>1, RegistrationShrinks
  <2>2. \A d \in clients' : Continues(d)
    BY <1>1, RegistrationContinues
  <2> QED
    BY <2>1, <2>2, IdsKept DEF Continues, SameObservation
<1>2. CASE ExpiryStep
  <2>1. obs' \subseteq obs /\ pending' \subseteq pending /\ requests' = requests
    BY <1>2, RegistrationShrinks
  <2>2. clients' \subseteq clients
    BY <1>2 DEF ExpiryStep
  <2> QED
    BY <2>1, <2>2, IdsKept DEF SameObservation
<1>3. CASE Application
  BY <1>3, ApplicationIds DEF Application
<1>4. CASE Callbacks
  BY <1>4, CallbacksIds
<1>5. CASE Tick \/ UNCHANGED vars
  BY <1>5 DEF Tick, vars, IdsInv, Issued, Distinct
<1> QED
  BY <1>1, <1>2, <1>3, <1>4, <1>5 DEF Next

\* No two observations of a client have the same ID until its 16-bit counter
\* has gone once around, whatever answers are outstanding: when endpoints keep
\* their sessions.
THEOREM ObservationIdsAreUnique ==
    ASSUME Blockwise => SessionOwned, OneSession
    PROVE  Spec => []ObsIdsUnique
<1>1. Init => IdsInv
  BY DEF Init, IdsInv, Issued, Distinct
<1>2. RegInv /\ IdsInv => ObsIdsUnique
  BY DEF RegInv, OnePerUri, IdsInv, Distinct, ObsIdsUnique
<1> QED
  BY <1>1, <1>2, RegAlways, OwnAlways, IdsInductive, PTL DEF Spec
----------------------------------------------------------------------------
(* The monitor callback, and what goes with a client.  Without Block1 there *)
(* are no temporary clients.                                                *)

MonitorInv ==
    /\ \A c \in clients : c.name # NoName
    /\ deleted \subseteq announced
    /\ \A i \in announced : i <= allocated
    /\ \A c \in clients : c.inc \in announced /\ c.inc \notin deleted
    /\ \A i \in announced \ deleted : \E c \in clients : c.inc = i

\* A step that neither adds nor removes a client structure.
LEMMA MonitorKept ==
    ASSUME MonitorInv, UNCHANGED <<allocated, deleted>>,
           announced' \subseteq announced \cup {c.inc : c \in clients}, announced \subseteq announced',
           \A d \in clients' : d.name # NoName /\ \E c \in clients : c.inc = d.inc,
           \A c \in clients : \E d \in clients' : c.inc = d.inc
    PROVE  MonitorInv'
<1>1. \A c \in clients : c.inc \in announced
  BY DEF MonitorInv
<1>2. announced' = announced
  <2>1. \A i \in announced' : i \in announced
    BY <1>1
  <2> QED
    BY <2>1
<1> QED
  BY <1>2 DEF MonitorInv

\* Clients are unlinked and reported.
LEMMA MonitorRemoves ==
    ASSUME RegInv, MonitorInv, UNCHANGED <<allocated, announced>>, NEW S \in SUBSET clients,
           clients' = clients \ S, deleted' = deleted \cup {c.inc : c \in S}
    PROVE  MonitorInv'
<1>1. \A c, d \in clients : c.inc = d.inc => c = d
  BY DEF RegInv, ClientsInv
<1>2. \A c \in clients' : c.inc \in announced' /\ c.inc \notin deleted'
  BY <1>1 DEF MonitorInv
<1>3. \A i \in announced' \ deleted' : \E c \in clients' : c.inc = i
  BY DEF MonitorInv
<1>4. deleted' \subseteq announced' /\ \A c \in clients' : c.name # NoName
  BY DEF MonitorInv
<1> QED
  BY <1>2, <1>3, <1>4 DEF MonitorInv

LEMMA MonitorInductive ==
    ASSUME ~Blockwise, RegInv, MonitorInv, [Next]_vars
    PROVE  MonitorInv'
<1>1. /\ now \in Nat /\ clients \in SUBSET Clients
      /\ ClientsInv(clients, allocated) /\ allocated \in Nat
  <2>1. now \in Nat /\ clients \in SUBSET Clients /\ ClientsInv(clients, allocated)
    BY DEF RegInv, TypeOK
  <2>2. allocated \in Nat
    BY <2>1 DEF ClientsInv
  <2> QED
    BY <2>1, <2>2
<1>2. ASSUME NEW n \in Names, NEW s \in Sessions, NEW life \in Lifetimes, Register(n, s, life)
      PROVE  MonitorInv'
  <2>1. UNCHANGED deleted
    BY <1>2 DEF Register
  <2>2. ASSUME allocated < MaxClients,
               clients' = clients \cup {NewClient(clients, n, s, life)},
               allocated' = allocated + 1, announced' = announced \cup {allocated + 1}
        PROVE  MonitorInv'
    <3> DEFINE d == NewClient(clients, n, s, life)
    <3>1. d.inc = allocated + 1 /\ d.name = n /\ n # NoName
      BY <1>2 DEF NewClient
    <3>2. clients' = clients \cup {d}
      BY <2>2
    <3> HIDE DEF d
    <3>3. \A i \in announced : i \in Int
      <4>1. announced \in SUBSET Incs
        BY DEF RegInv, TypeOK
      <4> QED
        BY <4>1 DEF Incs
    <3>4. allocated + 1 \notin deleted
      BY <1>1, <3>3 DEF MonitorInv
    <3>5. \A i \in announced' : i <= allocated'
      BY <1>1, <2>2, <3>3 DEF MonitorInv
    <3> QED
      BY <2>1, <2>2, <3>1, <3>2, <3>4, <3>5 DEF MonitorInv
  <2>3. ASSUME NEW c \in ByName(clients, n),
               clients' = (clients \ {c}) \cup {ResetClient(c, n, s, life)},
               announced' = announced \cup {c.inc}, UNCHANGED allocated
        PROVE  MonitorInv'
    <3> DEFINE d == ResetClient(c, n, s, life)
    <3>1. c \in clients /\ c \in Clients
      BY <1>1 DEF ByName
    <3>2. d.inc = c.inc /\ d.name = n /\ n # NoName
      BY <1>1, <1>2, <3>1, ResetClientType
    <3>3. clients' = (clients \ {c}) \cup {d}
      BY <2>3
    <3> HIDE DEF d
    <3>4. /\ \A e \in clients' : e.name # NoName /\ \E b \in clients : b.inc = e.inc
          /\ \A b \in clients : \E e \in clients' : b.inc = e.inc
      BY <3>1, <3>2, <3>3 DEF MonitorInv
    <3> QED
      BY <2>1, <2>3, <3>1, <3>4, MonitorKept
  <2> QED
    BY <1>2, <2>2, <2>3 DEF Register
<1>3. ASSUME NEW i, NEW s \in Sessions, NEW life \in Lifetimes \cup {0}, NEW P,
             Update(i, s, life, P)
      PROVE  MonitorInv'
  <2>1. UpdateIn(clients, i, s, life, P) /\ UNCHANGED allocated
    BY <1>3 DEF Update
  <2>2. PICK c \in clients : clients' = (clients \ {c}) \cup {Updated(c, s, life)}
    BY <2>1, UpdateInChanges
  <2>3. UNCHANGED monitor
    BY <2>1, UpdateInChanges
  <2> DEFINE d == Updated(c, s, life)
  <2>4. d.inc = c.inc /\ d.name = c.name
    BY <1>1, <1>3, UpdatedType
  <2>5. clients' = (clients \ {c}) \cup {d}
    BY <2>2
  <2> HIDE DEF d
  <2>6. /\ \A e \in clients' : e.name # NoName /\ \E b \in clients : b.inc = e.inc
        /\ \A b \in clients : \E e \in clients' : b.inc = e.inc
    BY <2>4, <2>5 DEF MonitorInv
  <2> QED
    BY <2>1, <2>3, <2>6, MonitorKept DEF monitor
<1>4. ASSUME NEW i, NEW s, Deregister(i, s)
      PROVE  MonitorInv'
  <2>1. PICK c \in clients : clients' = clients \ {c} /\ deleted' = deleted \cup {c.inc}
    BY <1>4 DEF Deregister
  <2> DEFINE S == {c}
  <2>2. /\ S \in SUBSET clients /\ clients' = clients \ S
        /\ deleted' = deleted \cup {e.inc : e \in S}
    BY <2>1
  <2>3. UNCHANGED <<allocated, announced>>
    BY <1>4 DEF Deregister
  <2> HIDE DEF S
  <2> QED
    BY <2>2, <2>3, MonitorRemoves
<1>5. CASE ExpiryStep
  <2>1. Expired \in SUBSET clients
    BY DEF Expired
  <2> QED
    BY <1>5, <2>1, MonitorRemoves DEF ExpiryStep
<1>6. CASE Application
  <2>1. UNCHANGED <<allocated, monitor>> /\ \E c \in clients : TakeObsId(c) \/ UNCHANGED clients
    BY <1>6 DEF Application, Observe, ObserveRefused, TakeObsId, Cancel, CancelPending
  <2>2. PICK c \in clients : TakeObsId(c) \/ UNCHANGED clients
    BY <2>1
  <2>3. CASE TakeObsId(c)
    <3> DEFINE d == [c EXCEPT !.observationId = NextObsId(c)]
    <3>1. d.inc = c.inc /\ d.name = c.name
      BY <1>1 DEF Clients
    <3>2. clients' = (clients \ {c}) \cup {d}
      BY <2>3 DEF TakeObsId
    <3> HIDE DEF d
    <3>3. /\ \A e \in clients' : e.name # NoName /\ \E b \in clients : b.inc = e.inc
          /\ \A b \in clients : \E e \in clients' : b.inc = e.inc
      BY <3>1, <3>2 DEF MonitorInv
    <3> QED
      BY <2>1, <3>3, MonitorKept DEF monitor
  <2>4. CASE UNCHANGED clients
    BY <2>1, <2>4 DEF MonitorInv, monitor
  <2> QED
    BY <2>2, <2>3, <2>4
<1>7. CASE Callbacks \/ Tick \/ UNCHANGED vars
  <2>1. UNCHANGED <<clients, allocated, monitor>>
    BY <1>7 DEF Callbacks, CallbackReports, ObserveCallback, CancelCallback,
                CancelCallbackNull, Completes, Tick, vars, monitor
  <2> QED
    BY <2>1 DEF MonitorInv, monitor
<1>8. ~Block1Registration
  BY DEF Block1Registration, Block1Part, Block1Register, Block1Reregister,
         Block1ResetsFreed, Block1Update, Block1Contact
<1> QED
  BY <1>2, <1>3, <1>4, <1>5, <1>6, <1>7, <1>8 DEF Next, Registration

LEMMA MonitorAlways ==
    ASSUME ~Blockwise
    PROVE  Spec => []MonitorInv
<1>1. Init => MonitorInv
  BY DEF Init, MonitorInv
<1> QED
  BY <1>1, RegAlways, MonitorInductive, PTL DEF Spec

\* Without Block1, the monitor callback has reported the beginning and not the
\* end of exactly the clients of the list.
THEOREM MonitorIsRight ==
    ASSUME ~Blockwise
    PROVE  Spec => []MonitorAgrees
<1>1. MonitorInv => MonitorAgrees
  BY DEF MonitorInv, MonitorAgrees
<1> QED
  BY <1>1, MonitorAlways, PTL

\* Without Block1 and with a session for each endpoint, a client that goes
\* takes with it only the requests that were made for it.
THEOREM OnlyOwnRequestsDropped ==
    ASSUME ~Blockwise, SessionOwned, OneSession
    PROVE  Spec => DroppedWithOwner
<1> DEFINE Drop == \A t \in pending \ pending' :
                       (\E c \in clients : \A d \in clients' : c.inc # d.inc) =>
                       \A d \in clients' : t.for # d.inc
<1>1. ASSUME RegInv, HoldInv, OwnInv, MonitorInv, [Next]_vars
      PROVE  [Drop]_vars
  <2>1. ASSUME NEW S \in SUBSET clients, clients' = clients \ S, fault = "none",
               pending' = FreeTransactions(S)
        PROVE  Drop
    <3> SUFFICES ASSUME NEW t \in pending \ pending', NEW d \in clients', t.for = d.inc
                 PROVE  FALSE
      OBVIOUS
    <3>1. PICK c \in S : t.session = c.session
      BY <2>1 DEF FreeTransactions
    <3>2. PICK e \in clients : e.inc = t.for /\ e.session = t.session
      BY <1>1 DEF OwnInv
    <3>3. d \in clients /\ d = e
      BY <1>1, <2>1, <3>2 DEF RegInv, ClientsInv
    <3>4. c \in clients /\ Reached(clients)
      BY <1>1, <2>1 DEF HoldInv
    <3>5. /\ <<c.name, c.session>> \in Reaches /\ <<d.name, c.session>> \in Reaches
          /\ c.name \in Names /\ d.name \in Names /\ c.session \in Sessions
      BY <1>1, <3>1, <3>2, <3>3, <3>4 DEF Reached, MonitorInv, RegInv, ClientsInv, Clients
    <3>6. c.name = d.name
      BY <3>5 DEF SessionOwned
    <3>7. c = d
      BY <1>1, <3>3, <3>4, <3>6 DEF RegInv, ClientsInv, MonitorInv
    <3> QED
      BY <2>1, <3>7
  <2>2. ASSUME \A c \in clients : \E d \in clients' : c.inc = d.inc
        PROVE  Drop
    BY <2>2
  <2>3. ASSUME pending \subseteq pending'
        PROVE  Drop
    BY <2>3
  <2>4. CASE ExpiryStep
    <3>1. Expired \in SUBSET clients
      BY DEF Expired
    <3> QED
      BY <2>1, <2>4, <3>1 DEF ExpiryStep, FreeClients
  <2>5. CASE Registration
    <3>1. ASSUME NEW i, NEW s, Deregister(i, s) PROVE Drop
      <4>1. PICK c \in clients : clients' = clients \ {c} /\ FreeClients({c})
        BY <3>1 DEF Deregister
      <4> DEFINE S == {c}
      <4>2. S \in SUBSET clients /\ clients' = clients \ S /\ pending' = FreeTransactions(S)
        BY <4>1 DEF FreeClients
      <4> HIDE DEF S
      <4> QED
        BY <2>1, <3>1, <4>2 DEF Deregister, Contact
    <3> QED
      BY <2>3, <2>5, <3>1 DEF Registration, Register, Update, UpdateIn
  <2>6. CASE Callbacks
    <3>1. clients' = clients
      BY <2>6 DEF Callbacks, CallbackReports, ObserveCallback, CancelCallback,
                  CancelCallbackNull, Completes
    <3> QED
      BY <2>2, <3>1
  <2>7. CASE Application
    BY <2>3, <2>7 DEF Application, Observe, ObserveRefused, Cancel, CancelPending
  <2>8. CASE Tick \/ UNCHANGED vars
    BY <2>3, <2>8 DEF Tick, vars
  <2>9. ~Block1Registration
    BY DEF Block1Registration, Block1Part, Block1Register, Block1Reregister,
           Block1ResetsFreed, Block1Update, Block1Contact
  <2> HIDE DEF Drop
  <2> QED
    BY <1>1, <2>4, <2>5, <2>6, <2>7, <2>8, <2>9 DEF Next
<1>2. Spec => [][Drop]_vars
  <2> HIDE DEF Drop
  <2> QED BY <1>1, RegAlways, HoldAlways, OwnAlways, MonitorAlways, PTL DEF Spec
<1> QED
  BY <1>2 DEF DroppedWithOwner
============================================================================

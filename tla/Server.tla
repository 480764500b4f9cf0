------------------------------- MODULE Server -------------------------------
(***************************************************************************)
(* The LwM2M server side of wakaama: the list of registered clients with   *)
(* their lifetimes (core/registration.c, server part) and the observations *)
(* the application holds on them (core/observe.c, server part).            *)
(*                                                                         *)
(* Registration messages come from any session; with Block1 the list also  *)
(* holds a nameless temporary client per session (core/packet.c).  An      *)
(* observe or cancel request is a transaction: it may be answered late, in *)
(* any order, or never, and then its callback gets NULL (see Transaction). *)
(* The callback finds client and observation again by internal ID and URI. *)
(***************************************************************************)
EXTENDS Integers, FiniteSets

CONSTANTS
    Names,            \* endpoint names
    NoName,           \* the name of a temporary client
    Sessions,         \* fromSessionH
    Reaches,          \* <<name, session>>: the endpoint sends from this session
    Uris,             \* URIs the application observes
    Payloads,         \* object lists of a registration update
    Lifetimes,        \* lifetimes the clients ask for, in ticks
    DefaultLifetime,  \* LWM2M_DEFAULT_LIFETIME
    IdSpace,          \* number of observation IDs: 2^16 in the code (uint16_t)
    Blockwise,        \* TRUE: clients register with Block1
    MaxClients,       \* bound: client structures allocated in a behaviour
    MaxRequests,      \* bound: observation IDs taken in a behaviour
    MaxTime,          \* bound: last value of the clock
    LastContact       \* bound: no message of a client after this time

NoInstance == -1
Links == [object : Nat, instance : Nat \cup {NoInstance}]

ASSUME NamesAssumption == NoName \notin Names /\ Reaches \subseteq Names \X Sessions
ASSUME UrisAssumption == Uris \subseteq Links /\ Payloads \subseteq SUBSET Links
ASSUME LifetimeAssumption ==
    /\ Lifetimes \subseteq Nat \ {0} /\ DefaultLifetime \in Nat \ {0}
ASSUME ServerBounds ==
    /\ MaxClients \in Nat /\ MaxRequests \in Nat /\ MaxTime \in Nat
    /\ LastContact \in Nat /\ Blockwise \in BOOLEAN
ASSUME IdAssumption == IdSpace \in Nat \ {0}

ClientIds == 0 .. MaxClients
Incs      == 1 .. MaxClients   \* identities (addresses) of client structures
ObsIds    == 0 .. IdSpace - 1
States    == {"REGISTERED", "REG_PENDING", "DEREG_PENDING"}

Clients == [id : ClientIds, name : Names \cup {NoName}, session : Sessions,
            lifetime : Nat, endOfLife : Nat, observationId : ObsIds, inc : Incs]

\* `for': the client structure the application asked to observe.
Observations == [client : ClientIds, id : ObsIds, uri : Uris, status : States, for : Incs]

Transactions == [kind : {"observe", "cancel"}, client : ClientIds, id : ObsIds,
                 uri : Uris, session : Sessions, for : Incs]

VARIABLES
    now,       \* lwm2m_gettime()
    clients,   \* contextP->clientList: a set, ordered by id
    obs,       \* their observationLists
    pending,   \* listed transactions of lwm2m_observe and lwm2m_observe_cancel
    allocated, \* client structures allocated so far
    requests,  \* observation IDs taken so far
    promise,   \* what the last 2.01 or 2.04 told an endpoint: location and end
    announced, \* client structures the monitor callback reported with 2.01
    deleted,   \* ... and with 2.02
    fault      \* undefined behaviour the program has run into

vars == <<now, clients, obs, pending, allocated, requests, promise, announced,
          deleted, fault>>

monitor == <<announced, deleted>>

None == [id |-> -1, until |-> 0]

----------------------------------------------------------------------------
(* The client list                                                         *)

\* lwm2m_list_newId: the first gap.
NewId(C) ==
    CHOOSE i \in ClientIds :
        /\ \A c \in C : c.id # i
        /\ \A j \in ClientIds : j < i => \E c \in C : c.id = j

\* prv_getClientByName
ByName(C, n) == {c \in C : c.name = n}

\* utils_findClient: the first client of the list that has the session.
FindClient(C, s) ==
    {c \in C : c.session = s /\ \A d \in C : d.session = s => c.id <= d.id}

NewClient(C, n, s, life) ==
    [id |-> NewId(C), name |-> n, session |-> s, lifetime |-> life,
     endOfLife |-> now + life, observationId |-> 0, inc |-> allocated + 1]

\* What packet.c does before it looks at a block of a registration.
WithPeer(s) ==
    IF FindClient(clients, s) # {} THEN clients
    ELSE clients \cup {NewClient(clients, NoName, s, DefaultLifetime)}

\* "we reset this registration": observations are kept.
ResetClient(c, n, s, life) ==
    [c EXCEPT !.name = n, !.session = s, !.lifetime = life, !.endOfLife = now + life]

\* Mutants of FreeTransactions: the session is not compared; nothing is removed.
MutantRemoveAll(S)  == IF S = {} THEN pending ELSE {}
MutantKeepAll(S)    == pending

\* registration_freeClient for the clients of S.
FreeObservations(S) == {o \in obs : \A c \in S : o.client # c.id}
FreeTransactions(S) == {t \in pending : \A c \in S : t.session # c.session}

FreeClients(S) ==
    /\ obs' = FreeObservations(S)
    /\ pending' = FreeTransactions(S)

\* The answer 2.01 or 2.04 to endpoint n, for a client c of the list.
Answer(n, c) ==
    promise' = IF n = NoName THEN promise
               ELSE [promise EXCEPT ![n] = [id |-> c.id, until |-> c.endOfLife]]
----------------------------------------------------------------------------
(* registration_handleRequest: requests it refuses change nothing.         *)

Contact == fault = "none" /\ now <= LastContact

\* Mutant of Register: the name is not looked up.
MutantRegister(n, s, life) ==
    /\ Contact /\ <<n, s>> \in Reaches
    /\ allocated < MaxClients
    /\ LET c == NewClient(clients, n, s, life)
       IN  clients' = clients \cup {c} /\ Answer(n, c)
    /\ allocated' = allocated + 1
    /\ announced' = announced \cup {allocated + 1}
    /\ UNCHANGED <<now, obs, pending, requests, deleted, fault>>

\* POST /rd without Block1
Register(n, s, life) ==
    /\ Contact /\ <<n, s>> \in Reaches
    /\ \/ /\ ByName(clients, n) = {}
          /\ allocated < MaxClients
          /\ LET c == NewClient(clients, n, s, life)
             IN  clients' = clients \cup {c} /\ Answer(n, c)
          /\ allocated' = allocated + 1
          /\ announced' = announced \cup {allocated + 1}
       \/ \E c \in ByName(clients, n) :
             /\ clients' = (clients \ {c}) \cup {ResetClient(c, n, s, life)}
             /\ Answer(n, ResetClient(c, n, s, life))
             /\ announced' = announced \cup {c.inc}
             /\ UNCHANGED allocated
    /\ UNCHANGED <<now, obs, pending, requests, deleted, fault>>

Block1Contact(s) ==
    /\ Contact /\ Blockwise
    /\ FindClient(clients, s) = {} => allocated < MaxClients
    /\ allocated' = IF FindClient(clients, s) = {} THEN allocated + 1 ELSE allocated

\* A block of a registration that is not the last one.
Block1Part(s) ==
    /\ Block1Contact(s)
    /\ clients' = WithPeer(s)
    /\ UNCHANGED <<now, obs, pending, requests, promise, monitor, fault>>

\* The last block; the name is unknown: the session's client takes it.
Block1Register(n, s, life) ==
    /\ Block1Contact(s) /\ <<n, s>> \in Reaches
    /\ ByName(WithPeer(s), n) = {}
    /\ \E c \in FindClient(WithPeer(s), s) :
          /\ clients' = (WithPeer(s) \ {c}) \cup {ResetClient(c, n, s, life)}
          /\ Answer(n, ResetClient(c, n, s, life))
          /\ announced' = announced \cup {c.inc}
    /\ UNCHANGED <<now, obs, pending, requests, deleted, fault>>

\* The name is known: the session's client, meant to be temporary, goes.
Block1Reregister(n, s, life) ==
    /\ Block1Contact(s) /\ <<n, s>> \in Reaches
    /\ \E c \in ByName(WithPeer(s), n), tmp \in FindClient(WithPeer(s), s) :
          /\ c # tmp
          /\ clients' = (WithPeer(s) \ {c, tmp}) \cup {ResetClient(c, n, s, life)}
          /\ FreeClients({tmp})
          /\ Answer(n, ResetClient(c, n, s, life))
          /\ announced' = announced \cup {c.inc}
    /\ UNCHANGED <<now, requests, deleted, fault>>

\* The session's client is the one that has the name: it is freed, then reset.
Block1ResetsFreed(n, s) ==
    /\ Block1Contact(s) /\ <<n, s>> \in Reaches
    /\ \E c \in ByName(WithPeer(s), n) \cap FindClient(WithPeer(s), s) :
          /\ clients' = WithPeer(s) \ {c}
          /\ FreeClients({c})
    /\ fault' = "use after free"
    /\ UNCHANGED <<now, requests, promise, monitor>>

\* An endpoint sends from s to its location i, while its lifetime runs.
Knows(s, i) ==
    \E n \in Names : <<n, s>> \in Reaches /\ promise[n].id = i /\ now < promise[n].until

\* The instance IDs prv_decodeRegisterPayload stores for an object: it clears
\* each list node after it has set the ID.
StoredInstances(P, object) ==
    IF \E l \in P : l.object = object /\ l.instance # NoInstance THEN {0} ELSE {}

\* lwm2m_list_find on the decoded list, for the observations of the client.
Found(u, P) ==
    /\ \E l \in P : l.object = u.object
    /\ u.instance # NoInstance => u.instance \in StoredInstances(P, u.object)

\* The observations of client c that an update with object list P removes.
Dropped(c, P) ==
    {o \in obs : o.client = c.id /\ P # {} /\ ~Found(o.uri, P)}

\* POST /rd/i; life = 0: no lifetime given, P = {}: no object list.
UpdateIn(C, i, s, life, P) ==
    /\ Knows(s, i)
    /\ \E c \in C :
          LET l == IF life = 0 THEN c.lifetime ELSE life
              d == [c EXCEPT !.session = s, !.lifetime = l, !.endOfLife = now + l]
          IN  /\ c.id = i
              /\ clients' = (C \ {c}) \cup {d}
              /\ obs' = obs \ Dropped(c, P)
              /\ Answer(c.name, d)
    /\ UNCHANGED <<now, pending, requests, monitor, fault>>

Update(i, s, life, P) ==
    /\ Contact
    /\ UpdateIn(clients, i, s, life, P)
    /\ UNCHANGED allocated

\* A session that is new to the server gets a temporary client as well.
Block1Update(i, s, life, P) ==
    /\ Block1Contact(s)
    /\ UpdateIn(WithPeer(s), i, s, life, P)

\* DELETE /rd/i
Deregister(i, s) ==
    /\ Contact
    /\ Knows(s, i)
    /\ \E c \in clients :
          /\ c.id = i
          /\ clients' = clients \ {c}
          /\ FreeClients({c})
          /\ deleted' = deleted \cup {c.inc}
          /\ promise' = [n \in Names |-> IF n = c.name THEN None ELSE promise[n]]
    /\ UNCHANGED <<now, allocated, requests, announced, fault>>

\* Mutants of Expired: temporary clients have no lifetime; a tick too early.
MutantNamedExpired == {c \in clients : c.endOfLife <= now /\ c.name # NoName}
MutantSoonExpired  == {c \in clients : c.endOfLife <= now + 1}

Expired == {c \in clients : c.endOfLife <= now}

\* Mutant of ExpiryStep: the monitor callback is not called.
MutantQuietExpiry ==
    /\ fault = "none"
    /\ Expired # {}
    /\ clients' = clients \ Expired
    /\ FreeClients(Expired)
    /\ UNCHANGED <<now, allocated, requests, promise, monitor, fault>>

\* registration_step: the walk over the client list.
ExpiryStep ==
    /\ fault = "none"
    /\ Expired # {}
    /\ clients' = clients \ Expired
    /\ FreeClients(Expired)
    /\ deleted' = deleted \cup {c.inc : c \in Expired}
    /\ UNCHANGED <<now, allocated, requests, promise, announced, fault>>

Tick ==
    /\ fault = "none"
    /\ now < MaxTime
    /\ now' = now + 1
    /\ UNCHANGED <<clients, obs, pending, allocated, requests, promise, monitor,
                   fault>>
----------------------------------------------------------------------------
(* lwm2m_observe, lwm2m_observe_cancel and their callbacks                 *)

ObsOf(i) == {o \in obs : o.client = i}

\* prv_findObservationByURI
ByUri(i, u) == {o \in ObsOf(i) : o.uri = u}

\* Mutant of NextObsId: the counter does not wrap.
MutantNextObsId(c) == c.observationId + 1

\* ++clientP->observationId, a uint16_t
NextObsId(c) == (c.observationId + 1) % IdSpace

WithStatus(S, status) == {[o EXCEPT !.status = status] : o \in S}

\* Mutant of TakeObsId: the counter stands still.
MutantTakeObsId(c) ==
    /\ fault = "none"
    /\ requests < MaxRequests
    /\ requests' = requests + 1
    /\ UNCHANGED <<now, clients, allocated, promise, monitor, fault>>

\* The ID of an observation that lwm2m_observe of c takes.
TakeObsId(c) ==
    /\ fault = "none"
    /\ requests < MaxRequests
    /\ requests' = requests + 1
    /\ clients' = (clients \ {c}) \cup {[c EXCEPT !.observationId = NextObsId(c)]}
    /\ UNCHANGED <<now, allocated, promise, monitor, fault>>

\* prv_lwm2m_observe; transaction_send succeeds or, if not sent, fails.
Observe(c, u, isSent) ==
    /\ TakeObsId(c)
    /\ \A o \in ObsOf(c.id) : o.id # NextObsId(c)
    /\ obs' = (obs \ ByUri(c.id, u)) \cup WithStatus(ByUri(c.id, u), "REG_PENDING")
    /\ pending' = IF ~isSent THEN pending
                  ELSE pending \cup {[kind |-> "observe", client |-> c.id,
                                      id |-> NextObsId(c), uri |-> u,
                                      session |-> c.session, for |-> c.inc]}

\* "Can't get available observation ID."
ObserveRefused(c) ==
    /\ TakeObsId(c)
    /\ \E o \in ObsOf(c.id) : o.id = NextObsId(c)
    /\ UNCHANGED <<obs, pending>>

\* prv_lwm2m_observe_cancel of an established observation; as above.
Cancel(c, o, isSent) ==
    /\ fault = "none"
    /\ o \in ObsOf(c.id) /\ o.status = "REGISTERED"
    /\ obs' = (obs \ {o}) \cup WithStatus({o}, "DEREG_PENDING")
    /\ pending' = IF ~isSent THEN pending
                  ELSE pending \cup {[kind |-> "cancel", client |-> c.id, id |-> o.id,
                                      uri |-> o.uri, session |-> c.session, for |-> o.for]}
    /\ UNCHANGED <<now, clients, allocated, requests, promise, monitor, fault>>

\* ... while an observe or a cancel request is on its way: nothing is sent.
CancelPending(c, o) ==
    /\ fault = "none"
    /\ o \in ObsOf(c.id) /\ o.status # "REGISTERED"
    /\ obs' = obs \ {o}
    /\ UNCHANGED <<now, clients, pending, allocated, requests, promise, monitor, fault>>

Completes(t) ==
    /\ fault = "none"
    /\ pending' = pending \ {t}
    /\ UNCHANGED <<now, clients, allocated, requests, promise, monitor>>

Listed(i) == \E c \in clients : c.id = i

\* The callback only reports: an error, a timeout (NULL), the client is gone,
\* a part of the answer, or the observation is being cancelled.
CallbackReports(t) ==
    /\ Completes(t)
    /\ UNCHANGED <<obs, fault>>

\* Mutant of ObserveCallback: the observation of before stays listed.
MutantObserveCallback(t) ==
    /\ t.kind = "observe"
    /\ Listed(t.client)
    /\ \A o \in ByUri(t.client, t.uri) : o.status # "DEREG_PENDING"
    /\ obs' = obs \cup {[client |-> t.client, id |-> t.id, uri |-> t.uri,
                         status |-> "REGISTERED", for |-> t.for]}
    /\ Completes(t)
    /\ UNCHANGED fault

\* prv_obsRequestCallback with 2.05 and the Observe option
ObserveCallback(t) ==
    /\ t.kind = "observe"
    /\ Listed(t.client)
    /\ \A o \in ByUri(t.client, t.uri) : o.status # "DEREG_PENDING"
    /\ obs' = (obs \ ByUri(t.client, t.uri)) \cup
              {[client |-> t.client, id |-> t.id, uri |-> t.uri,
                status |-> "REGISTERED", for |-> t.for]}
    /\ Completes(t)
    /\ UNCHANGED fault

\* prv_obsCancelRequestCallback with 2.05: the observation is looked up again.
CancelCallback(t) ==
    /\ t.kind = "cancel"
    /\ Listed(t.client)
    /\ ByUri(t.client, t.uri) # {}
    /\ obs' = obs \ ByUri(t.client, t.uri)
    /\ Completes(t)
    /\ UNCHANGED fault

\* ... and is gone: observe_remove(NULL).
CancelCallbackNull(t) ==
    /\ t.kind = "cancel"
    /\ Listed(t.client)
    /\ ByUri(t.client, t.uri) = {}
    /\ fault' = "null observation"
    /\ Completes(t)
    /\ UNCHANGED obs
----------------------------------------------------------------------------
Init ==
    /\ now = 0 /\ clients = {} /\ obs = {} /\ pending = {}
    /\ allocated = 0 /\ requests = 0
    /\ promise = [n \in Names |-> None]
    /\ announced = {} /\ deleted = {}
    /\ fault = "none"

Registration ==
    \/ \E n \in Names, s \in Sessions, life \in Lifetimes : Register(n, s, life)
    \/ \E i \in ClientIds, s \in Sessions :
          \/ \E life \in Lifetimes \cup {0}, P \in Payloads : Update(i, s, life, P)
          \/ Deregister(i, s)

Block1Registration ==
    \/ \E s \in Sessions : Block1Part(s)
    \/ \E n \in Names, s \in Sessions, life \in Lifetimes :
          \/ Block1Register(n, s, life)
          \/ Block1Reregister(n, s, life)
    \/ \E n \in Names, s \in Sessions : Block1ResetsFreed(n, s)
    \/ \E i \in ClientIds, s \in Sessions, life \in Lifetimes \cup {0}, P \in Payloads :
          Block1Update(i, s, life, P)

\* The application takes client IDs from the monitor callback.
Application ==
    \E c \in {d \in clients : d.name # NoName} :
        \/ \E u \in Uris, isSent \in BOOLEAN : Observe(c, u, isSent)
        \/ ObserveRefused(c)
        \/ \E o \in obs, isSent \in BOOLEAN : Cancel(c, o, isSent)
        \/ \E o \in obs : CancelPending(c, o)

Callbacks ==
    \E t \in pending :
        \/ CallbackReports(t)
        \/ ObserveCallback(t)
        \/ CancelCallback(t)
        \/ CancelCallbackNull(t)

Next == Registration \/ Block1Registration \/ Application \/ Callbacks \/ ExpiryStep \/ Tick

Spec == Init /\ [][Next]_vars

\* The application keeps calling lwm2m_step, and time passes.
FairSpec == Spec /\ WF_vars(ExpiryStep) /\ WF_vars(Tick)
----------------------------------------------------------------------------
(* Properties                                                              *)

TypeOK ==
    /\ now \in Nat
    /\ clients \in SUBSET Clients
    /\ obs \in SUBSET Observations
    /\ pending \in SUBSET Transactions
    /\ allocated \in 0 .. MaxClients /\ requests \in 0 .. MaxRequests
    /\ promise \in [Names -> [id : Int, until : Nat]]
    /\ announced \in SUBSET Incs /\ deleted \in SUBSET Incs
    /\ fault \in {"none", "use after free", "null observation"}

\* An endpoint has one client structure, and a location names one: the lookups
\* by name, by ID and lwm2m_list_newId agree, also with temporary clients that
\* become registered ones and sessions that change hands.
RegistryUnique ==
    /\ \A c, d \in clients : c.id = d.id => c = d
    /\ \A c, d \in clients : c.name = d.name /\ c.name # NoName => c = d

\* An endpoint that was answered 2.01 or 2.04 stays registered, at the location
\* it was given, until its lifetime is over or it deregisters; registrations of
\* others, temporary clients and the expiry walk do not take it away.
RegistrationHolds ==
    fault = "none" =>
        \A n \in Names : now < promise[n].until =>
            \E c \in clients : c.name = n /\ c.id = promise[n].id

\* "observationId can overflow. ensure new ID is not already present": no two
\* observations of a client have the same ID, as long as the counter has not gone
\* once around.  observe_remove unlinks by ID and frees the pointer.
ObsIdsUnique ==
    requests <= IdSpace =>
        \A o, p \in obs : o.client = p.client /\ o.id = p.id => o = p

\* prv_findObservationByURI has at most one observation to find.
OnePerUri ==
    \A o, p \in obs : o.client = p.client /\ o.uri = p.uri => o = p

\* An answer that comes after its client has gone does not start an observation
\* of the client that has got the internal ID since.
ObservationIsClients ==
    \A o \in obs : \E c \in clients : c.id = o.client /\ c.inc = o.for

\* "When a LwM2M client registers, the callback is called with status
\* COAP_201_CREATED; [...] deregisters, [...] COAP_202_DELETED": the monitor
\* hears of the end of exactly the registrations it heard the beginning of.
MonitorAgrees ==
    /\ deleted \subseteq announced
    /\ fault = "none" => announced \ deleted = {c.inc : c \in {d \in clients : d.name # NoName}}

\* "Remove transactions from a specific client": when clients go, the requests
\* to those that stay are not removed with them.
DroppedWithOwner ==
    [][\A t \in pending \ pending' :
          (\E c \in clients : \A d \in clients' : c.inc # d.inc) =>
          \A d \in clients' : t.for # d.inc]_vars

\* "remove observations on object/instance no longer existing": an update keeps
\* the observations whose object or instance is in the new object list.
UpdateKeepsExisting ==
    [][\A i \in ClientIds, s \in Sessions, life \in Lifetimes \cup {0}, P \in Payloads :
          Update(i, s, life, P) =>
          \A o \in obs : o.client = i /\ (\E l \in P : l = o.uri) => o \in obs']_vars

\* "Should not happen": cancelling twice does not leave the first cancellation
\* without the observation it is going to remove.
CancelFindsObservation == fault # "null observation"

\* A client that is not heard of any more is removed, a temporary one included.
SilentExpires ==
    \A i \in Incs :
        (\E c \in clients : c.inc = i) ~> (fault # "none" \/ \A c \in clients : c.inc # i)
============================================================================

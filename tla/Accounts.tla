------------------------------ MODULE Accounts ------------------------------
(***************************************************************************)
(* The server accounts of a client: the instances of the Security object   *)
(* (0) and of the Server object (1), kept by examples/client/common, and   *)
(* what core/objects.c makes of them: the entries of serverList and        *)
(* bootstrapServerList.                                                    *)
(*                                                                         *)
(* Every definition is a function of the context `c' (lwm2m_context_t), a  *)
(* record with at least                                                    *)
(*   sec, serverObj   instances of objects 0 and 1, by ID                  *)
(*   servers, bs      serverList and bootstrapServerList, by secObjInstID  *)
(*   trans            the transactions under way                           *)
(*   torn             Security instances a failed write has left half done *)
(* A resource is a value, Absent (readFunc answers 4.04; in a payload: not *)
(* there) or, in a payload only, Bad (it cannot be decoded or is refused). *)
(***************************************************************************)
EXTENDS Integers, FiniteSets, FiniteSetsExt, SequencesExt, Functions

CONSTANTS Absent, Bad

ASSUME ResourceAssumption == Absent \notin Nat /\ Bad \notin Nat /\ Absent # Bad

\* The resources in the order in which a payload lists them.
SecurityFields == <<"uri", "bootstrap", "shortID", "holdOff">>

ServerFields == <<"shortID", "lifetime", "binding", "order", "delay", "blocking",
                  "bootstrap", "attempts", "attemptDelay", "sequenceDelay", "sequences">>

Least(S) == {i \in S : \A j \in S : i <= j}

\* f with the value v for k.
With(f, k, v) == [x \in DOMAIN f \cup {k} |-> IF x = k THEN v ELSE f[x]]

-----------------------------------------------------------------------------
(* Callbacks of the two objects.  A payload d is a record of resources.     *)

\* The loop over the resources of a payload ends at the first one refused.
Accepted(fields, d) ==
    LET bad == {k \in DOMAIN fields : d[fields[k]] = Bad}
    IN  {fields[k] : k \in {n \in DOMAIN fields : \A b \in bad : n < b}}

Overwrite(fields, old, d) ==
    [f \in DOMAIN old |-> IF f \in Accepted(fields, d) /\ d[f] # Absent THEN d[f] ELSE old[f]]

AllAccepted(fields, d) == Accepted(fields, d) = Range(fields)

prv_security_write(c, k, d) ==
    IF k \notin DOMAIN c.sec THEN [ctx |-> c, code |-> "4.04"]
    ELSE IF AllAccepted(SecurityFields, d)
    THEN [ctx  |-> [c EXCEPT !.sec[k] = Overwrite(SecurityFields, @, d),
                             !.torn = @ \ {k}],
          code |-> "2.04"]
    ELSE [ctx  |-> [c EXCEPT !.sec[k] = Overwrite(SecurityFields, @, d),
                             !.torn = @ \cup {k}],
          code |-> "4.00"]

prv_security_delete(c, k) ==
    IF k \notin DOMAIN c.sec THEN [ctx |-> c, code |-> "4.04"]
    ELSE [ctx  |-> [c EXCEPT !.sec = Restrict(@, DOMAIN @ \ {k}), !.torn = @ \ {k}],
          code |-> "2.02"]

\* An instance is cleared, written, and deleted again when the write fails.
prv_security_create(c, k, d) ==
    LET new == [uri |-> 0, bootstrap |-> FALSE, shortID |-> 0, holdOff |-> 0]
    IN  IF AllAccepted(SecurityFields, d)
        THEN [ctx  |-> [c EXCEPT !.sec = With(@, k, Overwrite(SecurityFields, new, d))],
              code |-> "2.01"]
        ELSE [ctx |-> c, code |-> "4.00"]

prv_server_delete(c, k) ==
    IF k \notin DOMAIN c.serverObj THEN [ctx |-> c, code |-> "4.04"]
    ELSE [ctx  |-> [c EXCEPT !.serverObj = Restrict(@, DOMAIN @ \ {k})], code |-> "2.02"]

NewServerInstance ==
    [f \in Range(ServerFields) |-> IF f \in {"shortID", "lifetime"} THEN 0 ELSE Absent]

prv_server_create(c, k, d) ==
    IF AllAccepted(ServerFields, d)
    THEN [ctx  |-> [c EXCEPT !.serverObj =
                      With(@, k, Overwrite(ServerFields, NewServerInstance, d))],
          code |-> "2.01"]
    ELSE [ctx |-> c, code |-> "4.00"]

\* LWM2M_WRITE_REPLACE_INSTANCE deletes the instance first: a payload that is
\* refused leaves none.
prv_server_write(c, k, d, replace) ==
    IF k \notin DOMAIN c.serverObj THEN [ctx |-> c, code |-> "4.04"]
    ELSE IF replace
    THEN LET r == prv_server_create(prv_server_delete(c, k).ctx, k, d)
         IN  [r EXCEPT !.code = IF @ = "2.01" THEN "2.04" ELSE @]
    ELSE [ctx  |-> [c EXCEPT !.serverObj[k] = Overwrite(ServerFields, @, d)],
          code |-> IF AllAccepted(ServerFields, d) THEN "2.04" ELSE "4.00"]

-----------------------------------------------------------------------------
(* The lists of servers *)

prv_findServerInstance(c, shortID) ==
    Least({k \in DOMAIN c.serverObj : c.serverObj[k].shortID = shortID})

\* The binding is mandatory, the lifetime always has a value.
prv_getMandatoryInfo(c, k) == c.serverObj[k].binding # Absent

\* A number none of the pointers to this entry that are still around has.
Fresh(used) == CHOOSE k \in 1 .. Cardinality(used) + 1 : k \notin used

NewServer(c, k) ==
    [node |-> Fresh({t.node : t \in {u \in c.trans : u.id = k}}),
     status |-> "DEREGISTERED", registration |-> 0, lifetime |-> 0, shortID |-> 0,
     inst |-> Absent, attempt |-> 0, sequence |-> 0, session |-> 0, location |-> FALSE,
     dirty |-> FALSE, uri |-> c.sec[k].uri, dropped |-> "none"]

\* Bootstrap servers take the hold-off time as lifetime.
Account(c, k) ==
    IF c.sec[k].bootstrap THEN [NewServer(c, k) EXCEPT !.lifetime = c.sec[k].holdOff]
    ELSE LET inst == CHOOSE n \in prv_findServerInstance(c, c.sec[k].shortID) : TRUE
         IN  [NewServer(c, k) EXCEPT !.shortID = c.sec[k].shortID, !.inst = inst,
                                     !.lifetime = c.serverObj[inst].lifetime]

\* What makes object_getServers stop with -1.
Refused(c, k) ==
    /\ ~c.sec[k].bootstrap
    /\ \/ c.sec[k].shortID = 0
       \/ \E n \in prv_findServerInstance(c, c.sec[k].shortID) : ~prv_getMandatoryInfo(c, n)

\* A list with entries for the accounts in S.
Listing(c, list, S) ==
    [k \in DOMAIN list \cup S |-> IF k \in DOMAIN list THEN list[k] ELSE Account(c, k)]

\* Entries are added up to the first instance that is refused, none if checkOnly.
object_getServers(c, checkOnly) ==
    LET new     == DOMAIN c.sec \ (DOMAIN c.bs \cup DOMAIN c.servers)
        visited == {k \in new : \A j \in new : j <= k => ~Refused(c, j)}
        boot    == {k \in visited : c.sec[k].bootstrap}
        usable  == {k \in visited \ boot : prv_findServerInstance(c, c.sec[k].shortID) # {}}
    IN  [ok  |-> visited = new,
         ctx |-> IF checkOnly THEN c
                 ELSE [c EXCEPT !.bs      = Listing(c, @, boot),
                                !.servers = Listing(c, @, usable)]]

\* The server in use is the first one with the short ID of the instance.
prv_updateServerInfo(c, k) ==
    LET user == Least({i \in DOMAIN c.servers : /\ c.servers[i].shortID = c.serverObj[k].shortID
                                                /\ c.serverObj[k].shortID # 0})
    IN  [c EXCEPT !.servers = [i \in DOMAIN @ |->
            IF i \in user THEN [@[i] EXCEPT !.lifetime = c.serverObj[k].lifetime] ELSE @[i]]]

-----------------------------------------------------------------------------
(* Operations on the two objects *)

Instances(c, obj) == IF obj = 0 THEN DOMAIN c.sec ELSE DOMAIN c.serverObj

object_isInstanceNew(c, obj, k) == k \notin Instances(c, obj)

object_write(c, obj, k, d, partial) ==
    IF obj = 0 THEN prv_security_write(c, k, d)
    ELSE LET r == prv_server_write(c, k, d, ~partial)
         IN  IF r.code = "2.04" THEN [r EXCEPT !.ctx = prv_updateServerInfo(@, k)] ELSE r

object_create(c, obj, k, d) ==
    IF obj = 0 THEN prv_security_create(c, k, d) ELSE prv_server_create(c, k, d)

object_delete(c, obj, k) ==
    IF obj = 0 THEN prv_security_delete(c, k) ELSE prv_server_delete(c, k)

lwm2m_list_newId(S) == CHOOSE k \in 0 .. Cardinality(S) : k \notin S /\ 0 .. k - 1 \subseteq S

\* The ID the payload gives the instance is not used.
object_createInstance(c, obj, d) ==
    object_create(c, obj, lwm2m_list_newId(Instances(c, obj)), d)

\* Unlike object_write, without prv_updateServerInfo.
object_writeInstance(c, obj, k, d) ==
    IF obj = 0 THEN prv_security_write(c, k, d) ELSE prv_server_write(c, k, d, TRUE)
=============================================================================

---------------------------- MODULE Registration ----------------------------
(***************************************************************************)
(* The client half of core/registration.c: registering with the servers of *)
(* the Server object, retrying in attempts and sequences, updating before  *)
(* the lifetime ends, deregistering.                                       *)
(*                                                                         *)
(* Every definition is a function of the context `c' of module Accounts,   *)
(* with the field state; module Client makes actions of them.              *)
(***************************************************************************)
EXTENDS Accounts, Shifts

CONSTANTS
    MaxTransmitWait,   \* COAP_MAX_TRANSMIT_WAIT
    Blocks,            \* blocks of a registration payload after the first one
    Attempts,          \* defaults of the Server object's resources: attempts of
    AttemptDelay,      \* a sequence (5), seconds between them (60) and between
    SequenceDelay,     \* sequences (86400)
    Overshift          \* what the build makes of 1 << n where it is undefined

ASSUME TimerAssumption ==
    /\ MaxTransmitWait \in Nat \ {0} /\ Blocks \in Nat /\ Overshift \in Int
    /\ Attempts \in Nat /\ AttemptDelay \in Nat /\ SequenceDelay \in Nat

Statuses == {"DEREGISTERED", "REG_HOLD_OFF", "REG_PENDING", "REGISTERED", "REG_FAILED",
             "REG_UPDATE_PENDING", "REG_UPDATE_NEEDED", "REG_FULL_UPDATE_NEEDED",
             "DEREG_PENDING"}

Kinds == {"register", "update", "fullUpdate", "deregister", "bootstrap"}

\* How the messages of one call fare: sent, no connection, no memory for the
\* transaction or its payload, refused by transaction_send.
Fates == {"sent", "unconnected", "unsent", "refused"}

-----------------------------------------------------------------------------
(* Resources of the Server object *)

Default(v, d) == IF v = Absent THEN d ELSE v

\* prv_readUint, prv_readBoolean.
Resource(c, i, r) ==
    LET inst == c.servers[i].inst
    IN  IF inst \in DOMAIN c.serverObj THEN c.serverObj[inst][r] ELSE Absent

prv_getRegistrationOrder(c, i) == Resource(c, i, "order")

prv_getRegistrationFailureBlocking(c, i) == Default(Resource(c, i, "blocking"), FALSE)

prv_getRegistrationAttemptLimit(c, i) ==
    LET count == Default(Resource(c, i, "attempts"), Attempts)
        timer == Default(Resource(c, i, "attemptDelay"), AttemptDelay)
    IN  IF Bad \in {count, timer} THEN Bad
        ELSE [limit |-> Min({count, 254}), delay |-> timer]

prv_getRegistrationSequenceLimit(c, i) ==
    LET count == Default(Resource(c, i, "sequences"), 1)
        timer == Default(Resource(c, i, "sequenceDelay"), SequenceDelay)
    IN  IF Bad \in {count, timer} THEN Bad
        ELSE [limit |-> Min({count, 254}), delay |-> timer]

prv_getBootstrapOnRegistrationFailure(c, i) ==
    Default(Resource(c, i, "bootstrap"), TRUE)

Ordered(c, i) == prv_getRegistrationOrder(c, i) \notin {Absent, Bad}

-----------------------------------------------------------------------------
(* Transactions *)

\* A transaction keeps pointers to the server (node) and to its session; n tells
\* two of the same kind apart, and freed tells that the callback of the block before has
\* freed the payload that dataP points to.
NewTransaction(c, kind, i, s, now) ==
    LET like == {t.n : t \in {u \in c.trans : u.kind = kind /\ u.id = i}}
    IN  [n |-> Fresh(like),
         kind |-> kind, id |-> i, node |-> s.node, session |-> s.session,
         life |-> s.lifetime, at |-> now,
         more |-> IF kind \in {"register", "fullUpdate"} THEN Blocks ELSE 0,
         freed |-> FALSE, answer |-> "none"]

\* lwm2m_connect_server: not one a transaction still holds.
NewSession(c, i) == Fresh({t.session : t \in {u \in c.trans : u.id = i}})

SetServer(c, i, s) == [c EXCEPT !.servers = [@ EXCEPT ![i] = s]]

-----------------------------------------------------------------------------
(* Starting registrations *)

prv_startRegistration(c, i, now) ==
    [c.servers[i] EXCEPT !.attempt = 0, !.sequence = 0, !.status = "REG_HOLD_OFF",
                         !.registration = now + Default(Resource(c, i, "delay"), 0)]

\* The loop of registration_start stops at the first resource it cannot read.
ReadFails(c, i) ==
    \/ prv_getRegistrationOrder(c, i) = Bad
    \/ prv_getRegistrationOrder(c, i) = Absent /\ Resource(c, i, "delay") = Bad

\* Nobody, or the server with the lowest order, first in the list among equals.
FirstOrdered(c, S) ==
    {i \in S : /\ Ordered(c, i)
               /\ \A j \in S : Ordered(c, j) =>
                    \/ prv_getRegistrationOrder(c, i) < prv_getRegistrationOrder(c, j)
                    \/ prv_getRegistrationOrder(c, i) = prv_getRegistrationOrder(c, j)
                       /\ i <= j}

Startable(c, restartFailed) ==
    {i \in DOMAIN c.servers :
        \/ c.servers[i].status = "DEREGISTERED"
        \/ restartFailed /\ c.servers[i].status = "REG_FAILED"}

registration_start(c, restartFailed, now) ==
    LET S       == Startable(c, restartFailed)
        visited == {i \in S : \A j \in S : j < i => ~ReadFails(c, j)}
        first   == FirstOrdered(c, visited)
        started == {i \in visited \ {j \in visited : Ordered(c, j)} : ~ReadFails(c, i)}
                   \cup {i \in first : Resource(c, i, "delay") # Bad}
    IN  [ctx |-> [c EXCEPT !.servers =
                    [i \in DOMAIN c.servers |->
                        IF i \in started THEN prv_startRegistration(c, i, now)
                        ELSE IF i \in visited
                             THEN [c.servers[i] EXCEPT !.attempt = 0, !.sequence = 0]
                             ELSE c.servers[i]]],
         ok  |-> IF first # {} THEN first \subseteq started
                 ELSE \A i \in S : ~ReadFails(c, i)]

\* The status is set before the connection is made.
M_register(c, i, fate) ==
    [server |-> [c.servers[i] EXCEPT !.status = "REG_PENDING", !.attempt = @ + 1,
                                     !.session = IF fate = "unconnected" THEN @ ELSE 1],
     trans  |-> IF fate = "sent" THEN {"register"} ELSE {}]

\* The text of the query and the object list are left out: see module RegisterRequest.
prv_register(c, i, fate) ==
    LET s    == c.servers[i]
        open == IF s.session # 0 THEN s ELSE [s EXCEPT !.session = NewSession(c, i)]
    IN  CASE s.session = 0 /\ fate = "unconnected" -> [server |-> s, trans |-> {}]
          [] fate \in {"unsent", "refused"} -> [server |-> open, trans |-> {}]
          [] OTHER -> [server |-> [open EXCEPT !.sequence = IF s.attempt = 0 THEN @ + 1 ELSE @,
                                               !.attempt = @ + 1,
                                               !.status = "REG_PENDING",
                                               !.dropped = "none"],
                       trans  |-> {"register"}]

prv_updateRegistration(c, i, withObjects, fate) ==
    IF fate \in {"sent", "unconnected"}
    THEN [server |-> [c.servers[i] EXCEPT !.status = "REG_UPDATE_PENDING",
                                          !.dropped = "none"],
          trans  |-> {IF withObjects THEN "fullUpdate" ELSE "update"}]
    ELSE [server |-> c.servers[i], trans |-> {}]

-----------------------------------------------------------------------------
(* Replies *)

prv_handleRegistrationSequenceFailure(c, i, now) ==
    LET s        == c.servers[i]
        ordered  == Ordered(c, i)
        blocking == ordered /\ prv_getRegistrationFailureBlocking(c, i) = TRUE
        skips    == ordered /\ prv_getRegistrationFailureBlocking(c, i) = FALSE
                            /\ s.sequence = 1
        d        == IF skips THEN registration_start(c, FALSE, now).ctx ELSE c
        limit    == prv_getRegistrationSequenceLimit(c, i)
        failed   == SetServer(d, i, [s EXCEPT !.status = "REG_FAILED"])
    IN  CASE limit = Bad -> failed
          [] limit # Bad /\ s.sequence < limit.limit ->
               SetServer(d, i, [s EXCEPT !.registration = now + limit.delay,
                                         !.status = "REG_HOLD_OFF", !.attempt = 0])
          [] OTHER ->
               IF prv_getBootstrapOnRegistrationFailure(c, i) # FALSE
               THEN [failed EXCEPT !.state = "BOOTSTRAP_REQUIRED"]
               ELSE IF blocking
               THEN [failed EXCEPT !.servers =
                        [j \in DOMAIN @ |->
                            IF @[j].status = "DEREGISTERED" /\ Ordered(c, j)
                            THEN [@[j] EXCEPT !.status = "REG_FAILED"] ELSE @[j]]]
               ELSE failed

\* 1 << n of an int, defined for n up to 30 only; attempts go up to 254.
Shift(n) == IF n < 31 THEN Shifted[n] ELSE Overshift

prv_handleRegistrationAttemptFailure(c, i, now) ==
    LET s     == c.servers[i]
        limit == prv_getRegistrationAttemptLimit(c, i)
    IN  CASE limit = Bad -> SetServer(c, i, [s EXCEPT !.status = "REG_FAILED"])
          [] limit # Bad /\ s.attempt >= limit.limit ->
               prv_handleRegistrationSequenceFailure(c, i, now)
          [] OTHER ->
               SetServer(c, i, [s EXCEPT !.status = "REG_HOLD_OFF",
                                         !.registration = now + limit.delay * Shift(s.attempt - 1)])

\* After a successful registration the next ordered one is started.
StartsNext(c, i) ==
    /\ Ordered(c, i)
    /\ \/ c.servers[i].sequence = 1
       \/ prv_getRegistrationFailureBlocking(c, i) = FALSE

\* code is the code of the answer, or "none" when the transaction gave up.  After 2.31, and
\* after 4.13 (without Block1, or with block number 0: with another one it is an error like
\* any other), the status goes on waiting.
GoesOn == {"2.31", "4.13"}

prv_handleRegistrationReply(c, i, code, now) ==
    LET s == [c.servers[i] EXCEPT !.registration = now]
        d == SetServer(c, i, [s EXCEPT !.status = "REGISTERED", !.location = TRUE])
    IN  IF c.servers[i].status # "REG_PENDING" THEN c
        ELSE CASE code \in GoesOn -> SetServer(c, i, s)
               [] code = "2.01" ->
                    IF StartsNext(d, i) THEN registration_start(d, FALSE, now).ctx ELSE d
               [] OTHER -> prv_handleRegistrationAttemptFailure(SetServer(c, i, s), i, now)

prv_handleRegistrationUpdateReply(c, i, code, now) ==
    LET s == [c.servers[i] EXCEPT !.registration = now]
    IN  IF c.servers[i].status # "REG_UPDATE_PENDING" THEN c
        ELSE CASE code \in GoesOn -> SetServer(c, i, s)
               [] code = "2.04" -> SetServer(c, i, [s EXCEPT !.status = "REGISTERED"])
               [] OTHER -> SetServer(c, i, [s EXCEPT !.status = "REG_FAILED"])

prv_handleDeregistrationReply(c, i) ==
    IF c.servers[i].status = "DEREG_PENDING"
    THEN SetServer(c, i, [c.servers[i] EXCEPT !.status = "DEREGISTERED"]) ELSE c

-----------------------------------------------------------------------------
(* Requests of the application, and the step *)

\* shortServerID 0 stands for all servers.
lwm2m_update_registration(c, shortID, withObjects) ==
    LET need == IF withObjects THEN "REG_FULL_UPDATE_NEEDED" ELSE "REG_UPDATE_NEEDED"
        Asked(s) ==
            CASE s.status \in {"REGISTERED", "REG_UPDATE_PENDING"} -> [s EXCEPT !.status = need]
              [] shortID # 0 /\ withObjects /\ s.status = "REG_UPDATE_NEEDED" ->
                   [s EXCEPT !.status = need]
              [] OTHER -> s
        first == {i \in DOMAIN c.servers : /\ c.servers[i].shortID = shortID
                                           /\ \A j \in DOMAIN c.servers :
                                                c.servers[j].shortID = shortID => i <= j}
    IN  IF DOMAIN c.servers = {} THEN object_getServers(c, FALSE).ctx
        ELSE [c EXCEPT !.servers = [i \in DOMAIN c.servers |->
            IF shortID = 0 \/ i \in first THEN Asked(c.servers[i]) ELSE c.servers[i]]]

Deregisters(s) ==
    /\ s.status \notin {"DEREGISTERED", "REG_PENDING", "DEREG_PENDING", "REG_FAILED"}
    /\ s.location /\ s.session # 0

\* The server and its message.
registration_deregister(c, i, fate) ==
    IF Deregisters(c.servers[i]) /\ fate \in {"sent", "unconnected"}
    THEN [server |-> [c.servers[i] EXCEPT !.status = "DEREG_PENDING"], trans |-> {"deregister"}]
    ELSE [server |-> c.servers[i], trans |-> {}]

\* "REG_PENDING" as long as one is under way, "REGISTERED" if one is, else failed.
registration_getStatus(c) ==
    LET st == {c.servers[i].status : i \in DOMAIN c.servers}
    IN  IF st \cap {"REG_HOLD_OFF", "REG_PENDING"} # {} THEN "REG_PENDING"
        ELSE IF st \subseteq {"REG_FAILED", "DEREGISTERED"} THEN "REG_FAILED"
        ELSE "REGISTERED"

\* No margin for the retransmissions of the update.
M_NextUpdate(s) == s.registration + s.lifetime

NextUpdate(s) ==
    s.registration + (IF MaxTransmitWait < s.lifetime THEN s.lifetime - MaxTransmitWait
                      ELSE s.lifetime \div 2)

\* The time at which registration_step has something to do for a server.
ServerDue(s) ==
    CASE s.status = "REG_HOLD_OFF" -> {s.registration}
      [] s.status = "REGISTERED"   -> {NextUpdate(s)}
      [] OTHER                     -> {}

\* What registration_step does for one server: the server and its message.
StepServer(c, i, fate, now) ==
    LET s    == c.servers[i]
        same == [server |-> s, trans |-> {}]
        due  == \A d \in ServerDue(s) : d <= now
    IN  CASE s.status = "REG_HOLD_OFF" ->
               IF due THEN prv_register(c, i, fate) ELSE same
          [] s.status = "REGISTERED" ->
               IF due THEN prv_updateRegistration(c, i, FALSE, fate) ELSE same
          [] s.status \in {"REG_UPDATE_NEEDED", "REG_FULL_UPDATE_NEEDED"} ->
               prv_updateRegistration(c, i, s.status = "REG_FULL_UPDATE_NEEDED", fate)
          [] s.status = "REG_FAILED" ->
               [server |-> [s EXCEPT !.session = 0], trans |-> {}]
          [] OTHER -> same

\* The transactions that the steps of the servers in a list have made.
NewTransactions(c, steps, now) ==
    UNION {{NewTransaction(c, k, i, steps[i].server, now) : k \in steps[i].trans}
           : i \in DOMAIN steps}

AfterSteps(c, steps, now) ==
    [c EXCEPT !.servers = [i \in DOMAIN steps |-> steps[i].server],
              !.trans   = @ \cup NewTransactions(c, steps, now)]

\* Each server's step touches that server and the transaction list only.
registration_step(c, fate, now) ==
    AfterSteps(c, [i \in DOMAIN c.servers |-> StepServer(c, i, fate, now)], now)
=============================================================================

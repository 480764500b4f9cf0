------------------------------- MODULE Client -------------------------------
(***************************************************************************)
(* A LwM2M client: lwm2m_step of core/liblwm2m.c, which drives bootstrap   *)
(* and registration, the packets and API calls that come between two       *)
(* steps, the main loop of examples/client (which backs the accounts up    *)
(* before a bootstrap and restores them when it fails), the servers and    *)
(* the network.                                                            *)
(*                                                                         *)
(* Times are relative to the present: the clock is 0 and Tick moves every  *)
(* time stamp back by one second.                                          *)
(***************************************************************************)
EXTENDS Bootstrap

CONSTANTS
    MaxWait,       \* seconds the main loop waits at most (60)
    Horizon,       \* older time stamps are not told apart
    Faults,        \* fates of messages, beside "sent"
    Scenarios,     \* the accounts the client may start with, and a bound on the
                   \* calls of the application and requests of the servers
    Commands,      \* commands of the bootstrap servers
    Lifetimes,     \* lifetimes a server writes to the Server object
    MaxLife        \* the longest lifetime

\* Time stamps are told apart as far back as a lifetime or a transaction goes.
ASSUME BoundAssumption ==
    /\ MaxWait \in Nat /\ MaxLife \in Nat /\ Lifetimes \subseteq 0 .. MaxLife
    /\ Horizon \in Nat /\ Horizon > MaxTransmitWait /\ Horizon >= MaxLife

\* The values of resources: those of the accounts are there or Absent, and those of
\* a payload may be Bad.
IsValue(f, v) ==
    CASE f \in {"bootstrap", "blocking"} -> v \in BOOLEAN
      [] f = "lifetime"                  -> v \in 0 .. MaxLife
      [] f \in {"uri", "binding"}        -> TRUE
      [] OTHER                           -> v \in Nat

IsSecurity(r) == DOMAIN r = Range(SecurityFields) /\ \A f \in DOMAIN r : IsValue(f, r[f])

IsServerInstance(r) ==
    /\ DOMAIN r = Range(ServerFields) /\ IsValue("lifetime", r.lifetime)
    /\ \A f \in DOMAIN r : r[f] = Absent \/ IsValue(f, r[f])

IsPayload(fields, d) ==
    \A f \in Range(fields) : d[f] \in {Absent, Bad} \/ IsValue(f, d[f])

\* A finite number of instances of an object.
IsObject(f) == f = [k \in DOMAIN f |-> f[k]] /\ IsFiniteSet(DOMAIN f)

AreAccounts(sec, serverObj) ==
    /\ IsObject(sec) /\ \A k \in DOMAIN sec : IsSecurity(sec[k])
    /\ IsObject(serverObj) /\ \A k \in DOMAIN serverObj : IsServerInstance(serverObj[k])

ASSUME AccountAssumption ==
    \A s \in Scenarios : AreAccounts(s.sec, s.serverObj) /\ s.calls \in Nat

\* What the decoder of a payload makes of a command.
ASSUME CommandAssumption ==
    \A q \in Commands :
        /\ q.op \in {"finish", "deleteAll", "put", "delete", "get", "post"}
        /\ q.op = "put" =>
             /\ q.items \in Seq(Range(q.items)) /\ q.obj \in {0, 1}
             /\ \A it \in Range(q.items) :
                  /\ IsPayload(IF q.obj = 0 THEN SecurityFields ELSE ServerFields, it.data)
                  /\ it.instance \in BOOLEAN

VARIABLES
    ctx,           \* the context, see Accounts
    app,           \* main loop: previousState, the backup, whether entries were
                   \* made from accounts newer than it (stale), whether a step
                   \* returned before transaction_step (cut), calls left
    wake,          \* seconds until lwm2m_step is called again
    pc,            \* idle (waiting), walk (in transaction_step), closed, undefined
    peer           \* registrations the servers keep: end, announced lifetime

vars == <<ctx, app, wake, pc, peer>>

now == 0

States == {"INITIAL", "BOOTSTRAP_REQUIRED", "BOOTSTRAPPING", "REGISTER_REQUIRED",
           "REGISTERING", "READY"}

NoPeer == [eol |-> -1, life |-> 0]

\* The registration server i keeps.
PeerOf(i) == IF i \in DOMAIN peer THEN peer[i] ELSE NoPeer

Init ==
    \E s \in Scenarios :
        /\ ctx = [state |-> "INITIAL", sec |-> s.sec, serverObj |-> s.serverObj,
                  servers |-> <<>>, bs |-> <<>>, trans |-> {}, torn |-> {}]
        /\ app = [prev |-> "INITIAL", sec |-> <<>>, serverObj |-> <<>>, calls |-> s.calls, stale |-> FALSE,
                  cut |-> FALSE]
        /\ wake = 0
        /\ pc = "idle"
        /\ peer = <<>>

-----------------------------------------------------------------------------
(* lwm2m_step.  The cases of its switch, those a goto leads to first; ok is *)
(* FALSE where it returns an error, wakes what becomes of *timeoutP.        *)

\* Servers that are dirty go, and the ones of new accounts come.
prv_refreshServerList(c) ==
    LET Kept(list) == {i \in DOMAIN list : ~list[i].dirty}
    IN  object_getServers(
            [c EXCEPT !.bs = [i \in Kept(@) |-> [@[i] EXCEPT !.status = "DEREGISTERED"]],
                      !.servers = Restrict(@, Kept(@))],
            FALSE)

Continues(c) == [ctx |-> c, ok |-> TRUE, wakes |-> {}]
Unavailable(c) == [ctx |-> c, ok |-> FALSE, wakes |-> {}]

Bootstraps(c, fate) ==
    [ctx |-> bootstrap_step(c, fate, now), ok |-> TRUE, wakes |-> BootstrapWakes(c, now)]

StepBootstrapRequired(c, fate) ==
    IF DOMAIN c.bs = {} THEN Unavailable(c)
    ELSE Bootstraps([bootstrap_start(c, fate) EXCEPT !.state = "BOOTSTRAPPING"], fate)

\* r is the result of registration_start, or of prv_refreshServerList.
Registers(r) ==
    IF r.ok THEN Continues([r.ctx EXCEPT !.state = "REGISTERING"]) ELSE Unavailable(r.ctx)

StepRegisterRequired(c) == Registers(registration_start(c, TRUE, now))

Refreshed(r, fate) ==
    IF ~r.ok THEN Unavailable(r.ctx)
    ELSE IF DOMAIN r.ctx.servers # {}
    THEN StepRegisterRequired([r.ctx EXCEPT !.state = "REGISTER_REQUIRED"])
    ELSE StepBootstrapRequired([r.ctx EXCEPT !.state = "BOOTSTRAP_REQUIRED"], fate)

StepInitial(c, fate) == Refreshed(prv_refreshServerList(c), fate)

StepBootstrapping(c, fate) ==
    CASE bootstrap_getStatus(c) = "BS_FINISHED" ->
           StepInitial([c EXCEPT !.state = "INITIAL"], fate)
      [] bootstrap_getStatus(c) = "BS_FAILED" -> Unavailable(c)
      [] OTHER -> Bootstraps(c, fate)

StepRegistering(c, fate) ==
    CASE registration_getStatus(c) = "REGISTERED" -> Continues([c EXCEPT !.state = "READY"])
      [] registration_getStatus(c) = "REG_FAILED" ->
           StepBootstrapRequired([c EXCEPT !.state = "BOOTSTRAP_REQUIRED"], fate)
      [] OTHER -> Continues(c)

StepReady(c, fate) ==
    IF registration_getStatus(c) = "REG_FAILED"
    THEN StepBootstrapRequired([c EXCEPT !.state = "BOOTSTRAP_REQUIRED"], fate)
    ELSE Continues(c)

Switch(c, fate) ==
    CASE c.state = "INITIAL"            -> StepInitial(c, fate)
      [] c.state = "BOOTSTRAP_REQUIRED" -> StepBootstrapRequired(c, fate)
      [] c.state = "BOOTSTRAPPING"      -> StepBootstrapping(c, fate)
      [] c.state = "REGISTER_REQUIRED"  -> StepRegisterRequired(c)
      [] c.state = "REGISTERING"        -> StepRegistering(c, fate)
      [] c.state = "READY"              -> StepReady(c, fate)

RegistrationWakes(c) == UNION {{d \in ServerDue(c.servers[i]) : d > now} : i \in DOMAIN c.servers}

\* A transaction has a retransmission to do, or its end, in a second.
TransactionWakes(c) == IF c.trans = {} THEN {} ELSE {1}

\* d is the context after registration_step.
Waking(r, d) ==
    [ctx |-> d, ok |-> TRUE,
     wakes |-> r.wakes \cup RegistrationWakes(r.ctx) \cup TransactionWakes(d)]

AfterSwitch(r, fate) ==
    IF r.ok THEN Waking(r, registration_step(r.ctx, fate, now)) ELSE r

\* lwm2m_step, as far as transaction_step.
lwm2m_step(c, fate) == AfterSwitch(Switch(c, fate), fate)

-----------------------------------------------------------------------------
(* The main loop *)

\* The state is not remembered after the backup.
M_update_bootstrap_info(a, c) ==
    IF a.prev # c.state /\ c.state = "BOOTSTRAPPING"
    THEN [a EXCEPT !.sec = c.sec, !.serverObj = c.serverObj]
    ELSE [a EXCEPT !.prev = c.state]

\* update_bootstrap_info: the accounts are saved when bootstrapping begins.
update_bootstrap_info(a, c) ==
    IF a.prev # c.state /\ c.state = "BOOTSTRAPPING"
    THEN [a EXCEPT !.prev = c.state, !.sec = c.sec, !.serverObj = c.serverObj]
    ELSE [a EXCEPT !.prev = c.state]

prv_restore_objects(c, a) == [c EXCEPT !.sec = a.sec, !.serverObj = a.serverObj]

\* Entries were made between contexts c and d, while a backup is in use: a bootstrap
\* that finishes without a usable server is followed by the next one in the same
\* step, and the main loop keeps its old backup; or the step fails after some of the
\* entries; or lwm2m_update_registration fills an empty list.
NewEntries(old, new) ==
    {i \in DOMAIN new : ~new[i].dirty /\ (i \in DOMAIN old => old[i].dirty)}

OutdatesBackup(c, d) ==
    /\ app.prev = "BOOTSTRAPPING"
    /\ NewEntries(c.servers, d.servers) \cup NewEntries(c.bs, d.bs) # {}

Restored(c) == [prv_restore_objects(c, app) EXCEPT !.state = "INITIAL"]

Step(fate) ==
    /\ pc = "idle" /\ wake = 0
    /\ UNCHANGED peer
    /\ \E r \in {lwm2m_step(ctx, fate)} :
         /\ wake' = Min(r.wakes \cup {MaxWait})
         /\ \/ r.ok /\ ctx' = r.ctx /\ pc' = "walk"
                    /\ app' = [app EXCEPT !.stale = @ \/ /\ r.ctx.state = "BOOTSTRAPPING"
                                                         /\ OutdatesBackup(ctx, r.ctx)]
            \/ ~r.ok /\ app.prev = "BOOTSTRAPPING"
                     /\ ctx' = Restored(r.ctx) /\ pc' = "idle"
                     /\ app' = [update_bootstrap_info(app, Restored(r.ctx)) EXCEPT
                                 !.cut = TRUE, !.stale = @ \/ OutdatesBackup(ctx, r.ctx)]
            \/ ~r.ok /\ app.prev # "BOOTSTRAPPING"
                     /\ ctx' = r.ctx /\ pc' = "closed" /\ UNCHANGED app

StepOn == \E fate \in Faults \cup {"sent"} : Step(fate)

\* The entry a transaction points to, and its session.
Entry(t) == IF t.kind = "bootstrap" THEN ctx.bs ELSE ctx.servers

NodeLives(t) == t.id \in DOMAIN Entry(t) /\ Entry(t)[t.id].node = t.node

SessionLives(t) == NodeLives(t) /\ Entry(t)[t.id].session = t.session

\* The callback of a transaction, which is unlinked.
Callback(t, code) ==
    LET c == [ctx EXCEPT !.trans = @ \ {t}]
    IN  CASE t.kind = "register"   -> prv_handleRegistrationReply(c, t.id, code, now)
          [] t.kind \in {"update", "fullUpdate"} ->
               prv_handleRegistrationUpdateReply(c, t.id, code, now)
          [] t.kind = "deregister" -> prv_handleDeregistrationReply(c, t.id)
          [] t.kind = "bootstrap"  -> prv_handleBootstrapReply(c, t.id, code, now)

Over(t) == t.at + MaxTransmitWait <= now

Expire ==
    \E t \in ctx.trans :
        /\ pc = "walk"
        /\ Over(t) /\ NodeLives(t)
        /\ ctx' = Callback(t, "none")
        /\ UNCHANGED <<app, wake, pc, peer>>

\* A retransmission on a session that was closed, or the callback of a server
\* that was deleted: both are freed memory.
UseFreed ==
    \E t \in ctx.trans :
        /\ pc = "walk"
        /\ IF Over(t) THEN ~NodeLives(t) ELSE ~SessionLives(t)
        /\ pc' = "undefined"
        /\ UNCHANGED <<ctx, app, wake, peer>>

WalkEnd ==
    /\ pc = "walk"
    /\ \A t \in ctx.trans : ~Over(t)
    /\ pc' = "idle"
    /\ app' = update_bootstrap_info(app, ctx)
    /\ UNCHANGED <<ctx, wake, peer>>

\* Time stamps in the past are kept as long as they make a difference; the
\* field registration is read in these statuses only.
Aged(x) == Max({x - 1, -Horizon})

OlderServer(s) ==
    [s EXCEPT !.registration = IF s.status \in {"REG_HOLD_OFF", "REGISTERED", "BS_HOLD_OFF",
                                                "BS_PENDING"} THEN Aged(@) ELSE 0]

OlderTransaction(t) == [t EXCEPT !.at = Aged(@)]

Tick ==
    /\ pc = "idle" /\ wake > 0
    /\ wake' = wake - 1
    /\ ctx' = [ctx EXCEPT !.servers = [i \in DOMAIN @ |-> OlderServer(@[i])],
                          !.bs      = [i \in DOMAIN @ |-> OlderServer(@[i])],
                          !.trans   = {OlderTransaction(t) : t \in @}]
    /\ peer' = [i \in DOMAIN peer |-> [peer[i] EXCEPT !.eol = Max({@ - 1, -1})]]
    /\ UNCHANGED <<app, pc>>

-----------------------------------------------------------------------------
(* Servers and network.  A request reaches its server, or not, and so does  *)
(* the answer reach the client; after a packet the main loop goes on to     *)
(* lwm2m_step without waiting.                                              *)

Answered(t, code) == [ctx EXCEPT !.trans = (@ \ {t}) \cup {[t EXCEPT !.answer = code]}]

\* The registrations after a request was answered.
Granted(t, code) ==
    CASE t.kind = "register" /\ code = "2.01" ->
           With(peer, t.id, [eol |-> t.life, life |-> t.life])
      [] t.kind \in {"update", "fullUpdate"} /\ code = "2.04" ->
           With(peer, t.id, [eol |-> PeerOf(t.id).life, life |-> PeerOf(t.id).life])
      [] t.kind = "deregister" -> Restrict(peer, DOMAIN peer \ {t.id})
      [] OTHER -> peer

\* The codes a server answers with; 4.00 stands for every error but 4.13.
Codes(t) ==
    CASE t.more > 0                     -> {"2.31", "4.00"}
      [] t.kind = "register"            -> {"2.01", "4.00"}
      [] t.kind = "deregister"          -> {"2.02"}
      [] t.kind = "bootstrap"           -> {"2.04", "4.00"}
      [] PeerOf(t.id).eol < 0           -> {"4.04"}
      [] OTHER                          -> {"2.04", "4.00"}

\* Other answers, which the bound on calls keeps from coming for ever: the request is too
\* large, more blocks are asked for although there are none, an upload ends before its
\* last block.
OddCodes(t) ==
    CASE t.kind \notin {"register", "update", "fullUpdate"} -> {}
      [] t.more = 0 -> {"2.31", "4.13"}
      [] t.kind = "register" \/ PeerOf(t.id).eol >= 0 -> {"2.01", "2.04", "4.13"}
      [] OTHER -> {"2.01", "4.13"}

PeerReceives ==
    \E t \in ctx.trans : \E code \in Codes(t) \cup OddCodes(t) :
        /\ pc = "idle"
        /\ t.answer = "none"
        /\ code \in Codes(t) \/ app.calls > 0
        /\ ctx' = Answered(t, code)
        /\ peer' = Granted(t, code)
        /\ app' = [app EXCEPT !.calls = IF code \in Codes(t) THEN @ ELSE @ - 1]
        /\ UNCHANGED <<wake, pc>>

HasPayload(t) == t.kind \in {"register", "fullUpdate"}

\* prv_handleRegistrationUpdateReply frees dataP->payload, although the transaction of the
\* next block has the same dataP.
FreesPayload(t) ==
    /\ t.kind = "fullUpdate" /\ t.answer # "2.31"
    /\ t.answer = "4.13" => ctx.servers[t.id].status # "REG_UPDATE_PENDING"

SentAgain(t, more) ==
    [t EXCEPT !.more = more, !.at = now, !.answer = "none", !.freed = @ \/ FreesPayload(t)]

\* The transactions one of which takes the place of t: after 2.01, 2.04 or 2.31 that of
\* the next block, after 4.13 the same block in a smaller size, or the whole payload from
\* its first block.
Following(t) ==
    CASE ~HasPayload(t) -> {}
      [] t.answer \in {"2.01", "2.04"} /\ t.more > 0 -> {SentAgain(t, t.more - 1)}
      [] t.answer = "2.31" -> {SentAgain(t, Max({t.more - 1, 0}))}
      [] t.answer = "4.13" -> {SentAgain(t, t.more), SentAgain(t, Blocks)}
      [] OTHER -> {}

\* None takes its place when there is no payload, or no more of it, when the answer has no
\* Block1 option or asks for blocks that are not smaller, and when
\* prv_create_next_block_transaction finds no memory.  A status that goes on waiting then
\* waits for nothing: dropped keeps the code of that answer.
Unfollowed(c, t) ==
    IF /\ t.answer \in GoesOn
       /\ \/ t.kind = "register" /\ c.servers[t.id].status = "REG_PENDING"
          \/ t.kind \in {"update", "fullUpdate"}
             /\ c.servers[t.id].status = "REG_UPDATE_PENDING"
    THEN SetServer(c, t.id, [c.servers[t.id] EXCEPT !.dropped = t.answer])
    ELSE c

Deliver ==
    \E t \in ctx.trans :
        /\ pc = "idle"
        /\ t.answer # "none" /\ SessionLives(t)
        /\ ~(t.freed /\ FreesPayload(t))
        /\ \/ ctx' = Unfollowed(Callback(t, t.answer), t)
           \/ \E u \in Following(t) :
                ctx' = [Callback(t, t.answer) EXCEPT !.trans = @ \cup {u}]
        /\ wake' = 0
        /\ UNCHANGED <<app, pc, peer>>

\* The payload is freed twice; or prv_send_next_block1 divides zero by zero, as a request
\* without Block1 is answered with one.
AnswerUndefined ==
    \E t \in ctx.trans :
        /\ pc = "idle"
        /\ t.answer # "none" /\ SessionLives(t)
        /\ \/ t.freed /\ FreesPayload(t)
           \/ /\ t.answer \in {"2.01", "2.04", "2.31"}
              /\ HasPayload(t) => Blocks = 0
        /\ pc' = "undefined"
        /\ UNCHANGED <<ctx, app, wake, peer>>

\* Commands of a bootstrap server, on its open session.
Commanded(c, i, q) ==
    CASE q.op = "finish"    -> bootstrap_handleFinish(c, i)
      [] q.op = "deleteAll" -> bootstrap_handleDeleteAll(c, i, now)
      [] OTHER              -> bootstrap_handleCommand(c, i, q, now)

Command ==
    \E i \in DOMAIN ctx.bs : \E q \in Commands :
        /\ pc = "idle"
        /\ app.calls > 0
        /\ ctx.bs[i].session # 0
        /\ ctx' = Commanded(ctx, i, q)
        /\ app' = [app EXCEPT !.calls = @ - 1]
        /\ wake' = 0
        /\ UNCHANGED <<pc, peer>>

\* dm_handleRequest: a server it is registered to writes a lifetime.
Managed(s) == s.status \in {"REGISTERED", "REG_UPDATE_NEEDED", "REG_FULL_UPDATE_NEEDED",
                            "REG_UPDATE_PENDING"}

WriteLifetime ==
    \E i \in DOMAIN ctx.servers : \E k \in DOMAIN ctx.serverObj : \E life \in Lifetimes :
        /\ pc = "idle"
        /\ app.calls > 0
        /\ Managed(ctx.servers[i])
        /\ LET d == [[f \in Range(ServerFields) |-> Absent] EXCEPT !.lifetime = life]
           IN  ctx' = object_write(ctx, 1, k, d, TRUE).ctx
        /\ app' = [app EXCEPT !.calls = @ - 1]
        /\ wake' = 0
        /\ UNCHANGED <<pc, peer>>

-----------------------------------------------------------------------------
(* The application *)

\* Also what lwm2m_add_object and lwm2m_remove_object do when READY.
UpdateRegistration ==
    \E short \in {0} \cup {ctx.servers[i].shortID : i \in DOMAIN ctx.servers} :
    \E withObjects \in BOOLEAN :
        /\ pc = "idle"
        /\ app.calls > 0
        /\ ctx' = lwm2m_update_registration(ctx, short, withObjects)
        /\ app' = [app EXCEPT !.calls = @ - 1, !.stale = @ \/ OutdatesBackup(ctx, ctx')]
        /\ wake' = 0
        /\ UNCHANGED <<pc, peer>>

\* lwm2m_deregister goes through the servers.
lwm2m_deregister(c, fate) ==
    AfterSteps(c, [i \in DOMAIN c.servers |-> registration_deregister(c, i, fate)], now)

Deregister ==
    \E fate \in (Faults \cup {"sent"}) :
        /\ pc = "idle"
        /\ app.calls > 0
        /\ ctx' = lwm2m_deregister(ctx, fate)
        /\ app' = [app EXCEPT !.calls = @ - 1]
        /\ wake' = 0
        /\ UNCHANGED <<pc, peer>>

\* lwm2m_close frees the servers, then prv_deleteTransactionList calls the
\* callbacks of the transactions, those of the deregistrations included.
Close ==
    /\ pc = "idle"
    /\ pc' = IF lwm2m_deregister(ctx, "sent").trans = {} THEN "closed" ELSE "undefined"
    /\ ctx' = [ctx EXCEPT !.servers = <<>>, !.bs = <<>>]
    /\ UNCHANGED <<app, wake, peer>>

Next == \/ StepOn \/ Expire \/ UseFreed \/ WalkEnd \/ Tick
        \/ PeerReceives \/ Deliver \/ AnswerUndefined \/ Command \/ WriteLifetime
        \/ UpdateRegistration \/ Deregister \/ Close

Spec == Init /\ [][Next]_vars

\* The main loop goes on, time passes, and messages are not refused for ever:
\* strong fairness of Step("sent") and weak fairness of the callbacks, with
\* ENABLED spelled out, and weak fairness of the rest.
Fairness ==
    /\ []<>(pc = "idle" /\ wake = 0) => []<><<Step("sent")>>_vars
    /\ <>[](pc = "walk" /\ \E t \in ctx.trans : Over(t)) => []<><<Expire \/ UseFreed>>_vars
    /\ WF_vars(WalkEnd)
    /\ WF_vars(Tick)

FairSpec == Spec /\ Fairness

-----------------------------------------------------------------------------
(* Properties *)

\* Types of the state of the client.
TypeOK ==
    /\ ctx.state \in States
    /\ \A i \in DOMAIN ctx.servers :
         LET s == ctx.servers[i]
         IN  /\ s.status \in Statuses
             /\ s.registration \in Int
             /\ s.status = "REGISTERED" => s.registration \in -Horizon .. 0
             /\ s.lifetime \in 0 .. MaxLife
             /\ s.attempt \in 0 .. 254 /\ s.sequence \in 0 .. 254
             /\ s.dirty \in BOOLEAN /\ s.location \in BOOLEAN
             /\ s.session \in Nat
             /\ s.dropped \in {"none"} \cup GoesOn
    /\ \A i \in DOMAIN ctx.bs :
         /\ ctx.bs[i].status \in BsStatuses
         /\ ctx.bs[i].registration \in Int
    /\ DOMAIN ctx.servers \cap DOMAIN ctx.bs = {}
    /\ \A t \in ctx.trans : t.kind \in Kinds /\ t.at \in -Horizon .. 0
    /\ wake \in 0 .. MaxWait
    /\ pc \in {"idle", "walk", "closed", "undefined"}
    /\ \A i \in DOMAIN peer : peer[i].eol \in -1 .. MaxLife

\* lwm2m_step is called in time for the update of every registration, and until
\* then, while the client takes itself for registered, the server has not let the
\* registration expire, however late its answers have come.  Not so for lifetimes
\* up to COAP_MAX_TRANSMIT_WAIT, nor for a lifetime that was raised, as updates do
\* not announce it, nor after a bootstrap that failed: that step returned before
\* registration_step and transaction_step, which come late by as much as the main
\* loop waits.
RegistrationKept ==
    pc = "idle" /\ ~app.cut => \A i \in DOMAIN ctx.servers :
        LET s == ctx.servers[i]
        IN  s.status = "REGISTERED" =>
              /\ NextUpdate(s) > now => wake <= NextUpdate(s)
              /\ NextUpdate(s) >= now /\ s.lifetime > MaxTransmitWait
                   /\ s.lifetime <= PeerOf(i).life => PeerOf(i).eol >= 0

\* A status that waits for an answer has a transaction that will bring one,
\* for this server and on its session; otherwise it would never be left.  The one
\* exception is an answer 2.31 or 4.13 to the last request for this status after which
\* nothing is sent (see Unfollowed): the callback returns as if something had been.
PendingIsAwaited ==
    LET Awaited(s, i, kinds) ==
            \E t \in ctx.trans : t.kind \in kinds /\ t.id = i /\ t.node = s.node
                                   /\ t.session = s.session
        Dropped(s) == s.dropped \in GoesOn
    IN  /\ \A i \in DOMAIN ctx.servers :
             LET s == ctx.servers[i]
             IN  /\ s.status = "REG_PENDING" =>
                      (Dropped(s) \/ Awaited(s, i, {"register"})) /\ s.session # 0
                 /\ s.status = "REG_UPDATE_PENDING" =>
                      /\ Dropped(s) \/ Awaited(s, i, {"update", "fullUpdate"})
                      /\ s.session # 0 /\ s.location
                 /\ s.status = "DEREG_PENDING" => Awaited(s, i, {"deregister"}) /\ s.location
        /\ \A i \in DOMAIN ctx.bs :
             ctx.bs[i].status = "BS_INITIATED" => Awaited(ctx.bs[i], i, {"bootstrap"})

\* An entry of the server lists that is not marked for removal was made from
\* the Security instance as it is now: whatever a bootstrap server writes and
\* deletes, and whatever is restored, no session goes to an old address.  A
\* write that fails half way is the exception, as prv_tagServer is not called,
\* and a backup older than the entries (see OutdatesBackup).
AccountsMatch ==
    ~app.stale => \A i \in (DOMAIN ctx.servers \cup DOMAIN ctx.bs) \ ctx.torn :
        LET s == IF i \in DOMAIN ctx.bs THEN ctx.bs[i] ELSE ctx.servers[i]
        IN  s.dirty \/ /\ i \in DOMAIN ctx.sec
                       /\ ctx.sec[i].uri = s.uri
                       /\ ctx.sec[i].bootstrap = (i \in DOMAIN ctx.bs)

\* The main loop gives up only when the accounts name no bootstrap server: a
\* bootstrap that fails, even after it has deleted them, is undone.  It also gives
\* up on an account that object_getServers refuses, does not see the bootstrap
\* server in an account rewritten under an entry (see AccountsMatch), and goes by the
\* lists of the bootstrap that failed when a registration ends between the restoring
\* and the next step: its callback sets BOOTSTRAP_REQUIRED, and INITIAL is skipped.
GivesUpWithoutBootstrap ==
    [][pc = "idle" /\ pc' = "closed" /\ StepOn =>
        \/ \A k \in DOMAIN ctx'.sec \ ctx'.torn : ~ctx'.sec[k].bootstrap
        \/ \E k \in DOMAIN ctx'.sec : Refused(ctx', k)
        \/ ctx.state = "BOOTSTRAP_REQUIRED" /\ app.prev = "INITIAL"
        \/ app'.stale]_vars

\* Registering and bootstrapping end, whatever is lost and refused (a bootstrap
\* server that never stops sending commands, and a server to which every request is
\* too large, are kept out by the bound on calls).  Registering does not end when the
\* status of a server waits for nothing (see PendingIsAwaited).
Settles ==
    \A st \in {"REGISTERING", "BOOTSTRAPPING"} :
        ctx.state = st ~> \/ ctx.state # st \/ pc \in {"closed", "undefined"}
                          \/ st = "REGISTERING" /\ \E i \in DOMAIN ctx.servers :
                               /\ ctx.servers[i].status = "REG_PENDING"
                               /\ ctx.servers[i].dropped # "none"
=============================================================================
